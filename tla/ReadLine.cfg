SPECIFICATION Spec
CONSTANTS
    Scope = "lines"
    MaxLen = 3
    MaxOut = 4
INVARIANT AssertionsHold
