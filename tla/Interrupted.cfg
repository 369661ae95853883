SPECIFICATION Spec
CONSTANTS
    Scope = "interrupted"
    MaxLen = 3
    MaxOut = 4
INVARIANT InterruptedIsRetried
