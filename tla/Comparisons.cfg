SPECIFICATION Spec
CONSTANTS
    Scope = "comparisons"
    MaxLen = 3
    MaxOut = 4
INVARIANT ComparesLexicographically
