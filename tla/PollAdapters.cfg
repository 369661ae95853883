SPECIFICATION Spec
CONSTANTS
    Scope = "all"
    MaxLen = 3
    MaxOut = 4
INVARIANTS KeepsPromise NoByteLost SeeksAreExact NotPolledAfterEnd
PROPERTY Completes
