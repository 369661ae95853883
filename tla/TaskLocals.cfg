SPECIFICATION LocalSpec
CONSTANTS
    Callers = 2
    Locals = 2
    MaxEntries = 3
INVARIANT SortedByKey
CHECK_DEADLOCK FALSE
