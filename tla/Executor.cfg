SPECIFICATION FairSpec
CONSTANTS
    Worker = {w1, w2}
    External = {x}
    Task = {a, b, c}
    None = None
    SLOT_LIMIT = 1
    IDLE_TRIES = 1
INVARIANTS OneRunnable NoTaskStranded SleepCountExact
PROPERTY LocalTaskRuns
