SPECIFICATION RuntimeSpec
CONSTANTS
    Task = {t1, t2, t3}
    Cap = 1
    Sender = {s1}
    Receiver = {r1, r2}
    FirstSender = s1
    FirstReceiver = r1
    Jobs = 3
    Threads = 5
    Sockets = 1
    IoTasks = 2
    MaxOpen = 2
    Calls = 4
    MaxDepth = 2
    YIELDS = 3
    Callers = 2
    Locals = 2
    MaxEntries = 3
    Waiters = 3
    Parties = 2
    Generations = 4
INVARIANTS
    MutualExclusion NoLostWakeup ReadersXorWriter NoReaderStranded NoWriterStranded
    SleepingIsExact NoEdgeLost LocalsAgree InitialisedOnce Rendezvous
PROPERTIES
    FreeMutexIsTaken WaitersServed
    OperationsServed BlockingJobStarts IoCompletes BlockOnReturns
CHECK_DEADLOCK FALSE
