SPECIFICATION ThreadsSpec
CONSTANTS
    Threads = {t1, t2, t3}
    Null = Null
    Workers = {w1, w2}
    Clients = {c1, c2}
    LateApply = TRUE
    MayFail = TRUE
    MaxGets = 1
    Sentinel = Sentinel
    NThreads = 3
    NPrints = 2
    NTasks = 3
    Sections = 2
INVARIANTS
    TypesOK
    ServedInLine
    NoLateLink
    FuturesAreSafe
    NoSleeperWithWork
    AllTasksRun
PROPERTIES
    ImplementsFifoLock
    EverybodyReturns
CHECK_DEADLOCK FALSE
