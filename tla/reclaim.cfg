SPECIFICATION ReclaimSpec
CONSTANTS
    Threads = {t1, t2, t3}
    Iterations = 2
    Null = Null
    Readers = {"r1", "r2"}
    Updates = 3
    Enqueuers = {e1, e2}
    Dequeuers = {d1}
    PerEnq = 2
    PerDeq = 4
    N = 2
    Threshold = 1
    Producers = {"p1", "p2", "p3"}
    Total = 3
    Writers = {"w"}
    Addresses = {1, 2, 3}
    Loads = 2
    Swaps = 2
    r_limit = 1
INVARIANTS
    TypesOK
    FreedByTheLast
    NodesAreSafe
    ValuesInOrder
    SleeperIsServed
PROPERTIES
    EverythingReceived
    ReclaimProgress
CHECK_DEADLOCK FALSE
