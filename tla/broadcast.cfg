SPECIFICATION CastSpec
CONSTANTS
    Threads = {t1, t2, t3}
    None = None
    Senders = {"s1", "s2"}
    Receivers = {"r1", "r2"}
    PerSender = 1
    PerReceiver = 1
    Closers = {"c"}
    n_clients = 2
    Calls = 3
    Timers = {"t1", "t2"}
    Reads = 1
    MaxEvents = 1
INVARIANTS
    GotIsPublished
CHECK_DEADLOCK FALSE
