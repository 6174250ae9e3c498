SPECIFICATION FairSpec
CONSTANTS
    Senders = {s1, s2}
    Receivers = {r1, r2}
    PerSender = 1
    PerReceiver = 1
    Cap = 2
    Closers = {}
    Null = Null
PROPERTIES
    AllReceived
CHECK_DEADLOCK FALSE
