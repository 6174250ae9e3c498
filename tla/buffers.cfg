SPECIFICATION BuffersSpec
CONSTANTS
    A = {a1, a2}
    B = {b1, b2}
    a = a1
    b = b1
    Readers = {r1}
    Writers = {a1, a2}
    Values = {b1, b2}
    NWords = 2
    SeqMod = 4
    Null = Null
    EMPTY = EMPTY
    Greeters = {g}
    Enqueues = 4
    ring_count = 4
    ring_mod = 12
    ring_batch = 3
    queue_size = 2
    Bytes = 3
    MaxErrors = 1
    MAXTIMERS = 3
    MaxTick = 2
    TimerCalls = 5
SYMMETRY Symmetry
INVARIANTS
    ReadIsSnapshot
    OneWriterInside
    TypesOK
    PromisedAreFull
    EachElementOnce
    BatchesAreExact
    OneOwnerPerConnection
    ConnectionsAreServed
    WordsAreCounted
    TimersAreKept
CHECK_DEADLOCK FALSE
