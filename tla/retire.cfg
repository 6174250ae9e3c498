SPECIFICATION RetireSpec
CONSTANTS
    Writer = w
    Readers = {r1, r2}
    Objects = {o1, o2}
    MaxEpoch = 3
    Dummy = Dummy
    PoolNode = PoolNode
    Null = Null
SYMMETRY Symmetry
INVARIANTS
    TypesOK
    DerefIsValid
    NodesAreSafe
    EachItemOnce
CHECK_DEADLOCK FALSE
