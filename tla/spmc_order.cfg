SPECIFICATION Spec
CONSTANTS
    Consumers = {c1}
    Items = 8
    InitialPower = 1
    MaxNodes = 3
INVARIANTS
    InOrder
