SPECIFICATION Spec
CONSTANTS
    Workers = {w1, w2}
    Tries = 2
    Spurious = FALSE
    Null = Null
INVARIANTS
    PushIsSafe
CHECK_DEADLOCK FALSE
