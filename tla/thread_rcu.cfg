SPECIFICATION Spec
CONSTANTS
    Readers = {r1}
    Updates = 2
    StartTogether = TRUE
INVARIANTS
    ReaderIsSafe
CHECK_DEADLOCK FALSE
