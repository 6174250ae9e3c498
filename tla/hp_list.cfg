SPECIFICATION Spec
CONSTANTS
    Threads = {1, 2}
    Calls = 2
    Initial = {1, 3}
    Keys = {1, 2, 3}
INVARIANT NoUseAfterFree
CHECK_DEADLOCK FALSE
