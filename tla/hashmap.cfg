SPECIFICATION Spec
CONSTANTS
    Threads = {t1, t2, t3}
    Calls = 3
    Keys = {1, 2, 3}
    Initial = 2
    Null = Null
INVARIANT DeletedOnce
CHECK_DEADLOCK FALSE
