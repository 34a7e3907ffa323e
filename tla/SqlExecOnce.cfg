SPECIFICATION Spec
CONSTANTS
    Threads = {t1}
    N = 3
    MaxOpens = 3
INVARIANTS
    AtMostOnce
CHECK_DEADLOCK FALSE
