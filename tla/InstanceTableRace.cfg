SPECIFICATION Spec
CONSTANTS
    Threads = {t1, t2}
    Insts = {x1, x2, x3, x4, x5}
    Max = 4
    Null = Null
INVARIANTS
    HandlesTracked
CHECK_DEADLOCK FALSE
