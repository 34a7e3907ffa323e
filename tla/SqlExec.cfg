SPECIFICATION Spec
CONSTANTS
    Threads = {t1, t2}
    N = 3
    MaxOpens = 3
INVARIANTS
    TypeOK
    OpenMeansLoaded
    OkMeansDone

    
CHECK_DEADLOCK FALSE
