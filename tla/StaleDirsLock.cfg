SPECIFICATION Spec
CONSTANTS
    t1 = t1
    t2 = t2
    h1 = h1
    h2 = h2
    Threads = {t1, t2}
    Hosts = {h1, h2}
    HostOf <- OneHost
    Dirs = {d1, d2}
    StaleAge = 2
    BootBound = 1
    MaxClock = 3
    MaxCrashes = 1
    Options = {"auto"}
    LockMayFail = FALSE
    NoDir = NoDir
    Free = Free
    Inherited = Inherited
SYMMETRY Symmetry
INVARIANTS
    LockNotHeldByServer
