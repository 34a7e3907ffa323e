SPECIFICATION Spec
CONSTANTS
    t1 = t1
    t2 = t2
    h1 = h1
    h2 = h2
    Threads = {t1, t2}
    Hosts = {h1, h2}
    HostOf <- TwoHosts
    Dirs = {d1, d2}
    StaleAge = 2
    BootBound = 1
    MaxClock = 3
    MaxCrashes = 0
    Options = {"keep", "reopen"}
    LockMayFail = FALSE
    NoDir = NoDir
    Free = Free
    Inherited = Inherited
SYMMETRY Symmetry
PROPERTIES
    BootKeepsDir
