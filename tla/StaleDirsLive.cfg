SPECIFICATION FairSpec
CONSTANTS
    t1 = t1
    t2 = t2
    h1 = h1
    h2 = h2
    Threads = {t1, t2}
    Hosts = {h1, h2}
    HostOf <- TwoHosts
    Dirs = {d1}
    StaleAge = 2
    BootBound = 1
    MaxClock = 3
    MaxCrashes = 2
    Options = {"auto", "keep", "reopen"}
    LockMayFail = FALSE
    NoDir = NoDir
    Free = Free
    Inherited = Inherited
INVARIANTS
    FreshNotCondemned
    FreshIntact
    LockLetGo
PROPERTIES
    StartReturns
    StaleReclaimed
