SPECIFICATION FairSpec
CONSTANTS
    Threads = {t1}
    Insts = {x1, x2, x3, x4, x5}
    Max = 4
    Null = Null
INVARIANTS
    TypeOK
    TableExact
    NoStaleEntry
    HalfStopped
    ExitLeavesHalf
    ExitMissesOne
PROPERTIES
    DropOnlyWhenFull
    KeepsRegistry
    CleanupEnds
CHECK_DEADLOCK FALSE
