SPECIFICATION FairSpec
CONSTANTS
    Handles = {h1, h2}
    Dirs = {d1, d2}
    NoDir = NoDir
    NoServer = NoServer
INVARIANTS
    TypeOK
    NothingLeft
    OneServer
PROPERTIES
    UpServed
    Implements
    CallsReturn
CHECK_DEADLOCK FALSE
