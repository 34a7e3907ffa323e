SPECIFICATION Spec
CONSTANTS
    Handles = {h1, h2}
    Dirs = {d1}
    NoDir = NoDir
    NoServer = NoServer
PROPERTIES
    GuestsManageNothing
CHECK_DEADLOCK FALSE
