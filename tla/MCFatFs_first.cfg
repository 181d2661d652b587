SPECIFICATION Spec
CONSTANTS
    Char = {"A", "B", ".", "*", "?"}
    Disks <- Directories
    Garbage <- Memory
    Names <- Opened
    FirstCluster <- Starts
    Table <- Fat
    GarbageTables <- Tables
    Wilds <- Patterns
    Counts = {1, 2}
    FatStart = 1
    FatSectors = 9
    RootSectors = 14
    CylinderSectors = 36
    MAX_OPEN_FILES = 3
    MaxErrors = 1
    MaxOpens = 3
    MaxGot = 3
CHECK_DEADLOCK FALSE
INVARIANT
    ReadsFromStart
