SPECIFICATION Spec
CONSTANTS
    MaxCluster = 8
    Files <- TwoFiles
    NoName = "free"
    FileSizes <- Sizes
    SectorBytes = 4
    RootSectors = 2
    SectorEntries = 4
    SeenEntries = 2
    Loader = "nucload"
    Kernel = "nucleus"
    FatSectors = 2
    Tries = 5
    Padding = 8
    Board <- Boards
CHECK_DEADLOCK FALSE
INVARIANTS
    TypeOK
    NothingLost
    KernelAsWritten
PROPERTIES
    ImplementsFileStore
    KernelReached
