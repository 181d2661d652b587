SPECIFICATION Spec
CONSTANTS
    c1 = c1
    c2 = c2
    c3 = c3
    c4 = c4
    fatbuf = fatbuf
    root = root
    none = none
    Client <- FourClients
    FatBuf <- fatbuf
    Root <- root
    NoBlock <- none
    UserPages = 256
    PAGE_SIZE = 4096
    StackBytes = {131072}
    FatBytes = 4608
    RootBytes = 7168
    StackPages = 33
INVARIANTS
    BlocksDisjoint
    BlocksInMemory
    UsedIffLive
    StackAvailable
