SPECIFICATION LoopSpec
CONSTANTS
    main = main
    t2 = t2
    c1 = c1
    c2 = c2
    fatbuf = fatbuf
    root = root
    none = none
    Thread <- TwoThreads
    Client <- TwoClients
    FatBuf <- fatbuf
    Root <- root
    NoBlock <- none
    UserPages = 8
    PAGE_SIZE = 65536
    StackBytes = {65536}
    FatBytes = 4608
    RootBytes = 7168
INVARIANTS
    BlocksDisjoint
