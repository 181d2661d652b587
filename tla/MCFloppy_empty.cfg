SPECIFICATION FairSpec
CONSTANTS
    a = a
    b = b
    c = c
    Disk = {a, b, c}
    NoDisk = NoDisk
    DiskSectors <- DiskSectorsABC
    Block <- Blocks
    MaxRequests = 0
    MaxErrors = 0
    MaxChanges = 0
    MaxLate = 0
CHECK_DEADLOCK FALSE
PROPERTIES
    InitEnds
