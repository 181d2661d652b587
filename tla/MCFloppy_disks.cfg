SPECIFICATION FairSpec
CONSTANTS
    a = a
    b = b
    c = c
    Disk = {a, b, c}
    NoDisk = NoDisk
    DiskSectors <- DiskSectorsABC
    Block <- Blocks
    MaxRequests = 2
    MaxErrors = 2
    MaxChanges = 2
    MaxLate = 1
CHECK_DEADLOCK FALSE
INVARIANTS
    DataRight
    RetriesSuffice
    ReadOnTrack
    DoneMeansEnded
PROPERTIES
    RequestsReturn
