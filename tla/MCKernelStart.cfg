SPECIFICATION Spec
CONSTANTS
    Boards <- Machines
    KernelEnds <- Linked
    MaxLost = 1
INVARIANTS
    HandlersReady
    MemoryMapRight
    DelayLongEnough

    
