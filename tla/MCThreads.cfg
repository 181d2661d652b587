SPECIFICATION FairSpec
CONSTANTS
    b1 = b1
    b2 = b2
    b3 = b3
    b4 = b4
    kernel = kernel
    none = none
    THREADS_MAX = 4
    Block <- Block4
    KernelStack <- kernel
    NoBlock <- none
INVARIANTS
    ChainsOK
    CriticalSection
    NoPanic
    StacksAccounted
    RunningStackKept
PROPERTIES
    ExitIsFinal
    ReadyThreadsRun
    ExitedAreDestroyed
    ImplementsRoundRobin
