CONSTANTS
    NPROC = 3
    NALLOC = 2
    NPages = 7
    Reserved <- MCReserved
    KernelImage <- MCKernelImage
    Image <- MCImage
    StackPage <- MCStackPage
    HZ = 2
    TickMod = 3
    SpinPeriod = 2
    Labels <- MCLabels
    Entry <- MCEntry
    After <- MCAfter
    Locals <- MCLocals
    Calls = {1, 2, 4, 5}
    UserPages <- MCUserPages
    MaxKeys = 1
SPECIFICATION FairSpec
INVARIANTS
    OwnersSound
    KallocComplete
    SwitchesInTime
PROPERTIES
    RoundRobin
    EveryoneRuns
    ControlCHeard
