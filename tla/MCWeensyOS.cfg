CONSTANTS
    NPROC = 3
    NALLOC = 2
    NPages = 10
    Reserved <- MCReserved
    KernelImage <- MCKernelImage
    Image <- MCImage
    StackPage <- MCStackPage
    HeapStart <- MCHeapStart
    HZ = 2
    TickMod = 3
    SpinPeriod = 2
    Labels <- ProgramLabels
    Entry <- ProgramEntry
    After <- ProgramAfter
    Locals <- Procs
    Calls = {1, 2, 4, 5}
    UserPages <- MCUserPages
    ConsolePage = 0
    PageTablePages <- MCKernelImage
    MaxKeys = 1
SPECIFICATION WFairSpec
INVARIANTS
    OwnedExactly
    HeapIntact
    ProcessPagesShown
PROPERTIES
    AllocatorsFinish
