CONSTANTS
    Rows = 2
    Columns = 3
    Texts <- MCTexts
    Positions <- MCPositions
    WordBits = 6
    Formats <- MCFormats
    BufferSizes = {4, 8}
    Compared <- MCCompared
    Numerals <- MCNumerals
    MemorySize = 4
    SymbolTables <- MCSymbolTables
    LookedUp = {0, 1, 2, 3, 4, 5, 6, 7, 8, 9}
    BufferSize = 3
    HeldKeys = 2
    Keys <- MCKeys
    Threads = {t1, t2, t3}
    Calls = 2
    Characters <- MCCharacters
    Scripts <- MCScripts
    BufSize = 16
    Memory = 3
    Word = 8
    Sizes = {0, 1, 2, 3}
    Counts = {2, 3}
    Commands <- MCCommands
    Lengths = {0, 1, 3, 4, 7, 8}
    EveryLine = 3
    Phases <- MCPhases
    Capacities = {1, 2, 3, 4, 5}
SPECIFICATION MCSpec
INVARIANTS
    NumbersComeBack
    CallsMeetReference
    NothingSticks
    TypesWhatWasPressed
    InitializedOnce
    RunsWhatWasWritten
    HandedOutSound
    OnlyLeaksAreLeft
    OutputsAsNamed
    GathersAll
    AssertionsHold
    StuckOnlyWhenTooLarge
    ZeroMeansComplete
PROPERTIES
    PrintsAsRoll
    EveryCallEnds
    NobodyLeftBehind
CHECK_DEADLOCK FALSE
