CONSTANTS
    WordBits = 6
    Formats <- MCFormats
    BufferSizes = {8}
    Compared <- MCCompared
    Numerals <- MCNumerals
    MemorySize = 4
    SymbolTables <- MCSymbolTables
    LookedUp = {0, 1, 2, 3, 4, 5, 6, 7, 8, 9}
SPECIFICATION StringsSpec
INVARIANT RandInRange
CHECK_DEADLOCK FALSE
