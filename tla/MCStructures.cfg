CONSTANTS
    Fan = 2
    Top = 2
    NTables = 4
    Iterators = {a, b}
    Frames = {1}
    Perms <- MCPerms
    Sizes <- MCSizes
    NBalls = 3
    NSticky = 1
SPECIFICATION MCSpec
INVARIANTS
    TablesHoldSpace
    LandsFresh
    SkipsNothing
    NoUseAfterFree
    Stored
PROPERTIES
    DestroyFreesAll
    MotionKept
CHECK_DEADLOCK FALSE
