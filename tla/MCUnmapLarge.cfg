CONSTANTS
    Fan = 2
    Top = 2
    NTables = 4
    Iterators = {a, b}
    Frames = {1}
    Perms <- MCPerms
    Sizes <- MCSizes
    NBalls = 3
    NSticky = 1
SPECIFICATION MCSpec
INVARIANTS
    MapsAsAsked
