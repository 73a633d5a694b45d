CONSTANTS
    Sizes <- MCSizes
    NBalls = 2
    NSticky = 3
    Arguments <- MCArguments
SPECIFICATION SFairSpec
INVARIANTS
    NoDoubles
PROPERTIES
    ImplementsBoard
