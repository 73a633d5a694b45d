CONSTANTS
    Sizes <- MCSizes
    NBalls = 2
    NSticky = 0
    Arguments <- RaceArguments
SPECIFICATION SSpec
INVARIANTS
    AssertionHolds
