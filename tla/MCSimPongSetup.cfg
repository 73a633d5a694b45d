CONSTANTS
    Sizes <- MCSizes
    NBalls = 1
    NSticky = 5
    Arguments <- HighArguments
SPECIFICATION SFairSpec
PROPERTIES
    SetupEnds
