CONSTANTS
    Sizes <- MCSizes
    NBalls = 1
    NSticky = 0
    Slots = 2
    Responses <- MCResponses
    RequestSize = 2
SPECIFICATION PFairSpec
INVARIANTS
    InStep
    BodyExact
    BrokenMeansCut
PROPERTIES
    ServerSeesPath
    GameGoesOn
