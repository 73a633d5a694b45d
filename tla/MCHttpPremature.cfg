CONSTANTS
    Sizes <- MCSizes
    NBalls = 1
    NSticky = 0
    Slots = 2
    Responses <- MCResponses
    RequestSize = 2
SPECIFICATION PSpec
INVARIANTS
    PrematureIsMinusOne
