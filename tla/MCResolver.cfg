SPECIFICATION FairSpec
CONSTANTS
    c1 = c1
    c2 = c2
    c3 = c3
    k1 = k1
    k2 = k2
    NoClient = NoClient
    NoKey = NoKey
    NoResult = NoResult
    Clients <- TwoClients
    Keys <- OneKey
    Validating = TRUE
INVARIANTS FlightSound AuthenticData
PROPERTY EveryQueryAnswered
