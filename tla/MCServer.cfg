CONSTANTS
    Lifetime = 1
    TimeSpace = 8
    Clients = {"c"}
    Addresses = {"in", "out"}
    Home <- MCHome
    AddressOf <- MCAddressOf
    Allowed <- MCAllowed
    Views <- MCViews
    Zones <- MCZones
    Signed <- MCSigned
    Forwards = {}
    Upstream = TRUE
    Secondaries = {}
    FirstPolicy <- MCFirstPolicy
    Policies <- MCPolicies
    Asks <- MCAsks
    Requiring = {TRUE, FALSE}
    Payload = 3
    Start = 7
    Delays = {2, 3}
    MaxAsks = 2
    MaxDisturbed = 2
    Peers <- MCPeers
    KeyRing <- MCKeyRing
    TransferAcl <- MCTransferAcl
    UpdateAcl <- MCTransferAcl
    Requirements = {"k", "none"}
    Origins = {"zone", "other"}
    FirstRecords <- MCFirstRecords
    HashOrder <- MCHashOrder
    Updates <- MCUpdates
    Updaters <- MCUpdaters
    Incremental <- MCIncremental
    SoasPerMarker = 2
    Chunk = 3
    Depth = 1
    Fudge = 2
    XfrTimeout = 1
    MaxTime = 2
    MaxTroubles = 1
SPECIFICATION FairSpec
INVARIANTS CookiesHonoured  RecursionGuarded  PullNeverRejected OnlyKeyHolders
PROPERTY ClientAnswered
CHECK_DEADLOCK FALSE
