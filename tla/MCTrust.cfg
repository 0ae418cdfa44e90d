CONSTANTS
    Names <- MCNames
    Anchors <- RootAnchor
    Worlds <- MCWorlds
    Hash <- MCHash
    Sections <- MCSections
    MaxDepth = 2
    MaxFaults = 1
    Rolling <- MCRolling
    MaxRolls = 1
SPECIFICATION FairSpec
INVARIANTS SecureIsGenuine AlteredCaught HonestVerdict FetchedOnce
PROPERTY Terminates
