SPECIFICATION SecondaryFairSpec
CONSTANTS
    p1 = p1
    p2 = p2
    Primaries <- TwoPrimaries
    Half = 3
    MaxVersion = 7
    MaxFailures = 2
    MaxDrops = 1
INVARIANTS NotifyHeeded
PROPERTIES NeverRollsBack FollowsFirstPrimary
