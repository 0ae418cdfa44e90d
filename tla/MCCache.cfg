SPECIFICATION Spec
CONSTANTS
    k1 = k1
    k2 = k2
    k3 = k3
    t1 = t1
    t2 = t2
    Keys <- MCKeys
    Threads <- MCThreads
    Responses <- MCResponses
    MaxEntries = 2
    TicksPerSecond = 2
    MaxPositiveTtl = 2
    MaxNegativeTtl = 1
    DefaultNegativeTtl = 1
    StaleWindow = 1
    MaxTime = 5
SYMMETRY MCSymmetry
INVARIANTS WithinCapacity ServedTtlHonest
PROPERTY KeepsContract
