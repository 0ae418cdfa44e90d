SPECIFICATION Spec
CONSTANTS
    a = a
    b = b
    w1 = w1
    w2 = w2
    Ips <- TwoClients
    Threads <- TwoThreads
    Qps = 1
    Burst = 2
    TicksPerSecond = 2
    PurgeAfter = 2
    CleanupThreshold = 1
    MaxTime = 6
SYMMETRY Symmetry
INVARIANTS CreditBounded
PROPERTY QuietClientAdmitted
