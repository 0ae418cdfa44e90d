SPECIFICATION PoolFairSpec
CONSTANTS
    q1 = q1
    q2 = q2
    Tasks <- TwoTasks
    PoolSize = 3
    Attempts = 2
    MaxFlips = 2
    MaxLosses = 1
INVARIANTS SteadyUpstreamFound
PROPERTY SettlesOnLiveUpstream
