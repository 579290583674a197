SPECIFICATION PoolFairSpec
CONSTANTS
    StatsBufferSize = 1
    MaxStarts = 2
    MaxSamples = 3
    Troubles = {"exit", "query", "open", "write"}
INVARIANTS
    SinglePgBouncer
    Accounted
    Drained
    NoPanic
PROPERTIES
    StopReturns
CHECK_DEADLOCK FALSE
