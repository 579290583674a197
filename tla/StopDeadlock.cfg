SPECIFICATION PoolFairSpec
CONSTANTS
    StatsBufferSize = 1
    MaxStarts = 1
    MaxSamples = 3
    Troubles = {}
PROPERTIES
    StopAlwaysReturns
CHECK_DEADLOCK FALSE
