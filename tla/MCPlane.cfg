SPECIFICATION PlaneFairSpec
CONSTANTS
    N = 2
    Reconciles = {1, 2}
    SaveMayFail = TRUE
    MaxStreams = 3
    MaxCrashes = 1
CHECK_DEADLOCK FALSE
INVARIANTS
    OnlyRacesDiverge
    OnlyLateResultsForgotten
PROPERTIES
    ResultsReachCenter
