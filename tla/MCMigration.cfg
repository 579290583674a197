SPECIFICATION MigrationFairSpec
CONSTANTS
    Sends <- ThreeCommands
    c1 = c1
    c2 = c2
    c3 = c3
    Targets = {"PRE_FLIGHT", "CDC"}
    Direct = {"PRE_FLIGHT"}
    Failing = {"CDC"}
    MaxDirect = 1
CHECK_DEADLOCK FALSE
INVARIANTS
    OneRunPerTask
    EarlierPhasesDone
    PausesAtTarget
    NoLostWakeUp
PROPERTIES
    ReachesTarget
