SPECIFICATION PatroniFairSpec
CONSTANTS
    Restarts = {r1}
    Reconciles = {}
    Promotes = {}
    MaxStarts = 2
    Faults = {}
    r1 = r1
CHECK_DEADLOCK FALSE
PROPERTY
    RestartBringsBack
