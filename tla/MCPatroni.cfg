SPECIFICATION PatroniFairSpec
CONSTANTS
    Restarts = {r1}
    Reconciles = {c1}
    Promotes = {}
    MaxStarts = 3
    Faults = {"crash", "slow", "start", "hang"}
    r1 = r1
    c1 = c1
INVARIANTS
    Supervised
PROPERTIES
    GoneIsNoticed
    CommandsEnd
