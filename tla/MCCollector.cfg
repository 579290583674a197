SPECIFICATION CollectorFairSpec
CONSTANTS
    NodeRoles = {"primary", "replica"}
    Loads <- MCLoads
    ChannelSize = 1
    Modulus = 5
    WindowSize = 2
    Snapshots <- MCSnapshots
CHECK_DEADLOCK FALSE
INVARIANTS
    InOrder
    NewestAgrees
PROPERTIES
    ShutdownDrains
    ImplementsRecentWindow
