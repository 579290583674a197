SPECIFICATION CountedFairSpec
CONSTANTS
    NodeRoles = {"primary", "replica"}
    Loads <- OneLoad
    ChannelSize = 1
    Modulus = 1
    WindowSize = 1
    Snapshots <- MCSnapshots
    Floor = 2
    Step = 2
    DownTicks = 1
    UpTicks = 1
    DefaultPoolSize = 3
    IniSize = 3
    MaxConnections = 5
    FaultKinds = {"crash", "poolRestart"}
    MaxFaults = 1
    NoFile = NoFile
    Torn = Torn
    MaxChanges = 1
INVARIANTS
    NoFlapping
PROPERTIES
    ImplementsEngine
    FailoverHalts
    ReturnReopens
