SPECIFICATION HistorySpec
CONSTANTS
    WindowSize = 1
    Snapshots <- MixedLoads
    Floor = 2
    Step = 2
    DownTicks = 2
    UpTicks = 3
    DefaultPoolSize = 3
    IniSize = 5
    MaxConnections = 5
    FaultKinds = {"refused", "lost", "save", "query", "crash", "poolRestart"}
    MaxFaults = 2
    NoFile = NoFile
    Torn = Torn
INVARIANTS
    PoolSizeSafe
    FileNeverTorn
    RemembersOnDisk
    HaltHolds
    DriftBounded
PROPERTIES
    ImplementsPoolValve
    ResizesAfterRun
