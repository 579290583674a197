SPECIFICATION ManifestSpec
CONSTANTS
    Handlers = {h1, h2}
    Main = main
    Fields = {"full", "diff"}
    Settings = {0, 1}
    h1 = h1
    h2 = h2
    main = main
INVARIANTS
    FileFollowsConfig
PROPERTIES
    UpdatesMerge
    InSyncIsTrue
