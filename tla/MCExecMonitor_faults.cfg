SPECIFICATION Spec
CONSTANTS
    h1 = h1
    h2 = h2
    Daemon = daemon
    Journal = journal
    Procs = {p1, p2}
    Hashes <- MCHashes
    Files <- MCFiles
    BufEvents = 2
    LearningModes = {TRUE, FALSE}
    DefaultDeny = TRUE
    MonitorSharedLibs = TRUE
    DbOnMount = TRUE
    WireCode <- GuiCodes
    IoFaults = TRUE
    Foreign = {h2}
    DbFaults = TRUE
INVARIANT EveryEventHeld
INVARIANT CachedNeverDenied
