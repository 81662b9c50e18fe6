SPECIFICATION FairSpec
CONSTANTS
    h1 = h1
    h2 = h2
    Daemon = daemon
    Journal = journal
    Procs = {p1, p2}
    Hashes <- MCHashes
    Files <- MCFewFiles
    BufEvents = 1
    LearningModes = {TRUE}
    DefaultDeny = TRUE
    MonitorSharedLibs = TRUE
    DbOnMount = TRUE
    WireCode <- GuiCodes
    IoFaults = FALSE
    Foreign = {}
    DbFaults = FALSE
PROPERTY EveryCallReturns
