SPECIFICATION Spec
CONSTANTS
    h1 = h1
    h2 = h2
    Daemon = daemon
    Journal = journal
    Procs = {p1, p2}
    Hashes <- MCHashes
    Files <- MCFiles
    BufEvents = 2
    LearningModes = {FALSE}
    DefaultDeny = TRUE
    MonitorSharedLibs = TRUE
    DbOnMount = FALSE
    WireCode <- GuiCodes
    IoFaults = FALSE
    Foreign = {}
    DbFaults = FALSE
INVARIANT AllowAlwaysRemembered
