SPECIFICATION FairSpec
CONSTANTS
    h1 = h1
    h2 = h2
    Daemon = daemon
    Journal = journal
    Procs = {p1, p2}
    Hashes <- MCHashes
    Files <- MCFiles
    BufEvents = 2
    LearningModes = {TRUE, FALSE}
    DefaultDeny = TRUE
    MonitorSharedLibs = TRUE
    DbOnMount = FALSE
    WireCode <- ServerCodes
    IoFaults = FALSE
    Foreign = {h2}
    DbFaults = FALSE
INVARIANT TypeOK
INVARIANT EveryEventHeld
INVARIANT AllowIsBacked
INVARIANT AnswerHonoured
INVARIANT CacheBacked
PROPERTY NeverAskedAgain
INVARIANT LearningWhitelists
PROPERTY GatePromise
PROPERTY EveryCallReturns
PROPERTY StopsWhenTold
