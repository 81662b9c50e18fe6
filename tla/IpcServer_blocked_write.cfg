SPECIFICATION FairSpec
CONSTANTS
    NConns = 1
    NRequests = 2
    BatchSize = 1
    SockCap = 1
    Timed = TRUE
    Foreground = TRUE
    MaxLive = 1
    Stray = {}
CHECK_DEADLOCK FALSE
PROPERTY CallReturns
