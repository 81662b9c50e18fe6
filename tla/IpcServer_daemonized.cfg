SPECIFICATION LiveSpec
CONSTANTS
    NConns = 1
    NRequests = 1
    BatchSize = 1
    SockCap = 1
    Timed = TRUE
    Foreground = FALSE
    MaxLive = 1
    Stray = {}
CHECK_DEADLOCK FALSE
PROPERTY BacklogAccepted
