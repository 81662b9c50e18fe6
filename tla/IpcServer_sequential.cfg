SPECIFICATION LiveSpec
CONSTANTS
    NConns = 2
    NRequests = 2
    BatchSize = 2
    SockCap = 1
    Timed = TRUE
    Foreground = TRUE
    MaxLive = 1
    Stray = {1, 2}
CHECK_DEADLOCK FALSE
INVARIANT EventDescriptorIntact
PROPERTY CallPromise
PROPERTY CallReturns
PROPERTY BacklogAccepted
PROPERTY ShutdownTerminates
