SPECIFICATION Spec
CONSTANTS
    NConns = 3
    NRequests = 1
    BatchSize = 1
    SockCap = 1
    Timed = TRUE
    Foreground = TRUE
    MaxLive = 2
    Stray = {1}
CHECK_DEADLOCK FALSE
INVARIANT TypeOK
INVARIANT SlotAliveForReader
INVARIANT NoDescriptorLeak
