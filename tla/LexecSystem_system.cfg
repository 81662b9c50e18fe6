SPECIFICATION FairSpec
CONSTANTS
    Files = {1, 2}
    NConns = 3
    MaxLinks = 2
    GuiOpens = TRUE
    MaxIds = 2
    MaxRuns = 2
CHECK_DEADLOCK FALSE
INVARIANT TypeOK
INVARIANT WatchedSocket
INVARIANT NeverGivesUp
INVARIANT LabelNotFalselyGreen
PROPERTY SameRunConsent
PROPERTY Settles
PROPERTY GuiUnblocked
