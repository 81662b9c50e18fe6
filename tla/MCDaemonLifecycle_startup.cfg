SPECIFICATION FairSpec
CONSTANTS
    NDaemons = 2
    CommandLines <- MCCommandLines
    Files <- MCFiles
    ScanDirs <- MCScanDirs
    Entries <- MCEntries
    DbOnMount = TRUE
    IntMax = 32767
    Missing = Missing
CHECK_DEADLOCK FALSE
INVARIANT TypeOK
INVARIANT ReleasedInOrder
INVARIANT ScanExact
INVARIANT ConfigAsGiven
INVARIANT ExclusionCovers
PROPERTY StopHonoured
