SPECIFICATION FairSpec
CONSTANTS
    v1 = v1
    v2 = v2
    text = text
    Images <- MCImages
    Good <- MCGood
    Factory = v1
    Parts = 2
    QueueLen = 2
    MaxUploads = 3
    MaxCuts = 1
INVARIANTS TypeOK AlwaysBootable AnnouncedIsInstalled CompleteIsNext CompleteIsShown
PROPERTIES BootsOnlyComplete CompleteRestarts HandlerReturns
CHECK_DEADLOCK FALSE
