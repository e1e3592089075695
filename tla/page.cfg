SPECIFICATION FairPageSpec
CONSTANTS
    v1 = v1
    v2 = v2
    broken = broken
    Images <- MCImages
    Good <- MCGood
    Factory = v1
    Parts = 1
    QueueLen = 1
    MaxUploads = 2
    MaxCuts = 1
INVARIANTS PageTypeOK CountdownMeansRestart CompleteIsAnnounced
PROPERTIES PageThaws
CHECK_DEADLOCK FALSE
