SPECIFICATION PageSpec
CONSTANTS
    v1 = v1
    v2 = v2
    broken = broken
    Images <- MCImages
    Good <- MCGood
    Factory = v1
    Parts = 1
    QueueLen = 1
    MaxUploads = 1
    MaxCuts = 0
INVARIANT ProgressEnds
