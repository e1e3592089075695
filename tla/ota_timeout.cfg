SPECIFICATION Spec
CONSTANTS
    v1 = v1
    v2 = v2
    text = text
    Images <- MCImages
    Good <- MCGood
    Factory = v1
    Parts = 2
    QueueLen = 2
    MaxUploads = 1
    MaxCuts = 0
PROPERTY TimeoutIsRetried
