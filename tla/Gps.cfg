CONSTANTS
    Devs = {d1, d2}
    NoDev = NoDev
    SmoothDevs = {d1}
    Serial = TRUE
    HighFactor = 1
    MaxGap = 1
    MaxSince = 1
    NotSet = NotSet
    MaxThreads = 2
SPECIFICATION FairSpec
PROPERTIES RemovalReturns BackToNormal
CHECK_DEADLOCK FALSE
