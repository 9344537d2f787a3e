CONSTANTS
    Bufs = {b1, b2, b3}
    NoBuf = NoBuf
    BufNum = 3
    ErrThresh = 2
    MaxRetry = 1
    AllQueued = TRUE
    MaxFails = 0
SPECIFICATION FairSpec
INVARIANTS DmaSafe CameraNotLeftOff
PROPERTIES ResetOwnsAll StopReturns
