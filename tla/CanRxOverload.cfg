CONSTANTS
    Users = {u1, u2}
    NoUser = NoUser
    N = 3
    DropNum = 1
    MaxReq = 2
    RxDma = TRUE
    Paced = FALSE
    CopyFaults = TRUE
    Surprise = TRUE
    MaxMsgs = 3
    MaxOpens = 1
SPECIFICATION Spec
INVARIANTS TypeOK ExclusiveReceiver NoLostWakeup
SYMMETRY UserSymmetry
CHECK_DEADLOCK FALSE
