CONSTANTS
    Users = {u1, u2}
    NoUser = NoUser
    N = 3
    DropNum = 1
    MaxReq = 2
    RxDma = FALSE
    Paced = TRUE
    CopyFaults = FALSE
    Surprise = FALSE
    MaxMsgs = 3
    MaxOpens = 0
SPECIFICATION FairSpec
INVARIANTS DeliveredIntact
PROPERTIES ImplementsFifo ReceiversProgress
CHECK_DEADLOCK FALSE
