CONSTANTS
    Senders = {s1, s2}
    NoSender = NoSender
    TxNum = 3
    Errs = {e1}
    LinkChange = LinkChange
    PerChannel = TRUE
    Throttle = 1
    Unset = Unset
    MaxMsgs = 4
SPECIFICATION FairSpec
INVARIANTS RingSafe MaskAccounted
PROPERTIES MaskLifted ErrorHandled WatchdogStops
CHECK_DEADLOCK FALSE
