CONSTANTS
    Threads = {t1, t2, t3}
    MaxMsgs = 1
    MaxQueue = 2
    MaxId = 1
    Dpcs = {d1, d2}
    MaxTrig = 2
    Cards = {c1, c2}
    NODES_PER_CARD = 2
    NoCard = NoCard
SPECIFICATION Spec
INVARIANTS HandleSafe CardsSafe
PROPERTIES CallsReturn DpcRuns
\* A thread whose ioctl misses its wake-up sleeps for ever, and so may the unload.
CHECK_DEADLOCK FALSE
