CONSTANTS
    t1 = t1
    t2 = t2
    t3 = t3
    pA = pA
    pB = pB
    Threads = {t1, t2, t3}
    Procs = {pA, pB}
    ProcOf <- MCProcOf
    NoThread = NoThread
    Rates = {r500, r250}
    DefaultRate = r500
    TxCap = 1
    MaxSend = 2
    MaxCalls = 5
SPECIFICATION FairSpec
INVARIANTS ViewsAgree FifoNotOverrun
PROPERTIES NoTxAfterStop CallReturns
CHECK_DEADLOCK FALSE
