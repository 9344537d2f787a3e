------------------------------ MODULE BasaCanRx ------------------------------
(***************************************************************************)
(* The receive path of one CAN channel of the Baidu sensor FPGA driver     *)
(* (basa_can.c), from the frames the controller holds to the buffer of the *)
(* application that called bcan_recv() (bcan_lib.c).                       *)
(*                                                                         *)
(* The channel's tasklet moves frames into a ring of zcan_buf_rx_num       *)
(* slots.  It tests for a full ring and publishes the tail WITHOUT taking  *)
(* zcan_pio_rx_lock; it takes the lock only to drop old frames and to      *)
(* complete a waiting receiver.  A receiver copies under the lock, but     *)
(* gives it up while it sleeps, keeping its claim in zcan_usr_buf.  Every  *)
(* point where the two can interleave is a step here.                      *)
(*                                                                         *)
(* A frame is its arrival number.  A slot also records the layout of its   *)
(* bytes: zcan_to_bcan() rewrites the slot in place, and applying it to an *)
(* already rewritten slot yields garbage.                                  *)
(***************************************************************************)
EXTENDS Naturals, Sequences, FiniteSets

CONSTANTS
    Users,          \* threads that share one open handle
    NoUser,         \* zcan_usr_buf = NULL, or the lock not held by a receiver
    N,              \* zcan_buf_rx_num: slots of the ring
    DropNum,        \* ZCAN_IP_RXFIFO_MAX: frames dropped when the ring is full
    MaxReq,         \* BCAN_MAX_RX_MSG: largest request of a receiver
    RxDma,          \* zcan_rx_dma: frames come by DMA rather than by PIO
    Paced,          \* environment: the bus never gets N - 1 frames ahead
    CopyFaults,     \* environment: copy_to_user() may fail
    Surprise,       \* environment: the card may fall off the PCIe bus
    MaxMsgs,        \* bound on the frames that arrive
    MaxOpens        \* bound on how often the handle is re-opened

ASSUME NoUserAssumption == NoUser \notin Users
ASSUME RingAssumption   == N \in Nat /\ N > 1 /\ DropNum \in 1..(N - 1)
ASSUME RequestAssumption == MaxReq \in Nat \ {0}
ASSUME SwitchAssumption == {RxDma, Paced, CopyFaults, Surprise} \subseteq BOOLEAN
ASSUME BoundAssumption  == MaxMsgs \in Nat /\ MaxOpens \in Nat

VARIABLES
    arrived,        \* frames the controller has accepted from the bus
    taken,          \* frames the tasklet has read out of the controller
    devErr,         \* ZDEV_IS_ERR: every register reads as -1
    ring,           \* zcan_buf_rx_msg
    head,           \* zcan_buf_rx_head
    tail,           \* zcan_buf_rx_tail
    tpc,            \* where the tasklet is
    left,           \* DMA: frames of this run still to be copied
    rxLock,         \* zcan_pio_rx_lock: the receiver that holds it
    usrBuf,         \* zcan_usr_buf: the receiver whose buffer is being filled
    usrNum,         \* zcan_usr_buf_num
    usrRx,          \* zcan_usr_rx_num
    comp,           \* zcan_usr_rx_comp: completions posted and not consumed
    recvd,          \* BCAN_DEV_RECVD of the library handle
    pc,             \* where each receiver is
    req,            \* ioc_msg_num of each receiver's call
    clr,            \* ioc_msg_rx_clear of each receiver's call
    cur,            \* the local variable head of zcan_copy_to_user
    ret,            \* the local variable ret of zcan_rx_user
    wake,           \* how wait_for_completion_interruptible_timeout returned
    result,         \* what the ioctl of each receiver stored, until it is read
    opens,          \* how often the handle was re-opened
    last            \* history: the frame copied to user memory last

devVars  == <<arrived, taken, devErr>>
ringVars == <<ring, head, tail>>
taskVars == <<tpc, left>>
usrVars  == <<rxLock, usrBuf, usrNum, usrRx, comp>>
callVars == <<pc, req, clr, cur, ret, wake, result>>
libVars  == <<recvd, opens>>
vars == <<devVars, ringVars, taskVars, usrVars, callVars, libVars, last>>

Slots   == 0..(N - 1)
Formats == {"zcan", "bcan", "garbled"}
Codes   == {"OK", "PARTIAL", "FAIL", "TIMEOUT", "ERR", "BUSY", "DEV_ERR"}

\* rx_num of zcan_usr_rx_complete: frames between head and tail.
RxNum(h, t) == IF t >= h THEN t - h ELSE N + t - h

NoResult == [num |-> 0, err |-> "OK", got |-> 0]

Succ(i) == (i + 1) % N

zcan_buf_rx_full == Succ(tail) = head

\* zcan_to_bcan on the bytes of a slot.
zcan_to_bcan(slot) ==
    [slot EXCEPT !.fmt = IF @ = "zcan" THEN "bcan" ELSE "garbled"]

Init ==
    /\ arrived = 0 /\ taken = 0 /\ devErr = FALSE
    /\ ring = [i \in Slots |-> [id |-> 0, fmt |-> "zcan"]]
    /\ head = 0 /\ tail = 0
    /\ tpc = "idle" /\ left = 0
    /\ rxLock = NoUser /\ usrBuf = NoUser
    /\ usrNum = 0 /\ usrRx = 0 /\ comp = 0
    /\ recvd = FALSE /\ opens = 0
    /\ pc = [u \in Users |-> "idle"]
    /\ req = [u \in Users |-> 1]
    /\ clr = [u \in Users |-> FALSE]
    /\ cur = 0
    /\ ret = [u \in Users |-> "OK"]
    /\ wake = [u \in Users |-> "none"]
    /\ result = [u \in Users |-> NoResult]
    /\ last = [id |-> 0, fmt |-> "bcan"]

-----------------------------------------------------------------------------
(* The device and its environment. *)

\* The frames that the driver has to hold: in the controller, in the ring, and
\* the one being moved from the first to the second.
Backlog == (arrived - taken) + RxNum(head, tail) + (IF tpc = "advance" THEN 1 ELSE 0)

\* The controller accepts a frame from the bus.
FrameArrives ==
    /\ ~devErr
    /\ arrived < MaxMsgs
    /\ Paced => Backlog < N - 1
    /\ arrived' = arrived + 1
    /\ UNCHANGED <<taken, devErr, ringVars, taskVars, usrVars, callVars, libVars, last>>

CardLost ==
    /\ Surprise
    /\ ~devErr
    /\ devErr' = TRUE
    /\ UNCHANGED <<arrived, taken, ringVars, taskVars, usrVars, callVars, libVars, last>>

-----------------------------------------------------------------------------
(* The tasklet: zcan_rx_proc, that is zcan_dma_rx_proc or zcan_pio_rx_proc. *)

\* The interrupt found frames.  DMA mode latches the write pointer of the device
\* once; PIO mode asks for the status before every frame.  A lost card reads as
\* -1, which fails the bounds check of the former and the status check of the
\* latter.
zcan_rx_proc ==
    /\ tpc = "idle"
    /\ taken < arrived
    /\ ~devErr
    /\ tpc' = "loop"
    /\ left' = IF RxDma THEN arrived - taken ELSE 0
    /\ UNCHANGED <<devVars, ringVars, usrVars, callVars, libVars, last>>

MoreFrames == IF RxDma THEN left > 0 ELSE ~devErr /\ taken < arrived

\* The head of the loop, and the test for a full ring: not under the lock.
RxLoop ==
    /\ tpc = "loop"
    /\ tpc' = IF ~MoreFrames THEN "idle"
              ELSE IF zcan_buf_rx_full THEN "drop" ELSE "write"
    /\ UNCHANGED <<devVars, ringVars, left, usrVars, callVars, libVars, last>>

\* Discard the DropNum oldest frames, under the lock.
zcan_buf_inc_rx_head ==
    /\ tpc = "drop"
    /\ rxLock = NoUser
    /\ head' = (head + DropNum) % N
    /\ tpc' = "write"
    /\ UNCHANGED <<devVars, ring, tail, left, usrVars, callVars, libVars, last>>

\* Copy one frame into the slot at the tail.  PIO reads it from registers, which
\* all read as -1 once the card is gone.
RxWrite ==
    /\ tpc = "write"
    /\ ring' = [ring EXCEPT ![tail] =
                  [id |-> taken + 1, fmt |-> IF RxDma \/ ~devErr THEN "zcan" ELSE "garbled"]]
    /\ taken' = taken + 1
    /\ left' = IF RxDma THEN left - 1 ELSE left
    /\ tpc' = "advance"
    /\ UNCHANGED <<arrived, devErr, head, tail, usrVars, callVars, libVars, last>>

\* Publish it: not under the lock.
RxAdvance ==
    /\ tpc = "advance"
    /\ tail' = Succ(tail)
    /\ tpc' = "notify"
    /\ UNCHANGED <<devVars, ring, head, left, usrVars, callVars, libVars, last>>

\* Mutant: completes only when there are more frames than wanted.
zcan_usr_rx_complete_OffByOne ==
    /\ tpc = "notify"
    /\ rxLock = NoUser
    /\ comp' = IF usrBuf # NoUser /\ RxNum(head, tail) > usrNum - usrRx
               THEN comp + 1 ELSE comp
    /\ tpc' = "loop"
    /\ UNCHANGED <<devVars, ringVars, left, rxLock, usrBuf, usrNum, usrRx, callVars, libVars, last>>

\* Complete the waiting receiver if the ring holds all it still wants.
zcan_usr_rx_complete ==
    /\ tpc = "notify"
    /\ rxLock = NoUser
    /\ comp' = IF /\ usrBuf # NoUser
                  /\ RxNum(head, tail) > 0
                  /\ RxNum(head, tail) >= usrNum - usrRx
               THEN comp + 1 ELSE comp
    /\ tpc' = "loop"
    /\ UNCHANGED <<devVars, ringVars, left, rxLock, usrBuf, usrNum, usrRx, callVars, libVars, last>>

-----------------------------------------------------------------------------
(* A receiver: bcan_recv in the library, then the ZYNQ_IOC_CAN_RECV ioctl. *)

\* The first call on a handle asks the driver to flush what is buffered.
bcan_recv(u, n) ==
    /\ pc[u] = "idle"
    /\ req' = [req EXCEPT ![u] = n]
    /\ clr' = [clr EXCEPT ![u] = ~recvd]
    /\ pc' = [pc EXCEPT ![u] = IF recvd THEN "ioctl" ELSE "mark"]
    /\ UNCHANGED <<devVars, ringVars, taskVars, usrVars, cur, ret, wake, result, libVars, last>>

\* Threads that share the handle can get between the test above, the update of
\* the flag, and the flush in the kernel.
MarkReceived(u) ==
    /\ pc[u] = "mark"
    /\ recvd' = TRUE
    /\ pc' = [pc EXCEPT ![u] = "ioctl"]
    /\ UNCHANGED <<devVars, ringVars, taskVars, usrVars, req, clr, cur, ret, wake, result, opens, last>>

\* Mutant: flushes in every call, asked or not.
zcan_clear_buf_rx_Always(u) ==
    /\ pc[u] = "ioctl"
    /\ rxLock = NoUser
    /\ head' = tail
    /\ clr' = [clr EXCEPT ![u] = FALSE]
    /\ pc' = [pc EXCEPT ![u] = "enter"]
    /\ UNCHANGED <<devVars, ring, tail, taskVars, usrVars, req, cur, ret, wake, result, libVars, last>>

\* ZYNQ_IOC_CAN_RECV: flush on request.
zcan_clear_buf_rx(u) ==
    /\ pc[u] = "ioctl"
    /\ clr[u] => rxLock = NoUser
    /\ head' = IF clr[u] THEN tail ELSE head
    /\ clr' = [clr EXCEPT ![u] = FALSE]
    /\ pc' = [pc EXCEPT ![u] = "enter"]
    /\ UNCHANGED <<devVars, ring, tail, taskVars, usrVars, req, cur, ret, wake, result, libVars, last>>

\* The ioctl stores the count n and the error e for the library; g is the number
\* of frames really copied.  The locals of the call are dead from here on.
Report(u, n, e, g) ==
    /\ result' = [result EXCEPT ![u] = [num |-> n, err |-> e, got |-> g]]
    /\ req' = [req EXCEPT ![u] = 1]
    /\ ret' = [ret EXCEPT ![u] = "OK"]
    /\ wake' = [wake EXCEPT ![u] = "none"]
    /\ pc' = [pc EXCEPT ![u] = "return"]

\* The card is gone: the ioctl returns before zcan_rx_user() sets the count, and
\* copies back the one the library never initialised.
RecvDevErr(u) ==
    /\ pc[u] = "enter"
    /\ devErr
    /\ \E n \in 0..MaxReq : Report(u, n, "DEV_ERR", 0)
    /\ UNCHANGED <<devVars, ringVars, taskVars, usrVars, clr, cur, libVars, last>>

\* zcan_rx_user: another receiver owns the channel.
RecvBusy(u) ==
    /\ pc[u] = "enter"
    /\ ~devErr
    /\ rxLock = NoUser
    /\ usrBuf # NoUser
    /\ Report(u, 0, "BUSY", 0)
    /\ UNCHANGED <<devVars, ringVars, taskVars, usrVars, clr, cur, libVars, last>>

\* The end of bcan_recv: the count if it is positive, else the error.
bcan_recv_return(u) ==
    /\ pc[u] = "return"
    /\ result' = [result EXCEPT ![u] = NoResult]
    /\ pc' = [pc EXCEPT ![u] = "idle"]
    /\ UNCHANGED <<devVars, ringVars, taskVars, usrVars, req, clr, cur, ret, wake, libVars, last>>

\* Mutant: the claim of another receiver is not tested.
RecvClaim_NoBusyTest(u) ==
    /\ pc[u] = "enter"
    /\ ~devErr
    /\ rxLock = NoUser
    /\ rxLock' = u
    /\ usrBuf' = u
    /\ usrNum' = req[u]
    /\ cur' = head
    /\ pc' = [pc EXCEPT ![u] = "copy"]
    /\ UNCHANGED <<devVars, ringVars, taskVars, usrRx, comp, req, clr, ret, wake, result, libVars, last>>

\* zcan_rx_user: claim the channel and start to copy what is buffered.
RecvClaim(u) ==
    /\ pc[u] = "enter"
    /\ ~devErr
    /\ rxLock = NoUser
    /\ usrBuf = NoUser
    /\ rxLock' = u
    /\ usrBuf' = u
    /\ usrNum' = req[u]
    /\ cur' = head
    /\ pc' = [pc EXCEPT ![u] = "copy"]
    /\ UNCHANGED <<devVars, ringVars, taskVars, usrRx, comp, req, clr, ret, wake, result, libVars, last>>

\* Mutant: the count of this call is left for the next one.
RecvDone_KeepsCount(u, e) ==
    /\ Report(u, usrRx, e, usrRx)
    /\ usrNum' = 0
    /\ usrBuf' = NoUser
    /\ rxLock' = NoUser
    /\ UNCHANGED <<usrRx, comp>>

\* Mutant: returns with the lock held.
RecvDone_KeepsLock(u, e) ==
    /\ Report(u, usrRx, e, usrRx)
    /\ usrRx' = 0
    /\ usrNum' = 0
    /\ usrBuf' = NoUser
    /\ UNCHANGED <<rxLock, comp>>

\* done: report the count, give up the claim and the lock.
RecvDone(u, e) ==
    /\ Report(u, usrRx, e, usrRx)
    /\ usrRx' = 0
    /\ usrNum' = 0
    /\ usrBuf' = NoUser
    /\ rxLock' = NoUser
    /\ UNCHANGED comp

\* Not enough on the first attempt: forget old completions and sleep.
RecvSleep(u, r) ==
    /\ comp' = 0
    /\ rxLock' = NoUser
    /\ ret' = [ret EXCEPT ![u] = r]
    /\ pc' = [pc EXCEPT ![u] = "wait"]
    /\ UNCHANGED <<usrRx, usrNum, usrBuf, req, wake, result>>

\* How zcan_rx_user goes on after zcan_copy_to_user returned r.
AfterCopy(u, r) ==
    \/ r = "OK" /\ RecvDone(u, "OK")
    \/ r # "OK" /\ wake[u] = "none" /\ RecvSleep(u, r)
    \/ r = "FAIL" /\ wake[u] # "none" /\ RecvDone(u, "FAIL")
    \/ r = "PARTIAL" /\ wake[u] = "woken" /\ RecvDone(u, "ERR")
    \/ r = "PARTIAL" /\ wake[u] = "timeout" /\ RecvDone(u, "TIMEOUT")

\* Mutant: copies the frame before converting it.
CopyOne_NotConverted(u) ==
    /\ pc[u] = "copy"
    /\ usrRx < usrNum
    /\ cur # tail
    /\ ring' = [ring EXCEPT ![cur] = zcan_to_bcan(@)]
    /\ last' = ring[cur]
    /\ usrRx' = usrRx + 1
    /\ cur' = Succ(cur)
    /\ UNCHANGED <<devVars, head, tail, taskVars, rxLock, usrBuf, usrNum, comp, pc, req, clr, ret,
                   wake, result, libVars>>

\* zcan_copy_to_user: one frame.  The slot is rewritten before it is copied.
CopyOne(u) ==
    /\ pc[u] = "copy"
    /\ usrRx < usrNum
    /\ cur # tail
    /\ ring' = [ring EXCEPT ![cur] = zcan_to_bcan(@)]
    /\ last' = ring'[cur]
    /\ usrRx' = usrRx + 1
    /\ cur' = Succ(cur)
    /\ UNCHANGED <<devVars, head, tail, taskVars, rxLock, usrBuf, usrNum, comp, pc, req, clr, ret,
                   wake, result, libVars>>

\* copy_to_user() failed: the frame stays in the ring, already rewritten.
CopyFault(u) ==
    /\ CopyFaults
    /\ pc[u] = "copy"
    /\ usrRx < usrNum
    /\ cur # tail
    /\ ring' = [ring EXCEPT ![cur] = zcan_to_bcan(@)]
    /\ head' = cur
    /\ AfterCopy(u, "FAIL")
    /\ cur' = 0
    /\ UNCHANGED <<devVars, tail, taskVars, clr, libVars, last>>

\* The loop is over: the head moves only now.
CopyEnd(u) ==
    /\ pc[u] = "copy"
    /\ usrRx = usrNum \/ cur = tail
    /\ head' = cur
    /\ AfterCopy(u, IF usrRx < usrNum THEN "PARTIAL" ELSE "OK")
    /\ cur' = 0
    /\ UNCHANGED <<devVars, ring, tail, taskVars, clr, libVars, last>>

\* wait_for_completion_interruptible_timeout.
WaitReturns(u, how) ==
    /\ pc[u] = "wait"
    /\ \/ how = "woken" /\ comp > 0 /\ comp' = comp - 1
       \/ how = "timeout" /\ comp = 0 /\ comp' = comp
       \/ how = "intr" /\ comp' = IF comp > 0 THEN comp - 1 ELSE comp
    /\ wake' = [wake EXCEPT ![u] = how]
    /\ pc' = [pc EXCEPT ![u] = "relock"]
    /\ UNCHANGED <<devVars, ringVars, taskVars, rxLock, usrBuf, usrNum, usrRx, req, clr, cur, ret,
                   result, libVars, last>>

\* Awake again: copy the new frames, or give up if a signal came.
RecvRelock(u) ==
    /\ pc[u] = "relock"
    /\ rxLock = NoUser
    /\ \/ /\ wake[u] = "intr"
          /\ RecvDone(u, "ERR")
          /\ UNCHANGED cur
       \/ /\ wake[u] # "intr"
          /\ rxLock' = u
          /\ cur' = head
          /\ pc' = [pc EXCEPT ![u] = "copy"]
          /\ UNCHANGED <<usrBuf, usrNum, usrRx, comp, req, ret, wake, result>>
    /\ UNCHANGED <<devVars, ringVars, taskVars, clr, libVars, last>>

\* bcan_close and bcan_open by the only owner of the handle: the new handle has
\* not received anything, the ring keeps its frames.
Reopen ==
    /\ opens < MaxOpens
    /\ \A u \in Users : pc[u] = "idle"
    /\ opens' = opens + 1
    /\ recvd' = FALSE
    /\ UNCHANGED <<devVars, ringVars, taskVars, usrVars, callVars, last>>

-----------------------------------------------------------------------------

Tasklet ==
    \/ zcan_rx_proc \/ RxLoop \/ zcan_buf_inc_rx_head
    \/ RxWrite \/ RxAdvance \/ zcan_usr_rx_complete

\* The steps of a receiver inside its call.
Receive(u) ==
    \/ MarkReceived(u) \/ zcan_clear_buf_rx(u)
    \/ RecvDevErr(u) \/ RecvBusy(u) \/ RecvClaim(u)
    \/ CopyOne(u) \/ CopyFault(u) \/ CopyEnd(u)
    \/ WaitReturns(u, "woken")
    \/ RecvRelock(u)
    \/ bcan_recv_return(u)

Next ==
    \/ FrameArrives
    \/ CardLost
    \/ Tasklet
    \/ \E u \in Users : \/ \E n \in 1..MaxReq : bcan_recv(u, n)
                        \/ Receive(u)
                        \/ \E how \in {"timeout", "intr"} : WaitReturns(u, how)
    \/ Reopen

Spec == Init /\ [][Next]_vars

\* Softirqs run; a thread inside its call is scheduled, and the queued spinlock
\* serves it in turn (hence strong fairness).  Signals, frames and new calls are
\* up to the environment, and timeouts are not counted on.
Fairness == SF_vars(Tasklet) /\ \A u \in Users : SF_vars(Receive(u))

FairSpec == Spec /\ Fairness

-----------------------------------------------------------------------------
(* Properties. *)

Frames == [id : Nat, fmt : Formats]

DevType ==
    /\ arrived \in Nat /\ taken \in Nat /\ opens \in Nat
    /\ tpc \in {"idle", "loop", "drop", "write", "advance", "notify"}
    /\ left \in Nat

FlagType ==
    /\ devErr \in BOOLEAN /\ recvd \in BOOLEAN
    /\ clr \in [Users -> BOOLEAN]

RingType ==
    /\ ring \in [Slots -> Frames] /\ last \in Frames
    /\ head \in Slots /\ tail \in Slots /\ cur \in Slots

UsrType ==
    /\ rxLock \in Users \cup {NoUser} /\ usrBuf \in Users \cup {NoUser}
    /\ usrNum \in 0..MaxReq /\ usrRx \in 0..usrNum
    /\ comp \in Nat

CallType ==
    /\ pc \in [Users -> {"idle", "mark", "ioctl", "enter", "copy", "wait", "relock", "return"}]
    /\ req \in [Users -> 1..MaxReq]
    /\ ret \in [Users -> Codes]
    /\ wake \in [Users -> {"none", "woken", "timeout", "intr"}]
    /\ result \in [Users -> [num : 0..MaxReq, err : Codes, got : 0..MaxReq]]

TypeOK == DevType /\ FlagType /\ RingType /\ UsrType /\ CallType

\* A receiver that is between claiming the channel and giving it up.
Engaged(u) == pc[u] \in {"copy", "wait", "relock"}

\* zcan_rx_user gives up the lock while it sleeps; only zcan_usr_buf keeps other
\* threads from taking over its buffer and its counters.  The claim belongs to
\* exactly the thread that is engaged, the lock to the one that copies, and an
\* unclaimed channel has no counters left from the last receiver.
ExclusiveReceiver ==
    /\ \A u \in Users : Engaged(u) <=> usrBuf = u
    /\ \A u \in Users : pc[u] = "copy" <=> rxLock = u
    /\ usrBuf = NoUser => usrNum = 0 /\ usrRx = 0

\* The test of the ring in zcan_copy_to_user and the sleep of zcan_rx_user are
\* not atomic with the tasklet's zcan_buf_rx_tail update, which takes no lock.
\* Still no wake-up is lost: when the ring holds all that a sleeping receiver
\* wants, a completion is posted or the tasklet is on its way to test again.
NoLostWakeup ==
    \A u \in Users :
        /\ pc[u] = "wait"
        /\ ret[u] = "PARTIAL"
        /\ RxNum(head, tail) >= usrNum - usrRx
        => comp > 0 \/ tpc \in {"write", "advance", "notify"}

\* No frame is handed to the application in the layout of the hardware, or
\* converted twice: holds as long as the ring does not overflow and
\* copy_to_user() does not fail.
DeliveredIntact == last.fmt = "bcan"

Flatten(lo, hi) == [i \in 1..(hi - lo) |-> lo + i]

\* The frames in the ring from position h to the tail.
Buffered(h) == [i \in 1..RxNum(h, tail) |-> ring[(h + i - 1) % N].id]

\* Every frame that is neither delivered nor discarded, oldest first.
Pending ==
    Buffered(IF rxLock # NoUser THEN cur ELSE head)
    \o (IF tpc = "advance" THEN <<taken>> ELSE <<>>)
    \o Flatten(taken, arrived)

Fifo == INSTANCE CanRxFifo WITH
    Callers <- Users, accepted <- arrived, pending <- Pending,
    last <- last.id, asked <- clr

\* When the bus does not outrun the receivers, ring, tasklet, claims and flushes
\* together are a FIFO: frames come out in order, each once, and none is lost but
\* by zcan_clear_buf_rx(), in the step that does what the first bcan_recv() on a
\* handle asked for, and then the oldest ones.
ImplementsFifo == Fifo!FifoSpec

\* The sleeping receiver finds in the ring all that it still wants.
Enough == RxNum(head, tail) >= usrNum - usrRx

\* Every bcan_recv() returns, or sleeps because the frames it wants are missing:
\* zcan_pio_rx_lock is never left held and no call spins, whatever another thread
\* does.
CallProgress ==
    \A u \in Users : pc[u] # "idle" ~> pc[u] = "idle" \/ (pc[u] = "wait" /\ ~Enough)

\* A sleeping receiver whose frames stay in the ring is woken without the help of
\* its timeout.
EnoughWakes ==
    \A u \in Users : pc[u] = "wait" /\ Enough ~> pc[u] # "wait" \/ ~Enough

\* bcan_recv() makes progress, whoever has the lock and whoever sleeps.
ReceiversProgress == CallProgress /\ EnoughWakes

-----------------------------------------------------------------------------
(* What the documentation and the comments say, and the code does not do. *)

\* The comment on the call of zcan_buf_inc_rx_head: "if full, free some buffer by
\* increasing the rx_head".
DropFreesBuffer ==
    [][tpc = "drop" /\ tpc' = "write" => RxNum(head', tail') < RxNum(head, tail)]_vars

\* Baidu_CAN_APIs.txt 3.1: the return value is the number of messages received,
\* or an error code.
CountIsReal == \A u \in Users : result[u].num = result[u].got
=============================================================================
