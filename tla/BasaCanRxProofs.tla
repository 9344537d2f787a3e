--------------------------- MODULE BasaCanRxProofs ---------------------------
(***************************************************************************)
(* Proofs about the CAN receive path, for any number of threads, any ring  *)
(* size, any request size and any pace of the bus.                         *)
(***************************************************************************)
EXTENDS BasaCanRx, SequenceTheorems, TLAPS

\* The DMA loop copies a frame only while its count is positive.
RunCounted == RxDma /\ tpc \in {"drop", "write"} => left > 0

\* A receiver that sleeps for want of frames still wants some: with none left to
\* want, zcan_copy_to_user would have returned BCAN_OK.
SleeperWants ==
    \A u \in Users : pc[u] = "wait" /\ ret[u] = "PARTIAL" => usrRx < usrNum

IInv == TypeOK /\ RunCounted /\ ExclusiveReceiver /\ SleeperWants /\ NoLostWakeup

\* Arithmetic of the ring: an index that is advanced stays in the ring.
LEMMA ModInRing == ASSUME NEW a \in Nat PROVE a % N \in Slots
BY RingAssumption DEF Slots

\* An empty ring has no frames, whatever its position.
LEMMA EmptyRing == ASSUME NEW h \in Slots PROVE RxNum(h, h) = 0
BY RingAssumption DEF RxNum, Slots

\* The freshly initialised channel satisfies the invariant.
LEMMA InitIInv == Init => IInv
<1> SUFFICES ASSUME Init PROVE IInv
  OBVIOUS
<1> USE NoUserAssumption, RingAssumption, RequestAssumption DEF Init
<1>1. FlagType
  BY Zenon DEF FlagType
<1>2. DevType /\ UsrType
  BY DEF DevType, UsrType
<1>3. RingType /\ CallType
  BY DEF RingType, Slots, Frames, Formats, CallType, Codes, NoResult
<1>4. RunCounted /\ ExclusiveReceiver /\ SleeperWants /\ NoLostWakeup
  BY DEF RunCounted, ExclusiveReceiver, SleeperWants, NoLostWakeup, Engaged
<1> QED BY <1>1, <1>2, <1>3, <1>4 DEF IInv, TypeOK

\* Boolean variables stay Boolean (apart from the rest: the SMT backend is weak on them).
LEMMA StepFlag == FlagType /\ [Next]_vars => FlagType'
<1> SUFFICES ASSUME FlagType, [Next]_vars PROVE FlagType'
  OBVIOUS
<1> USE DEF FlagType, vars, devVars, ringVars, taskVars, usrVars, callVars, libVars
<1>1. CASE FrameArrives \/ CardLost \/ Reopen
  BY <1>1, Zenon DEF FrameArrives, CardLost, Reopen
<1>2. CASE Tasklet
  BY <1>2, Zenon DEF Tasklet, zcan_rx_proc, RxLoop, zcan_buf_inc_rx_head, RxWrite, RxAdvance,
                     zcan_usr_rx_complete
<1>3. ASSUME NEW u \in Users, NEW n \in 1..MaxReq, bcan_recv(u, n) PROVE FlagType'
  BY <1>3, Zenon DEF bcan_recv
<1>4. ASSUME NEW u \in Users, Receive(u) PROVE FlagType'
  <2>1. CASE MarkReceived(u) \/ zcan_clear_buf_rx(u) \/ RecvDevErr(u) \/ RecvBusy(u) \/ RecvClaim(u)
    BY <2>1, Zenon DEF MarkReceived, zcan_clear_buf_rx, RecvDevErr, RecvBusy, RecvClaim
  <2>2. CASE CopyOne(u) \/ CopyFault(u) \/ CopyEnd(u)
    BY <2>2, Zenon DEF CopyOne, CopyFault, CopyEnd
  <2>3. CASE WaitReturns(u, "woken") \/ RecvRelock(u) \/ bcan_recv_return(u)
    BY <2>3, Zenon DEF WaitReturns, RecvRelock, bcan_recv_return
  <2> QED BY <1>4, <2>1, <2>2, <2>3 DEF Receive
<1>5. ASSUME NEW u \in Users, NEW how \in {"timeout", "intr"}, WaitReturns(u, how) PROVE FlagType'
  BY <1>5, Zenon DEF WaitReturns
<1>6. CASE UNCHANGED vars
  BY <1>6, Zenon
<1> QED BY <1>1, <1>2, <1>3, <1>4, <1>5, <1>6 DEF Next

\* The counters of the device and of the tasklet stay natural: a DMA run never copies
\* more frames than it latched.
LEMMA StepDev == DevType /\ RunCounted /\ [Next]_vars => DevType' /\ RunCounted'
<1> SUFFICES ASSUME DevType, RunCounted, [Next]_vars PROVE DevType' /\ RunCounted'
  OBVIOUS
<1> USE DEF DevType, RunCounted, vars, devVars, ringVars, taskVars, usrVars, callVars, libVars
<1>1. CASE FrameArrives \/ CardLost \/ Reopen
  BY <1>1 DEF FrameArrives, CardLost, Reopen
<1>2. CASE Tasklet
  BY <1>2 DEF Tasklet, zcan_rx_proc, RxLoop, zcan_buf_inc_rx_head, RxWrite, RxAdvance,
              zcan_usr_rx_complete, MoreFrames
<1>3. ASSUME NEW u \in Users, NEW n \in 1..MaxReq, bcan_recv(u, n) PROVE DevType' /\ RunCounted'
  BY <1>3 DEF bcan_recv
<1>4. ASSUME NEW u \in Users, Receive(u) PROVE DevType' /\ RunCounted'
  BY <1>4 DEF Receive, MarkReceived, zcan_clear_buf_rx, RecvDevErr, RecvBusy, RecvClaim, CopyOne,
              CopyFault, CopyEnd, WaitReturns, RecvRelock, bcan_recv_return
<1>5. ASSUME NEW u \in Users, NEW how \in {"timeout", "intr"}, WaitReturns(u, how)
      PROVE DevType' /\ RunCounted'
  BY <1>5 DEF WaitReturns
<1>6. CASE UNCHANGED vars
  BY <1>6
<1> QED BY <1>1, <1>2, <1>3, <1>4, <1>5, <1>6 DEF Next

\* Indices stay in the ring and its slots hold frames.
LEMMA StepRing == RingType /\ DevType /\ [Next]_vars => RingType'
<1> SUFFICES ASSUME RingType, DevType, [Next]_vars PROVE RingType'
  OBVIOUS
<1> USE DEF RingType, vars, devVars, ringVars, taskVars, usrVars, callVars, libVars
<1>0. \A i \in Slots : Succ(i) \in Slots /\ (i + DropNum) % N \in Slots
  <2> SUFFICES ASSUME NEW i \in Slots PROVE Succ(i) \in Slots /\ (i + DropNum) % N \in Slots
    OBVIOUS
  <2>1. i + 1 \in Nat /\ i + DropNum \in Nat
    BY RingAssumption DEF Slots
  <2> QED BY <2>1, ModInRing DEF Succ
<1>a. 0 \in Slots
  BY RingAssumption DEF Slots
<1>b. \A s \in Frames : zcan_to_bcan(s) \in Frames
  BY DEF Frames, Formats, zcan_to_bcan
<1>1. CASE FrameArrives \/ CardLost \/ Reopen
  BY <1>1 DEF FrameArrives, CardLost, Reopen
<1>2. CASE Tasklet
  <2>1. CASE zcan_rx_proc \/ RxLoop \/ zcan_usr_rx_complete
    BY <2>1 DEF zcan_rx_proc, RxLoop, zcan_usr_rx_complete
  <2>2. CASE zcan_buf_inc_rx_head \/ RxAdvance
    BY <2>2, <1>0 DEF zcan_buf_inc_rx_head, RxAdvance
  <2>3. CASE RxWrite
    BY <2>3 DEF RxWrite, DevType, Frames, Formats
  <2> QED BY <1>2, <2>1, <2>2, <2>3 DEF Tasklet
<1>3. ASSUME NEW u \in Users, NEW n \in 1..MaxReq, bcan_recv(u, n) PROVE RingType'
  BY <1>3 DEF bcan_recv
<1>4. ASSUME NEW u \in Users, Receive(u) PROVE RingType'
  <2>1. CASE MarkReceived(u) \/ zcan_clear_buf_rx(u) \/ RecvDevErr(u) \/ RecvBusy(u) \/ RecvClaim(u)
    BY <2>1 DEF MarkReceived, zcan_clear_buf_rx, RecvDevErr, RecvBusy, RecvClaim
  <2>2. CASE CopyOne(u)
    BY <2>2, <1>0, <1>b DEF CopyOne
  <2>3. CASE CopyFault(u) \/ CopyEnd(u)
    BY <2>3, <1>a, <1>b DEF CopyFault, CopyEnd
  <2>4. CASE WaitReturns(u, "woken") \/ RecvRelock(u) \/ bcan_recv_return(u)
    BY <2>4 DEF WaitReturns, RecvRelock, bcan_recv_return
  <2> QED BY <1>4, <2>1, <2>2, <2>3, <2>4 DEF Receive
<1>5. ASSUME NEW u \in Users, NEW how \in {"timeout", "intr"}, WaitReturns(u, how) PROVE RingType'
  BY <1>5 DEF WaitReturns
<1>6. CASE UNCHANGED vars
  BY <1>6
<1> QED BY <1>1, <1>2, <1>3, <1>4, <1>5, <1>6 DEF Next

\* The counters of the claim stay in range: a receiver never gets more than it asked
\* for.
LEMMA StepUsr ==
    UsrType /\ CallType /\ ExclusiveReceiver /\ [Next]_vars => UsrType' /\ CallType'
<1> SUFFICES ASSUME UsrType, CallType, ExclusiveReceiver, [Next]_vars PROVE UsrType' /\ CallType'
  OBVIOUS
<1> USE RequestAssumption, NoUserAssumption
    DEF UsrType, CallType, vars, devVars, ringVars, taskVars, usrVars, callVars, libVars
<1>r. ASSUME NEW u \in Users, NEW n \in 0..MaxReq, NEW e \in Codes, NEW g \in 0..MaxReq,
             Report(u, n, e, g)
      PROVE  CallType'
  BY <1>r DEF Report, Codes
<1>0. ASSUME NEW u \in Users, NEW e \in Codes, RecvDone(u, e) PROVE UsrType' /\ CallType'
  BY <1>0 DEF RecvDone, Report, Codes
<1>a. ASSUME NEW u \in Users, NEW r \in Codes, RecvSleep(u, r) PROVE UsrType' /\ CallType'
  BY <1>a DEF RecvSleep
<1>b. ASSUME NEW u \in Users, NEW r \in Codes, AfterCopy(u, r) PROVE UsrType' /\ CallType'
  BY <1>0, <1>a, <1>b DEF AfterCopy, Codes
<1>1. CASE FrameArrives \/ CardLost \/ Reopen
  BY <1>1 DEF FrameArrives, CardLost, Reopen
<1>2. CASE Tasklet
  BY <1>2 DEF Tasklet, zcan_rx_proc, RxLoop, zcan_buf_inc_rx_head, RxWrite, RxAdvance,
              zcan_usr_rx_complete
<1>3. ASSUME NEW u \in Users, NEW n \in 1..MaxReq, bcan_recv(u, n) PROVE UsrType' /\ CallType'
  BY <1>3 DEF bcan_recv
<1>4. ASSUME NEW u \in Users, Receive(u) PROVE UsrType' /\ CallType'
  <2>1. CASE MarkReceived(u) \/ zcan_clear_buf_rx(u)
    BY <2>1 DEF MarkReceived, zcan_clear_buf_rx
  <2>2. CASE RecvDevErr(u) \/ RecvBusy(u)
    <3>1. PICK n \in 0..MaxReq, e \in Codes : Report(u, n, e, 0)
      BY <2>2 DEF RecvDevErr, RecvBusy, Codes
    <3>2. UNCHANGED usrVars
      BY <2>2, Zenon DEF RecvDevErr, RecvBusy
    <3>3. 0 \in 0..MaxReq
      OBVIOUS
    <3>4. CallType'
      BY <3>1, <3>3, <1>r, Zenon
    <3> QED BY <3>2, <3>4
  <2>3. CASE RecvClaim(u)
    BY <2>3 DEF RecvClaim, ExclusiveReceiver
  <2>4. CASE CopyOne(u)
    BY <2>4 DEF CopyOne
  <2>5. CASE CopyFault(u) \/ CopyEnd(u)
    BY <2>5, <1>b DEF CopyFault, CopyEnd, Codes
  <2>6. CASE WaitReturns(u, "woken")
    BY <2>6 DEF WaitReturns
  <2>7. CASE RecvRelock(u)
    BY <2>7, <1>0 DEF RecvRelock, Codes
  <2>8. CASE bcan_recv_return(u)
    BY <2>8 DEF bcan_recv_return, NoResult, Codes
  <2> QED BY <1>4, <2>1, <2>2, <2>3, <2>4, <2>5, <2>6, <2>7, <2>8 DEF Receive
<1>5. ASSUME NEW u \in Users, NEW how \in {"timeout", "intr"}, WaitReturns(u, how)
      PROVE UsrType' /\ CallType'
  BY <1>5 DEF WaitReturns
<1>6. CASE UNCHANGED vars
  BY <1>6
<1> QED BY <1>1, <1>2, <1>3, <1>4, <1>5, <1>6 DEF Next

\* Claim and lock stay with the receiver that is engaged.
LEMMA StepExclusive ==
    UsrType /\ CallType /\ ExclusiveReceiver /\ [Next]_vars => ExclusiveReceiver'
<1> SUFFICES ASSUME UsrType, CallType, ExclusiveReceiver, [Next]_vars PROVE ExclusiveReceiver'
  OBVIOUS
<1> USE NoUserAssumption
    DEF UsrType, CallType, ExclusiveReceiver, Engaged,
        vars, devVars, ringVars, taskVars, usrVars, callVars, libVars
<1>0. ASSUME NEW u \in Users, NEW e \in Codes, RecvDone(u, e), usrBuf = u,
             pc[u] = "copy" \/ rxLock = NoUser
      PROVE  ExclusiveReceiver'
  BY <1>0 DEF RecvDone, Report
<1>a. ASSUME NEW u \in Users, NEW r \in Codes, RecvSleep(u, r), pc[u] = "copy"
      PROVE  ExclusiveReceiver'
  BY <1>a DEF RecvSleep
<1>b. ASSUME NEW u \in Users, NEW r \in Codes, AfterCopy(u, r), pc[u] = "copy"
      PROVE  ExclusiveReceiver'
  BY <1>0, <1>a, <1>b DEF AfterCopy, Codes
<1>1. CASE FrameArrives \/ CardLost \/ Reopen
  BY <1>1 DEF FrameArrives, CardLost, Reopen
<1>2. CASE Tasklet
  BY <1>2 DEF Tasklet, zcan_rx_proc, RxLoop, zcan_buf_inc_rx_head, RxWrite, RxAdvance,
              zcan_usr_rx_complete
<1>3. ASSUME NEW u \in Users, NEW n \in 1..MaxReq, bcan_recv(u, n) PROVE ExclusiveReceiver'
  BY <1>3 DEF bcan_recv
<1>4. ASSUME NEW u \in Users, Receive(u) PROVE ExclusiveReceiver'
  <2>1. CASE MarkReceived(u) \/ zcan_clear_buf_rx(u)
    BY <2>1 DEF MarkReceived, zcan_clear_buf_rx
  <2>2. CASE RecvDevErr(u)
    BY <2>2 DEF RecvDevErr, Report
  <2>3. CASE RecvBusy(u)
    BY <2>3 DEF RecvBusy, Report
  <2>4. CASE RecvClaim(u)
    BY <2>4 DEF RecvClaim
  <2>5. CASE CopyOne(u)
    BY <2>5 DEF CopyOne
  <2>6. CASE CopyFault(u) \/ CopyEnd(u)
    BY <2>6, <1>b DEF CopyFault, CopyEnd, Codes
  <2>7. CASE WaitReturns(u, "woken")
    BY <2>7 DEF WaitReturns
  <2>8. CASE RecvRelock(u)
    <3>1. CASE wake[u] = "intr"
      BY <2>8, <3>1, <1>0 DEF RecvRelock, Codes
    <3>2. CASE wake[u] # "intr"
      BY <2>8, <3>2 DEF RecvRelock
    <3> QED BY <3>1, <3>2
  <2>9. CASE bcan_recv_return(u)
    BY <2>9 DEF bcan_recv_return
  <2> QED BY <1>4, <2>1, <2>2, <2>3, <2>4, <2>5, <2>6, <2>7, <2>8, <2>9 DEF Receive
<1>5. ASSUME NEW u \in Users, NEW how \in {"timeout", "intr"}, WaitReturns(u, how)
      PROVE ExclusiveReceiver'
  BY <1>5 DEF WaitReturns
<1>6. CASE UNCHANGED vars
  BY <1>6
<1> QED BY <1>1, <1>2, <1>3, <1>4, <1>5, <1>6 DEF Next

\* Nobody else sleeps while u holds the claim, so what u does to the counters and
\* the completion concerns only u.
LEMMA StepWakeup == IInv /\ [Next]_vars => SleeperWants' /\ NoLostWakeup'
<1> SUFFICES ASSUME IInv, [Next]_vars PROVE SleeperWants' /\ NoLostWakeup'
  OBVIOUS
<1> USE NoUserAssumption
    DEF IInv, TypeOK, DevType, UsrType, CallType, ExclusiveReceiver, Engaged, SleeperWants,
        NoLostWakeup, vars, devVars, ringVars, taskVars, usrVars, callVars, libVars
<1>0. ASSUME NEW u \in Users, NEW e \in Codes, RecvDone(u, e), usrBuf = u
      PROVE  SleeperWants' /\ NoLostWakeup'
  BY <1>0 DEF RecvDone, Report
<1>1. CASE FrameArrives \/ CardLost \/ Reopen
  BY <1>1 DEF FrameArrives, CardLost, Reopen
<1>2. CASE Tasklet
  <2>1. CASE zcan_rx_proc \/ RxLoop
    BY <2>1 DEF zcan_rx_proc, RxLoop
  <2>2. CASE zcan_buf_inc_rx_head \/ RxWrite \/ RxAdvance
    BY <2>2 DEF zcan_buf_inc_rx_head, RxWrite, RxAdvance
  <2>3. CASE zcan_usr_rx_complete
    <3> SUFFICES ASSUME NEW u \in Users, pc[u] = "wait", ret[u] = "PARTIAL",
                        RxNum(head, tail) >= usrNum - usrRx
                 PROVE  comp' > 0
      BY <2>3 DEF zcan_usr_rx_complete, RxNum
    <3>1. usrBuf # NoUser /\ usrRx < usrNum
      OBVIOUS
    <3>2. RxNum(head, tail) > 0
      BY <3>1, RingAssumption DEF RxNum, RingType, Slots
    <3> QED BY <2>3, <3>1, <3>2 DEF zcan_usr_rx_complete
  <2> QED BY <1>2, <2>1, <2>2, <2>3 DEF Tasklet
<1>3. ASSUME NEW u \in Users, NEW n \in 1..MaxReq, bcan_recv(u, n)
      PROVE  SleeperWants' /\ NoLostWakeup'
  BY <1>3 DEF bcan_recv
<1>4. ASSUME NEW u \in Users, Receive(u) PROVE SleeperWants' /\ NoLostWakeup'
  <2>1. CASE MarkReceived(u)
    BY <2>1 DEF MarkReceived
  <2>2. CASE zcan_clear_buf_rx(u)
    <3>1. CASE head' = head
      BY <2>2, <3>1 DEF zcan_clear_buf_rx
    <3>2. CASE head' = tail
      <4>1. RxNum(head', tail') = 0
        BY <2>2, <3>2, EmptyRing DEF zcan_clear_buf_rx, RingType
      <4> QED BY <2>2, <4>1 DEF zcan_clear_buf_rx
    <3> QED BY <2>2, <3>1, <3>2 DEF zcan_clear_buf_rx
  <2>3. CASE RecvDevErr(u)
    BY <2>3 DEF RecvDevErr, Report
  <2>4. CASE RecvBusy(u)
    BY <2>4 DEF RecvBusy, Report
  <2>5. CASE RecvClaim(u)
    BY <2>5 DEF RecvClaim
  <2>6. CASE CopyOne(u)
    BY <2>6 DEF CopyOne
  <2>7. CASE CopyFault(u)
    <3>1. CASE RecvSleep(u, "FAIL")
      BY <2>7, <3>1 DEF CopyFault, RecvSleep, Codes
    <3> QED BY <2>7, <3>1, <1>0 DEF CopyFault, AfterCopy, Codes
  <2>8. CASE CopyEnd(u)
    <3>1. CASE RecvSleep(u, "PARTIAL") /\ usrRx < usrNum
      <4>1. RxNum(head', tail') = 0
        BY <2>8, <3>1, EmptyRing DEF CopyEnd, RingType
      <4> QED BY <2>8, <3>1, <4>1 DEF CopyEnd, RecvSleep, Codes
    <3> QED BY <2>8, <3>1, <1>0 DEF CopyEnd, AfterCopy, Codes
  <2>9. CASE WaitReturns(u, "woken") \/ RecvRelock(u) \/ bcan_recv_return(u)
    BY <2>9, <1>0 DEF WaitReturns, RecvRelock, bcan_recv_return, Codes
  <2> QED BY <1>4, <2>1, <2>2, <2>3, <2>4, <2>5, <2>6, <2>7, <2>8, <2>9 DEF Receive
<1>5. ASSUME NEW u \in Users, NEW how \in {"timeout", "intr"}, WaitReturns(u, how)
      PROVE  SleeperWants' /\ NoLostWakeup'
  BY <1>5 DEF WaitReturns
<1>6. CASE UNCHANGED vars
  BY <1>6
<1> QED BY <1>1, <1>2, <1>3, <1>4, <1>5, <1>6 DEF Next

\* The invariant is inductive.
THEOREM Invariance == Spec => []IInv
<1>1. IInv /\ [Next]_vars => IInv'
  BY StepFlag, StepDev, StepRing, StepUsr, StepExclusive, StepWakeup DEF IInv, TypeOK
<1> QED BY InitIInv, <1>1, PTL DEF Spec

\* The variables keep their types: indices stay in the ring, and the count of a
\* call never exceeds its request.
THEOREM TypeCorrect == Spec => []TypeOK
<1>1. IInv => TypeOK
  BY DEF IInv
<1> QED BY Invariance, <1>1, PTL

\* zcan_usr_buf works as a lock that survives the sleep of its holder.
THEOREM OneReceiver == Spec => []ExclusiveReceiver
<1>1. IInv => ExclusiveReceiver
  BY DEF IInv
<1> QED BY Invariance, <1>1, PTL

\* No wake-up is lost between the unlocked ring and the sleeping receiver.
THEOREM WakeupKept == Spec => []NoLostWakeup
<1>1. IInv => NoLostWakeup
  BY DEF IInv
<1> QED BY Invariance, <1>1, PTL

-----------------------------------------------------------------------------
(***************************************************************************)
(* The receive path is a FIFO while the bus does not outrun the receivers: *)
(* every frame is delivered in order, once and in the layout of the        *)
(* library, for any ring, any number of threads and both ways to fetch     *)
(* frames.                                                                 *)
(***************************************************************************)

\* The environment under which the promise is made: the run CanRxOverload shows
\* what becomes of it without.
Quiet == Paced /\ ~CopyFaults /\ ~Surprise

\* The position of the next frame to deliver.
Front == IF rxLock # NoUser THEN cur ELSE head

\* The number of the newest frame that is published in the ring.
Filed == IF tpc = "advance" THEN taken - 1 ELSE taken

\* The tasklet fetches only frames that arrived, and finds the ring full never.
Fetching ==
    /\ ~devErr
    /\ taken <= arrived
    /\ RxDma => left <= arrived - taken
    /\ tpc = "write" => taken < arrived
    /\ tpc = "advance" => taken > 0
    /\ tpc # "drop"

\* What has to be held fits in the ring, and a receiver at work is between the
\* head and the tail.
Fits ==
    /\ Backlog <= N - 1
    /\ RxNum(Front, tail) <= RxNum(head, tail)
    /\ RxNum(head, tail) <= Filed

\* The slots from the front to the tail hold the newest frames, in the order of
\* their arrival and in the layout of the hardware.
InOrder ==
    /\ \A i \in Slots :
          RxNum(i, tail) \in 1..RxNum(Front, tail)
          => ring[i].id = Filed + 1 - RxNum(i, tail) /\ ring[i].fmt = "zcan"
    /\ tpc = "advance" => ring[tail].id = taken /\ ring[tail].fmt = "zcan"

FifoInv == Fetching /\ Fits /\ InOrder /\ DeliveredIntact

-----------------------------------------------------------------------------
(* Distances in the ring. *)

\* Positions and distances stay in the ring.
LEMMA InRing ==
    ASSUME NEW i \in Slots, NEW j \in Slots
    PROVE  Succ(i) \in Slots /\ RxNum(i, j) \in Slots
BY RingAssumption DEF Slots, Succ, RxNum

\* The tail that moves on is one further from every position but its own.
LEMMA TailMoves ==
    ASSUME NEW i \in Slots, NEW t \in Slots, Succ(t) # i
    PROVE  RxNum(i, Succ(t)) = RxNum(i, t) + 1
BY RingAssumption DEF Slots, Succ, RxNum

\* A tail that is further than the ring is long has come back to where it was.
LEMMA RoomLeft ==
    ASSUME NEW i \in Slots, NEW t \in Slots, RxNum(i, t) < N - 1
    PROVE  Succ(t) # i
BY RingAssumption DEF Slots, Succ, RxNum

\* The front that moves on is one nearer to the tail.
LEMMA FrontMoves ==
    ASSUME NEW i \in Slots, NEW t \in Slots, i # t
    PROVE  RxNum(i, t) >= 1 /\ RxNum(Succ(i), t) = RxNum(i, t) - 1
BY RingAssumption DEF Slots, Succ, RxNum

\* A slot is told by its distance from the tail.
LEMMA SameDistance ==
    ASSUME NEW i \in Slots, NEW j \in Slots, NEW t \in Slots, RxNum(i, t) = RxNum(j, t)
    PROVE  i = j
BY RingAssumption DEF Slots, RxNum

\* The slot k places after i is k nearer to the tail.
LEMMA PlaceDistance ==
    ASSUME NEW i \in Slots, NEW t \in Slots, NEW k \in 0..RxNum(i, t)
    PROVE  (i + k) % N \in Slots /\ RxNum((i + k) % N, t) = RxNum(i, t) - k
BY RingAssumption DEF Slots, RxNum

-----------------------------------------------------------------------------
\* The freshly initialised channel satisfies the invariant.
LEMMA InitFifo == Init => FifoInv
<1> SUFFICES ASSUME Init PROVE FifoInv
  OBVIOUS
<1>1. RxNum(0, 0) = 0 /\ Front = 0 /\ Filed = 0 /\ Backlog = 0
  BY DEF Init, RxNum, Front, Filed, Backlog
<1> QED BY <1>1, RingAssumption
        DEF Init, FifoInv, Fetching, Fits, InOrder, DeliveredIntact

\* A step that leaves frames and positions alone keeps the invariant.
LEMMA StillFifo ==
    ASSUME FifoInv, Front' = Front,
           UNCHANGED <<arrived, taken, devErr, ring, head, tail, tpc, left, last>>
    PROVE  FifoInv'
<1>1. Filed' = Filed /\ Backlog' = Backlog
  BY DEF Filed, Backlog
<1> QED BY <1>1 DEF FifoInv, Fetching, Fits, InOrder, DeliveredIntact, RxNum

\* The device hands over only as many frames as the ring has room for.
LEMMA ArrivalFifo ==
    ASSUME Quiet, IInv, FifoInv, FrameArrives
    PROVE  FifoInv'
<1> USE DEF FrameArrives, ringVars, taskVars, usrVars, callVars
<1>1. Front' = Front /\ Filed' = Filed
  BY DEF Front, Filed
<1>2. arrived \in Nat /\ taken \in Nat /\ RxNum(head, tail) \in Nat
  BY InRing DEF IInv, TypeOK, DevType, RingType, Slots
<1>3. Backlog' = Backlog + 1
  BY <1>2 DEF Backlog
<1>4. Backlog' <= N - 1
  BY <1>2, <1>3, RingAssumption DEF Quiet, Backlog
<1>5. RxNum(head, tail)' = RxNum(head, tail) /\ RxNum(Front, tail)' = RxNum(Front, tail)
  BY <1>1
<1>6. Fetching'
  BY <1>2 DEF FifoInv, Fetching, IInv, TypeOK, DevType
<1>7. InOrder' /\ DeliveredIntact'
  BY <1>1 DEF FifoInv, InOrder, DeliveredIntact, RxNum
<1> QED BY <1>1, <1>4, <1>5, <1>6, <1>7 DEF FifoInv, Fits

\* The tasklet starts, tests and notifies: the ring it tests is never full.
LEMMA LoopFifo ==
    ASSUME IInv, FifoInv, zcan_rx_proc \/ RxLoop \/ zcan_usr_rx_complete
    PROVE  FifoInv'
<1> USE DEF zcan_rx_proc, RxLoop, zcan_usr_rx_complete, devVars, ringVars, usrVars, callVars
<1>1. Front' = Front
  BY DEF Front
<1>2. arrived \in Nat /\ taken \in Nat /\ left \in Nat /\ RxNum(head, tail) \in Nat
  BY InRing DEF IInv, TypeOK, DevType, RingType, Slots
<1>3. Filed' = Filed /\ Backlog' = Backlog
  BY <1>2 DEF Filed, Backlog
<1>4. ASSUME RxLoop, MoreFrames PROVE taken < arrived /\ ~zcan_buf_rx_full
  <2>1. taken < arrived
    BY <1>4, <1>2 DEF MoreFrames, FifoInv, Fetching
  <2>2. RxNum(head, tail) < N - 1
    BY <1>4, <2>1, <1>2, RingAssumption DEF FifoInv, Fits, Backlog
  <2>3. Succ(tail) # head
    BY <2>2, RoomLeft DEF IInv, TypeOK, RingType
  <2> QED BY <2>1, <2>3 DEF zcan_buf_rx_full
<1>5. Fetching'
  <2>1. CASE zcan_rx_proc \/ zcan_usr_rx_complete
    BY <2>1, <1>2 DEF FifoInv, Fetching
  <2>2. CASE RxLoop
    BY <2>2, <1>4 DEF FifoInv, Fetching
  <2> QED BY <2>1, <2>2
<1>6. tpc' # "advance" /\ tpc # "advance"
  OBVIOUS
<1>7. InOrder' /\ DeliveredIntact'
  BY <1>1, <1>3, <1>6 DEF FifoInv, InOrder, DeliveredIntact, RxNum
<1>8. Fits'
  BY <1>1, <1>3 DEF FifoInv, Fits
<1> QED BY <1>5, <1>7, <1>8 DEF FifoInv

\* A frame is written to the slot at the tail, outside of what is published.
LEMMA WriteFifo ==
    ASSUME IInv, FifoInv, RxWrite
    PROVE  FifoInv'
<1> USE DEF RxWrite, usrVars, callVars
<1>1. Front' = Front
  BY DEF Front
<1>2. /\ arrived \in Nat /\ taken \in Nat /\ left \in Nat /\ tail \in Slots /\ head \in Slots
      /\ Front \in Slots /\ ring \in [Slots -> Frames]
  BY DEF IInv, TypeOK, DevType, RingType, Front
<1>3. Filed' = Filed
  BY <1>2 DEF Filed
<1>4. RxNum(head, tail) \in Nat /\ RxNum(Front, tail) \in Nat
  BY <1>2, InRing DEF Slots
<1>5. Backlog' = Backlog
  BY <1>2, <1>4 DEF Backlog
<1>6. Fetching'
  BY <1>2 DEF FifoInv, Fetching, IInv, RunCounted
<1>7. Fits'
  BY <1>1, <1>3, <1>5 DEF FifoInv, Fits
<1>8. ASSUME NEW i \in Slots, RxNum(i, tail) \in 1..RxNum(Front, tail)
      PROVE  ring'[i] = ring[i]
  <2>1. RxNum(tail, tail) = 0
    BY <1>2, EmptyRing
  <2>2. i # tail
    BY <1>8, <2>1, <1>4
  <2> QED BY <2>2, <1>2
<1>9. ring'[tail].id = taken' /\ ring'[tail].fmt = "zcan"
  BY <1>2 DEF FifoInv, Fetching
<1>10. \A i \in Slots : RxNum(i, tail)' = RxNum(i, tail)
  BY DEF RxNum
<1>11. RxNum(Front, tail)' = RxNum(Front, tail)
  BY <1>1
<1>12. InOrder'
  BY <1>3, <1>8, <1>9, <1>10, <1>11 DEF FifoInv, InOrder
<1> QED BY <1>6, <1>7, <1>12 DEF FifoInv, DeliveredIntact

\* Publishing it makes it the newest of the frames in order: there was room.
LEMMA AdvanceFifo ==
    ASSUME IInv, FifoInv, RxAdvance
    PROVE  FifoInv'
<1> USE DEF RxAdvance, devVars, usrVars, callVars
<1>1. Front' = Front
  BY DEF Front
<1>2. /\ arrived \in Nat /\ taken \in Nat /\ left \in Nat /\ tail \in Slots /\ head \in Slots
      /\ Front \in Slots /\ ring \in [Slots -> Frames]
  BY DEF IInv, TypeOK, DevType, RingType, Front
<1>3. taken > 0 /\ Filed = taken - 1 /\ Filed' = taken
  BY <1>2 DEF Filed, FifoInv, Fetching
<1>4. RxNum(head, tail) \in Nat /\ RxNum(Front, tail) \in Nat
  BY <1>2, InRing DEF Slots
<1>5. RxNum(head, tail) < N - 1 /\ RxNum(Front, tail) < N - 1
  BY <1>2, <1>4, RingAssumption DEF FifoInv, Fits, Fetching, Backlog
<1>6. RxNum(head, tail)' = RxNum(head, tail) + 1
  <2>1. Succ(tail) # head
    BY <1>2, <1>5, RoomLeft
  <2> QED BY <1>2, <2>1, TailMoves
<1>7. RxNum(Front, tail)' = RxNum(Front, tail) + 1
  <2>1. Succ(tail) # Front
    BY <1>2, <1>5, RoomLeft
  <2>2. RxNum(Front, Succ(tail)) = RxNum(Front, tail) + 1
    BY <1>2, <2>1, TailMoves
  <2> QED BY <2>2, <1>1
<1>8. Backlog' = Backlog
  BY <1>2, <1>4, <1>6 DEF Backlog
<1>9. Fetching'
  BY <1>2 DEF FifoInv, Fetching
<1>10. Fits'
  BY <1>2, <1>3, <1>4, <1>6, <1>7, <1>8 DEF FifoInv, Fits
<1>11. ASSUME NEW i \in Slots, RxNum(i, tail)' \in 1..RxNum(Front, tail)'
       PROVE  ring[i].id = taken + 1 - RxNum(i, tail)' /\ ring[i].fmt = "zcan"
  <2>1. Succ(tail) \in Slots /\ RxNum(i, Succ(tail)) >= 1
    BY <1>11, <1>2, <1>4, <1>7, InRing DEF Slots
  <2>2. Succ(tail) # i
    BY <2>1, EmptyRing
  <2>3. RxNum(i, Succ(tail)) = RxNum(i, tail) + 1
    BY <1>2, <2>2, TailMoves
  <2>4. RxNum(i, tail) \in Nat
    BY <1>2, InRing DEF Slots
  <2>5. CASE i = tail
    <3>1. RxNum(tail, tail) = 0
      BY <1>2, EmptyRing
    <3> QED BY <2>3, <2>5, <3>1, <1>2 DEF FifoInv, InOrder
  <2>6. CASE i # tail
    <3>1. RxNum(i, tail) \in 1..RxNum(Front, tail)
      BY <1>11, <1>2, <1>4, <1>7, <2>3, <2>4, <2>6, FrontMoves
    <3> QED BY <3>1, <2>3, <2>4, <1>2, <1>3 DEF FifoInv, InOrder
  <2> QED BY <2>5, <2>6
<1>12. InOrder'
  BY <1>3, <1>11 DEF InOrder
<1> QED BY <1>9, <1>10, <1>12 DEF FifoInv, DeliveredIntact

\* A flush empties the ring; the tasklet may be about to publish a frame.
LEMMA FlushFifo ==
    ASSUME IInv, FifoInv, NEW u \in Users, zcan_clear_buf_rx(u), clr[u]
    PROVE  FifoInv'
<1> USE DEF zcan_clear_buf_rx, devVars, taskVars, usrVars
<1>1. Front = head /\ Front' = tail /\ tail' = tail
  BY DEF Front
<1>2. /\ arrived \in Nat /\ taken \in Nat /\ left \in Nat /\ tail \in Slots /\ head \in Slots
  BY DEF IInv, TypeOK, DevType, RingType
<1>3. Filed' = Filed /\ Filed \in Nat
  BY <1>2 DEF Filed, FifoInv, Fetching
<1>4. RxNum(head, tail) \in Nat /\ RxNum(head, tail)' = 0 /\ RxNum(Front, tail)' = 0
  BY <1>1, <1>2, InRing, EmptyRing DEF Slots
<1>5. Backlog' <= N - 1
  BY <1>2, <1>4, RingAssumption DEF FifoInv, Fits, Backlog
<1>6. Fetching' /\ DeliveredIntact'
  BY DEF FifoInv, Fetching, DeliveredIntact
<1>7. InOrder'
  BY <1>4 DEF FifoInv, InOrder
<1> QED BY <1>3, <1>4, <1>5, <1>6, <1>7 DEF FifoInv, Fits

\* One frame is converted, for the first time, and delivered; the tasklet can only
\* be at another slot.
LEMMA CopyFifo ==
    ASSUME IInv, FifoInv, NEW u \in Users, CopyOne(u)
    PROVE  FifoInv' /\ last'.id = Filed + 1 - RxNum(Front, tail) /\ Front # tail
<1> USE DEF CopyOne, devVars, taskVars
<1>1. Front = cur /\ Front' = Succ(cur)
  BY NoUserAssumption DEF Front, IInv, ExclusiveReceiver
<1>2. /\ arrived \in Nat /\ taken \in Nat /\ left \in Nat /\ tail \in Slots /\ head \in Slots
      /\ cur \in Slots /\ ring \in [Slots -> Frames] /\ cur # tail
  BY DEF IInv, TypeOK, DevType, RingType
<1>3. Filed' = Filed
  BY DEF Filed
<1>4. RxNum(cur, tail) >= 1 /\ RxNum(Succ(cur), tail) = RxNum(cur, tail) - 1
  BY <1>2, FrontMoves
<1>5. RxNum(head, tail) \in Nat /\ RxNum(cur, tail) \in Nat
  BY <1>2, InRing DEF Slots
<1>6. RxNum(head, tail)' = RxNum(head, tail) /\ RxNum(Front, tail)' = RxNum(cur, tail) - 1
  BY <1>1, <1>4
<1>7. Backlog' = Backlog
  BY <1>6 DEF Backlog
<1>8. Fetching' /\ Fits'
  BY <1>1, <1>3, <1>5, <1>6, <1>7 DEF FifoInv, Fetching, Fits
<1>9. ring[cur].id = Filed + 1 - RxNum(cur, tail) /\ ring[cur].fmt = "zcan"
  BY <1>1, <1>2, <1>4, <1>5 DEF FifoInv, InOrder
<1>10. ring[cur] \in Frames /\ ring'[cur] = zcan_to_bcan(ring[cur])
  BY <1>2
<1>11. last'.fmt = "bcan" /\ last'.id = ring[cur].id
  BY <1>9, <1>10 DEF zcan_to_bcan, Frames
<1>12. ASSUME NEW i \in Slots, RxNum(i, tail)' \in 1..RxNum(Front, tail)'
       PROVE  ring'[i].id = Filed' + 1 - RxNum(i, tail)' /\ ring'[i].fmt = "zcan"
  <2>1. RxNum(i, tail)' = RxNum(i, tail) /\ RxNum(i, tail) \in Nat
    BY <1>2, InRing DEF Slots
  <2>2. RxNum(i, tail) \in 1..(RxNum(cur, tail) - 1)
    BY <1>12, <1>6, <2>1
  <2>3. i # cur
    BY <2>2, <1>5
  <2>4. ring'[i] = ring[i]
    BY <1>2, <2>3
  <2>5. RxNum(i, tail) \in 1..RxNum(Front, tail)
    BY <2>2, <1>1, <1>5
  <2> QED BY <2>1, <2>4, <2>5, <1>3 DEF FifoInv, InOrder
<1>13. tpc' = "advance" => ring'[tail'].id = taken' /\ ring'[tail'].fmt = "zcan"
  BY <1>2 DEF FifoInv, InOrder
<1>14. InOrder'
  BY <1>12, <1>13 DEF InOrder
<1> QED BY <1>1, <1>2, <1>8, <1>9, <1>11, <1>14 DEF FifoInv, DeliveredIntact

\* The head follows the receiver when it lets go of the lock.
LEMMA EndFifo ==
    ASSUME IInv, FifoInv, NEW u \in Users, CopyEnd(u)
    PROVE  FifoInv' /\ Front' = Front
<1> USE DEF CopyEnd, devVars, taskVars
<1>1. Front = cur /\ rxLock' = NoUser
  BY NoUserAssumption
  DEF Front, IInv, ExclusiveReceiver, AfterCopy, RecvDone, RecvSleep
<1>2. Front' = cur /\ head' = cur /\ tail' = tail
  BY <1>1 DEF Front
<1>3. /\ arrived \in Nat /\ taken \in Nat /\ left \in Nat /\ tail \in Slots /\ head \in Slots
      /\ cur \in Slots
  BY DEF IInv, TypeOK, DevType, RingType
<1>4. Filed' = Filed /\ Filed \in Nat
  BY <1>3 DEF Filed, FifoInv, Fetching
<1>5. RxNum(head, tail) \in Nat /\ RxNum(cur, tail) \in Nat /\ RxNum(cur, tail) <= RxNum(head, tail)
  BY <1>1, <1>3, InRing DEF Slots, FifoInv, Fits
<1>6. RxNum(head, tail)' = RxNum(cur, tail) /\ RxNum(Front, tail)' = RxNum(cur, tail)
  BY <1>2
<1>7. Backlog' <= Backlog
  BY <1>3, <1>5, <1>6 DEF Backlog
<1>8. Backlog \in Int /\ Backlog' \in Int
  BY <1>3, <1>5, <1>6 DEF Backlog
<1>9. Fits'
  BY <1>4, <1>5, <1>6, <1>7, <1>8, RingAssumption DEF FifoInv, Fits
<1>10. InOrder'
  BY <1>1, <1>2, <1>4 DEF FifoInv, InOrder, RxNum
<1> QED BY <1>1, <1>2, <1>9, <1>10 DEF FifoInv, Fetching, DeliveredIntact

\* The steps of a call that neither move a frame nor a position.
Quietly(u) ==
    \/ \E n \in 1..MaxReq : bcan_recv(u, n)
    \/ MarkReceived(u)
    \/ zcan_clear_buf_rx(u) /\ ~clr[u]
    \/ RecvBusy(u) \/ RecvClaim(u) \/ RecvRelock(u)
    \/ \E how \in {"woken", "timeout", "intr"} : WaitReturns(u, how)
    \/ bcan_recv_return(u)

\* They leave the front where it is: a receiver takes the lock at the head.
LEMMA QuietFifo ==
    ASSUME IInv, FifoInv, NEW u \in Users, Quietly(u)
    PROVE  /\ Front' = Front
           /\ UNCHANGED <<arrived, taken, devErr, ring, head, tail, tpc, left, last>>
<1> USE NoUserAssumption DEF Quietly, devVars, ringVars, taskVars, usrVars, Front
<1>1. CASE \E n \in 1..MaxReq : bcan_recv(u, n)
  BY <1>1 DEF bcan_recv
<1>2. CASE MarkReceived(u) \/ (zcan_clear_buf_rx(u) /\ ~clr[u]) \/ RecvBusy(u) \/ bcan_recv_return(u)
  BY <1>2 DEF MarkReceived, zcan_clear_buf_rx, RecvBusy, bcan_recv_return
<1>3. CASE RecvClaim(u)
  BY <1>3 DEF RecvClaim
<1>4. CASE RecvRelock(u)
  BY <1>4 DEF RecvRelock, RecvDone
<1>5. CASE \E how \in {"woken", "timeout", "intr"} : WaitReturns(u, how)
  BY <1>5 DEF WaitReturns
<1> QED BY <1>1, <1>2, <1>3, <1>4, <1>5

\* In the quiet environment every step is one of those above.
LEMMA QuietSteps ==
    ASSUME Quiet, FifoInv, Next
    PROVE  \/ FrameArrives \/ zcan_rx_proc \/ RxLoop \/ zcan_usr_rx_complete
           \/ RxWrite \/ RxAdvance \/ Reopen
           \/ \E u \in Users : \/ zcan_clear_buf_rx(u) /\ clr[u]
                               \/ CopyOne(u) \/ CopyEnd(u) \/ Quietly(u)
<1>1. ~CardLost /\ ~zcan_buf_inc_rx_head
  BY DEF Quiet, CardLost, FifoInv, Fetching, zcan_buf_inc_rx_head
<1>2. \A u \in Users : ~RecvDevErr(u) /\ ~CopyFault(u)
  BY DEF Quiet, RecvDevErr, CopyFault, FifoInv, Fetching
<1> QED BY <1>1, <1>2 DEF Next, Tasklet, Receive, Quietly

\* The invariant is kept by every step.
LEMMA StepFifo ==
    ASSUME Quiet, IInv, FifoInv, [Next]_vars
    PROVE  FifoInv'
<1>1. CASE UNCHANGED vars \/ Reopen
  <2>1. UNCHANGED <<arrived, taken, devErr, ring, head, tail, tpc, left, last, rxLock, cur>>
    BY <1>1 DEF Reopen, vars, devVars, ringVars, taskVars, usrVars, callVars
  <2> QED BY <2>1, StillFifo DEF Front
<1>2. CASE FrameArrives \/ zcan_rx_proc \/ RxLoop \/ zcan_usr_rx_complete \/ RxWrite \/ RxAdvance
  BY <1>2, ArrivalFifo, LoopFifo, WriteFifo, AdvanceFifo
<1>3. ASSUME NEW u \in Users,
             (zcan_clear_buf_rx(u) /\ clr[u]) \/ CopyOne(u) \/ CopyEnd(u) \/ Quietly(u)
      PROVE  FifoInv'
  BY <1>3, FlushFifo, CopyFifo, EndFifo, QuietFifo, StillFifo
<1> QED BY <1>1, <1>2, <1>3, QuietSteps

\* With a bus that does not outrun the receivers and a card and user memory that
\* work, the ring holds the newest frames in order.
THEOREM FifoInvariance == ASSUME Quiet PROVE Spec => [](IInv /\ FifoInv)
<1>1. IInv /\ FifoInv /\ [Next]_vars => FifoInv'
  BY StepFifo
<1> QED BY <1>1, InitFifo, Invariance, PTL DEF Spec

\* No frame reaches the application unconverted or converted twice.
THEOREM IntactKept == ASSUME Quiet PROVE Spec => []DeliveredIntact
<1>1. IInv /\ FifoInv => DeliveredIntact
  BY DEF FifoInv
<1> QED BY <1>1, FifoInvariance, PTL

-----------------------------------------------------------------------------
(* The refinement: what is pending is a run of consecutive frame numbers. *)

\* A run of numbers is a sequence.
LEMMA RunIsSeq ==
    ASSUME NEW a \in Nat, NEW b \in Nat, a <= b
    PROVE  /\ Flatten(a, b) \in Seq(Nat)
           /\ Len(Flatten(a, b)) = b - a
           /\ \A i \in 1..(b - a) : Flatten(a, b)[i] = a + i
<1>1. b - a \in Nat
  OBVIOUS
<1> QED BY <1>1 DEF Flatten

\* Two sequences that agree on their length and their elements are the same.
LEMMA SameSeq ==
    ASSUME NEW s \in Seq(Nat), NEW t \in Seq(Nat), Len(s) = Len(t),
           \A i \in 1..Len(s) : s[i] = t[i]
    PROVE  s = t
BY SeqEqual

\* Runs that meet make one run.
LEMMA RunsJoin ==
    ASSUME NEW a \in Nat, NEW b \in Nat, NEW c \in Nat, a <= b, b <= c
    PROVE  Flatten(a, b) \o Flatten(b, c) = Flatten(a, c)
<1> DEFINE s == Flatten(a, b)
           t == Flatten(b, c)
           r == Flatten(a, c)
<1>1. s \in Seq(Nat) /\ Len(s) = b - a /\ \A i \in 1..(b - a) : s[i] = a + i
  BY RunIsSeq
<1>2. t \in Seq(Nat) /\ Len(t) = c - b /\ \A i \in 1..(c - b) : t[i] = b + i
  BY RunIsSeq
<1>3. r \in Seq(Nat) /\ Len(r) = c - a /\ \A i \in 1..(c - a) : r[i] = a + i
  <2>1. a <= c
    OBVIOUS
  <2> QED BY <2>1, RunIsSeq
<1> HIDE DEF s, t, r
<1>4. /\ s \o t \in Seq(Nat)
      /\ Len(s \o t) = Len(s) + Len(t)
      /\ \A i \in 1..(Len(s) + Len(t)) :
            (s \o t)[i] = IF i <= Len(s) THEN s[i] ELSE t[i - Len(s)]
  BY <1>1, <1>2, ConcatProperties
<1>5. ASSUME NEW i \in 1..(c - a) PROVE (s \o t)[i] = a + i
  <2>1. CASE i <= b - a
    BY <2>1, <1>1, <1>2, <1>4
  <2>2. CASE i > b - a
    <3>1. i - (b - a) \in 1..(c - b)
      BY <2>2
    <3>2. (s \o t)[i] = t[i - (b - a)]
      BY SMTT(60), <2>2, <1>1, <1>2, <1>4
    <3>3. t[i - (b - a)] = b + (i - (b - a))
      BY <3>1, <1>2
    <3>4. b + (i - (b - a)) = a + i
      OBVIOUS
    <3> QED BY <3>2, <3>3, <3>4, Zenon
  <2>3. i <= b - a \/ i > b - a
    OBVIOUS
  <2> QED BY <2>1, <2>2, <2>3
<1>6. Len(s \o t) = Len(r) /\ Len(r) = c - a
  BY <1>1, <1>2, <1>3, <1>4
<1>7. \A i \in 1..Len(s \o t) : (s \o t)[i] = r[i]
  BY <1>3, <1>5, <1>6
<1>8. s \o t = r
  BY <1>3, <1>4, <1>6, <1>7, SameSeq
<1> QED BY <1>8 DEF s, t, r

\* Accepting a frame prolongs the run, handing over or losing the oldest shortens it.
LEMMA RunSteps ==
    ASSUME NEW a \in Nat, NEW b \in Nat, a <= b
    PROVE  /\ Flatten(a, b + 1) = Append(Flatten(a, b), b + 1)
           /\ a < b => /\ Flatten(a, b) # <<>>
                       /\ Head(Flatten(a, b)) = a + 1
                       /\ Tail(Flatten(a, b)) = Flatten(a + 1, b)
           /\ \A k \in 0..(b - a) :
                 SubSeq(Flatten(a, b), k + 1, Len(Flatten(a, b))) = Flatten(a + k, b)
<1> DEFINE s == Flatten(a, b)
<1>1. s \in Seq(Nat) /\ Len(s) = b - a /\ \A i \in 1..(b - a) : s[i] = a + i
  BY RunIsSeq
<1>2. Flatten(a, b + 1) = Append(s, b + 1)
  <2> DEFINE r == Flatten(a, b + 1)
  <2>1. r \in Seq(Nat) /\ Len(r) = b + 1 - a /\ \A i \in 1..(b + 1 - a) : r[i] = a + i
    BY RunIsSeq
  <2> HIDE DEF s, r
  <2>2. Append(s, b + 1) \in Seq(Nat) /\ Len(Append(s, b + 1)) = b + 1 - a
    BY <1>1
  <2>3. \A i \in 1..(b + 1 - a) : Append(s, b + 1)[i] = a + i
    BY <1>1
  <2> QED BY <2>1, <2>2, <2>3, SameSeq DEF r
<1>3. ASSUME a < b PROVE s # <<>> /\ Head(s) = a + 1 /\ Tail(s) = Flatten(a + 1, b)
  <2> DEFINE r == Flatten(a + 1, b)
  <2>1. r \in Seq(Nat) /\ Len(r) = b - (a + 1) /\ \A i \in 1..(b - (a + 1)) : r[i] = a + 1 + i
    BY <1>3, RunIsSeq
  <2> HIDE DEF s, r
  <2>2. s # <<>> /\ Head(s) = a + 1
    BY <1>1, <1>3
  <2>3. Tail(s) \in Seq(Nat) /\ Len(Tail(s)) = b - (a + 1)
    BY <1>1, <1>3, <2>2
  <2>4. \A i \in 1..(b - (a + 1)) : Tail(s)[i] = a + 1 + i
    BY <1>1, <1>3, <2>2
  <2>5. Tail(s) = r
    BY <2>1, <2>3, <2>4, SameSeq
  <2> QED BY <2>2, <2>5 DEF r
<1>4. ASSUME NEW k \in 0..(b - a) PROVE SubSeq(s, k + 1, Len(s)) = Flatten(a + k, b)
  <2> DEFINE r == Flatten(a + k, b)
             q == SubSeq(s, k + 1, Len(s))
  <2>0. a + k \in Nat /\ a + k <= b
    OBVIOUS
  <2>1. r \in Seq(Nat) /\ Len(r) = b - (a + k) /\ \A i \in 1..(b - (a + k)) : r[i] = a + k + i
    BY <2>0, RunIsSeq
  <2> HIDE DEF s, r
  <2>2. q \in Seq(Nat) /\ Len(q) = b - (a + k)
    <3>1. k + 1 \in 1..(Len(s) + 1) /\ Len(s) \in (k + 1) - 1..Len(s)
      BY <1>1
    <3>2. q \in Seq(Nat) /\ Len(q) = IF k + 1 <= Len(s) THEN Len(s) - (k + 1) + 1 ELSE 0
      BY <1>1, <3>1, SubSeqProperties
    <3> QED BY <1>1, <3>2
  <2>3. \A i \in 1..(b - (a + k)) : q[i] = a + k + i
    BY <1>1
  <2> HIDE DEF q
  <2>4. q = r
    BY <2>1, <2>2, <2>3, SameSeq
  <2> QED BY <2>4 DEF q, r
<1> QED BY <1>1, <1>2, <1>3, <1>4

\* The number of the frame delivered or discarded last.
Gone == Filed - RxNum(Front, tail)

\* What is pending is the run of the frames after the last one gone.
LEMMA PendingRun ==
    ASSUME IInv, FifoInv
    PROVE  Gone \in Nat /\ Gone <= arrived /\ Pending = Flatten(Gone, arrived)
<1>1. /\ arrived \in Nat /\ taken \in Nat /\ tail \in Slots /\ Front \in Slots /\ head \in Slots
      /\ ring \in [Slots -> Frames] /\ taken <= arrived
  BY DEF IInv, TypeOK, DevType, RingType, Front, FifoInv, Fetching
<1>2. Filed \in Nat /\ Filed <= taken /\ Filed = IF tpc = "advance" THEN taken - 1 ELSE taken
  BY <1>1 DEF Filed, FifoInv, Fetching
<1>3. RxNum(Front, tail) \in Nat /\ RxNum(head, tail) \in Nat
  BY <1>1, InRing DEF Slots
<1>4. Gone \in Nat /\ Gone <= Filed /\ RxNum(Front, tail) = Filed - Gone
  BY <1>2, <1>3 DEF Gone, FifoInv, Fits
<1>5. Buffered(Front) = Flatten(Gone, Filed)
  <2>1. ASSUME NEW i \in 1..RxNum(Front, tail)
        PROVE  ring[(Front + i - 1) % N].id = Gone + i
    <3>1. i - 1 \in 0..RxNum(Front, tail) /\ Front + (i - 1) = Front + i - 1
      BY <1>1, <1>3 DEF Slots
    <3>2. /\ (Front + (i - 1)) % N \in Slots
          /\ RxNum((Front + (i - 1)) % N, tail) = RxNum(Front, tail) - (i - 1)
      BY <1>1, <3>1, PlaceDistance
    <3>3. RxNum(Front, tail) - (i - 1) \in 1..RxNum(Front, tail)
      BY <1>3
    <3>4. ring[(Front + (i - 1)) % N].id = Filed + 1 - (RxNum(Front, tail) - (i - 1))
      BY <3>2, <3>3 DEF FifoInv, InOrder
    <3>5. Filed + 1 - (RxNum(Front, tail) - (i - 1)) = Gone + i
      BY <1>2, <1>3 DEF Gone
    <3> QED BY <3>1, <3>4, <3>5
  <2> QED BY <2>1, <1>4 DEF Buffered, Flatten
<1>6. (IF tpc = "advance" THEN <<taken>> ELSE <<>>) = Flatten(Filed, taken)
  <2>1. Flatten(Filed, taken) \in Seq(Nat) /\ Len(Flatten(Filed, taken)) = taken - Filed
        /\ \A i \in 1..(taken - Filed) : Flatten(Filed, taken)[i] = Filed + i
    BY <1>1, <1>2, RunIsSeq
  <2>2. CASE tpc = "advance"
    BY <2>1, <2>2, <1>1, <1>2
  <2>3. CASE tpc # "advance"
    BY <2>1, <2>3, <1>1, <1>2
  <2> QED BY <2>2, <2>3
<1>7. Pending = (Flatten(Gone, Filed) \o Flatten(Filed, taken)) \o Flatten(taken, arrived)
  BY <1>5, <1>6 DEF Pending, Front
<1>8. Flatten(Gone, Filed) \o Flatten(Filed, taken) = Flatten(Gone, taken)
  BY <1>1, <1>2, <1>4, RunsJoin
<1>9. Gone <= taken /\ Gone <= arrived
  BY <1>1, <1>2, <1>4
<1>10. Flatten(Gone, taken) \o Flatten(taken, arrived) = Flatten(Gone, arrived)
  BY <1>1, <1>4, <1>9, RunsJoin
<1> QED BY <1>4, <1>7, <1>8, <1>9, <1>10

\* The channel starts as an empty FIFO.
LEMMA InitRefines == Init => Fifo!FifoInit
<1> SUFFICES ASSUME Init PROVE Fifo!FifoInit
  OBVIOUS
<1>1. IInv /\ FifoInv
  BY InitIInv, InitFifo
<1>2. Gone = 0 /\ arrived = 0
  BY DEF Init, Gone, Filed, RxNum, Front
<1>3. Pending = Flatten(0, 0)
  BY <1>1, <1>2, PendingRun
<1>4. Len(Flatten(0, 0)) = 0 /\ Flatten(0, 0) \in Seq(Nat)
  BY RunIsSeq
<1>5. Pending = <<>>
  BY <1>3, <1>4
<1>6. last.id = 0 /\ clr = [u \in Users |-> FALSE]
  BY DEF Init
<1> QED BY <1>2, <1>5, <1>6 DEF Fifo!FifoInit

\* A flush is asked for only between the test of the flag in bcan_recv() and the
\* flush itself.
FlushAsked == \A u \in Users : clr[u] => pc[u] \in {"mark", "ioctl"}

\* A step of one receiver that leaves its request alone and was past it.
LEMMA PastFlush ==
    ASSUME TypeOK, FlushAsked, clr' = clr, NEW u \in Users, NEW x,
           pc' = [pc EXCEPT ![u] = x], pc[u] \notin {"mark", "ioctl"} \/ x = "ioctl"
    PROVE  FlushAsked'
<1>1. pc \in [Users -> {"idle", "mark", "ioctl", "enter", "copy", "wait", "relock", "return"}]
  BY DEF TypeOK, CallType
<1> QED BY <1>1 DEF FlushAsked

\* Every step keeps it.
LEMMA StepAsked ==
    ASSUME IInv, FlushAsked, [Next]_vars
    PROVE  FlushAsked'
<1>1. TypeOK /\ pc \in [Users -> {"idle", "mark", "ioctl", "enter", "copy", "wait", "relock", "return"}]
  BY DEF IInv, TypeOK, CallType
<1>2. clr \in [Users -> BOOLEAN]
  BY Zenon DEF IInv, TypeOK, FlagType
<1> USE DEF vars, devVars, ringVars, taskVars, usrVars, callVars, libVars
<1>3. CASE FrameArrives \/ CardLost \/ Tasklet \/ Reopen \/ UNCHANGED vars
  <2>1. UNCHANGED <<pc, clr>>
    BY <1>3 DEF FrameArrives, CardLost, Reopen, Tasklet, zcan_rx_proc, RxLoop, zcan_buf_inc_rx_head,
                RxWrite, RxAdvance, zcan_usr_rx_complete
  <2> QED BY <2>1 DEF FlushAsked
<1>4. ASSUME NEW u \in Users, NEW n \in 1..MaxReq, bcan_recv(u, n) PROVE FlushAsked'
  <2>1. clr' = [clr EXCEPT ![u] = ~recvd] /\ pc' = [pc EXCEPT ![u] = IF recvd THEN "ioctl" ELSE "mark"]
    BY <1>4 DEF bcan_recv
  <2> QED BY <2>1, <1>1, <1>2 DEF FlushAsked
<1>5. ASSUME NEW u \in Users, zcan_clear_buf_rx(u) PROVE FlushAsked'
  <2>1. clr' = [clr EXCEPT ![u] = FALSE] /\ pc' = [pc EXCEPT ![u] = "enter"]
    BY <1>5 DEF zcan_clear_buf_rx
  <2> QED BY <2>1, <1>1, <1>2 DEF FlushAsked
<1>6. ASSUME NEW u \in Users, MarkReceived(u) PROVE FlushAsked'
  <2>1. clr' = clr /\ pc' = [pc EXCEPT ![u] = "ioctl"]
    BY <1>6 DEF MarkReceived
  <2> QED BY <2>1, <1>1, PastFlush
<1>7. ASSUME NEW u \in Users, RecvDevErr(u) \/ RecvBusy(u) \/ RecvClaim(u) \/ bcan_recv_return(u)
      PROVE  FlushAsked'
  <2>1. clr' = clr /\ pc[u] \in {"enter", "return"} /\ \E x : pc' = [pc EXCEPT ![u] = x]
    BY <1>7 DEF RecvDevErr, RecvBusy, RecvClaim, bcan_recv_return, Report
  <2> QED BY <2>1, <1>1, PastFlush
<1>8. ASSUME NEW u \in Users, CopyFault(u) \/ CopyEnd(u) PROVE FlushAsked'
  <2>1. clr' = clr /\ pc[u] = "copy" /\ \E r : AfterCopy(u, r)
    BY <1>8 DEF CopyFault, CopyEnd
  <2>2. \E x : pc' = [pc EXCEPT ![u] = x]
    BY <2>1 DEF AfterCopy, RecvDone, RecvSleep, Report
  <2> QED BY <2>1, <2>2, <1>1, PastFlush
<1>9. ASSUME NEW u \in Users, CopyOne(u) PROVE FlushAsked'
  <2>1. UNCHANGED <<pc, clr>>
    BY <1>9 DEF CopyOne
  <2> QED BY <2>1 DEF FlushAsked
<1>10. ASSUME NEW u \in Users, NEW how, WaitReturns(u, how) PROVE FlushAsked'
  <2>1. clr' = clr /\ pc[u] = "wait" /\ pc' = [pc EXCEPT ![u] = "relock"]
    BY <1>10 DEF WaitReturns
  <2> QED BY <2>1, <1>1, PastFlush
<1>11. ASSUME NEW u \in Users, RecvRelock(u) PROVE FlushAsked'
  <2>1. clr' = clr /\ pc[u] = "relock" /\ \E x : pc' = [pc EXCEPT ![u] = x]
    BY <1>11 DEF RecvRelock, RecvDone, Report
  <2> QED BY <2>1, <1>1, PastFlush
<1> QED BY <1>3, <1>4, <1>5, <1>6, <1>7, <1>8, <1>9, <1>10, <1>11 DEF Next, Receive

\* The steps that neither ask for a flush nor do one.
LEMMA RequestsKept ==
    ASSUME IInv, FlushAsked, NEW u \in Users,
           CopyOne(u) \/ CopyEnd(u) \/ Quietly(u),
           ~(\E n \in 1..MaxReq : bcan_recv(u, n))
    PROVE  clr' = clr
<1>1. clr \in [Users -> BOOLEAN]
  BY Zenon DEF IInv, TypeOK, FlagType
<1>2. CASE zcan_clear_buf_rx(u) /\ ~clr[u]
  <2>1. clr' = [clr EXCEPT ![u] = FALSE] /\ clr[u] = FALSE
    BY <1>1, <1>2, Zenon DEF zcan_clear_buf_rx
  <2> QED BY <1>1, <2>1
<1>3. CASE CopyOne(u) \/ CopyEnd(u)
  BY <1>3 DEF CopyOne, CopyEnd
<1>4. CASE MarkReceived(u) \/ RecvBusy(u) \/ RecvClaim(u) \/ RecvRelock(u) \/ bcan_recv_return(u)
           \/ \E how \in {"woken", "timeout", "intr"} : WaitReturns(u, how)
  BY <1>4 DEF MarkReceived, RecvBusy, RecvClaim, RecvRelock, bcan_recv_return, WaitReturns
<1> QED BY <1>2, <1>3, <1>4 DEF Quietly

\* Every step of the receive path is a step of the FIFO or none: arrivals, copies,
\* requests for a flush and flushes are its steps, all the rest moves frames along
\* inside of it.
LEMMA StepRefines ==
    ASSUME Quiet, IInv, IInv', FifoInv, FifoInv', FlushAsked, [Next]_vars
    PROVE  [Fifo!FifoNext]_(Fifo!fifoVars)
<1>1. Gone \in Nat /\ Gone <= arrived /\ Pending = Flatten(Gone, arrived)
  BY PendingRun
<1>2. Gone' \in Nat /\ Gone' <= arrived' /\ Pending' = Flatten(Gone', arrived')
  <2>1. (Gone \in Nat /\ Gone <= arrived /\ Pending = Flatten(Gone, arrived))'
    BY PendingRun, PTL
  <2> QED BY <2>1 DEF Flatten
<1>3. /\ arrived \in Nat /\ taken \in Nat /\ tail \in Slots /\ Front \in Slots /\ head \in Slots
      /\ RxNum(Front, tail) \in Nat
  <2>1. /\ arrived \in Nat /\ taken \in Nat
        /\ tail \in Slots /\ Front \in Slots /\ head \in Slots
    BY DEF IInv, TypeOK, DevType, RingType, Front
  <2> QED BY <2>1, InRing DEF Slots
<1>4. Filed \in Nat
  BY <1>3 DEF Filed, FifoInv, Fetching
<1>5. ASSUME Gone' = Gone, arrived' = arrived, last' = last, clr' = clr
      PROVE  UNCHANGED Fifo!fifoVars
  BY <1>1, <1>2, <1>5 DEF Fifo!fifoVars
<1>6. CASE FrameArrives
  <2>1. Gone' = Gone /\ arrived' = arrived + 1 /\ last' = last /\ clr' = clr
    BY <1>6 DEF FrameArrives, Gone, Filed, RxNum, Front, ringVars, taskVars, usrVars, callVars
  <2>2. Pending' = Append(Pending, arrived + 1)
    BY <2>1, <1>1, <1>2, <1>3, RunSteps
  <2>3. Fifo!Accept
    BY <2>1, <2>2 DEF Fifo!Accept
  <2> QED BY <2>3 DEF Fifo!FifoNext
<1>7. ASSUME NEW u \in Users, CopyOne(u) PROVE Fifo!FifoNext
  <2>1. Front = cur /\ Front' = Succ(cur) /\ cur # tail /\ tail' = tail
    BY <1>7, NoUserAssumption DEF CopyOne, Front, IInv, ExclusiveReceiver
  <2>2. Filed' = Filed /\ arrived' = arrived
    BY <1>7 DEF CopyOne, Filed, devVars, taskVars
  <2>3. RxNum(Front, tail) >= 1 /\ RxNum(Front, tail)' = RxNum(Front, tail) - 1
    BY <2>1, <1>3, FrontMoves
  <2>4. Gone' = Gone + 1
    BY <2>2, <2>3, <1>3, <1>4 DEF Gone
  <2>5. last'.id = Gone + 1
    BY <1>7, CopyFifo, <1>3, <1>4 DEF Gone
  <2>6. Gone < arrived
    BY <2>2, <2>4, <1>1, <1>2, <1>3
  <2>7. Pending # <<>> /\ Head(Pending) = Gone + 1 /\ Tail(Pending) = Pending'
    BY <2>2, <2>4, <2>6, <1>1, <1>2, <1>3, RunSteps
  <2>9. clr' = clr
    BY <1>7 DEF CopyOne
  <2>8. Fifo!HandOver
    BY <2>2, <2>5, <2>7, <2>9 DEF Fifo!HandOver
  <2> QED BY <2>8 DEF Fifo!FifoNext
<1>8. ASSUME NEW u \in Users, zcan_clear_buf_rx(u), clr[u]
      PROVE  Fifo!FifoNext
  <2> USE <1>8 DEF zcan_clear_buf_rx, devVars, taskVars, usrVars
  <2>1. Front = head /\ Front' = tail /\ tail' = tail
    BY DEF Front
  <2>2. Filed' = Filed /\ arrived' = arrived /\ last' = last
    BY DEF Filed
  <2>3. RxNum(Front, tail)' = 0
    BY <2>1, <1>3, EmptyRing
  <2>4. Gone' = Gone + RxNum(Front, tail)
    BY <2>2, <2>3, <1>3, <1>4 DEF Gone
  <2> DEFINE k == RxNum(Front, tail)
  <2>5. k \in 0..(arrived - Gone)
    BY <2>2, <2>4, <1>1, <1>2, <1>3
  <2>6. Len(Pending) = arrived - Gone
    BY <1>1, <1>3, RunIsSeq
  <2> HIDE DEF k
  <2>7. Pending' = SubSeq(Pending, k + 1, Len(Pending))
    <3>1. Pending' = Flatten(Gone + k, arrived)
      BY <2>2, <2>4, <1>2 DEF k
    <3>2. SubSeq(Flatten(Gone, arrived), k + 1, Len(Flatten(Gone, arrived)))
            = Flatten(Gone + k, arrived)
      BY <2>5, <1>1, <1>3, RunSteps
    <3> QED BY <3>1, <3>2, <1>1
  <2>8. clr' = [clr EXCEPT ![u] = FALSE]
    OBVIOUS
  <2>9. Fifo!Flush(u)
    BY <2>2, <2>5, <2>6, <2>7, <2>8 DEF Fifo!Flush
  <2> QED BY <2>9 DEF Fifo!FifoNext
<1>9. CASE zcan_rx_proc \/ RxLoop \/ zcan_usr_rx_complete \/ RxWrite
  <2>1. Front' = Front /\ tail' = tail /\ Filed' = Filed /\ arrived' = arrived /\ last' = last
        /\ clr' = clr
    BY <1>9, <1>3
    DEF zcan_rx_proc, RxLoop, zcan_usr_rx_complete, RxWrite, devVars, ringVars, usrVars, callVars,
        Front, Filed
  <2> QED BY <2>1, <1>5 DEF Gone
<1>10. CASE RxAdvance
  <2> USE <1>10 DEF RxAdvance, devVars, usrVars, callVars
  <2>1. Front' = Front /\ Filed' = Filed + 1 /\ arrived' = arrived /\ last' = last /\ clr' = clr
    BY <1>3 DEF Front, Filed
  <2>2. RxNum(head, tail) \in Nat
    BY <1>3, InRing DEF Slots
  <2>3. RxNum(Front, tail) < N - 1
    BY <2>2, <1>3, RingAssumption DEF FifoInv, Fits, Fetching, Backlog
  <2>4. RxNum(Front, Succ(tail)) = RxNum(Front, tail) + 1
    BY <2>3, <1>3, RoomLeft, TailMoves
  <2>5. Gone' = Gone
    BY <2>1, <2>4, <1>3, <1>4 DEF Gone
  <2> QED BY <2>1, <2>5, <1>5
<1>11. ASSUME NEW u \in Users, CopyEnd(u) PROVE UNCHANGED Fifo!fifoVars
  <2>1. Front' = Front
    BY <1>11, EndFifo
  <2>2. tail' = tail /\ Filed' = Filed /\ arrived' = arrived /\ last' = last /\ clr' = clr
    BY <1>11 DEF CopyEnd, Filed, devVars, taskVars
  <2> QED BY <2>1, <2>2, <1>5 DEF Gone
<1>12. ASSUME NEW u \in Users, Quietly(u), ~(\E n \in 1..MaxReq : bcan_recv(u, n))
       PROVE  UNCHANGED Fifo!fifoVars
  <2>1. Front' = Front /\ UNCHANGED <<arrived, taken, tail, tpc, last>>
    BY <1>12, QuietFifo
  <2>2. clr' = clr
    BY <1>12, RequestsKept
  <2> QED BY <2>1, <2>2, <1>5 DEF Gone, Filed
<1>14. ASSUME NEW u \in Users, NEW n \in 1..MaxReq, bcan_recv(u, n)
       PROVE  [Fifo!FifoNext]_(Fifo!fifoVars)
  <2>1. Front' = Front /\ UNCHANGED <<arrived, taken, tail, tpc, last>>
    BY <1>14, QuietFifo DEF Quietly
  <2>2. Pending' = Pending
    BY <2>1, <1>1, <1>2 DEF Gone, Filed
  <2>3. clr \in [Users -> BOOLEAN] /\ recvd \in BOOLEAN
    BY Zenon DEF IInv, TypeOK, FlagType
  <2>4. ~clr[u] /\ clr' = [clr EXCEPT ![u] = ~recvd]
    BY <1>14 DEF bcan_recv, FlushAsked
  <2>5. CASE recvd
    <3>1. clr' = clr
      <4>1. clr[u] = FALSE /\ clr' = [clr EXCEPT ![u] = FALSE]
        BY <2>3, <2>4, <2>5, Zenon
      <4> QED BY <4>1, <2>3
    <3> QED BY <3>1, <2>1, <1>5 DEF Gone, Filed
  <2>6. CASE ~recvd
    <3>1. clr' = [clr EXCEPT ![u] = TRUE]
      BY <2>3, <2>4, <2>6, Zenon
    <3>2. Fifo!AskFlush(u)
      BY <3>1, <2>1, <2>2, <2>4 DEF Fifo!AskFlush
    <3> QED BY <3>2 DEF Fifo!FifoNext
  <2> QED BY <2>5, <2>6
<1>13. CASE UNCHANGED vars \/ Reopen
  <2>1. UNCHANGED <<arrived, taken, head, tail, tpc, last, rxLock, cur, clr>>
    BY <1>13 DEF Reopen, vars, devVars, ringVars, taskVars, usrVars, callVars
  <2> QED BY <2>1, <1>5 DEF Gone, Filed, Front
<1> QED BY <1>6, <1>7, <1>8, <1>9, <1>10, <1>11, <1>12, <1>13, <1>14, QuietSteps

\* Ring, tasklet, claims and flushes together are a FIFO: frames come out in order,
\* each once, and none is lost but by zcan_clear_buf_rx() in the step that does what
\* the first bcan_recv() on a handle asked for, and then the oldest ones.
THEOREM RefinesFifo == ASSUME Quiet PROVE Spec => ImplementsFifo
<1>1. IInv /\ IInv' /\ FifoInv /\ FifoInv' /\ FlushAsked /\ [Next]_vars
        => [Fifo!FifoNext]_(Fifo!fifoVars)
  BY StepRefines
<1>2. Init => FlushAsked
  BY DEF Init, FlushAsked
<1>3. IInv /\ FlushAsked /\ [Next]_vars => FlushAsked'
  BY StepAsked
<1> QED BY <1>1, <1>2, <1>3, InitRefines, FifoInvariance, PTL DEF Spec, ImplementsFifo, Fifo!FifoSpec
=============================================================================
