--------------------------- MODULE BasaChanProofs ---------------------------
(***************************************************************************)
(* Proofs about a DMA channel, for any ring, any number of senders and     *)
(* messages, any set of errors, and either tasklet.                        *)
(***************************************************************************)
EXTENDS BasaChan, TLAPS

\* Some sender has filled the descriptor at the tail and not yet moved the tail.
Filled == \E s \in Senders : spc[s] = "tail"

\* A sender is between its lock and its unlock only while the lock is its own.
LockHeld == \A s \in Senders : spc[s] # "idle" => txLock = s

\* From the head on come, in this order, the head that the tasklet has read, the head
\* of the hardware and the tail; while a sender works there is room for it.
Ordered ==
    /\ Distance(txHead, hwHead) <= Distance(txHead, txTail)
    /\ tpc \in {"txdone", "txpublish"} => Distance(txHead, newHead) <= Distance(txHead, hwHead)
    /\ (\E s \in Senders : spc[s] # "idle") => Distance(txHead, txTail) < TxNum - 1

\* A descriptor that was filled holds the next message.
FilledNext == Filled => desc[txTail] = [addr |-> TRUE, msg |-> accepted + 1]

\* All descriptors from the tail on are cleared, but for the one just filled, and so are
\* those that the tasklet is about to publish.
Cleared ==
    \A i \in Descs :
        \/ Distance(txHead, i) >= Distance(txHead, txTail) /\ ~(i = txTail /\ Filled)
        \/ tpc = "txpublish" /\ Distance(txHead, i) < Distance(txHead, newHead)
        => ~desc[i].addr

RingInv == RingType /\ LockHeld /\ Ordered /\ TxIntact /\ FilledNext /\ Cleared

IInv == TypeOK /\ RingInv /\ MaskAccounted

-----------------------------------------------------------------------------
(* The arithmetic of the ring. *)

\* The next descriptor, a distance, and the descriptor k places after another are in the ring.
LEMMA InRing ==
    ASSUME NEW i \in Descs, NEW j \in Descs, NEW k \in Nat
    PROVE  Next1(i) \in Descs /\ Distance(i, j) \in Descs /\ (i + k) % TxNum \in Descs
BY RingAssumption DEF Descs, Next1, Distance

\* The distance of a step further, and of a step nearer.
LEMMA StepFurther ==
    ASSUME NEW h \in Descs, NEW i \in Descs, Distance(h, i) < TxNum - 1
    PROVE  Distance(h, Next1(i)) = Distance(h, i) + 1
BY RingAssumption DEF Descs, Next1, Distance

(* One step along the ring brings a position that is not there yet one nearer. *)
LEMMA StepNearer ==
    ASSUME NEW i \in Descs, NEW j \in Descs, i # j
    PROVE  Distance(Next1(i), j) = Distance(i, j) - 1
BY RingAssumption DEF Descs, Next1, Distance

\* Distances add up along the ring.
LEMMA Between ==
    ASSUME NEW h \in Descs, NEW i \in Descs, NEW j \in Descs, Distance(h, i) <= Distance(h, j)
    PROVE  Distance(i, j) = Distance(h, j) - Distance(h, i)
BY RingAssumption DEF Descs, Distance

(* One step of the far end makes the distance one longer, unless it closes the ring. *)
LEMMA Further ==
    ASSUME NEW h \in Descs, NEW i \in Descs, NEW j \in Descs, Distance(h, i) + Distance(i, j) < TxNum
    PROVE  Distance(h, j) = Distance(h, i) + Distance(i, j)
BY RingAssumption DEF Descs, Distance

\* A descriptor is told by its distance.
LEMMA SameDistance ==
    ASSUME NEW h \in Descs, NEW i \in Descs, NEW j \in Descs, Distance(h, i) = Distance(h, j)
    PROVE  i = j
BY RingAssumption DEF Descs, Distance

(* A position is at no distance from itself. *)
LEMMA NoDistance == ASSUME NEW h \in Descs PROVE Distance(h, h) = 0
BY RingAssumption DEF Descs, Distance

\* The descriptor k places after another is in the distance k from it.
LEMMA PlaceDistance ==
    ASSUME NEW i \in Descs, NEW k \in 0..(TxNum - 1)
    PROVE  Distance(i, (i + k) % TxNum) = k
BY RingAssumption DEF Descs, Distance

\* Going k places from the next descriptor is going k + 1.
LEMMA PlaceNext ==
    ASSUME NEW i \in Descs, NEW k \in 0..(TxNum - 1)
    PROVE  (Next1(i) + k) % TxNum = (i + (k + 1)) % TxNum
BY RingAssumption DEF Descs, Next1

-----------------------------------------------------------------------------
\* The freshly initialised channel satisfies the invariant.
LEMMA InitIInv == Init => IInv
<1> SUFFICES ASSUME Init PROVE IInv
  OBVIOUS
<1> USE SenderAssumption, RingAssumption, ErrAssumption, TimeAssumption DEF Init
<1>1. FlagType
  BY Zenon DEF FlagType
<1>2. RingType /\ ErrType /\ TaskType
  BY DEF RingType, ErrType, TaskType, Descs
<1>3. Distance(0, 0) = 0 /\ 0 \in Descs
  BY NoDistance DEF Descs
<1>4. LockHeld /\ Ordered /\ TxIntact /\ FilledNext /\ Cleared
  BY <1>3 DEF LockHeld, Ordered, TxIntact, FilledNext, Filled, Cleared
<1>5. MaskAccounted
  BY DEF MaskAccounted
<1> QED BY <1>1, <1>2, <1>4, <1>5 DEF IInv, TypeOK, RingInv

\* Boolean variables stay Boolean.
LEMMA StepFlag == FlagType /\ [Next]_vars => FlagType'
<1> SUFFICES ASSUME FlagType, [Next]_vars PROVE FlagType'
  OBVIOUS
<1> USE DEF FlagType, vars, txVars, taskVars, errVars, dogVars
<1>1. CASE HwSends
  BY <1>1, Zenon DEF HwSends, Interrupt
<1>2. ASSUME NEW e \in AllErrs, HwError(e) PROVE FlagType'
  BY <1>2, Zenon DEF HwError, Interrupt
<1>3. ASSUME NEW s \in Senders, Sender(s) PROVE FlagType'
  BY <1>3, Zenon DEF Sender, TxBegin, TxFill, zchan_tx_write_tail
<1>4. CASE Tasklet
  <2>1. CASE TaskletRead \/ zchan_tx_read_head \/ TxDoneClear \/ TxDonePublish \/ ErrRead \/ ErrClear
    BY <2>1, Zenon DEF TaskletRead, zchan_tx_read_head, TxDoneClear, TxDonePublish, ErrRead, ErrClear
  <2>2. CASE zchan_err_mask
    BY <2>2, Zenon DEF zchan_err_mask
  <2>3. CASE TaskletAck
    BY <2>3, Zenon DEF TaskletAck, Relatch
  <2> QED BY <1>4, <2>1, <2>2, <2>3 DEF Tasklet
<1>5. CASE Tick
  BY <1>5, Zenon DEF Tick
<1>6. CASE Watchdog
  BY <1>6, Zenon DEF Watchdog, WatchdogWait, zchan_err_unmask, Relatch, WatchdogLoop
<1>7. CASE Fini
  BY <1>7, Zenon DEF Fini, FiniComplete, FiniStop, FiniDone
<1>8. CASE UNCHANGED vars
  BY <1>8, Zenon
<1> QED BY <1>1, <1>2, <1>3, <1>4, <1>5, <1>6, <1>7, <1>8 DEF Next

\* The control states and the interrupt status keep their types.
LEMMA StepTask == TaskType /\ [Next]_vars => TaskType'
<1> SUFFICES ASSUME TaskType, [Next]_vars PROVE TaskType'
  OBVIOUS
<1> USE DEF TaskType, vars, txVars, taskVars, errVars, dogVars
<1>1. CASE HwSends
  BY <1>1 DEF HwSends, Interrupt
<1>2. ASSUME NEW e \in AllErrs, HwError(e) PROVE TaskType'
  BY <1>2 DEF HwError, Interrupt
<1>3. ASSUME NEW s \in Senders, Sender(s) PROVE TaskType'
  BY <1>3 DEF Sender, TxBegin, TxFill, zchan_tx_write_tail
<1>4. CASE Tasklet
  BY <1>4 DEF Tasklet, Goto, TaskletRead, zchan_tx_read_head, TxDoneClear, TxDonePublish, ErrRead,
              ErrClear, zchan_err_mask, TaskletAck, Relatch
<1>5. CASE Tick
  BY <1>5 DEF Tick
<1>6. CASE Watchdog
  BY <1>6 DEF Watchdog, WatchdogWait, zchan_err_unmask, Relatch, WatchdogLoop
<1>7. CASE Fini
  BY <1>7 DEF Fini, FiniComplete, FiniStop, FiniDone
<1>8. CASE UNCHANGED vars
  BY <1>8
<1> QED BY <1>1, <1>2, <1>3, <1>4, <1>5, <1>6, <1>7, <1>8 DEF Next

\* Errors are masked by the tasklet and unmasked by the watchdog, each together with
\* the time of the mask and the pace of the watchdog.
LEMMA StepErr == ErrType /\ MaskAccounted /\ [Next]_vars => ErrType' /\ MaskAccounted'
<1> SUFFICES ASSUME ErrType, MaskAccounted, [Next]_vars PROVE ErrType' /\ MaskAccounted'
  OBVIOUS
<1> USE ErrAssumption, TimeAssumption
    DEF ErrType, MaskAccounted, AllErrs, vars, txVars, taskVars, errVars, dogVars
<1>1. CASE HwSends
  BY <1>1 DEF HwSends
<1>2. ASSUME NEW e \in AllErrs, HwError(e) PROVE ErrType' /\ MaskAccounted'
  BY <1>2 DEF HwError
<1>3. ASSUME NEW s \in Senders, Sender(s) PROVE ErrType' /\ MaskAccounted'
  BY <1>3 DEF Sender, TxBegin, TxFill, zchan_tx_write_tail
<1>4. CASE Tasklet
  <2>1. CASE TaskletRead \/ zchan_tx_read_head \/ TxDoneClear \/ TxDonePublish \/ ErrRead \/ ErrClear
    BY <2>1 DEF TaskletRead, zchan_tx_read_head, TxDoneClear, TxDonePublish, ErrRead, ErrClear
  <2>2. CASE zchan_err_mask
    BY <2>2 DEF zchan_err_mask
  <2>3. CASE TaskletAck
    BY <2>3 DEF TaskletAck
  <2> QED BY <1>4, <2>1, <2>2, <2>3 DEF Tasklet
<1>5. CASE Tick
  BY <1>5 DEF Tick
<1>6. CASE Watchdog
  <2>1. CASE WatchdogWait \/ WatchdogLoop
    <3>1. UNCHANGED <<errStatus, errMask, ts_err, interval, chErr>>
      BY <2>1, Zenon DEF WatchdogWait, WatchdogLoop
    <3> QED BY <3>1
  <2>2. CASE zchan_err_unmask
    BY <2>2 DEF zchan_err_unmask, Expired
  <2> QED BY <1>6, <2>1, <2>2 DEF Watchdog
<1>7. CASE Fini
  BY <1>7 DEF Fini, FiniComplete, FiniStop, FiniDone
<1>8. CASE UNCHANGED vars
  BY <1>8
<1> QED BY <1>1, <1>2, <1>3, <1>4, <1>5, <1>6, <1>7, <1>8 DEF Next

-----------------------------------------------------------------------------
(* The ring.  Each action that changes it has a lemma of its own. *)

\* The hardware takes the oldest message.
LEMMA RingHwSends == RingInv /\ HwSends => RingInv'
<1> SUFFICES ASSUME RingInv, HwSends PROVE RingInv'
  OBVIOUS
<1> USE RingAssumption DEF RingInv
<1>0. /\ txHead \in Descs /\ txTail \in Descs /\ hwHead \in Descs
      /\ accepted \in Nat /\ sent \in Nat
      /\ hwHead # txTail /\ hwHead' = Next1(hwHead) /\ sent' = sent + 1
      /\ UNCHANGED <<txHead, txTail, desc, txLock, spc, accepted, newHead, tpc>>
  BY DEF RingType, HwSends
<1>1. RingType'
  BY SMTT(60), <1>0, InRing DEF RingType
<1>2. LockHeld'
  BY <1>0 DEF LockHeld
<1>3. Distance(txHead, hwHead) < Distance(txHead, txTail) /\ Distance(txHead, txTail) <= TxNum - 1
  <2>1. Distance(txHead, hwHead) \in Descs /\ Distance(txHead, txTail) \in Descs
    BY <1>0, InRing
  <2>2. Distance(txHead, hwHead) # Distance(txHead, txTail)
    BY <1>0, SameDistance
  <2>3. Distance(txHead, hwHead) <= Distance(txHead, txTail)
    BY DEF Ordered
  <2> QED BY <2>1, <2>2, <2>3 DEF Descs
<1>4. Distance(txHead, hwHead') = Distance(txHead, hwHead) + 1
  <2>1. Distance(txHead, hwHead) \in Descs /\ Distance(txHead, txTail) \in Descs
    BY <1>0, InRing
  <2>2. Distance(txHead, hwHead) < TxNum - 1
    BY <1>3, <2>1 DEF Descs
  <2> QED BY <1>0, <2>2, StepFurther
<1>5. Ordered'
  <2>1. /\ Distance(txHead, hwHead) \in Descs /\ Distance(txHead, txTail) \in Descs
        /\ Distance(txHead, newHead) \in Descs
    BY <1>0, InRing DEF RingType
  <2> QED BY <1>0, <1>3, <1>4, <2>1 DEF Ordered, Descs
<1>6. TxIntact'
  <2>1. Distance(hwHead, txTail) = accepted - sent /\ Distance(hwHead, txTail) \in Descs
    BY <1>0, InRing DEF TxIntact
  <2>2. Distance(hwHead', txTail) = Distance(hwHead, txTail) - 1
    BY <1>0, StepNearer
  <2>3. ASSUME NEW k \in 1..(accepted - (sent + 1))
        PROVE  desc[(Next1(hwHead) + k - 1) % TxNum] = [addr |-> TRUE, msg |-> sent + 1 + k]
    <3>1. k + 1 \in 1..(accepted - sent) /\ k - 1 \in 0..(TxNum - 1) /\ k \in Nat
      BY <1>0, <2>1 DEF Descs
    <3>2. (Next1(hwHead) + (k - 1)) % TxNum = (hwHead + ((k - 1) + 1)) % TxNum
      BY <1>0, <3>1, PlaceNext
    <3>3. desc[(hwHead + (k + 1) - 1) % TxNum] = [addr |-> TRUE, msg |-> sent + (k + 1)]
      BY <3>1 DEF TxIntact
    <3>4. Next1(hwHead) \in Descs
      BY <1>0, InRing
    <3>5. /\ Next1(hwHead) + (k - 1) = Next1(hwHead) + k - 1 /\ hwHead + ((k - 1) + 1) = hwHead + (k + 1) - 1
          /\ sent + 1 + k = sent + (k + 1)
      BY <1>0, <3>1, <3>4 DEF Descs
    <3> QED BY <3>2, <3>3, <3>5, Zenon
  <2> QED BY <1>0, <2>1, <2>2, <2>3 DEF TxIntact, Descs
<1>7. FilledNext' /\ Cleared'
  BY <1>0 DEF FilledNext, Cleared, Filled
<1> QED BY <1>1, <1>2, <1>5, <1>6, <1>7

\* A sender takes the lock, if there is room.
LEMMA RingTxBegin == ASSUME NEW s \in Senders PROVE RingInv /\ TxBegin(s) => RingInv'
<1> SUFFICES ASSUME RingInv, TxBegin(s) PROVE RingInv'
  OBVIOUS
<1> USE RingAssumption DEF RingInv
<1>0. /\ txHead \in Descs /\ txTail \in Descs
      /\ Next1(txTail) # txHead /\ txLock' = s /\ txLock = NoSender
      /\ spc' = [spc EXCEPT ![s] = "fill"]
      /\ UNCHANGED <<txHead, txTail, hwHead, desc, accepted, sent, newHead, tpc>>
  BY DEF RingType, TxBegin, TxRingFull, taskVars
<1>1. RingType'
  BY <1>0 DEF RingType
<1>2. LockHeld'
  BY <1>0, SenderAssumption DEF LockHeld, RingType
<1>3. Filled' <=> Filled
  BY <1>0, SenderAssumption DEF Filled, LockHeld, RingType
<1>4. Ordered'
  <2>1. Distance(txHead, txTail) < TxNum - 1
    BY <1>0 DEF Descs, Distance, Next1
  <2> QED BY <1>0, <2>1 DEF Ordered
<1>5. TxIntact' /\ FilledNext' /\ Cleared'
  BY <1>0, <1>3 DEF TxIntact, FilledNext, Cleared
<1> QED BY <1>1, <1>2, <1>4, <1>5

\* It writes its message into the descriptor at the tail, which none of those that
\* wait for the hardware is.
LEMMA RingTxFill == ASSUME NEW s \in Senders PROVE RingInv /\ TxFill(s) => RingInv'
<1> SUFFICES ASSUME RingInv, TxFill(s) PROVE RingInv'
  OBVIOUS
<1> USE RingAssumption DEF RingInv
<1>0. /\ txHead \in Descs /\ txTail \in Descs /\ hwHead \in Descs /\ newHead \in Descs
      /\ accepted \in Nat /\ sent \in Nat /\ spc[s] = "fill" /\ txLock = s
      /\ desc \in [Descs -> [addr : BOOLEAN, msg : Nat]]
      /\ desc' = [desc EXCEPT ![txTail] = [addr |-> TRUE, msg |-> accepted + 1]]
      /\ spc' = [spc EXCEPT ![s] = "tail"]
      /\ UNCHANGED <<txHead, txTail, hwHead, txLock, accepted, sent, newHead, tpc>>
  BY DEF RingType, TxFill, taskVars, LockHeld
<1>1. RingType'
  <2>1. [addr |-> TRUE, msg |-> accepted + 1] \in [addr : BOOLEAN, msg : Nat]
    BY <1>0
  <2> QED BY <1>0, <2>1 DEF RingType
<1>2. LockHeld'
  BY <1>0 DEF LockHeld, RingType
<1>3. Filled' /\ (\E u \in Senders : spc[u] # "idle")
  BY <1>0 DEF Filled, RingType
<1>4. Ordered'
  BY <1>0, <1>3 DEF Ordered
<1>5. TxIntact'
  <2>1. Distance(hwHead, txTail) = accepted - sent /\ Distance(hwHead, txTail) \in Descs
    BY <1>0, InRing DEF TxIntact
  <2>2. ASSUME NEW k \in 1..(accepted - sent) PROVE (hwHead + k - 1) % TxNum # txTail
    <3>1. k - 1 \in 0..(TxNum - 1) /\ k - 1 < accepted - sent /\ hwHead + (k - 1) = hwHead + k - 1
      BY <1>0, <2>1 DEF Descs
    <3>2. Distance(hwHead, (hwHead + (k - 1)) % TxNum) = k - 1
      BY <1>0, <3>1, PlaceDistance
    <3> QED BY <2>1, <3>1, <3>2
  <2>3. ASSUME NEW k \in 1..(accepted - sent)
        PROVE  desc'[(hwHead + k - 1) % TxNum] = [addr |-> TRUE, msg |-> sent + k]
    <3>1. desc[(hwHead + k - 1) % TxNum] = [addr |-> TRUE, msg |-> sent + k]
      BY DEF TxIntact
    <3>2. (hwHead + k - 1) % TxNum \in Descs
      <4>1. k - 1 \in Nat /\ hwHead + (k - 1) = hwHead + k - 1
        BY <1>0 DEF Descs
      <4> QED BY <1>0, <4>1, InRing
    <3> QED BY <1>0, <2>2, <3>1, <3>2
  <2> QED BY <1>0, <2>1, <2>3 DEF TxIntact
<1>6. FilledNext'
  BY <1>0 DEF FilledNext
<1>7. Cleared'
  <2> SUFFICES ASSUME NEW i \in Descs,
                      \/ Distance(txHead, i) >= Distance(txHead, txTail) /\ i # txTail
                      \/ tpc = "txpublish" /\ Distance(txHead, i) < Distance(txHead, newHead)
               PROVE  ~desc'[i].addr
    BY <1>0, <1>3 DEF Cleared
  <2>1. /\ Distance(txHead, i) \in Descs /\ Distance(txHead, txTail) \in Descs
        /\ Distance(txHead, newHead) \in Descs /\ Distance(txHead, hwHead) \in Descs
    BY <1>0, InRing
  <2>2. i # txTail
    BY <1>0, <2>1 DEF Ordered, Descs
  <2>3. ~desc[i].addr
    BY <2>2 DEF Cleared
  <2> QED BY <1>0, <2>2, <2>3
<1> QED BY <1>1, <1>2, <1>4, <1>5, <1>6, <1>7

\* It hands the descriptor to the hardware: one message more waits.
LEMMA RingTxTail == ASSUME NEW s \in Senders PROVE RingInv /\ zchan_tx_write_tail(s) => RingInv'
<1> SUFFICES ASSUME RingInv, zchan_tx_write_tail(s) PROVE RingInv'
  OBVIOUS
<1> USE RingAssumption DEF RingInv
<1>0. /\ txHead \in Descs /\ txTail \in Descs /\ hwHead \in Descs /\ newHead \in Descs
      /\ accepted \in Nat /\ sent \in Nat /\ spc[s] = "tail" /\ txLock = s
      /\ txTail' = Next1(txTail) /\ accepted' = accepted + 1 /\ txLock' = NoSender
      /\ spc' = [spc EXCEPT ![s] = "idle"]
      /\ UNCHANGED <<txHead, hwHead, desc, sent, newHead, tpc>>
  BY DEF RingType, zchan_tx_write_tail, taskVars, LockHeld
<1>1. RingType'
  <2>1. Next1(txTail) \in Descs /\ accepted + 1 \in Nat
    BY <1>0, InRing
  <2>2. spc' \in [Senders -> {"idle", "fill", "tail"}]
    BY <1>0 DEF RingType
  <2> QED BY <1>0, <2>1, <2>2 DEF RingType
<1>2. \A u \in Senders : spc'[u] = "idle"
  BY <1>0 DEF LockHeld, RingType
<1>3. LockHeld' /\ ~Filled' /\ FilledNext'
  BY <1>2 DEF LockHeld, Filled, FilledNext
<1>d. /\ Distance(txHead, hwHead) \in Descs /\ Distance(txHead, txTail) \in Descs
      /\ Distance(hwHead, txTail) \in Descs /\ Distance(txHead, newHead) \in Descs
  BY <1>0, InRing
<1>4. Distance(txHead, txTail) < TxNum - 1 /\ Distance(txHead, txTail') = Distance(txHead, txTail) + 1
  <2>1. Distance(txHead, txTail) < TxNum - 1
    BY <1>0 DEF Ordered
  <2> QED BY <1>0, <2>1, StepFurther
<1>5. Ordered'
  BY <1>0, <1>2, <1>4, <1>d DEF Ordered, Descs
<1>6. TxIntact'
  <2>1. Distance(hwHead, txTail) = accepted - sent
    BY DEF TxIntact
  <2>2. Distance(hwHead, txTail) = Distance(txHead, txTail) - Distance(txHead, hwHead)
    BY <1>0, Between DEF Ordered
  <2>3. Distance(hwHead, txTail') = Distance(hwHead, txTail) + 1
    <3>1. Distance(hwHead, txTail) < TxNum - 1
      BY <1>4, <1>d, <2>2 DEF Descs
    <3> QED BY <1>0, <3>1, StepFurther
  <2>4. (hwHead + (accepted - sent)) % TxNum = txTail
    <3>1. accepted - sent \in 0..(TxNum - 1) /\ accepted - sent \in Nat
      BY <1>d, <2>1 DEF Descs
    <3>2. Distance(hwHead, (hwHead + (accepted - sent)) % TxNum) = accepted - sent
      BY <1>0, <3>1, PlaceDistance
    <3>3. (hwHead + (accepted - sent)) % TxNum \in Descs
      BY <1>0, <3>1, InRing
    <3> QED BY <1>0, <2>1, <3>2, <3>3, SameDistance
  <2>5. desc[txTail] = [addr |-> TRUE, msg |-> accepted + 1]
    BY <1>0 DEF FilledNext, Filled
  <2>6. ASSUME NEW k \in 1..(accepted + 1 - sent)
        PROVE  desc[(hwHead + k - 1) % TxNum] = [addr |-> TRUE, msg |-> sent + k]
    <3>1. CASE k \in 1..(accepted - sent)
      BY <3>1 DEF TxIntact
    <3>2. CASE k = accepted - sent + 1
      <4>1. hwHead + k - 1 = hwHead + (accepted - sent) /\ sent + k = accepted + 1
        BY <1>0, <3>2 DEF Descs
      <4> QED BY <2>4, <2>5, <4>1, Zenon
    <3>3. k \in 1..(accepted - sent) \/ k = accepted - sent + 1
      BY <1>0, <1>d, <2>1 DEF Descs
    <3> QED BY <3>1, <3>2, <3>3
  <2> QED BY <1>0, <1>d, <2>1, <2>3, <2>6 DEF TxIntact, Descs
<1>7. Cleared'
  <2> SUFFICES ASSUME NEW i \in Descs,
                      \/ Distance(txHead, i) >= Distance(txHead, txTail')
                      \/ tpc = "txpublish" /\ Distance(txHead, i) < Distance(txHead, newHead)
               PROVE  ~desc[i].addr
    BY <1>0, <1>3 DEF Cleared
  <2>1. Distance(txHead, i) \in Descs
    BY <1>0, InRing
  <2>2. CASE Distance(txHead, i) >= Distance(txHead, txTail')
    BY <1>4, <1>d, <2>1, <2>2 DEF Cleared, Descs
  <2>3. CASE tpc = "txpublish" /\ Distance(txHead, i) < Distance(txHead, newHead)
    BY <2>3 DEF Cleared
  <2> QED BY <2>2, <2>3
<1> QED BY <1>1, <1>3, <1>5, <1>6, <1>7

\* The tasklet reads how far the hardware is.
LEMMA RingReadHead == RingInv /\ zchan_tx_read_head => RingInv'
<1> SUFFICES ASSUME RingInv, zchan_tx_read_head PROVE RingInv'
  OBVIOUS
<1> USE RingAssumption DEF RingInv
<1>0. /\ txHead \in Descs /\ hwHead \in Descs /\ newHead' = hwHead /\ tpc' = "txdone"
      /\ UNCHANGED <<txHead, txTail, hwHead, desc, txLock, spc, accepted, sent>>
  BY DEF RingType, zchan_tx_read_head, txVars, Goto
<1>1. RingType' /\ LockHeld'
  BY <1>0 DEF RingType, LockHeld
<1>2. Ordered'
  <2>1. Distance(txHead, hwHead) \in Descs
    BY <1>0, InRing
  <2> QED BY <1>0, <2>1 DEF Ordered, Descs
<1>3. TxIntact' /\ FilledNext' /\ Cleared'
  BY <1>0 DEF TxIntact, FilledNext, Cleared, Filled
<1> QED BY <1>1, <1>2, <1>3

\* It clears the descriptors up to there: they lie before those that wait for the
\* hardware, and before the tail.
LEMMA RingClear == RingInv /\ TxDoneClear => RingInv'
<1> SUFFICES ASSUME RingInv, TxDoneClear PROVE RingInv'
  OBVIOUS
<1> USE RingAssumption DEF RingInv
<1>0. /\ txHead \in Descs /\ txTail \in Descs /\ hwHead \in Descs /\ newHead \in Descs
      /\ accepted \in Nat /\ sent \in Nat
      /\ desc \in [Descs -> [addr : BOOLEAN, msg : Nat]]
      /\ tpc = "txdone" /\ tpc' = "txpublish"
      /\ UNCHANGED <<txHead, txTail, hwHead, txLock, spc, accepted, sent, newHead>>
  BY DEF RingType, TxDoneClear, Goto
<1>1. ASSUME NEW i \in Descs
      PROVE  /\ Distance(txHead, i) < Distance(txHead, newHead) => desc'[i] = [desc[i] EXCEPT !.addr = FALSE]
             /\ Distance(txHead, i) >= Distance(txHead, newHead) => desc'[i] = desc[i]
  <2>1. Distance(txHead, i) \in Descs /\ Distance(txHead, newHead) \in Descs
    BY <1>0, InRing
  <2>2. i \in Retired <=> Distance(txHead, i) < Distance(txHead, newHead)
    BY DEF Retired, Distance
  <2>3. desc'[i] = IF i \in Retired THEN [desc[i] EXCEPT !.addr = FALSE] ELSE desc[i]
    BY Zenon DEF TxDoneClear
  <2>4. ~(Distance(txHead, i) < Distance(txHead, newHead) /\ Distance(txHead, i) >= Distance(txHead, newHead))
    BY <2>1 DEF Descs
  <2> QED BY <2>2, <2>3, <2>4, Zenon
<1>d. /\ Distance(txHead, hwHead) \in Descs /\ Distance(txHead, txTail) \in Descs
      /\ Distance(hwHead, txTail) \in Descs /\ Distance(txHead, newHead) \in Descs
  BY <1>0, InRing
<1>2. RingType'
  <2>1. desc' \in [Descs -> [addr : BOOLEAN, msg : Nat]]
    <3>1. desc' = [i \in Descs |-> IF i \in Retired THEN [desc[i] EXCEPT !.addr = FALSE] ELSE desc[i]]
      BY DEF TxDoneClear
    <3>2. \A i \in Descs : [desc[i] EXCEPT !.addr = FALSE] \in [addr : BOOLEAN, msg : Nat]
      <4> SUFFICES ASSUME NEW i \in Descs PROVE [desc[i] EXCEPT !.addr = FALSE] \in [addr : BOOLEAN, msg : Nat]
        OBVIOUS
      <4>1. desc[i] \in [addr : BOOLEAN, msg : Nat]
        BY <1>0
      <4> QED BY <4>1
    <3> QED BY <1>0, <3>1, <3>2, Zenon
  <2> QED BY <1>0, <2>1 DEF RingType
<1>3. LockHeld' /\ Ordered'
  BY <1>0 DEF LockHeld, Ordered
<1>4. TxIntact'
  <2>1. Distance(hwHead, txTail) = accepted - sent
    BY DEF TxIntact
  <2>2. Distance(hwHead, txTail) = Distance(txHead, txTail) - Distance(txHead, hwHead)
    BY <1>0, Between DEF Ordered
  <2>3. ASSUME NEW k \in 1..(accepted - sent)
        PROVE  desc'[(hwHead + k - 1) % TxNum] = desc[(hwHead + k - 1) % TxNum]
    <3>1. k - 1 \in 0..(TxNum - 1) /\ k - 1 \in Nat /\ hwHead + (k - 1) = hwHead + k - 1
      BY <1>0, <1>d, <2>1 DEF Descs
    <3> DEFINE i == (hwHead + k - 1) % TxNum
    <3>2. i \in Descs /\ Distance(hwHead, i) = k - 1
      BY <1>0, <3>1, InRing, PlaceDistance
    <3> HIDE DEF i
    <3>3. Distance(txHead, hwHead) + (k - 1) < TxNum
      BY <1>d, <2>1, <2>2, <3>1 DEF Descs
    <3>4. Distance(txHead, i) = Distance(txHead, hwHead) + (k - 1)
      BY <1>0, <3>2, <3>3, Further
    <3>5. Distance(txHead, i) >= Distance(txHead, newHead)
      BY SMTT(60), <1>0, <1>d, <3>1, <3>4 DEF Ordered, Descs
    <3> QED BY <1>1, <3>2, <3>5 DEF i
  <2> QED BY <1>0, <2>1, <2>3 DEF TxIntact
<1>5. FilledNext'
  <2>1. desc'[txTail] = desc[txTail]
    <3>1. Distance(txHead, txTail) >= Distance(txHead, newHead)
      BY <1>0, <1>d DEF Ordered, Descs
    <3> QED BY <1>0, <1>1, <3>1
  <2> QED BY <1>0, <2>1 DEF FilledNext, Filled
<1>6. Cleared'
  <2> SUFFICES ASSUME NEW i \in Descs,
                      \/ Distance(txHead, i) >= Distance(txHead, txTail) /\ ~(i = txTail /\ Filled)
                      \/ Distance(txHead, i) < Distance(txHead, newHead)
               PROVE  ~desc'[i].addr
    BY <1>0 DEF Cleared, Filled
  <2>1. Distance(txHead, i) \in Descs /\ desc[i] \in [addr : BOOLEAN, msg : Nat]
    BY <1>0, InRing
  <2>2. CASE Distance(txHead, i) < Distance(txHead, newHead)
    BY <1>1, <2>1, <2>2
  <2>3. CASE ~(Distance(txHead, i) < Distance(txHead, newHead))
    <3>1. Distance(txHead, i) >= Distance(txHead, newHead)
      BY <1>d, <2>1, <2>3 DEF Descs
    <3>2. ~desc[i].addr
      BY <2>3 DEF Cleared
    <3> QED BY <1>1, <3>1, <3>2
  <2> QED BY <2>2, <2>3
<1> QED BY <1>2, <1>3, <1>4, <1>5, <1>6

\* It publishes the new head: the ring starts there, and what was cleared is free.
LEMMA RingPublish == RingInv /\ TxDonePublish => RingInv'
<1> SUFFICES ASSUME RingInv, TxDonePublish PROVE RingInv'
  OBVIOUS
<1> USE RingAssumption DEF RingInv
<1>0. /\ txHead \in Descs /\ txTail \in Descs /\ hwHead \in Descs /\ newHead \in Descs
      /\ tpc = "txpublish" /\ tpc' = "err" /\ txHead' = newHead
      /\ UNCHANGED <<txTail, hwHead, desc, txLock, spc, accepted, sent, newHead>>
  BY DEF RingType, TxDonePublish, Goto
<1>d. /\ Distance(txHead, hwHead) \in Descs /\ Distance(txHead, txTail) \in Descs
      /\ Distance(txHead, newHead) \in Descs
  BY <1>0, InRing
<1>1. RingType' /\ LockHeld' /\ TxIntact' /\ FilledNext'
  BY <1>0 DEF RingType, LockHeld, TxIntact, FilledNext, Filled
<1>2. Distance(txHead, newHead) <= Distance(txHead, hwHead) /\ Distance(txHead, newHead) <= Distance(txHead, txTail)
  BY <1>0, <1>d DEF Ordered, Descs
<1>3. /\ Distance(newHead, hwHead) = Distance(txHead, hwHead) - Distance(txHead, newHead)
      /\ Distance(newHead, txTail) = Distance(txHead, txTail) - Distance(txHead, newHead)
  BY <1>0, <1>2, Between
<1>4. Ordered'
  BY <1>0, <1>d, <1>3 DEF Ordered, Descs
<1>5. Cleared'
  <2> SUFFICES ASSUME NEW i \in Descs,
                      Distance(newHead, i) >= Distance(newHead, txTail), ~(i = txTail /\ Filled)
               PROVE  ~desc[i].addr
    BY <1>0 DEF Cleared, Filled
  <2>1. Distance(txHead, i) \in Descs
    BY <1>0, InRing
  <2>2. CASE Distance(txHead, i) < Distance(txHead, newHead)
    BY <1>0, <2>2 DEF Cleared
  <2>3. CASE Distance(txHead, newHead) <= Distance(txHead, i)
    <3>1. Distance(newHead, i) = Distance(txHead, i) - Distance(txHead, newHead)
      BY <1>0, <2>3, Between
    <3>2. Distance(txHead, i) >= Distance(txHead, txTail)
      BY <1>d, <1>3, <2>1, <3>1 DEF Descs
    <3> QED BY <3>2 DEF Cleared
  <2>4. Distance(txHead, i) < Distance(txHead, newHead) \/ Distance(txHead, newHead) <= Distance(txHead, i)
    BY <1>d, <2>1 DEF Descs
  <2> QED BY <2>2, <2>3, <2>4
<1> QED BY <1>1, <1>4, <1>5

\* The other steps leave the ring alone, and start no retiring of descriptors.
LEMMA RingOther ==
    /\ RingInv
    /\ UNCHANGED <<txVars, newHead>>
    /\ tpc' = tpc \/ tpc' \notin {"txdone", "txpublish"}
    => RingInv'
BY DEF RingInv, txVars, RingType, LockHeld, Ordered, TxIntact, FilledNext, Filled, Cleared

(* Every step keeps the positions and the descriptors of the ring in order. *)
LEMMA StepRing == RingInv /\ [Next]_vars => RingInv'
<1> SUFFICES ASSUME RingInv, [Next]_vars PROVE RingInv'
  OBVIOUS
<1> DEFINE Other == UNCHANGED <<txVars, newHead>> /\ (tpc' = tpc \/ tpc' \notin {"txdone", "txpublish"})
<1>1. CASE HwSends
  BY <1>1, RingHwSends
<1>2. ASSUME NEW e \in AllErrs, HwError(e) PROVE RingInv'
  <2>1. Other
    BY <1>2 DEF HwError
  <2> QED BY <2>1, RingOther
<1>3. ASSUME NEW s \in Senders, Sender(s) PROVE RingInv'
  BY <1>3, RingTxBegin, RingTxFill, RingTxTail DEF Sender
<1>4. CASE Tasklet
  <2>1. CASE zchan_tx_read_head
    BY <2>1, RingReadHead
  <2>2. CASE TxDoneClear
    BY <2>2, RingClear
  <2>3. CASE TxDonePublish
    BY <2>3, RingPublish
  <2>4. CASE TaskletRead \/ ErrRead \/ zchan_err_mask \/ ErrClear \/ TaskletAck
    <3>1. Other
      BY <2>4 DEF TaskletRead, ErrRead, zchan_err_mask, ErrClear, TaskletAck, Goto
    <3> QED BY <3>1, RingOther
  <2> QED BY <1>4, <2>1, <2>2, <2>3, <2>4 DEF Tasklet
<1>5. CASE Tick \/ Watchdog \/ Fini \/ UNCHANGED vars
  <2>1. Other
    BY <1>5 DEF Tick, Watchdog, WatchdogWait, zchan_err_unmask, WatchdogLoop, Fini, FiniComplete, FiniStop,
                FiniDone, vars, txVars, taskVars
  <2> QED BY <2>1, RingOther
<1> QED BY <1>1, <1>2, <1>3, <1>4, <1>5 DEF Next

-----------------------------------------------------------------------------
\* The invariant holds in every state of every behaviour.
THEOREM Invariance == Spec => []IInv
<1>1. IInv /\ [Next]_vars => IInv'
  BY StepFlag, StepTask, StepErr, StepRing DEF IInv, TypeOK, RingInv
<1> QED BY InitIInv, <1>1, PTL DEF Spec

\* zchan_tx_one_msg and zchan_tx_done share the ring without sharing a lock, and yet, for
\* every size of the ring and any number of senders, what waits for the hardware is what was
\* accepted and not sent, in order, and no sender finds a descriptor that is not cleared.
THEOREM RingKept == Spec => []RingSafe
<1>1. IInv => RingSafe
  <2> SUFFICES ASSUME IInv, NEW s \in Senders, spc[s] = "fill" PROVE ~desc[txTail].addr
    BY DEF IInv, RingInv, RingSafe, FreeIsCleared
  <2> USE DEF IInv, RingInv
  <2>1. txHead \in Descs /\ txTail \in Descs
    BY DEF RingType
  <2>2. ~Filled
    BY DEF Filled, LockHeld
  <2>3. Distance(txHead, txTail) \in Descs
    BY <2>1, InRing
  <2>4. Distance(txHead, txTail) >= Distance(txHead, txTail)
    BY <2>3, RingAssumption DEF Descs
  <2> QED BY <2>1, <2>2, <2>4 DEF Cleared
<1> QED BY <1>1, Invariance, PTL

\* zchan_err_mask and zchan_err_unmask keep the masks, their times and the pace of the
\* watchdog in agreement, for every set of errors and every throttle time.
THEOREM MasksKept == Spec => []MaskAccounted
<1>1. IInv => MaskAccounted
  BY DEF IInv
<1> QED BY <1>1, Invariance, PTL
=============================================================================
