------------------------------ MODULE BasaChan ------------------------------
(***************************************************************************)
(* A DMA channel of the sensor FPGA (basa_chan.c) and the tasklet that     *)
(* serves its interrupts (basa_main.c).                                    *)
(*                                                                         *)
(* Three parties share the channel.  Senders put messages into the Tx      *)
(* descriptor ring under zchan_tx_lock.  The tasklet reads the interrupt   *)
(* status, retires the descriptors the hardware is done with - without     *)
(* that lock -, masks the errors it finds and acknowledges the interrupts  *)
(* last.  The watchdog thread lifts the masks again after ZCHAN_ERR_THROTTLE *)
(* and is stopped when the channel is torn down.  Receiving is the subject *)
(* of BasaCanRx.                                                           *)
(*                                                                         *)
(* A message is its number.  jiffies is not kept: ts_err[e] is the age of  *)
(* the mask, up to the throttle time; a 64-bit jiffies does not reach the  *)
(* value 0 that marks an unset timestamp.                                  *)
(***************************************************************************)
EXTENDS Naturals

CONSTANTS
    Senders,        \* threads in zcan_tx_user
    NoSender,       \* zchan_tx_lock is free
    TxNum,          \* zchan_tx_num: descriptors of the Tx ring
    Errs,           \* error bits that zchan_err_mask masks
    LinkChange,     \* ZYNQ_CH_ERR_CAM_LINK_CHANGE
    PerChannel,     \* zynq_chan_tasklet rather than zynq_tasklet serves it
    Throttle,       \* ZCHAN_ERR_THROTTLE in ticks
    Unset,          \* ts_err = 0
    MaxMsgs         \* bound on the messages sent

ASSUME SenderAssumption == NoSender \notin Senders
ASSUME RingAssumption == TxNum \in Nat /\ TxNum > 1
ASSUME ErrAssumption == LinkChange \notin Errs
ASSUME TimeAssumption == Throttle \in Nat \ {0} /\ Unset \notin Nat
ASSUME BoundAssumption == MaxMsgs \in Nat /\ PerChannel \in BOOLEAN

VARIABLES
    txHead,         \* zchan_tx_head: the oldest descriptor not retired
    txTail,         \* zchan_tx_tail, and the tail register of the hardware
    hwHead,         \* the head register of the hardware
    desc,           \* zchan_tx_descp: whether tx_addr is set, and the message
    txLock,         \* zchan_tx_lock
    spc,            \* where each sender is
    accepted,       \* history: messages put into the ring
    sent,           \* history: messages the hardware has fetched
    intr,           \* ZYNQ_G_INTR_STATUS_TX, _RX: "TX" and "ERR" of this channel
    sched,          \* tasklet scheduled
    tpc,            \* where the tasklet is
    status,         \* its local variables rd_intr and wr_intr
    newHead,        \* new_head of zchan_tx_done
    chErr,          \* ch_err_status of zynq_chan_err_proc
    errStatus,      \* ZYNQ_CH_ERR_STATUS
    errMask,        \* ZYNQ_CH_ERR_MASK_RX, _TX beyond their default
    ts_err,         \* age of each error's mask, or Unset
    interval,       \* watchdog_interval
    comp,           \* watchdog_completion is posted
    wpc,            \* where the watchdog thread is
    woken,          \* its local variable result > 0
    fini,           \* how far zchan_watchdog_fini is
    level           \* whether the FPGA raises an error interrupt again, after it was
                    \* acknowledged, for an error that is still there: both are allowed

txVars   == <<txHead, txTail, hwHead, desc, txLock, spc, accepted, sent>>
taskVars == <<intr, sched, tpc, status, newHead, chErr>>
errVars  == <<errStatus, errMask, ts_err, interval>>
dogVars  == <<comp, wpc, woken, fini>>
vars == <<txVars, taskVars, errVars, dogVars, level>>

Descs   == 0..(TxNum - 1)
AllErrs == Errs \cup {LinkChange}

Next1(i) == (i + 1) % TxNum

\* zchan_init_tx_ring, zchan_watchdog_init
Init ==
    /\ txHead = 0 /\ txTail = 0 /\ hwHead = 0
    /\ desc = [i \in Descs |-> [addr |-> FALSE, msg |-> 0]]
    /\ txLock = NoSender
    /\ spc = [s \in Senders |-> "idle"]
    /\ accepted = 0 /\ sent = 0
    /\ intr = {} /\ sched = FALSE /\ tpc = "idle" /\ status = {}
    /\ newHead = 0 /\ chErr = {}
    /\ errStatus = {} /\ errMask = {}
    /\ ts_err = [e \in AllErrs |-> Unset]
    /\ interval = 1000
    /\ comp = FALSE /\ wpc = "wait" /\ woken = FALSE /\ fini = "no"
    /\ level \in BOOLEAN

-----------------------------------------------------------------------------
(* The hardware. *)

\* An event sets a bit of the interrupt status; the interrupt handler
\* zynq_intr or zynq_intr_chan schedules the tasklet.
Interrupt(b) ==
    /\ intr' = intr \cup {b}
    /\ sched' = (sched \/ b \notin intr)

\* The hardware fetches the message of the next descriptor and sends it.
HwSends ==
    /\ hwHead # txTail
    /\ hwHead' = Next1(hwHead)
    /\ sent' = sent + 1
    /\ Interrupt("TX")
    /\ UNCHANGED <<txHead, txTail, desc, txLock, spc, accepted, tpc, status, newHead, chErr, errVars,
                   dogVars, level>>

\* An error happens.  It shows in the status, and interrupts unless masked.
HwError(e) ==
    /\ fini = "no"
    /\ e \notin errStatus
    /\ errStatus' = errStatus \cup {e}
    /\ IF e \in errMask THEN UNCHANGED <<intr, sched>> ELSE Interrupt("ERR")
    /\ UNCHANGED <<txVars, tpc, status, newHead, chErr, errMask, ts_err, interval, dogVars, level>>

\* The status bits that are left when acked are acknowledged and mask is the error
\* mask: a level interrupt is back at once while an unmasked error is there.
Relatch(acked, mask) ==
    LET kept == intr \ acked
        back == level /\ fini = "no" /\ "ERR" \notin kept /\ errStatus \ mask # {}
    IN  /\ intr' = IF back THEN kept \cup {"ERR"} ELSE kept
        /\ sched' = (sched \/ back)

-----------------------------------------------------------------------------
(* A sender: zchan_tx_one_msg.  The caller repeats it while it returns busy. *)

TxRingFull == Next1(txTail) = txHead

\* Mutant: the ring is not tested for being full.
TxBegin_NoFullTest(s) ==
    /\ spc[s] = "idle"
    /\ accepted < MaxMsgs
    /\ txLock = NoSender
    /\ txLock' = s
    /\ spc' = [spc EXCEPT ![s] = "fill"]
    /\ UNCHANGED <<txHead, txTail, hwHead, desc, accepted, sent, taskVars, errVars, dogVars, level>>

\* Take the lock; give up if the ring is full.
TxBegin(s) ==
    /\ spc[s] = "idle"
    /\ accepted < MaxMsgs
    /\ txLock = NoSender
    /\ ~TxRingFull
    /\ txLock' = s
    /\ spc' = [spc EXCEPT ![s] = "fill"]
    /\ UNCHANGED <<txHead, txTail, hwHead, desc, accepted, sent, taskVars, errVars, dogVars, level>>

\* Copy the message into the buffer and hang it into the descriptor.
TxFill(s) ==
    /\ spc[s] = "fill"
    /\ desc' = [desc EXCEPT ![txTail] = [addr |-> TRUE, msg |-> accepted + 1]]
    /\ spc' = [spc EXCEPT ![s] = "tail"]
    /\ UNCHANGED <<txHead, txTail, hwHead, txLock, accepted, sent, taskVars, errVars, dogVars, level>>

\* Mutant: the tail runs over the end of the ring.
zchan_tx_write_tail_NoWrap(s) ==
    /\ spc[s] = "tail"
    /\ txTail' = txTail + 1
    /\ accepted' = accepted + 1
    /\ txLock' = NoSender
    /\ spc' = [spc EXCEPT ![s] = "idle"]
    /\ UNCHANGED <<txHead, hwHead, desc, sent, taskVars, errVars, dogVars, level>>

\* Hand the descriptor to the hardware and unlock.
zchan_tx_write_tail(s) ==
    /\ spc[s] = "tail"
    /\ txTail' = Next1(txTail)
    /\ accepted' = accepted + 1
    /\ txLock' = NoSender
    /\ spc' = [spc EXCEPT ![s] = "idle"]
    /\ UNCHANGED <<txHead, hwHead, desc, sent, taskVars, errVars, dogVars, level>>

-----------------------------------------------------------------------------
(* The tasklet. *)

Goto(l) == tpc' = l

\* Read the interrupt status.
TaskletRead ==
    /\ tpc = "idle"
    /\ sched
    /\ sched' = FALSE
    /\ status' = intr
    /\ Goto(IF "TX" \in intr THEN "txhead" ELSE "err")
    /\ UNCHANGED <<txVars, intr, newHead, chErr, errVars, dogVars, level>>

zchan_tx_read_head ==
    /\ tpc = "txhead"
    /\ newHead' = hwHead
    /\ Goto("txdone")
    /\ UNCHANGED <<txVars, intr, sched, status, chErr, errVars, dogVars, level>>

\* The descriptors that the hardware is done with.
Retired ==
    {i \in Descs : (i + TxNum - txHead) % TxNum < (newHead + TxNum - txHead) % TxNum}

\* Mutant: the descriptors are given back as they are.
TxDoneClear_Forgotten ==
    /\ tpc = "txdone"
    /\ Goto("txpublish")
    /\ UNCHANGED <<txVars, intr, sched, status, newHead, chErr, errVars, dogVars, level>>

\* zchan_tx_done: clear them ...
TxDoneClear ==
    /\ tpc = "txdone"
    /\ desc' = [i \in Descs |-> IF i \in Retired THEN [desc[i] EXCEPT !.addr = FALSE] ELSE desc[i]]
    /\ Goto("txpublish")
    /\ UNCHANGED <<txHead, txTail, hwHead, txLock, spc, accepted, sent, intr, sched, status, newHead,
                   chErr, errVars, dogVars, level>>

\* ... and only then let the senders have them.
TxDonePublish ==
    /\ tpc = "txpublish"
    /\ txHead' = newHead
    /\ Goto("err")
    /\ UNCHANGED <<txTail, hwHead, desc, txLock, spc, accepted, sent, intr, sched, status, newHead,
                   chErr, errVars, dogVars, level>>

\* zynq_chan_err_proc: read the errors.
ErrRead ==
    /\ tpc = "err"
    /\ chErr' = IF "ERR" \in status THEN errStatus ELSE {}
    /\ Goto(IF chErr' = {} THEN "ack" ELSE "mask")
    /\ UNCHANGED <<txVars, intr, sched, status, newHead, errVars, dogVars, level>>

\* Mutant: the watchdog is left at its slow pace.
zchan_err_mask_Slow ==
    LET masked == chErr \ {LinkChange} IN
    /\ tpc = "mask"
    /\ ts_err' = [e \in AllErrs |-> IF e \in masked /\ ts_err[e] = Unset THEN 0 ELSE ts_err[e]]
    /\ errMask' = errMask \cup masked
    /\ comp' = (comp \/ masked # {})
    /\ Goto("clear")
    /\ UNCHANGED <<txVars, intr, sched, status, newHead, chErr, errStatus, interval, wpc, woken, fini,
                   level>>

\* Mask them, except a camera link change, and wake up the watchdog.  All under
\* zchan_lock, like zchan_err_unmask.
zchan_err_mask ==
    LET masked == chErr \ {LinkChange} IN
    /\ tpc = "mask"
    /\ ts_err' = [e \in AllErrs |-> IF e \in masked /\ ts_err[e] = Unset THEN 0 ELSE ts_err[e]]
    /\ errMask' = errMask \cup masked
    /\ interval' = IF masked # {} THEN 100 ELSE interval
    /\ comp' = (comp \/ masked # {})
    /\ Goto("clear")
    /\ UNCHANGED <<txVars, intr, sched, status, newHead, chErr, errStatus, wpc, woken, fini, level>>

\* Mutant: the errors are not cleared.
ErrClear_Forgotten ==
    /\ tpc = "clear"
    /\ chErr' = {}
    /\ Goto("ack")
    /\ UNCHANGED <<txVars, intr, sched, status, newHead, errVars, dogVars, level>>

\* Clear the errors that were read.
ErrClear ==
    /\ tpc = "clear"
    /\ errStatus' = errStatus \ chErr
    /\ chErr' = {}
    /\ Goto("ack")
    /\ UNCHANGED <<txVars, intr, sched, status, newHead, errMask, ts_err, interval, dogVars, level>>

\* What may be acknowledged.  zynq_tasklet, which serves all channels, acknowledges
\* what it read; zynq_chan_tasklet all of its channel in each of the two registers
\* in which it read anything, of this or of another channel.
Acked ==
    IF PerChannel THEN {status \cup more : more \in SUBSET {"TX", "ERR"}} ELSE {status}

\* Acknowledge the interrupts, at the end.
TaskletAck ==
    /\ tpc = "ack"
    /\ \E acked \in Acked : Relatch(acked, errMask)
    /\ status' = {}
    /\ Goto("idle")
    /\ UNCHANGED <<txVars, newHead, chErr, errVars, dogVars, level>>

-----------------------------------------------------------------------------
(* The watchdog thread, and the time it works by. *)

Tick ==
    /\ \E e \in AllErrs : ts_err[e] # Unset /\ ts_err[e] < Throttle
    /\ ts_err' = [e \in AllErrs |->
                    IF ts_err[e] # Unset /\ ts_err[e] < Throttle THEN ts_err[e] + 1 ELSE ts_err[e]]
    /\ UNCHANGED <<txVars, taskVars, errStatus, errMask, interval, dogVars, level>>

\* Mutant: the wait has no timeout.
WatchdogWait_NoTimeout ==
    /\ wpc = "wait"
    /\ comp
    /\ woken' = comp
    /\ wpc' = "unmask"
    /\ UNCHANGED <<txVars, taskVars, errVars, comp, fini, level>>

\* zchan_watchdog: kthread_should_stop, and the wait that a completion or the
\* timeout ends.
WatchdogWait ==
    /\ wpc = "wait"
    /\ woken' = comp
    /\ wpc' = "unmask"
    /\ UNCHANGED <<txVars, taskVars, errVars, comp, fini, level>>

Expired == {e \in AllErrs : ts_err[e] = Throttle}

\* Mutant: the timestamp is reset but the mask stays.
zchan_err_unmask_KeepsMask ==
    /\ wpc = "unmask"
    /\ ts_err' = [e \in AllErrs |-> IF e \in Expired THEN Unset ELSE ts_err[e]]
    /\ wpc' = "reinit"
    /\ UNCHANGED <<txVars, taskVars, errStatus, errMask, interval, comp, woken, fini, level>>

zchan_err_unmask ==
    /\ wpc = "unmask"
    /\ ts_err' = [e \in AllErrs |-> IF e \in Expired THEN Unset ELSE ts_err[e]]
    /\ errMask' = errMask \ Expired
    /\ interval' = IF Expired # {} /\ errMask' = {} THEN 1000 ELSE interval
    /\ Relatch({}, errMask')
    /\ wpc' = "reinit"
    /\ UNCHANGED <<txVars, tpc, status, newHead, chErr, errStatus, comp, woken, fini, level>>

\* Forget the completion, and any other that came meanwhile.
WatchdogLoop ==
    /\ wpc = "reinit"
    /\ comp' = IF woken THEN FALSE ELSE comp
    /\ woken' = FALSE
    /\ wpc' = IF fini = "stopping" THEN "gone" ELSE "wait"
    /\ UNCHANGED <<txVars, taskVars, errVars, fini, level>>

\* zchan_watchdog_fini, after zynq_free_irq: the tasklet is dead.  First complete()
\* wakes up the thread, then kthread_stop() tells it to end and waits for it.
FiniComplete ==
    /\ fini = "no"
    /\ tpc = "idle" /\ ~sched
    /\ fini' = "completed"
    /\ comp' = TRUE
    /\ UNCHANGED <<txVars, taskVars, errVars, wpc, woken, level>>

FiniStop ==
    /\ fini = "completed"
    /\ fini' = "stopping"
    /\ UNCHANGED <<txVars, taskVars, errVars, comp, wpc, woken, level>>

FiniDone ==
    /\ fini = "stopping"
    /\ wpc = "gone"
    /\ fini' = "done"
    /\ UNCHANGED <<txVars, taskVars, errVars, comp, wpc, woken, level>>

-----------------------------------------------------------------------------

Sender(s) == TxBegin(s) \/ TxFill(s) \/ zchan_tx_write_tail(s)

Tasklet ==
    \/ fini = "no" /\ TaskletRead
    \/ zchan_tx_read_head \/ TxDoneClear \/ TxDonePublish
    \/ ErrRead \/ zchan_err_mask \/ ErrClear \/ TaskletAck

Watchdog == WatchdogWait \/ zchan_err_unmask \/ WatchdogLoop

Fini == FiniComplete \/ FiniStop \/ FiniDone

Next ==
    \/ HwSends
    \/ \E e \in AllErrs : HwError(e)
    \/ \E s \in Senders : Sender(s)
    \/ Tasklet
    \/ Tick
    \/ Watchdog
    \/ Fini

Spec == Init /\ [][Next]_vars

\* Softirqs run, time passes, the thread is scheduled and its timeout ends, and
\* whoever tears the channel down goes on with it.
FairSpec ==
    /\ Spec
    /\ WF_vars(Tasklet)
    /\ WF_vars(Tick) /\ WF_vars(Watchdog)
    /\ WF_vars(FiniStop) /\ WF_vars(FiniDone)

-----------------------------------------------------------------------------
(* Properties. *)

RingType ==
    /\ txHead \in Descs /\ txTail \in Descs /\ hwHead \in Descs /\ newHead \in Descs
    /\ desc \in [Descs -> [addr : BOOLEAN, msg : Nat]]
    /\ txLock \in Senders \cup {NoSender}
    /\ spc \in [Senders -> {"idle", "fill", "tail"}]
    /\ accepted \in Nat /\ sent \in Nat

ErrType ==
    /\ errStatus \subseteq AllErrs /\ errMask \subseteq AllErrs /\ chErr \subseteq AllErrs
    /\ ts_err \in [AllErrs -> 0..Throttle \cup {Unset}]
    /\ interval \in {100, 1000}

TaskType ==
    /\ intr \subseteq {"TX", "ERR"} /\ status \subseteq {"TX", "ERR"}
    /\ tpc \in {"idle", "txhead", "txdone", "txpublish", "err", "mask", "clear", "ack"}
    /\ wpc \in {"wait", "unmask", "reinit", "gone"}
    /\ fini \in {"no", "completed", "stopping", "done"}

FlagType == sched \in BOOLEAN /\ comp \in BOOLEAN /\ woken \in BOOLEAN /\ level \in BOOLEAN

TypeOK == RingType /\ ErrType /\ TaskType /\ FlagType

Distance(i, j) == (j + TxNum - i) % TxNum

\* zchan_tx_one_msg reads the head without the tasklet's cooperation, and
\* zchan_tx_done clears descriptors without the lock.  Still the descriptors
\* between the hardware's head and the tail hold exactly the messages accepted and
\* not yet sent, in order, each with its buffer.
TxIntact ==
    /\ Distance(hwHead, txTail) = accepted - sent
    /\ \A k \in 1..(accepted - sent) :
         desc[(hwHead + k - 1) % TxNum] = [addr |-> TRUE, msg |-> sent + k]

\* zchan_tx_one_msg complains when "desc %d buffer is not cleared": a free
\* descriptor never has a stale address, since zchan_tx_done clears the retired
\* ones before it publishes the head.
FreeIsCleared == \A s \in Senders : spc[s] = "fill" => ~desc[txTail].addr

\* The Tx ring as senders, tasklet and hardware share it.
RingSafe == TypeOK /\ TxIntact /\ FreeIsCleared

\* An error is masked exactly while the watchdog has its time of masking, so no
\* mask is forgotten or lifted early; a camera link change is never masked; and
\* while anything is masked the watchdog looks every 100 ms.
MaskAccounted ==
    /\ errMask = {e \in AllErrs : ts_err[e] # Unset}
    /\ LinkChange \notin errMask
    /\ errMask # {} => interval = 100

\* No mask is for ever: it is lifted when its time is up, although completions
\* that come while the watchdog works are forgotten.
MaskLifted == \A e \in Errs : e \in errMask /\ fini = "no" ~> e \notin errMask \/ fini # "no"

\* Every error is dealt with, even one that came masked, or while the tasklet was
\* acknowledging the interrupts of another - provided the FPGA keeps an interrupt
\* raised that has a reason.
ErrorHandled ==
    \A e \in AllErrs : level /\ e \in errStatus /\ fini = "no" ~> e \notin errStatus \/ fini # "no"

\* The watchdog may take the completion of zchan_watchdog_fini for an ordinary one
\* and go back to sleep before kthread_stop(); it ends all the same.
WatchdogStops == fini = "completed" ~> fini = "done"
=============================================================================
