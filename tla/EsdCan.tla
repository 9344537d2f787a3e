------------------------------- MODULE EsdCan -------------------------------
(***************************************************************************)
(* One handle (CAN_OCB) of the esd CAN driver, src/esd/src/esdcan_common.c *)
(* in the build that OSIF_USE_PREEMPT_RT_IMPLEMENTATION selects, and the   *)
(* threads of the process that share it.                                   *)
(*                                                                         *)
(* Everything between OSIF_MUTEX_LOCK and OSIF_MUTEX_UNLOCK of node->lock  *)
(* is one action.  A thread gives the lock up in five places, and there it *)
(* has a control state of its own: waiting in a read or a write, waiting   *)
(* for the abort a signal caused, waiting for the nucleus to finish an     *)
(* ioctl, sleeping between two rounds of the id filter, and waiting in the *)
(* close.  The nucleus is a binary of the vendor: its part is external.    *)
(***************************************************************************)
EXTENDS Integers, FiniteSets

CONSTANTS
    Threads,    \* threads of the process that has the handle
    MaxMsgs,    \* bound: messages of one canSend or canWrite, and of one rx_done
    MaxQueue,   \* bound: messages of the handle that wait in the nucleus
    MaxId       \* the identifiers of the filter are 1 .. MaxId

VARIABLES
    file,       \* "closed", "open" (private_data is 0) or "ready" (it is the ocb)
    closeState, \* ocb->close_state
    rx, tx,     \* ocb->rx and ocb->tx: state and cm_count
    status,     \* node->status
    filt,       \* identifiers the filter of the handle lets pass
    nuc,        \* the nucleus: its jobs for this handle
    th          \* the threads

vars == <<file, closeState, rx, tx, status, filt, nuc, th>>

Ids == 1 .. MaxId

\* A sleeping call is in one of these places.
Waits == {"read", "readsig", "write", "writesig", "close", "release", "filter", "ioctlPrep", "ioctlWait"}
Idle == [pc |-> "idle", old |-> 0, intr |-> FALSE, on |-> FALSE, lo |-> 0, hi |-> 0]
Flags == {"PENDING_READ", "PENDING_WRITE", "PENDING_SEND", "ABORT", "SIGNAL_INTERRUPT", "CLOSING"}
NewJob == [state |-> {}, count |-> 0]
NewNuc == [rx |-> "idle", q |-> 0, timed |-> FALSE, abort |-> FALSE, closing |-> FALSE, msgs |-> 0]

\* The entry of the nucleus is clear again when a thread leaves the driver.
Leave(t) == th' = [th EXCEPT ![t] = Idle]
Go(t, pc) == th' = [th EXCEPT ![t].pc = pc]

\* esdcan_ioctl: only a thread outside the driver enters it, and it finds the ocb in the file.
esdcan_ioctl(t) == th[t].pc = "idle" /\ file = "ready"

\* The head of esdcan_ioctl_internal: a handle that is being closed is refused.
Entered(t) == esdcan_ioctl(t) /\ "HANDLE_CLOSED" \notin closeState

\* CAN_ACTION_CHECK: nothing but information for a board of the wrong firmware or hardware.
CAN_ACTION_CHECK == status = "ok"
-----------------------------------------------------------------------------
(* Opening.  The library opens the file and sends IOCTL_ESDCAN_CREATE       *)
(* before it gives the handle to anybody, so one thread does both.          *)

esdcan_open(t) ==
    /\ file = "closed" /\ \A u \in Threads : th[u].pc = "idle"
    /\ file' = "open"
    /\ UNCHANGED <<closeState, rx, tx, status, filt, nuc, th>>

\* ocb_create: a fresh block, all zero.
ocb_create ==
    /\ closeState' = {} /\ rx' = NewJob /\ tx' = NewJob /\ filt' = {}

\* ocb_create2: the sizes of the queues are patched and checked, listen-only mode may be refused, then nuc_open may fail; each of them leaves the file without a handle, and the nucleus without a job for it.
ocb_create2 == nuc' = NewNuc /\ file' \in {"ready", "open"}

IoctlCreate(t) ==
    /\ th[t].pc = "idle" /\ file = "open"
    /\ ocb_create
    /\ ocb_create2
    /\ status' \in {"ok", "wrongFirmware"}
    /\ UNCHANGED th

-----------------------------------------------------------------------------
(* Receiving                                                               *)

RxWoken == rx.count > 0 \/ rx.state \cap {"ABORT", "CLOSING"} # {}

\* Mutant: a second reader is let in.
ReadStart_Shared(t) ==
    /\ Entered(t) /\ CAN_ACTION_CHECK
    /\ rx' = [rx EXCEPT !.state = {"PENDING_READ"}, !.count = 0]
    /\ nuc' = [nuc EXCEPT !.rx = "job"]
    /\ Go(t, "read")
    /\ UNCHANGED <<file, closeState, tx, status, filt>>

\* esdcan_read_common up to the wait.
ReadStart(t) ==
    /\ Entered(t) /\ CAN_ACTION_CHECK
    /\ rx.state = {}
    /\ \E ok \in BOOLEAN :
         IF ok THEN /\ rx' = [rx EXCEPT !.state = {"PENDING_READ"}, !.count = 0]
                    /\ \E kind \in {"job", "timed"} : nuc' = [nuc EXCEPT !.rx = kind]
                    /\ Go(t, "read")
               ELSE rx' = [rx EXCEPT !.count = 0] /\ UNCHANGED <<nuc, th>>
    /\ UNCHANGED <<file, closeState, tx, status, filt>>

\* A signal ends the wait: unless something came meanwhile the job is aborted, and the nucleus calls rx_done once more.
ReadSignal(t) ==
    /\ th[t].pc = "read" /\ ~RxWoken
    /\ rx' = [rx EXCEPT !.state = @ \cup {"SIGNAL_INTERRUPT"}]
    /\ nuc' = [nuc EXCEPT !.rx = "abort"]
    /\ th' = [th EXCEPT ![t].pc = "readsig", ![t].intr = TRUE]
    /\ UNCHANGED <<file, closeState, tx, status, filt>>

\* The end of esdcan_read_common: count and state are cleared in one go, a close that waits is woken by the cleared flag.
ReadEnd(t) ==
    /\ \/ th[t].pc = "read" /\ RxWoken
       \/ th[t].pc = "readsig" /\ "SIGNAL_INTERRUPT" \notin rx.state
    /\ rx' = [rx EXCEPT !.state = {}, !.count = 0]
    /\ Leave(t)
    /\ UNCHANGED <<file, closeState, tx, status, filt, nuc>>

\* IOCTL_ESDCAN_TAKE: what is there is taken without a wait, and the state is clear afterwards in every outcome.
IoctlTake(t) ==
    /\ Entered(t) /\ CAN_ACTION_CHECK
    /\ rx.state = {}
    /\ rx' = [rx EXCEPT !.count = 0]
    /\ \E n \in 0 .. nuc.msgs : nuc' = [nuc EXCEPT !.msgs = @ - n]
    /\ UNCHANGED <<file, closeState, tx, status, filt, th>>

\* IOCTL_ESDCAN_RX_ABORT and FLUSH_RX_FIFO.
IoctlRxAbort(t) ==
    /\ Entered(t)
    /\ \/ nuc.rx # "idle" /\ nuc' = [nuc EXCEPT !.rx = "abort"]
       \/ nuc.msgs > 0 /\ nuc' = [nuc EXCEPT !.msgs = 0]
    /\ UNCHANGED <<file, closeState, rx, tx, status, filt, th>>

\* esdcan_rx_done, called by the nucleus with the lock held.
esdcan_rx_done(n) ==
    rx' = [rx EXCEPT !.count = n,
                     !.state = IF "SIGNAL_INTERRUPT" \in @ THEN @ \ {"SIGNAL_INTERRUPT"}
                               ELSE IF "PENDING_READ" \in @ /\ n = 0 THEN @ \cup {"ABORT"} ELSE @]

\* The nucleus ends a receive job: with messages (esdcan_rx_put copies them into the buffer of the handle), after the time out of the job, or because it was aborted.
NucRxDone ==
    /\ nuc.rx # "idle"
    /\ \E n \in 0 .. nuc.msgs :
         /\ n = 0 => nuc.rx \in {"abort", "timed"} \/ nuc.closing
         /\ nuc' = [nuc EXCEPT !.rx = "idle", !.msgs = @ - n]
         /\ esdcan_rx_done(n)
    /\ UNCHANGED <<file, closeState, tx, status, filt, th>>

\* A message of the bus passes the filter of the handle; select is woken (esdcan_rx_notify).
NucReceives ==
    /\ file = "ready" /\ ~nuc.closing /\ nuc.msgs < MaxMsgs
    /\ nuc' = [nuc EXCEPT !.msgs = @ + 1]
    /\ UNCHANGED <<file, closeState, rx, tx, status, filt, th>>

-----------------------------------------------------------------------------
(* Sending                                                                 *)

\* esdcan_tx_get copies the messages one after the other from the user: a fault at one of them leaves those before it.
esdcan_tx_get(len) == 0 .. len

\* IOCTL_ESDCAN_SEND: the messages are queued and the call returns.  A failing nuc_tx puts the old state back.
IoctlSend(t) ==
    /\ Entered(t) /\ CAN_ACTION_CHECK
    /\ "PENDING_WRITE" \notin tx.state
    /\ \E n \in esdcan_tx_get(MaxMsgs) :
         /\ nuc.q + n <= MaxQueue
         /\ IF n = 0 THEN UNCHANGED <<tx, nuc>>
            ELSE /\ tx' = [tx EXCEPT !.state = {"PENDING_SEND"}]
                 /\ nuc' = [nuc EXCEPT !.q = @ + n]
    /\ UNCHANGED <<file, closeState, rx, status, filt, th>>

TxWoken(t) == tx.count > th[t].old \/ tx.state \cap {"ABORT", "CLOSING"} # {}

\* esdcan_write_common up to the wait.  The messages of an earlier canSend that still wait in the nucleus are counted, to be subtracted later; when nuc_tx takes none the old state comes back.
WriteStart(t) ==
    /\ Entered(t) /\ CAN_ACTION_CHECK
    /\ tx.state \cap {"PENDING_WRITE", "ABORT"} = {}
    /\ \E n \in esdcan_tx_get(MaxMsgs) \ {0}, timed \in BOOLEAN :
         /\ nuc.q + n <= MaxQueue
         /\ tx' = [tx EXCEPT !.state = {"PENDING_WRITE"}]
         /\ nuc' = [nuc EXCEPT !.q = @ + n, !.timed = timed]
         /\ th' = [th EXCEPT ![t].pc = "write",
                             ![t].old = IF "PENDING_SEND" \in tx.state THEN nuc.q ELSE 0]
    /\ UNCHANGED <<file, closeState, rx, status, filt>>

\* A signal ends the wait.  The test before the abort is for equality: a write that follows a canSend is not aborted and leaves at once.
WriteSignal(t) ==
    /\ th[t].pc = "write" /\ ~TxWoken(t)
    /\ IF tx.count = th[t].old
       THEN /\ tx' = [tx EXCEPT !.state = @ \cup {"SIGNAL_INTERRUPT"}]
            /\ nuc' = [nuc EXCEPT !.abort = TRUE]
            /\ th' = [th EXCEPT ![t].pc = "writesig", ![t].intr = TRUE]
       ELSE /\ tx' = [tx EXCEPT !.state = {}, !.count = 0]
            /\ Leave(t)
            /\ UNCHANGED nuc
    /\ UNCHANGED <<file, closeState, rx, status, filt>>

WriteEnd(t) ==
    /\ \/ th[t].pc = "write" /\ TxWoken(t)
       \/ th[t].pc = "writesig" /\ "SIGNAL_INTERRUPT" \notin tx.state
    /\ tx' = [tx EXCEPT !.state = {}, !.count = 0]
    /\ Leave(t)
    /\ UNCHANGED <<file, closeState, rx, status, filt, nuc>>

\* IOCTL_ESDCAN_TX_ABORT and PURGE_TX_FIFO.
IoctlTxAbort(t) ==
    /\ Entered(t) /\ nuc.q > 0
    /\ nuc' = [nuc EXCEPT !.abort = TRUE]
    /\ UNCHANGED <<file, closeState, rx, tx, status, filt, th>>

\* Mutant: the write that a signal interrupted is not told.
esdcan_tx_done_Deaf(n) ==
    tx' = IF "PENDING_SEND" \in tx.state THEN [state |-> {}, count |-> 0]
          ELSE IF "PENDING_WRITE" \in tx.state
          THEN [state |-> IF n = 0 THEN tx.state \cup {"ABORT"} ELSE tx.state, count |-> n]
          ELSE tx

\* esdcan_tx_done, called by the nucleus with the lock held.
esdcan_tx_done(n) ==
    tx' = IF "PENDING_SEND" \in tx.state THEN [state |-> {}, count |-> 0]
          ELSE IF "SIGNAL_INTERRUPT" \in tx.state
          THEN [state |-> tx.state \ {"SIGNAL_INTERRUPT"}, count |-> n]
          ELSE IF "PENDING_WRITE" \in tx.state
          THEN [state |-> IF n = 0 THEN tx.state \cup {"ABORT"} ELSE tx.state, count |-> n]
          ELSE tx

\* The nucleus ends the transmission of what it has: it reports all messages, or none when they were aborted or timed out.
NucTxDone ==
    /\ nuc.q > 0
    /\ \E all \in BOOLEAN :
         /\ all \/ nuc.abort \/ nuc.closing \/ nuc.timed
         /\ esdcan_tx_done(IF all THEN nuc.q ELSE 0)
    /\ nuc' = [nuc EXCEPT !.q = 0, !.timed = FALSE, !.abort = FALSE]
    /\ UNCHANGED <<file, closeState, rx, status, filt, th>>

-----------------------------------------------------------------------------
(* Identifiers                                                             *)

\* IOCTL_ESDCAN_ID_RANGE_ADD and _DEL of the identifiers lo .. hi.
IoctlIdRange(t) ==
    /\ Entered(t) /\ CAN_ACTION_CHECK
    /\ \E lo, hi \in Ids, on \in BOOLEAN :
         /\ lo <= hi
         /\ th' = [th EXCEPT ![t] = [pc |-> "filter", old |-> lo, intr |-> FALSE, on |-> on, lo |-> lo, hi |-> hi]]
    /\ UNCHANGED <<file, closeState, rx, tx, status, filt, nuc>>

\* One round of id_filter: nuc_id_filter switches the first n of the identifiers that are left, then asks to be called again (the lock is given up), is done, or fails.  A failing ADD takes back all that it has done.
id_filter(t) ==
    /\ th[t].pc = "filter"
    /\ LET me == th[t]
       IN  \E n \in 0 .. (me.hi - me.lo + 1), fail \in BOOLEAN :
             LET new == me.lo .. (me.lo + n - 1)
                 all == me.old .. (me.lo + n - 1)
             IN  /\ filt' = IF ~me.on THEN filt \ new ELSE IF fail THEN filt \ all ELSE filt \cup new
                 /\ IF fail \/ me.lo + n > me.hi THEN Leave(t) ELSE th' = [th EXCEPT ![t].lo = @ + n]
    /\ UNCHANGED <<file, closeState, rx, tx, status, nuc>>

\* IOCTL_ESDCAN_ID_REGION_ADD and _DEL: one call of the nucleus, whatever it did is reported.
IoctlIdRegion(t) ==
    /\ Entered(t) /\ CAN_ACTION_CHECK
    /\ \E lo \in Ids, hi \in Ids : filt' \in {filt \cup (lo .. hi), filt \ (lo .. hi)}
    /\ UNCHANGED <<file, closeState, rx, tx, status, nuc, th>>

-----------------------------------------------------------------------------
(* Everything else                                                         *)

\* The commands that go to nuc_ioctl, by the label or case that serves them.
Time_Cmds == {"GET_TIMESTAMP_FREQ", "GET_TIMESTAMP"}
Debug_Cmds == {"DEBUG"}
Info_Cmds == {"GET_INFO"}
Statistic_Cmds == {"GET_BUS_STATISTIC", "GET_BITRATE_DETAILS", "SER_REG_READ", "SER_REG_WRITE"}
Eei_Cmds == {"EEI_CREATE", "EEI_STATUS", "EEI_CONFIGURE"}
IOCTL_CMD == {"RESET_BUS_STATISTIC", "RESET_CAN_ERROR_CNT"}
IOCTL_32_R == {"GET_BAUD", "GET_BUSLOAD_INTERVAL", "GET_ERROR_COUNTER", "GET_TX_TS_WIN", "GET_TX_TS_TIMEOUT"}
IOCTL_32_W == {"SET_BAUD", "SET_BUSLOAD_INTERVAL", "EEI_DESTROY", "EEI_START", "EEI_STOP",
               "EEI_TRIGGER_NOW", "SET_TX_TS_WIN", "SET_TX_TS_TIMEOUT"}

\* Those that a board of the wrong firmware serves too.
Unchecked == Debug_Cmds \cup Info_Cmds
NucCmds == Time_Cmds \cup Statistic_Cmds \cup Eei_Cmds \cup IOCTL_CMD \cup IOCTL_32_R \cup IOCTL_32_W \cup Unchecked

\* my_nuc_ioctl: the nucleus answers at once, or takes a while: then the lock is given up and the thread puts itself to sleep.
my_nuc_ioctl(t) ==
    /\ \E cmd \in NucCmds : Entered(t) /\ (CAN_ACTION_CHECK \/ cmd \in Unchecked)
    /\ Go(t, "ioctlPrep")
    /\ UNCHANGED <<file, closeState, rx, tx, status, filt, nuc>>

PrepareToWait(t) ==
    /\ th[t].pc = "ioctlPrep"
    /\ Go(t, "ioctlWait")
    /\ UNCHANGED <<file, closeState, rx, tx, status, filt, nuc>>

\* esdcan_ioctl_done wakes the thread that sleeps; the status is stored in every case.
esdcan_ioctl_done(t) ==
    /\ th[t].pc \in {"ioctlPrep", "ioctlWait"} /\ ~th[t].intr
    /\ IF th[t].pc = "ioctlWait" THEN Leave(t) ELSE th' = [th EXCEPT ![t].intr = TRUE]
    /\ UNCHANGED <<file, closeState, rx, tx, status, filt, nuc>>

-----------------------------------------------------------------------------
(* Closing                                                                 *)

\* ocb_destroy up to its wait: jobs that are inside are marked, nuc_close aborts them.
ocb_destroy ==
    /\ closeState' = closeState \cup {"HANDLE_CLOSED"}
    /\ rx' = [rx EXCEPT !.state = IF @ = {} THEN @ ELSE @ \cup {"CLOSING"}]
    /\ tx' = [tx EXCEPT !.state = IF @ = {} THEN @ ELSE @ \cup {"CLOSING"}]
    /\ nuc' = [nuc EXCEPT !.closing = TRUE]

IoctlDestroy(t) ==
    /\ Entered(t)
    /\ ocb_destroy
    /\ Go(t, "close")
    /\ UNCHANGED <<file, status, filt>>

\* esdcan_release runs when the last reference to the file goes, hence with no thread inside.  A handle that is still open is destroyed first, then the ocb is freed.
esdcan_release(t) ==
    /\ \A u \in Threads : th[u].pc = "idle"
    /\ file \in {"open", "ready"}
    /\ IF file = "ready" /\ "HANDLE_CLOSED" \notin closeState
       THEN ocb_destroy /\ Go(t, "release") /\ UNCHANGED file
       ELSE file' = "closed" /\ UNCHANGED <<closeState, rx, tx, nuc, th>>
    /\ UNCHANGED <<status, filt>>

\* Mutant: the close waits for the nucleus only.
CloseEnd_Early(t) ==
    /\ th[t].pc \in {"close", "release"}
    /\ "CLOSE_DONE" \in closeState
    /\ Leave(t)
    /\ file' = IF th[t].pc = "release" THEN "closed" ELSE file
    /\ UNCHANGED <<closeState, rx, tx, status, filt, nuc>>

\* The wait is over when the nucleus has closed and no job is marked any more.
CloseEnd(t) ==
    /\ th[t].pc \in {"close", "release"}
    /\ "CLOSE_DONE" \in closeState /\ "CLOSING" \notin tx.state \cup rx.state
    /\ Leave(t)
    /\ file' = IF th[t].pc = "release" THEN "closed" ELSE file
    /\ UNCHANGED <<closeState, rx, tx, status, filt, nuc>>

\* esdcan_close_done: the nucleus has no job of the handle left.
esdcan_close_done ==
    /\ nuc.closing /\ nuc.rx = "idle" /\ nuc.q = 0
    /\ "CLOSE_DONE" \notin closeState
    /\ closeState' = closeState \cup {"CLOSE_DONE"}
    /\ UNCHANGED <<file, rx, tx, status, filt, nuc, th>>

-----------------------------------------------------------------------------
Init ==
    /\ file = "closed" /\ closeState = {} /\ rx = NewJob /\ tx = NewJob
    /\ status = "ok" /\ filt = {} /\ nuc = NewNuc
    /\ th = [t \in Threads |-> Idle]

Call(t) ==
    \/ esdcan_open(t) \/ IoctlCreate(t) \/ esdcan_release(t)
    \/ ReadStart(t) \/ ReadSignal(t) \/ IoctlTake(t) \/ IoctlRxAbort(t)
    \/ IoctlSend(t) \/ WriteStart(t) \/ WriteSignal(t) \/ IoctlTxAbort(t)
    \/ IoctlIdRange(t) \/ IoctlIdRegion(t)
    \/ my_nuc_ioctl(t) \/ IoctlDestroy(t)

Run(t) == ReadEnd(t) \/ WriteEnd(t) \/ id_filter(t) \/ PrepareToWait(t) \/ CloseEnd(t)

Nucleus == NucRxDone \/ NucTxDone \/ esdcan_close_done \/ \E t \in Threads : esdcan_ioctl_done(t)

Next == (\E t \in Threads : Call(t) \/ Run(t)) \/ Nucleus \/ NucReceives

\* A thread that can run does; the nucleus ends what it was told to abort or to close.  It may wait for ever for a message without a timeout.
Fairness ==
    /\ \A t \in Threads : WF_vars(Run(t))
    /\ WF_vars(NucRxDone) /\ WF_vars(NucTxDone) /\ WF_vars(esdcan_close_done)

Spec == Init /\ [][Next]_vars /\ Fairness
-----------------------------------------------------------------------------
Reading(t) == th[t].pc \in {"read", "readsig"}
Writing(t) == th[t].pc \in {"write", "writesig"}

TypeOK ==
    /\ file \in {"closed", "open", "ready"}
    /\ closeState \subseteq {"HANDLE_CLOSED", "CLOSE_DONE"}
    /\ rx.state \subseteq Flags /\ tx.state \subseteq Flags
    /\ rx.count \in 0 .. MaxMsgs /\ tx.count \in 0 .. MaxQueue
    /\ filt \subseteq Ids /\ status \in {"ok", "wrongFirmware"}
    /\ \A t \in Threads : th[t].pc \in Waits \cup {"idle"}

\* At most one thread reads and at most one writes, and the state of the handle says so: esdcan_read_common and esdcan_write_common give the lock up while they wait and rely on the state to keep others out.
JobOwned ==
    /\ Cardinality({t \in Threads : Reading(t)}) = IF "PENDING_READ" \in rx.state THEN 1 ELSE 0
    /\ Cardinality({t \in Threads : Writing(t)}) = IF "PENDING_WRITE" \in tx.state THEN 1 ELSE 0

\* A thread that sleeps in a read or a write has a job in the nucleus that will end and wake it.
NoLostJob ==
    \A t \in Threads :
      /\ th[t].pc = "read" /\ ~RxWoken => nuc.rx # "idle"
      /\ th[t].pc = "readsig" /\ "SIGNAL_INTERRUPT" \in rx.state => nuc.rx = "abort"
      /\ th[t].pc = "write" /\ ~TxWoken(t) => nuc.q > th[t].old
      /\ th[t].pc = "writesig" /\ "SIGNAL_INTERRUPT" \in tx.state => nuc.q > 0 /\ nuc.abort

HandleSafe == TypeOK /\ JobOwned /\ NoLostJob

\* When a close returns nothing of the handle is in the driver: no thread in a read or a write, no job in the nucleus ("we mark this ocb as CLOSING, until the jobs have left the driver").
ClosedQuiet ==
    "CLOSE_DONE" \in closeState /\ (\A t \in Threads : th[t].pc \notin {"close", "release"}) =>
       /\ rx.state = {} /\ tx.state = {} /\ nuc.rx = "idle" /\ nuc.q = 0
       /\ \A t \in Threads : ~Reading(t) /\ ~Writing(t)

\* A close, and a call that a signal interrupts, return: each waits without a timeout for a call-back of the nucleus and for the other threads.
CallsReturn ==
    \A t \in Threads : th[t].pc \in {"close", "release", "readsig", "writesig"} ~> th[t].pc = "idle"
=============================================================================
