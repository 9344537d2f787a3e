------------------------------ MODULE BasaCanCtl ------------------------------
(***************************************************************************)
(* Control and transmission on one CAN channel: the calls of the library   *)
(* (bcan_lib.c) on top of the ioctls of the driver (basa_can.c), made by   *)
(* the threads of several processes.                                       *)
(*                                                                         *)
(* The driver has a lock for the channel (zcan_pio_lock), one for the      *)
(* transmit FIFO (zcan_pio_tx_lock) and one for the high priority buffer   *)
(* (zcan_pio_tx_hi_lock).  Stop, reset and close take the first two;       *)
(* loopback and baud rate changes take only the first, a transmission only *)
(* the one of its FIFO.  zcan_pio_rx_lock, a leaf of the lock order, is    *)
(* part of the receive path and left out here.                             *)
(***************************************************************************)
EXTENDS Naturals, FiniteSets

CONSTANTS
    Threads,
    Procs,          \* processes
    ProcOf,         \* [Threads -> Procs]: threads of a process share its handle
    NoThread,       \* a lock that is free
    Rates,          \* baud rates
    DefaultRate,    \* ZYNQ_BAUDRATE_500K
    TxCap,          \* frames the transmit FIFO holds
    MaxSend,        \* BCAN_MAX_TX_MSG: frames of one bcan_send
    MaxCalls        \* bound on the lifecycle calls made

ASSUME ThreadAssumption == NoThread \notin Threads /\ ProcOf \in [Threads -> Procs]
ASSUME RateAssumption   == DefaultRate \in Rates
ASSUME SizeAssumption   == TxCap \in Nat \ {0} /\ MaxSend \in Nat \ {0} /\ MaxCalls \in Nat

VARIABLES
    opened,         \* zcan_pio_opened
    pioState,       \* zcan_pio_state
    baud,           \* zcan_pio_baudrate
    cen,            \* ZCAN_IP_SRR_CEN: the core is enabled
    msr,            \* ZCAN_IP_MSR: the mode of the core
    brpr,           \* ZCAN_IP_BRPR: the rate the core really uses
    txFifo,         \* frames in the transmit FIFO
    txHpb,          \* frames in the high priority buffer
    pioLock, txLock, hiLock,    \* holders of the three locks
    dev_state,      \* flags of each process's handle
    pc,             \* where each thread is
    call,           \* the call each thread is in, with its locals
    calls,          \* lifecycle calls made so far
    overlap         \* history: lifecycle calls on one handle overlapped

chipVars == <<opened, pioState, baud, cen, msr, brpr, txFifo, txHpb>>
lockVars == <<pioLock, txLock, hiLock>>
histVars == <<calls, overlap>>
vars == <<chipVars, lockVars, dev_state, pc, call, histVars>>

Lifecycle == {"open", "close", "start", "stop", "baud", "loopback", "normal"}
Sends     == {"send", "hipri"}
Flags     == {"OPEN", "BAUD_SET", "LOOPBACK", "NORMAL", "START", "STOP"}

\* op: the call; rate: the argument of bcan_set_baudrate; saved: orig_val or
\* pio_state, to be restored after a change; todo: the frames that bcan_send has
\* still to send; late: its ktime_end has passed.
Calls ==
    [op : Lifecycle \cup Sends \cup {"none"}, rate : Rates, saved : BOOLEAN, todo : 0..MaxSend,
     late : BOOLEAN]

\* A call that begins.
NewCall(c, r, n) == [op |-> c, rate |-> r, saved |-> FALSE, todo |-> n, late |-> FALSE]

NoCall == NewCall("none", DefaultRate, 0)

Init ==
    /\ opened = FALSE /\ pioState = "INIT"
    /\ baud = DefaultRate /\ brpr = DefaultRate
    /\ cen = FALSE /\ msr = "NORMAL"
    /\ txFifo = 0 /\ txHpb = 0
    /\ pioLock = NoThread /\ txLock = NoThread /\ hiLock = NoThread
    /\ dev_state = [p \in Procs |-> {}]
    /\ pc = [t \in Threads |-> "idle"]
    /\ call = [t \in Threads |-> NoCall]
    /\ calls = 0 /\ overlap = [p \in Procs |-> FALSE]

Handle(t) == dev_state[ProcOf[t]]

\* Threads of t's process that are inside a lifecycle call.
InLifecycle(p) == {t \in Threads : ProcOf[t] = p /\ call[t].op \in Lifecycle}

Goto(t, l) == pc' = [pc EXCEPT ![t] = l]

\* The call is over.
Leave(t) ==
    /\ Goto(t, "idle")
    /\ call' = [call EXCEPT ![t] = NoCall]

-----------------------------------------------------------------------------
(* The library: bcan_open ... bcan_stop. *)

\* Whether the handle's flags allow the call.  A handle in use is never NULL; its
\* process may not call bcan_open again while it has one.
bcan_check_state(t, c) ==
    CASE c = "open"               -> Handle(t) = {}
      [] c \in {"baud", "loopback", "close"} -> "OPEN" \in Handle(t)
      [] c = "normal"             -> Handle(t) # {}
      [] c = "start"              -> "BAUD_SET" \in Handle(t)
      [] c \in {"stop"} \cup Sends -> "START" \in Handle(t)

\* A thread calls the library.  A call that the flags do not allow returns at
\* once and changes nothing.  bcan_close frees the handle, so no other call on it
\* may be in progress.
LifecycleCall(t, c, r) ==
    /\ pc[t] = "idle"
    /\ calls < MaxCalls
    /\ bcan_check_state(t, c)
    /\ c \in {"open", "close"} => \A o \in Threads : ProcOf[o] = ProcOf[t] => pc[o] = "idle"
    /\ calls' = calls + 1
    /\ overlap' = [overlap EXCEPT ![ProcOf[t]] = c # "open" /\ (@ \/ InLifecycle(ProcOf[t]) # {})]
    /\ call' = [call EXCEPT ![t] = NewCall(c, IF c = "baud" THEN r ELSE DefaultRate, 0)]
    /\ Goto(t, IF c = "open" THEN "open" ELSE "pio")
    /\ dev_state' = IF c = "close" THEN [dev_state EXCEPT ![ProcOf[t]] = {}] ELSE dev_state
    /\ UNCHANGED <<chipVars, lockVars>>

\* Mutant: bcan_stop forgets to clear BCAN_DEV_START.
UpdateFlags_KeepStart(t) ==
    /\ pc[t] = "flags"
    /\ dev_state' = [dev_state EXCEPT ![ProcOf[t]] =
         CASE call[t].op = "baud"     -> @ \cup {"BAUD_SET"}
           [] call[t].op = "loopback" -> (@ \ {"NORMAL"}) \cup {"LOOPBACK"}
           [] call[t].op = "normal"   -> (@ \ {"LOOPBACK"}) \cup {"NORMAL"}
           [] call[t].op = "start"    -> @ \cup {"START"}
           [] call[t].op = "stop"     -> @ \cup {"STOP"}]
    /\ Leave(t)
    /\ UNCHANGED <<chipVars, lockVars, histVars>>

\* bcan_set_baudrate, bcan_set_loopback, bcan_unset_loopback, bcan_start and
\* bcan_stop update the flags after the ioctl, without any lock.
UpdateFlags(t) ==
    /\ pc[t] = "flags"
    /\ dev_state' = [dev_state EXCEPT ![ProcOf[t]] =
         CASE call[t].op = "baud"     -> @ \cup {"BAUD_SET"}
           [] call[t].op = "loopback" -> (@ \ {"NORMAL"}) \cup {"LOOPBACK"}
           [] call[t].op = "normal"   -> (@ \ {"LOOPBACK"}) \cup {"NORMAL"}
           [] call[t].op = "start"    -> @ \cup {"START"}
           [] call[t].op = "stop"     -> (@ \cup {"STOP"}) \ {"START"}]
    /\ Leave(t)
    /\ UNCHANGED <<chipVars, lockVars, histVars>>

-----------------------------------------------------------------------------
(* The driver: open, close and the ioctls of the control plane. *)

\* zcan_open: one handle at a time.
zcan_open(t) ==
    /\ pc[t] = "open"
    /\ pioLock = NoThread
    /\ \/ opened /\ Leave(t) /\ UNCHANGED opened
       \/ ~opened /\ opened' = TRUE /\ Goto(t, "pio") /\ UNCHANGED call
    /\ UNCHANGED <<pioState, baud, cen, msr, brpr, txFifo, txHpb, lockVars, dev_state, histVars>>

\* Mutant: zcan_pio_stop takes only the channel lock.
TakesTxLock_NotStop(c) == c \in {"open", "close"}

TakesTxLock(c) == c \in {"open", "close", "stop"}

\* spin_lock(&zcan->zcan_pio_lock)
LockPio(t) ==
    /\ pc[t] = "pio"
    /\ pioLock = NoThread
    /\ pioLock' = t
    /\ Goto(t, IF TakesTxLock(call[t].op) THEN "tx" ELSE "work")
    /\ UNCHANGED <<chipVars, txLock, hiLock, dev_state, call, histVars>>

\* spin_lock(&zcan->zcan_pio_tx_lock)
LockTx(t) ==
    /\ pc[t] = "tx"
    /\ txLock = NoThread
    /\ txLock' = t
    /\ Goto(t, "work")
    /\ UNCHANGED <<chipVars, pioLock, hiLock, dev_state, call, histVars>>

\* Mutant: spin_unlock(&zcan->zcan_pio_tx_lock) is missing.
Unlock_KeepsTx(t) ==
    /\ pioLock' = NoThread
    /\ UNCHANGED <<txLock, hiLock>>

\* Every way out of the control ioctls releases the locks that were taken.
Unlock(t) ==
    /\ pioLock' = NoThread
    /\ txLock' = IF txLock = t THEN NoThread ELSE txLock
    /\ UNCHANGED hiLock

zcan_pio_start(t) ==
    /\ pc[t] = "work" /\ call[t].op = "start"
    /\ cen' = TRUE
    /\ pioState' = "START"
    /\ Unlock(t)
    /\ Goto(t, "flags")
    /\ UNCHANGED <<opened, baud, msr, brpr, txFifo, txHpb, dev_state, call, histVars>>

zcan_pio_stop(t) ==
    /\ pc[t] = "work" /\ call[t].op = "stop"
    /\ cen' = FALSE
    /\ pioState' = "STOP"
    /\ Unlock(t)
    /\ Goto(t, "flags")
    /\ UNCHANGED <<opened, baud, msr, brpr, txFifo, txHpb, dev_state, call, histVars>>

\* zcan_pio_set_baudrate: the core is disabled while the rate changes, and then
\* put back as its register said it was.
BaudDisable(t) ==
    /\ pc[t] = "work" /\ call[t].op = "baud"
    /\ call' = [call EXCEPT ![t].saved = cen]
    /\ cen' = FALSE
    /\ Goto(t, "config")
    /\ UNCHANGED <<opened, pioState, baud, msr, brpr, txFifo, txHpb, lockVars, dev_state, histVars>>

\* Mutant: the core is not enabled again.
zcan_pio_set_baudrate_NoRestore(t) ==
    /\ pc[t] = "config" /\ call[t].op = "baud"
    /\ brpr' = call[t].rate
    /\ baud' = call[t].rate
    /\ Unlock(t)
    /\ Goto(t, "flags")
    /\ UNCHANGED <<opened, pioState, cen, msr, txFifo, txHpb, dev_state, call, histVars>>

zcan_pio_set_baudrate(t) ==
    /\ pc[t] = "config" /\ call[t].op = "baud"
    /\ brpr' = call[t].rate
    /\ cen' = call[t].saved
    /\ baud' = call[t].rate
    /\ Unlock(t)
    /\ Goto(t, "flags")
    /\ UNCHANGED <<opened, pioState, msr, txFifo, txHpb, dev_state, call, histVars>>

\* zcan_pio_chip_init, first half, as called by zcan_pio_reset and by the loopback
\* calls: disable the core and reset the channel, which empties its FIFOs and leaves
\* its prescaler at some value.
ChipReset(t) ==
    /\ pc[t] = "work" /\ call[t].op \in {"open", "loopback", "normal"}
    /\ call' = [call EXCEPT ![t].saved = pioState = "START"]
    /\ pioState' = IF call[t].op = "open" THEN "RESET" ELSE pioState
    /\ cen' = FALSE
    /\ txFifo' = 0 /\ txHpb' = 0 /\ brpr' \in Rates
    /\ Goto(t, "config")
    /\ UNCHANGED <<opened, baud, msr, lockVars, dev_state, histVars>>

\* Second half: configure the core.
zcan_pio_chip_init(t) ==
    /\ pc[t] = "config" /\ call[t].op \in {"open", "loopback", "normal"}
    /\ msr' = IF call[t].op = "loopback" THEN "LOOPBACK" ELSE "NORMAL"
    /\ brpr' = baud
    /\ pioState' = "INIT"
    /\ Goto(t, "restore")
    /\ UNCHANGED <<opened, baud, cen, txFifo, txHpb, lockVars, dev_state, call, histVars>>

\* zcan_pio_loopback_set and _unset enable the core again if it was started;
\* zcan_pio_reset does not.
Restore(t) ==
    /\ pc[t] = "restore"
    /\ \/ /\ call[t].saved /\ call[t].op # "open"
          /\ cen' = TRUE /\ pioState' = "START"
       \/ /\ ~(call[t].saved /\ call[t].op # "open")
          /\ UNCHANGED <<cen, pioState>>
    /\ Unlock(t)
    /\ Goto(t, IF call[t].op = "open" THEN "check" ELSE "flags")
    /\ UNCHANGED <<opened, baud, msr, brpr, txFifo, txHpb, dev_state, call, histVars>>

\* Mutant: the error path leaves the device marked as opened.
OpenEnd_StaysOpened(t) ==
    /\ pc[t] = "check"
    /\ \/ /\ pioLock = NoThread
          /\ Leave(t)
          /\ UNCHANGED <<opened, dev_state>>
       \/ /\ dev_state' = [dev_state EXCEPT ![ProcOf[t]] = {"OPEN"}]
          /\ Leave(t)
          /\ UNCHANGED opened
    /\ UNCHANGED <<pioState, baud, cen, msr, brpr, txFifo, txHpb, lockVars, histVars>>

\* The end of zcan_open and of bcan_open: the device may not answer, and the
\* library may run out of memory, which closes the file again.
OpenEnd(t) ==
    /\ pc[t] = "check"
    /\ \/ /\ pioLock = NoThread
          /\ opened' = FALSE
          /\ Leave(t)
          /\ UNCHANGED dev_state
       \/ /\ Goto(t, "pio")
          /\ call' = [call EXCEPT ![t].op = "close"]
          /\ UNCHANGED <<opened, dev_state>>
       \/ /\ dev_state' = [dev_state EXCEPT ![ProcOf[t]] = {"OPEN"}]
          /\ Leave(t)
          /\ UNCHANGED opened
    /\ UNCHANGED <<pioState, baud, cen, msr, brpr, txFifo, txHpb, lockVars, histVars>>

zcan_release(t) ==
    /\ pc[t] = "work" /\ call[t].op = "close"
    /\ opened' = FALSE
    /\ pioState' = "RESET"
    /\ cen' = FALSE
    /\ txFifo' = 0 /\ txHpb' = 0 /\ brpr' \in Rates
    /\ Unlock(t)
    /\ Leave(t)
    /\ UNCHANGED <<baud, msr, dev_state, histVars>>

-----------------------------------------------------------------------------
(* Transmission: zcan_tx_user. *)

\* bcan_send or bcan_send_hi_pri of n frames.
SendCall(t, c, n) ==
    /\ pc[t] = "idle"
    /\ c = "hipri" => n = 1
    /\ bcan_check_state(t, c)
    /\ call' = [call EXCEPT ![t] = NewCall(c, DefaultRate, n)]
    /\ Goto(t, "txlock")
    /\ UNCHANGED <<chipVars, lockVars, dev_state, histVars>>

\* Mutant: the state is checked without taking the lock.
TxCheck_NoLock(t) ==
    /\ pc[t] = "txlock"
    /\ \/ pioState # "START" /\ Leave(t)
       \/ pioState = "START" /\ Goto(t, "txfull") /\ UNCHANGED call
    /\ UNCHANGED <<chipVars, lockVars, dev_state, histVars>>

\* zcan_pio_tx_one and zcan_pio_tx_hi_one: take the lock, check the state.
TxCheck(t) ==
    /\ pc[t] = "txlock"
    /\ IF call[t].op = "send" THEN txLock = NoThread ELSE hiLock = NoThread
    /\ \/ /\ pioState # "START"
          /\ Leave(t)
          /\ UNCHANGED <<txLock, hiLock>>
       \/ /\ pioState = "START"
          /\ txLock' = IF call[t].op = "send" THEN t ELSE txLock
          /\ hiLock' = IF call[t].op = "hipri" THEN t ELSE hiLock
          /\ Goto(t, "txfull")
          /\ UNCHANGED call
    /\ UNCHANGED <<chipVars, pioLock, dev_state, histVars>>

UnlockTx(t) ==
    /\ txLock' = IF call[t].op = "send" THEN NoThread ELSE txLock
    /\ hiLock' = IF call[t].op = "hipri" THEN NoThread ELSE hiLock
    /\ UNCHANGED pioLock

TxFull(t) == IF call[t].op = "send" THEN txFifo >= TxCap ELSE txHpb >= 1

\* Read the status.  If the FIFO is full, zcan_tx_user tries again until its time
\* is up.
TxStatus(t) ==
    /\ pc[t] = "txfull"
    /\ \/ /\ ~TxFull(t)
          /\ Goto(t, "txwrite")
          /\ UNCHANGED <<call, lockVars>>
       \/ /\ TxFull(t)
          /\ UnlockTx(t)
          /\ IF call[t].late THEN Leave(t) ELSE Goto(t, "txlock") /\ UNCHANGED call
    /\ UNCHANGED <<chipVars, dev_state, histVars>>

\* Mutant: the loop over the frames of a call does not end.
TxWrite_NoEnd(t) ==
    /\ pc[t] = "txwrite"
    /\ txFifo' = IF call[t].op = "send" THEN txFifo + 1 ELSE txFifo
    /\ txHpb' = IF call[t].op = "hipri" THEN txHpb + 1 ELSE txHpb
    /\ UnlockTx(t)
    /\ Goto(t, "txlock")
    /\ call' = [call EXCEPT ![t].todo = @ - 1]
    /\ UNCHANGED <<opened, pioState, baud, cen, msr, brpr, dev_state, histVars>>

\* Write the frame to the FIFO; go on with the next one.
TxWrite(t) ==
    /\ pc[t] = "txwrite"
    /\ txFifo' = IF call[t].op = "send" THEN txFifo + 1 ELSE txFifo
    /\ txHpb' = IF call[t].op = "hipri" THEN txHpb + 1 ELSE txHpb
    /\ UnlockTx(t)
    /\ \/ call[t].todo = 1 /\ Leave(t)
       \/ call[t].todo > 1 /\ Goto(t, "txlock") /\ call' = [call EXCEPT ![t].todo = @ - 1]
    /\ UNCHANGED <<opened, pioState, baud, cen, msr, brpr, dev_state, histVars>>

\* tx_timeout has passed.
Deadline(t) ==
    /\ call[t].op \in Sends
    /\ ~call[t].late
    /\ call' = [call EXCEPT ![t].late = TRUE]
    /\ UNCHANGED <<chipVars, lockVars, dev_state, pc, histVars>>

\* The enabled core puts a frame on the bus.
BusSends ==
    /\ cen
    /\ \/ txFifo > 0 /\ txFifo' = txFifo - 1 /\ UNCHANGED txHpb
       \/ txHpb > 0 /\ txHpb' = txHpb - 1 /\ UNCHANGED txFifo
    /\ UNCHANGED <<opened, pioState, baud, cen, msr, brpr, lockVars, dev_state, pc, call, histVars>>

-----------------------------------------------------------------------------

\* The steps of a thread inside a call.
Step(t) ==
    \/ UpdateFlags(t) \/ zcan_open(t) \/ LockPio(t) \/ LockTx(t)
    \/ zcan_pio_start(t) \/ zcan_pio_stop(t)
    \/ BaudDisable(t) \/ zcan_pio_set_baudrate(t)
    \/ ChipReset(t) \/ zcan_pio_chip_init(t) \/ Restore(t)
    \/ OpenEnd(t) \/ zcan_release(t)
    \/ TxCheck(t) \/ TxStatus(t) \/ TxWrite(t)

Next ==
    \/ \E t \in Threads :
         \/ \E c \in Lifecycle, r \in Rates : LifecycleCall(t, c, r)
         \/ \E c \in Sends, n \in 1..MaxSend : SendCall(t, c, n)
         \/ Step(t)
         \/ Deadline(t)
    \/ BusSends

Spec == Init /\ [][Next]_vars

\* A thread in a call is scheduled and served by the queued spinlocks in turn;
\* time passes.  The bus owes nothing.
FairSpec == Spec /\ \A t \in Threads : SF_vars(Step(t)) /\ WF_vars(Deadline(t))

-----------------------------------------------------------------------------
(* Properties. *)

FlagType == opened \in BOOLEAN /\ cen \in BOOLEAN /\ overlap \in [Procs -> BOOLEAN]

ChipType ==
    /\ pioState \in {"RESET", "INIT", "START", "STOP"}
    /\ baud \in Rates /\ brpr \in Rates /\ msr \in {"NORMAL", "LOOPBACK"}
    /\ txFifo \in Nat /\ txHpb \in Nat
    /\ dev_state \in [Procs -> SUBSET Flags]
    /\ calls \in 0..MaxCalls

ThreadType ==
    /\ {pioLock, txLock, hiLock} \subseteq Threads \cup {NoThread}
    /\ pc \in [Threads -> {"idle", "open", "pio", "tx", "work", "config", "restore", "check", "flags",
                           "txlock", "txfull", "txwrite"}]
    /\ call \in [Threads -> Calls]

TypeOK == FlagType /\ ChipType /\ ThreadType

\* The library decides by its own flags whether a call makes sense, and the driver
\* does not check (zcan_pio_start works in any state).  As long as lifecycle calls
\* on a handle do not overlap, the flags say what the driver's state is, through
\* loopback and baud rate changes, failed opens and closes by any process.
LibMatchesDriver ==
    \A p \in Procs :
        "OPEN" \in dev_state[p] /\ InLifecycle(p) = {} /\ ~overlap[p]
        => ("START" \in dev_state[p] <=> pioState = "START")

\* zcan_pio_state mirrors a bit of the hardware, and zcan_pio_baudrate its
\* prescaler; several calls change one or the other.  Whenever nobody is inside
\* zcan_pio_lock they agree.
CoreMatchesState ==
    pioLock = NoThread =>
        /\ cen <=> pioState = "START"
        /\ pioState # "RESET" => brpr = baud

\* A thread that has claimed the device but is not done opening it, or has given
\* up its handle but is not done closing.
InTransit(t) ==
    \/ call[t].op = "close"
    \/ call[t].op = "open" /\ pc[t] # "open"

\* zcan_open sets zcan_pio_opened before it resets the channel, and takes it back
\* when the device does not answer: at any time one process at most owns the
\* device, and it is marked as opened exactly while one does.
SingleHandle ==
    LET owners == {p \in Procs : \/ dev_state[p] # {}
                                 \/ \E t \in Threads : ProcOf[t] = p /\ InTransit(t)}
    IN  /\ Cardinality(owners) <= 1
        /\ opened <=> owners # {}

\* The four views of a channel - the library's flags, the driver's state, the core's
\* registers and the claim of the device file - agree, whatever calls of whichever
\* threads and processes overlap.
ViewsAgree == TypeOK /\ LibMatchesDriver /\ CoreMatchesState /\ SingleHandle

\* The status read and the write of a frame are apart; concurrent senders must
\* not write into a full FIFO, where the frame would be lost.
FifoNotOverrun == txFifo <= TxCap /\ txHpb <= 1

\* A sender checked the state before it writes.  No frame gets into the transmit
\* FIFO once a stop, a reset or a close has taken effect; only a loopback change,
\* which restores the state it found, may come between.
NoTxAfterStop ==
    [][txFifo' > txFifo =>
         \/ pioState = "START"
         \/ \E t \in Threads : pioLock = t /\ call[t].op \in {"loopback", "normal"}]_vars

\* Every call returns: no two calls wait for each other's locks, and a send into
\* a FIFO that stays full ends with its timeout.
CallReturns == \A t \in Threads : pc[t] # "idle" ~> pc[t] = "idle"
=============================================================================
