-------------------------- MODULE BasaCanCtlProofs --------------------------
(***************************************************************************)
(* Proofs about control and transmission on a CAN channel, for any number  *)
(* of threads and processes, any rates, any FIFO and any number of calls.  *)
(***************************************************************************)
EXTENDS BasaCanCtl, FiniteSetTheorems, TLAPS

\* Where a thread is tells which call it is in, and which locks it holds.
Control(t) ==
    LET op == call[t].op IN
    /\ (pc[t] = "idle") <=> (op = "none")
    /\ pc[t] \in {"open", "check"} => op = "open"
    /\ pc[t] \in {"pio", "tx", "work", "config", "restore"} => op \in Lifecycle
    /\ pc[t] = "tx" => TakesTxLock(op)
    /\ pc[t] = "config" => op \in {"open", "loopback", "normal", "baud"}
    /\ pc[t] = "restore" => op \in {"open", "loopback", "normal"}
    /\ pc[t] = "flags" => op \in {"start", "stop", "baud", "loopback", "normal"}
    /\ pc[t] \in {"txlock", "txfull", "txwrite"} => op \in Sends

Locks(t) ==
    LET op == call[t].op IN
    /\ pc[t] \in {"tx", "work", "config", "restore"} => pioLock = t
    /\ pc[t] \in {"work", "config", "restore"} /\ TakesTxLock(op) => txLock = t
    /\ pc[t] \in {"txfull", "txwrite"} /\ op = "send" => txLock = t
    /\ pc[t] \in {"txfull", "txwrite"} /\ op = "hipri" => hiLock = t

\* The core's registers agree with the driver's state.
Agree == (cen <=> pioState = "START") /\ (pioState # "RESET" => brpr = baud)

\* They do when the lock is free or was just taken; while they are being changed, what was
\* saved is what they were.
Core ==
    /\ pioLock = NoThread => Agree
    /\ \A t \in Threads :
         /\ pc[t] \in {"tx", "work"} => Agree
         /\ pc[t] = "config" => ~cen
         /\ pc[t] = "config" /\ call[t].op # "open" => (call[t].saved <=> pioState = "START")
         /\ pc[t] = "restore" => ~cen /\ pioState = "INIT" /\ brpr = baud

\* A handle in use is open; it is not while a thread opens or closes it, and that thread is
\* the only one of its process in a call.
Handles ==
    /\ \A p \in Procs : dev_state[p] # {} => "OPEN" \in dev_state[p]
    /\ \A t \in Threads :
         /\ call[t].op \in {"open", "close"} =>
              /\ dev_state[ProcOf[t]] = {}
              /\ \A u \in Threads \ {t} : ProcOf[u] = ProcOf[t] => call[u].op = "none"
         /\ call[t].op \in Lifecycle \ {"open", "close"} => dev_state[ProcOf[t]] # {}

\* A process that has the device.
Owner(p) == dev_state[p] # {} \/ \E t \in Threads : ProcOf[t] = p /\ InTransit(t)

OneOwner ==
    /\ \A p, q \in Procs : Owner(p) /\ Owner(q) => p = q
    /\ opened <=> \E p \in Procs : Owner(p)

\* A device that was opened is configured, and a handle starts with a stopped channel.
Configured ==
    /\ \A p \in Procs : dev_state[p] # {} => pioState # "RESET"
    /\ \A t \in Threads : pc[t] = "check" => pioState = "INIT"

\* While the only lifecycle call on a handle goes on, the driver's state is that of the
\* flags, until the call has changed it.
Tracked ==
    \A p \in Procs : dev_state[p] # {} /\ ~overlap[p] =>
        /\ \A t, u \in InLifecycle(p) : t = u
        /\ InLifecycle(p) = {} => ("START" \in dev_state[p] <=> pioState = "START")
        /\ \A t \in InLifecycle(p) :
             /\ pc[t] = "restore" => (call[t].saved <=> "START" \in dev_state[p])
             /\ pc[t] = "flags" /\ call[t].op = "start" => pioState = "START"
             /\ pc[t] = "flags" /\ call[t].op = "stop" => pioState # "START"
             /\ pc[t] # "restore" /\ ~(pc[t] = "flags" /\ call[t].op \in {"start", "stop"})
                => ("START" \in dev_state[p] <=> pioState = "START")

\* A sender that has found room, under its lock, has it.
Room ==
    /\ FifoNotOverrun
    /\ \A t \in Threads : pc[t] = "txwrite" =>
         (call[t].op = "send" => txFifo < TxCap) /\ (call[t].op = "hipri" => txHpb < 1)

\* While a sender has the lock of the FIFO, the channel is started, or about to be again.
Started ==
    \A t \in Threads : pc[t] \in {"txfull", "txwrite"} /\ call[t].op = "send" =>
        \/ pioState = "START"
        \/ \E u \in Threads : pc[u] = "restore" /\ call[u].op \in {"loopback", "normal"} /\ call[u].saved

IInv ==
    /\ TypeOK
    /\ \A t \in Threads : Control(t) /\ Locks(t)
    /\ Core /\ Handles /\ OneOwner /\ Configured /\ Tracked /\ Room /\ Started

-----------------------------------------------------------------------------
\* The channel after it was probed satisfies the invariant.
LEMMA InitIInv == Init => IInv
<1> SUFFICES ASSUME Init PROVE IInv
  OBVIOUS
<1> USE ThreadAssumption, RateAssumption, SizeAssumption DEF Init
<1>1. FlagType
  BY Zenon DEF FlagType
<1>2. NoCall \in Calls
  BY DEF NoCall, NewCall, Calls
<1>3. ChipType /\ ThreadType
  BY <1>2 DEF ChipType, ThreadType
<1>4. \A t \in Threads : call[t].op = "none" /\ pc[t] = "idle"
  BY DEF NoCall, NewCall
<1>5. \A t \in Threads : Control(t) /\ Locks(t)
  BY <1>4 DEF Control, Locks
<1>6. Core /\ Handles /\ Room /\ Started
  BY <1>4 DEF Core, Agree, Handles, Room, FifoNotOverrun, Started, Lifecycle
<1>7. OneOwner /\ Configured /\ Tracked
  BY <1>4 DEF OneOwner, Owner, InTransit, Configured, Tracked
<1> QED BY <1>1, <1>3, <1>5, <1>6, <1>7 DEF IInv, TypeOK

\* Boolean variables stay Boolean.
LEMMA StepFlag == TypeOK /\ [Next]_vars => FlagType'
<1> SUFFICES ASSUME FlagType, ThreadType, [Next]_vars PROVE FlagType'
  BY DEF TypeOK
<1> USE DEF FlagType, vars, chipVars, lockVars, histVars
<1>1. ASSUME NEW t \in Threads, NEW c \in Lifecycle, NEW r \in Rates, LifecycleCall(t, c, r) PROVE FlagType'
  BY <1>1, Zenon DEF LifecycleCall
<1>2. ASSUME NEW t \in Threads, NEW c \in Sends, NEW n \in 1..MaxSend, SendCall(t, c, n) PROVE FlagType'
  BY <1>2, Zenon DEF SendCall
<1>3. ASSUME NEW t \in Threads, Step(t) PROVE FlagType'
  <2>1. CASE zcan_pio_set_baudrate(t)
    <3>1. call[t] \in Calls
      BY DEF ThreadType
    <3>2. call[t].saved \in BOOLEAN
      BY <3>1, Zenon DEF Calls
    <3> QED BY <2>1, <3>2, Zenon DEF zcan_pio_set_baudrate
  <2> QED BY <1>3, <2>1, Zenon DEF Step, UpdateFlags, zcan_open, LockPio, LockTx, zcan_pio_start, zcan_pio_stop, BaudDisable, ChipReset, zcan_pio_chip_init, Restore, OpenEnd, zcan_release, TxCheck, TxStatus, TxWrite
<1>4. ASSUME NEW t \in Threads, Deadline(t) PROVE FlagType'
  BY <1>4, Zenon DEF Deadline
<1>5. CASE BusSends
  BY <1>5, Zenon DEF BusSends
<1>6. CASE UNCHANGED vars
  BY <1>6, Zenon
<1> QED BY <1>1, <1>2, <1>3, <1>4, <1>5, <1>6 DEF Next

\* What UpdateFlags does to the flags of the handle.
LEMMA NewFlags ==
    ASSUME IInv, NEW t \in Threads, UpdateFlags(t)
    PROVE  \E d \in SUBSET Flags :
             /\ dev_state' = [dev_state EXCEPT ![ProcOf[t]] = d]
             /\ "OPEN" \in d <=> "OPEN" \in Handle(t)
             /\ "START" \in d <=> (call[t].op = "start" \/ (call[t].op # "stop" /\ "START" \in Handle(t)))
<1> DEFINE h == Handle(t)
<1>1. h \subseteq Flags
  BY ThreadAssumption DEF IInv, TypeOK, ChipType, Handle
<1>2. call[t].op \in {"start", "stop", "baud", "loopback", "normal"}
  BY DEF IInv, Control, UpdateFlags
<1>3. dev_state' = [dev_state EXCEPT ![ProcOf[t]] =
         CASE call[t].op = "baud"     -> h \cup {"BAUD_SET"}
           [] call[t].op = "loopback" -> (h \ {"NORMAL"}) \cup {"LOOPBACK"}
           [] call[t].op = "normal"   -> (h \ {"LOOPBACK"}) \cup {"NORMAL"}
           [] call[t].op = "start"    -> h \cup {"START"}
           [] call[t].op = "stop"     -> (h \cup {"STOP"}) \ {"START"}]
  BY DEF UpdateFlags, Handle
<1> HIDE DEF h
<1>4. CASE call[t].op = "baud"
  <2> DEFINE d == h \cup {"BAUD_SET"}
  <2>1. dev_state' = [dev_state EXCEPT ![ProcOf[t]] = d]
    BY <1>3, <1>4
  <2>2. d \in SUBSET Flags /\ ("OPEN" \in d <=> "OPEN" \in h) /\ ("START" \in d <=> "START" \in h)
    BY <1>1 DEF Flags
  <2> HIDE DEF d
  <2> QED BY <1>4, <2>1, <2>2, Zenon DEF h
<1>5. CASE call[t].op = "loopback"
  <2> DEFINE d == (h \ {"NORMAL"}) \cup {"LOOPBACK"}
  <2>1. dev_state' = [dev_state EXCEPT ![ProcOf[t]] = d]
    BY <1>3, <1>5
  <2>2. d \in SUBSET Flags /\ ("OPEN" \in d <=> "OPEN" \in h) /\ ("START" \in d <=> "START" \in h)
    BY <1>1 DEF Flags
  <2> HIDE DEF d
  <2> QED BY <1>5, <2>1, <2>2, Zenon DEF h
<1>6. CASE call[t].op = "normal"
  <2> DEFINE d == (h \ {"LOOPBACK"}) \cup {"NORMAL"}
  <2>1. dev_state' = [dev_state EXCEPT ![ProcOf[t]] = d]
    BY <1>3, <1>6
  <2>2. d \in SUBSET Flags /\ ("OPEN" \in d <=> "OPEN" \in h) /\ ("START" \in d <=> "START" \in h)
    BY <1>1 DEF Flags
  <2> HIDE DEF d
  <2> QED BY <1>6, <2>1, <2>2, Zenon DEF h
<1>7. CASE call[t].op = "start"
  <2> DEFINE d == h \cup {"START"}
  <2>1. dev_state' = [dev_state EXCEPT ![ProcOf[t]] = d]
    BY <1>3, <1>7
  <2>2. d \in SUBSET Flags /\ ("OPEN" \in d <=> "OPEN" \in h) /\ "START" \in d
    BY <1>1 DEF Flags
  <2> HIDE DEF d
  <2> QED BY <1>7, <2>1, <2>2, Zenon DEF h
<1>8. CASE call[t].op = "stop"
  <2> DEFINE d == (h \cup {"STOP"}) \ {"START"}
  <2>1. dev_state' = [dev_state EXCEPT ![ProcOf[t]] = d]
    BY <1>3, <1>8
  <2>2. d \in SUBSET Flags /\ ("OPEN" \in d <=> "OPEN" \in h) /\ "START" \notin d
    BY <1>1 DEF Flags
  <2> HIDE DEF d
  <2> QED BY <1>8, <2>1, <2>2, Zenon DEF h
<1> QED BY <1>2, <1>4, <1>5, <1>6, <1>7, <1>8

\* BaudDisable and ChipReset change only what is saved for later.
LEMMA NewSaved ==
    ASSUME TypeOK, NEW t \in Threads, NEW x \in BOOLEAN, call' = [call EXCEPT ![t].saved = x]
    PROVE  /\ call' \in [Threads -> Calls]
           /\ call'[t].saved = x
           /\ \A u \in Threads : call'[u].op = call[u].op /\ (u # t => call'[u] = call[u])
<1>1. call \in [Threads -> Calls] /\ call[t] \in Calls
  BY DEF TypeOK, ThreadType
<1>2. [call[t] EXCEPT !.saved = x] \in Calls
  BY <1>1 DEF Calls
<1>3. [call[t] EXCEPT !.saved = x].op = call[t].op /\ [call[t] EXCEPT !.saved = x].saved = x
  BY <1>1, Zenon DEF Calls
<1> QED BY <1>1, <1>2, <1>3

\* The numbers of the channel.
LEMMA StepChip == IInv /\ [Next]_vars => ChipType'
<1> SUFFICES ASSUME IInv, ChipType, ThreadType, [Next]_vars PROVE ChipType'
  BY DEF IInv, TypeOK
<1> USE SizeAssumption DEF ChipType, vars, chipVars, lockVars, histVars
<1>1. ASSUME NEW t \in Threads, NEW c \in Lifecycle, NEW r \in Rates, LifecycleCall(t, c, r) PROVE ChipType'
  BY <1>1, ThreadAssumption DEF LifecycleCall
<1>2. ASSUME NEW t \in Threads, NEW c \in Sends, NEW n \in 1..MaxSend, SendCall(t, c, n) PROVE ChipType'
  BY <1>2 DEF SendCall
<1>3. ASSUME NEW t \in Threads, Step(t) PROVE ChipType'
  <2>1. CASE UpdateFlags(t)
    <3>1. PICK d \in SUBSET Flags : dev_state' = [dev_state EXCEPT ![ProcOf[t]] = d]
      BY <2>1, NewFlags
    <3> QED BY <2>1, <3>1 DEF UpdateFlags
  <2>2. CASE zcan_open(t) \/ LockPio(t) \/ LockTx(t) \/ zcan_pio_start(t) \/ zcan_pio_stop(t) \/ BaudDisable(t)
    BY <2>2 DEF zcan_open, LockPio, LockTx, zcan_pio_start, zcan_pio_stop, BaudDisable
  <2>3. CASE zcan_pio_set_baudrate(t)
    <3>1. call[t].rate \in Rates
      BY DEF ThreadType, Calls
    <3> QED BY <2>3, <3>1 DEF zcan_pio_set_baudrate
  <2>4. CASE ChipReset(t) \/ zcan_pio_chip_init(t) \/ Restore(t) \/ zcan_release(t)
    BY <2>4 DEF ChipReset, zcan_pio_chip_init, Restore, zcan_release
  <2>5. CASE OpenEnd(t)
    BY <2>5, ThreadAssumption DEF OpenEnd, Flags
  <2>6. CASE TxCheck(t) \/ TxStatus(t) \/ TxWrite(t)
    BY <2>6 DEF TxCheck, TxStatus, TxWrite
  <2> QED BY <1>3, <2>1, <2>2, <2>3, <2>4, <2>5, <2>6 DEF Step
<1>4. ASSUME NEW t \in Threads, Deadline(t) PROVE ChipType'
  BY <1>4 DEF Deadline
<1>5. CASE BusSends
  BY <1>5 DEF BusSends
<1>6. CASE UNCHANGED vars
  BY <1>6
<1> QED BY <1>1, <1>2, <1>3, <1>4, <1>5, <1>6 DEF Next

(* Every step leaves each thread with a call of the expected form. *)
LEMMA StepThread == TypeOK /\ [Next]_vars => ThreadType'
<1> SUFFICES ASSUME TypeOK, FlagType, ThreadType, [Next]_vars PROVE ThreadType'
  BY DEF TypeOK
<1> USE SizeAssumption, ThreadAssumption, RateAssumption DEF vars, chipVars, lockVars, histVars
<1>0. NoCall \in Calls
  BY DEF NoCall, NewCall, Calls
<1>1. ASSUME NEW t \in Threads, NEW c \in Lifecycle, NEW r \in Rates, LifecycleCall(t, c, r) PROVE ThreadType'
  <2>1. NewCall(c, IF c = "baud" THEN r ELSE DefaultRate, 0) \in Calls
    BY DEF NoCall, NewCall, Calls
  <2> QED BY <1>1, <2>1 DEF LifecycleCall, ThreadType, Goto
<1>2. ASSUME NEW t \in Threads, NEW c \in Sends, NEW n \in 1..MaxSend, SendCall(t, c, n) PROVE ThreadType'
  <2>1. NewCall(c, DefaultRate, n) \in Calls
    BY DEF NoCall, NewCall, Calls
  <2> QED BY <1>2, <2>1 DEF SendCall, ThreadType, Goto
<1>3. ASSUME NEW t \in Threads, Step(t) PROVE ThreadType'
  <2>0. call[t] \in Calls
    BY DEF ThreadType
  <2>1. CASE UpdateFlags(t) \/ zcan_open(t) \/ LockPio(t) \/ LockTx(t) \/ zcan_pio_start(t) \/ zcan_pio_stop(t)
    BY <1>0, <2>1 DEF UpdateFlags, zcan_open, LockPio, LockTx, zcan_pio_start, zcan_pio_stop, Leave, Goto, Unlock, ThreadType
  <2>2. CASE BaudDisable(t) \/ ChipReset(t)
    <3>1. \E x \in BOOLEAN : call' = [call EXCEPT ![t].saved = x]
      BY <2>2, Zenon DEF BaudDisable, ChipReset, FlagType
    <3>2. call' \in [Threads -> Calls]
      BY <3>1, NewSaved
    <3> QED BY <2>2, <3>2 DEF BaudDisable, ChipReset, ThreadType, Goto
  <2>3. CASE zcan_pio_set_baudrate(t) \/ zcan_pio_chip_init(t) \/ Restore(t) \/ zcan_release(t)
    BY <1>0, <2>3 DEF zcan_pio_set_baudrate, zcan_pio_chip_init, Restore, zcan_release, Leave, Goto, Unlock, ThreadType
  <2>5. CASE OpenEnd(t)
    <3>1. [call[t] EXCEPT !.op = "close"] \in Calls
      BY <2>0 DEF Calls, Lifecycle
    <3> QED BY <1>0, <2>0, <2>5, <3>1 DEF OpenEnd, Leave, Goto, ThreadType
  <2>6. CASE TxCheck(t) \/ TxStatus(t)
    BY <1>0, <2>6 DEF TxCheck, TxStatus, UnlockTx, Leave, Goto, ThreadType
  <2>7. CASE TxWrite(t)
    <3>1. ASSUME call[t].todo > 1 PROVE [call[t] EXCEPT !.todo = call[t].todo - 1] \in Calls
      <4>1. call[t].todo \in 0..MaxSend
        BY <2>0 DEF Calls
      <4>2. call[t].todo - 1 \in 0..MaxSend
        BY <3>1, <4>1
      <4> QED BY <2>0, <4>2 DEF Calls
    <3>2. call' \in [Threads -> Calls]
      BY <1>0, <2>0, <2>7, <3>1 DEF TxWrite, Leave, ThreadType
    <3> QED BY <2>7, <3>2 DEF TxWrite, UnlockTx, Leave, Goto, ThreadType
  <2> QED BY <1>3, <2>1, <2>2, <2>3, <2>5, <2>6, <2>7 DEF Step
<1>4. ASSUME NEW t \in Threads, Deadline(t) PROVE ThreadType'
  BY ZenonT(60), <1>4 DEF Deadline, ThreadType, Calls
<1>5. CASE BusSends
  BY <1>5 DEF BusSends, ThreadType
<1>6. CASE UNCHANGED vars
  BY <1>6 DEF ThreadType
<1> QED BY <1>1, <1>2, <1>3, <1>4, <1>5, <1>6 DEF Next

-----------------------------------------------------------------------------
\* A process opens the device when it has no handle, and does all else with one.
LEMMA Allowed ==
    ASSUME NEW t \in Threads, NEW c \in Lifecycle \cup Sends, bcan_check_state(t, c)
    PROVE  (c = "open" => Handle(t) = {}) /\ (c # "open" => Handle(t) # {})
<1>1. CASE c = "open"
  BY <1>1 DEF bcan_check_state, Sends
<1>2. CASE c \in {"baud", "loopback", "close"}
  BY <1>2 DEF bcan_check_state, Sends
<1>3. CASE c = "normal"
  BY <1>3 DEF bcan_check_state, Sends
<1>4. CASE c = "start"
  BY <1>4 DEF bcan_check_state, Sends
<1>5. CASE c \in {"stop"} \cup Sends
  BY <1>5 DEF bcan_check_state, Sends
<1> QED BY <1>1, <1>2, <1>3, <1>4, <1>5 DEF Lifecycle

\* Every step of a thread leads to a place that fits its call, with the locks of that place.
LEMMA StepControl == IInv /\ [Next]_vars => \A u \in Threads : Control(u)' /\ Locks(u)'
<1> SUFFICES ASSUME IInv, [Next]_vars, NEW u \in Threads PROVE Control(u)' /\ Locks(u)'
  OBVIOUS
<1> USE ThreadAssumption DEF TakesTxLock, Goto
<1>0. /\ pc \in [Threads -> {"idle", "open", "pio", "tx", "work", "config", "restore", "check", "flags",
                             "txlock", "txfull", "txwrite"}]
      /\ call \in [Threads -> Calls] /\ Control(u) /\ Locks(u) /\ NoThread \notin Threads
      /\ TypeOK /\ FlagType
  BY DEF IInv, TypeOK, ThreadType
<1>1. ASSUME NEW t \in Threads, NEW c \in Lifecycle, NEW r \in Rates, LifecycleCall(t, c, r)
      PROVE Control(u)' /\ Locks(u)'
  BY <1>0, <1>1 DEF LifecycleCall, NewCall, Control, Locks, Lifecycle, Sends, lockVars
<1>2. ASSUME NEW t \in Threads, NEW c \in Sends, NEW n \in 1..MaxSend, SendCall(t, c, n)
      PROVE Control(u)' /\ Locks(u)'
  BY <1>0, <1>2 DEF SendCall, NewCall, Control, Locks, Lifecycle, Sends, lockVars
<1>3. ASSUME NEW t \in Threads, Step(t) PROVE Control(u)' /\ Locks(u)'
  <2>0. Control(t) /\ Locks(t)
    BY DEF IInv
  <2>1. CASE UpdateFlags(t) \/ zcan_open(t)
    BY <1>0, <2>0, <2>1 DEF UpdateFlags, zcan_open, Leave, NoCall, NewCall, Control, Locks, Lifecycle, Sends, lockVars
  <2>2. CASE LockPio(t) \/ LockTx(t)
    BY <1>0, <2>0, <2>2 DEF LockPio, LockTx, Control, Locks, Lifecycle, Sends
  <2>3. CASE zcan_pio_start(t) \/ zcan_pio_stop(t) \/ zcan_pio_set_baudrate(t) \/ Restore(t)
    BY <1>0, <2>0, <2>3 DEF zcan_pio_start, zcan_pio_stop, zcan_pio_set_baudrate, Restore, Unlock, Control, Locks, Lifecycle, Sends
  <2>4. CASE BaudDisable(t) \/ ChipReset(t)
    <3>1. \E x \in BOOLEAN : call' = [call EXCEPT ![t].saved = x]
      BY <1>0, <2>4, Zenon DEF BaudDisable, ChipReset, FlagType
    <3>2. call'[u].op = call[u].op
      BY <1>0, <3>1, NewSaved
    <3> QED BY <1>0, <2>0, <2>4, <3>2 DEF BaudDisable, ChipReset, Control, Locks, Lifecycle, Sends, lockVars
  <2>5. CASE zcan_pio_chip_init(t) \/ zcan_release(t)
    BY <1>0, <2>0, <2>5 DEF zcan_pio_chip_init, zcan_release, Leave, NoCall, NewCall, Unlock, Control, Locks, Lifecycle, Sends, lockVars
  <2>6. CASE OpenEnd(t)
    BY <1>0, <2>0, <2>6 DEF OpenEnd, Leave, NoCall, NewCall, Control, Locks, Lifecycle, Sends, lockVars, Calls
  <2>7. CASE TxCheck(t) \/ TxStatus(t)
    BY <1>0, <2>0, <2>7 DEF TxCheck, TxStatus, UnlockTx, Leave, NoCall, NewCall, Control, Locks, Lifecycle, Sends, lockVars
  <2>8. CASE TxWrite(t)
    BY <1>0, <2>0, <2>8 DEF TxWrite, UnlockTx, Leave, NoCall, NewCall, Control, Locks, Lifecycle, Sends, Calls
  <2> QED BY <1>3, <2>1, <2>2, <2>3, <2>4, <2>5, <2>6, <2>7, <2>8 DEF Step
<1>4. ASSUME NEW t \in Threads, Deadline(t) PROVE Control(u)' /\ Locks(u)'
  BY <1>0, <1>4 DEF Deadline, Control, Locks, lockVars, Calls
<1>5. CASE BusSends \/ UNCHANGED vars
  BY <1>0, <1>5 DEF BusSends, vars, lockVars, Control, Locks
<1> QED BY <1>1, <1>2, <1>3, <1>4, <1>5 DEF Next

\* Only the holder of zcan_pio_lock changes the registers and the state of the driver.
LEMMA StepCore == IInv /\ [Next]_vars => Core'
<1> SUFFICES ASSUME IInv, [Next]_vars PROVE Core'
  OBVIOUS
<1> USE ThreadAssumption DEF Goto, Core, Agree
<1>0. /\ pc \in [Threads -> {"idle", "open", "pio", "tx", "work", "config", "restore", "check", "flags",
                             "txlock", "txfull", "txwrite"}]
      /\ call \in [Threads -> Calls] /\ NoThread \notin Threads
      /\ TypeOK /\ FlagType /\ Core
      /\ \A u \in Threads : pc[u] \in {"tx", "work", "config", "restore"} => pioLock = u
  BY DEF IInv, TypeOK, ThreadType, Locks
<1>1. ASSUME NEW t \in Threads, NEW c \in Lifecycle, NEW r \in Rates, LifecycleCall(t, c, r) PROVE Core'
  BY <1>0, <1>1 DEF LifecycleCall, lockVars, chipVars
<1>2. ASSUME NEW t \in Threads, NEW c \in Sends, NEW n \in 1..MaxSend, SendCall(t, c, n) PROVE Core'
  BY <1>0, <1>2 DEF SendCall, lockVars, chipVars
<1>3. ASSUME NEW t \in Threads, Step(t) PROVE Core'
  <2>0. Control(t) /\ Locks(t)
    BY DEF IInv
  <2>1. CASE UpdateFlags(t) \/ zcan_open(t)
    BY <1>0, <2>1 DEF UpdateFlags, zcan_open, Leave, lockVars, chipVars
  <2>2. CASE LockPio(t) \/ LockTx(t)
    BY <1>0, <2>2 DEF LockPio, LockTx, chipVars
  <2>3. CASE zcan_pio_start(t) \/ zcan_pio_stop(t)
    <3>1. pioState # "RESET"
      BY <2>3, ThreadAssumption DEF IInv, Handles, Configured, zcan_pio_start, zcan_pio_stop, Lifecycle
    <3> QED BY <1>0, <2>3, <3>1 DEF zcan_pio_start, zcan_pio_stop, Unlock
  <2>4. CASE zcan_pio_set_baudrate(t)
    <3>1. cen' <=> pioState' = "START"
      BY <1>0, <2>4, Zenon DEF zcan_pio_set_baudrate
    <3>2. Agree' /\ UNCHANGED call /\ pc' = [pc EXCEPT ![t] = "flags"]
      BY <2>4, <3>1 DEF zcan_pio_set_baudrate
    <3>3. \A u \in Threads : pc'[u] \notin {"tx", "work", "config", "restore"}
      BY <1>0, <2>4, <3>2 DEF zcan_pio_set_baudrate
    <3> QED BY <3>2, <3>3
  <2>5. CASE Restore(t)
    BY <1>0, <2>5 DEF Restore, Unlock
  <2>6. CASE BaudDisable(t)
    <3>1. PICK x \in BOOLEAN : call' = [call EXCEPT ![t].saved = x] /\ (x <=> pioState = "START")
      BY <1>0, <2>6, Zenon DEF BaudDisable, FlagType
    <3>2. call'[t].saved = x /\ \A u \in Threads : call'[u].op = call[u].op /\ (u # t => call'[u] = call[u])
      BY <1>0, <3>1, NewSaved
    <3> QED BY <1>0, <2>6, <3>1, <3>2 DEF BaudDisable, lockVars
  <2>7. CASE ChipReset(t)
    <3>1. PICK x \in BOOLEAN : call' = [call EXCEPT ![t].saved = x] /\ (x <=> pioState = "START")
      BY <1>0, <2>7, Zenon DEF ChipReset
    <3>2. call'[t].saved = x /\ \A u \in Threads : call'[u].op = call[u].op /\ (u # t => call'[u] = call[u])
      BY <1>0, <3>1, NewSaved
    <3> QED BY <1>0, <2>7, <3>1, <3>2 DEF ChipReset, lockVars
  <2>8. CASE zcan_pio_chip_init(t) \/ zcan_release(t)
    BY <1>0, <2>8 DEF zcan_pio_chip_init, zcan_release, Leave, Unlock, lockVars
  <2>9. CASE OpenEnd(t)
    BY <1>0, <2>9 DEF OpenEnd, Leave, lockVars
  <2>10. CASE TxCheck(t) \/ TxStatus(t) \/ TxWrite(t)
    BY <1>0, <2>10 DEF TxCheck, TxStatus, TxWrite, UnlockTx, Leave, lockVars, chipVars
  <2> QED BY <1>3, <2>1, <2>2, <2>3, <2>4, <2>5, <2>6, <2>7, <2>8, <2>9, <2>10 DEF Step
<1>4. ASSUME NEW t \in Threads, Deadline(t) PROVE Core'
  BY <1>0, <1>4 DEF Deadline, lockVars, chipVars, Calls
<1>5. CASE BusSends \/ UNCHANGED vars
  BY <1>0, <1>5 DEF BusSends, vars, lockVars, chipVars
<1> QED BY <1>1, <1>2, <1>3, <1>4, <1>5 DEF Next

\* A handle is opened and closed by a thread that is alone in it.
LEMMA StepHandles == IInv /\ [Next]_vars => Handles'
<1> SUFFICES ASSUME IInv, [Next]_vars PROVE Handles'
  OBVIOUS
<1> USE ThreadAssumption DEF Goto, Handles
<1>0. /\ pc \in [Threads -> {"idle", "open", "pio", "tx", "work", "config", "restore", "check", "flags",
                             "txlock", "txfull", "txwrite"}]
      /\ call \in [Threads -> Calls] /\ dev_state \in [Procs -> SUBSET Flags] /\ ProcOf \in [Threads -> Procs]
      /\ TypeOK /\ FlagType /\ Handles
      /\ \A u \in Threads : (pc[u] = "idle") <=> (call[u].op = "none")
      /\ \A u \in Threads : pc[u] = "check" => call[u].op = "open"
  BY DEF IInv, TypeOK, ThreadType, ChipType, Control
<1>1. ASSUME NEW t \in Threads, NEW c \in Lifecycle, NEW r \in Rates, LifecycleCall(t, c, r) PROVE Handles'
  <2>1. (c = "open" => Handle(t) = {}) /\ (c # "open" => Handle(t) # {})
    BY <1>1, Allowed DEF LifecycleCall
  <2> QED BY <1>0, <1>1, <2>1 DEF LifecycleCall, NewCall, Handle, Lifecycle
<1>2. ASSUME NEW t \in Threads, NEW c \in Sends, NEW n \in 1..MaxSend, SendCall(t, c, n) PROVE Handles'
  <2>1. Handle(t) # {}
    BY <1>2, Allowed DEF SendCall, Sends
  <2> QED BY <1>0, <1>2, <2>1 DEF SendCall, NewCall, Handle, Lifecycle, Sends
<1>3. ASSUME NEW t \in Threads, Step(t) PROVE Handles'
  <2>1. CASE UpdateFlags(t)
    <3>1. PICK d \in SUBSET Flags :
             dev_state' = [dev_state EXCEPT ![ProcOf[t]] = d] /\ ("OPEN" \in d <=> "OPEN" \in Handle(t))
      BY <2>1, NewFlags
    <3>2. call[t].op \in Lifecycle \ {"open", "close"}
      BY <2>1 DEF IInv, Control, UpdateFlags, Lifecycle
    <3> QED BY <1>0, <2>1, <3>1, <3>2 DEF UpdateFlags, Leave, NoCall, NewCall, Handle, Lifecycle
  <2>2. CASE zcan_open(t) \/ zcan_release(t)
    BY <1>0, <2>2 DEF zcan_open, zcan_release, Leave, NoCall, NewCall, Lifecycle
  <2>3. CASE LockPio(t) \/ LockTx(t) \/ zcan_pio_start(t) \/ zcan_pio_stop(t) \/ zcan_pio_set_baudrate(t)
    BY <1>0, <2>3 DEF LockPio, LockTx, zcan_pio_start, zcan_pio_stop, zcan_pio_set_baudrate
  <2>4. CASE zcan_pio_chip_init(t) \/ Restore(t)
    BY <1>0, <2>4 DEF zcan_pio_chip_init, Restore
  <2>5. CASE BaudDisable(t) \/ ChipReset(t)
    <3>1. \E x \in BOOLEAN : call' = [call EXCEPT ![t].saved = x]
      BY <1>0, <2>5, Zenon DEF BaudDisable, ChipReset, FlagType
    <3>2. \A u \in Threads : call'[u].op = call[u].op
      BY <1>0, <3>1, NewSaved
    <3> QED BY <1>0, <2>5, <3>2 DEF BaudDisable, ChipReset
  <2>6. CASE OpenEnd(t)
    <3>1. call[t].op = "open"
      BY <1>0, <2>6 DEF OpenEnd
    <3>2. CASE Leave(t) /\ UNCHANGED dev_state
      BY <1>0, <3>1, <3>2 DEF Leave, NoCall, NewCall, Lifecycle
    <3>3. CASE call' = [call EXCEPT ![t].op = "close"] /\ UNCHANGED dev_state
      <4>1. \A u \in Threads : call'[u].op = IF u = t THEN "close" ELSE call[u].op
        BY <1>0, <3>3 DEF Calls
      <4> QED BY <1>0, <3>1, <3>3, <4>1 DEF Lifecycle
    <3>4. CASE Leave(t) /\ dev_state' = [dev_state EXCEPT ![ProcOf[t]] = {"OPEN"}]
      BY <1>0, <3>1, <3>4 DEF Leave, NoCall, NewCall, Lifecycle
    <3> QED BY <2>6, <3>2, <3>3, <3>4 DEF OpenEnd
  <2>7. CASE TxCheck(t) \/ TxStatus(t)
    BY <1>0, <2>7 DEF TxCheck, TxStatus, Leave, NoCall, NewCall, Lifecycle
  <2>8. CASE TxWrite(t)
    BY <1>0, <2>8 DEF TxWrite, Leave, NoCall, NewCall, Lifecycle, Calls
  <2> QED BY <1>3, <2>1, <2>2, <2>3, <2>4, <2>5, <2>6, <2>7, <2>8 DEF Step
<1>4. ASSUME NEW t \in Threads, Deadline(t) PROVE Handles'
  BY <1>0, <1>4 DEF Deadline, Calls
<1>5. CASE BusSends \/ UNCHANGED vars
  BY <1>0, <1>5 DEF BusSends, vars
<1> QED BY <1>1, <1>2, <1>3, <1>4, <1>5 DEF Next

\* Who owns the device does not change while handles stay and nobody begins or ends to
\* open or close it.
LEMMA SameOwners ==
    ASSUME OneOwner, UNCHANGED opened,
           \A p \in Procs : dev_state'[p] # {} <=> dev_state[p] # {},
           \A u \in Threads : InTransit(u)' <=> InTransit(u)
    PROVE  OneOwner'
<1>1. \A p \in Procs : Owner(p)' <=> Owner(p)
  BY DEF Owner
<1> QED BY <1>1 DEF OneOwner

\* The device changes hands only when nobody has it.
LEMMA StepOwner == IInv /\ [Next]_vars => OneOwner'
<1> SUFFICES ASSUME IInv, [Next]_vars PROVE OneOwner'
  OBVIOUS
<1> USE ThreadAssumption DEF Goto
<1>0. /\ pc \in [Threads -> {"idle", "open", "pio", "tx", "work", "config", "restore", "check", "flags",
                             "txlock", "txfull", "txwrite"}]
      /\ call \in [Threads -> Calls] /\ dev_state \in [Procs -> SUBSET Flags] /\ ProcOf \in [Threads -> Procs]
      /\ TypeOK /\ FlagType /\ Handles /\ OneOwner
      /\ \A u \in Threads : (pc[u] = "idle") <=> (call[u].op = "none")
      /\ \A u \in Threads : pc[u] \in {"open", "check"} => call[u].op = "open"
      /\ \A u \in Threads : pc[u] \in {"txlock", "txfull", "txwrite"} => call[u].op \in Sends
  BY DEF IInv, TypeOK, ThreadType, ChipType, Control
<1>1. ASSUME NEW t \in Threads, NEW c \in Lifecycle, NEW r \in Rates, LifecycleCall(t, c, r) PROVE OneOwner'
  <2>1. (c = "open" => Handle(t) = {}) /\ (c # "open" => Handle(t) # {})
    BY <1>1, Allowed DEF LifecycleCall
  <2>2. CASE c # "close"
    <3>1. \A u \in Threads : InTransit(u)' <=> InTransit(u)
      BY <1>0, <1>1, <2>2 DEF LifecycleCall, NewCall, InTransit
    <3> QED BY <1>0, <1>1, <2>2, <3>1, SameOwners DEF LifecycleCall, chipVars
  <2>3. CASE c = "close"
    <3>1. \A p \in Procs : Owner(p)' <=> Owner(p)
      BY <1>0, <1>1, <2>1, <2>3 DEF LifecycleCall, NewCall, Owner, InTransit, Handle
    <3> QED BY <1>0, <1>1, <3>1 DEF OneOwner, LifecycleCall, chipVars
  <2> QED BY <2>2, <2>3
<1>2. ASSUME NEW t \in Threads, NEW c \in Sends, NEW n \in 1..MaxSend, SendCall(t, c, n) PROVE OneOwner'
  <2>1. \A u \in Threads : InTransit(u)' <=> InTransit(u)
    BY <1>0, <1>2 DEF SendCall, NewCall, InTransit, Sends
  <2> QED BY <1>0, <1>2, <2>1, SameOwners DEF SendCall, chipVars
<1>3. ASSUME NEW t \in Threads, Step(t) PROVE OneOwner'
  <2>1. CASE UpdateFlags(t)
    <3>1. PICK d \in SUBSET Flags :
             dev_state' = [dev_state EXCEPT ![ProcOf[t]] = d] /\ ("OPEN" \in d <=> "OPEN" \in Handle(t))
      BY <2>1, NewFlags
    <3>2. call[t].op \in Lifecycle \ {"open", "close"}
      BY <2>1 DEF IInv, Control, UpdateFlags, Lifecycle
    <3>3. \A p \in Procs : dev_state'[p] # {} <=> dev_state[p] # {}
      BY <1>0, <3>1, <3>2 DEF Handles, Handle
    <3>4. \A u \in Threads : InTransit(u)' <=> InTransit(u)
      BY <1>0, <2>1, <3>2 DEF UpdateFlags, Leave, NoCall, NewCall, InTransit
    <3> QED BY <1>0, <2>1, <3>3, <3>4, SameOwners DEF UpdateFlags, chipVars
  <2>2. CASE zcan_open(t)
    <3>0. call[t].op = "open"
      BY <1>0, <2>2 DEF zcan_open
    <3>1. CASE opened
      <4>1. \A u \in Threads : InTransit(u)' <=> InTransit(u)
        BY <1>0, <2>2, <3>0, <3>1 DEF zcan_open, Leave, NoCall, NewCall, InTransit
      <4> QED BY <1>0, <2>2, <3>1, <4>1, SameOwners DEF zcan_open
    <3>2. CASE ~opened
      <4>1. \A p \in Procs : ~Owner(p)
        BY <1>0, <3>2 DEF OneOwner
      <4>2. \A p \in Procs : Owner(p)' <=> p = ProcOf[t]
        BY <1>0, <2>2, <3>0, <3>2, <4>1 DEF zcan_open, Owner, InTransit
      <4>3. opened' = TRUE
        BY <2>2, <3>2 DEF zcan_open
      <4> QED BY <1>0, <4>2, <4>3 DEF OneOwner
    <3> QED BY <3>1, <3>2
  <2>3. CASE LockPio(t) \/ LockTx(t) \/ zcan_pio_start(t) \/ zcan_pio_stop(t) \/ zcan_pio_set_baudrate(t)
             \/ zcan_pio_chip_init(t) \/ Restore(t)
    <3>1. UNCHANGED <<opened, dev_state, call>> /\ \A u \in Threads : (pc'[u] = "open") <=> (pc[u] = "open")
      BY <1>0, <2>3 DEF LockPio, LockTx, zcan_pio_start, zcan_pio_stop, zcan_pio_set_baudrate, zcan_pio_chip_init, Restore, chipVars
    <3>2. \A u \in Threads : InTransit(u)' <=> InTransit(u)
      BY <1>0, <3>1 DEF InTransit
    <3> QED BY <1>0, <3>1, <3>2, SameOwners
  <2>4. CASE BaudDisable(t) \/ ChipReset(t)
    <3>1. \E x \in BOOLEAN : call' = [call EXCEPT ![t].saved = x]
      BY <1>0, <2>4, Zenon DEF BaudDisable, ChipReset, FlagType
    <3>2. \A u \in Threads : call'[u].op = call[u].op
      BY <1>0, <3>1, NewSaved
    <3>3. \A u \in Threads : InTransit(u)' <=> InTransit(u)
      BY <1>0, <2>4, <3>2 DEF InTransit, BaudDisable, ChipReset
    <3> QED BY <1>0, <2>4, <3>3, SameOwners DEF BaudDisable, ChipReset
  <2>5. CASE OpenEnd(t)
    <3>1. call[t].op = "open" /\ dev_state[ProcOf[t]] = {} /\ InTransit(t) /\ Owner(ProcOf[t])
      BY <1>0, <2>5 DEF OpenEnd, Handles, InTransit, Owner
    <3>2. \A u \in Threads \ {t} : ProcOf[u] = ProcOf[t] => ~InTransit(u)
      BY <1>0, <3>1 DEF Handles, InTransit
    <3>3. \A p \in Procs : Owner(p) <=> p = ProcOf[t]
      BY <1>0, <3>1 DEF OneOwner
    <3>4. CASE Leave(t) /\ UNCHANGED dev_state /\ opened' = FALSE
      <4>1. \A p \in Procs : ~Owner(p)'
        BY <1>0, <3>1, <3>2, <3>3, <3>4 DEF Leave, NoCall, NewCall, Owner, InTransit
      <4> QED BY <3>4, <4>1 DEF OneOwner
    <3>5. CASE call' = [call EXCEPT ![t].op = "close"] /\ Goto(t, "pio") /\ UNCHANGED <<opened, dev_state>>
      <4>1. \A u \in Threads : call'[u].op = IF u = t THEN "close" ELSE call[u].op
        BY <1>0, <3>5 DEF Calls
      <4>2. \A u \in Threads : InTransit(u)' <=> InTransit(u)
        BY <1>0, <3>1, <3>5, <4>1 DEF InTransit
      <4> QED BY <1>0, <3>5, <4>2, SameOwners
    <3>6. CASE Leave(t) /\ dev_state' = [dev_state EXCEPT ![ProcOf[t]] = {"OPEN"}] /\ UNCHANGED opened
      <4>1. \A p \in Procs : Owner(p)' <=> Owner(p)
        BY ZenonT(60), <1>0, <3>1, <3>2, <3>3, <3>6 DEF Leave, NoCall, NewCall, Owner, InTransit
      <4> QED BY <1>0, <3>6, <4>1 DEF OneOwner
    <3> QED BY <2>5, <3>4, <3>5, <3>6 DEF OpenEnd
  <2>6. CASE zcan_release(t)
    <3>1. call[t].op = "close" /\ dev_state[ProcOf[t]] = {} /\ InTransit(t) /\ Owner(ProcOf[t])
      BY <1>0, <2>6 DEF zcan_release, Handles, InTransit, Owner
    <3>2. \A u \in Threads \ {t} : ProcOf[u] = ProcOf[t] => ~InTransit(u)
      BY <1>0, <3>1 DEF Handles, InTransit
    <3>3. \A p \in Procs : Owner(p) <=> p = ProcOf[t]
      BY <1>0, <3>1 DEF OneOwner
    <3>4. \A p \in Procs : ~Owner(p)'
      BY <1>0, <2>6, <3>1, <3>2, <3>3 DEF zcan_release, Leave, NoCall, NewCall, Owner, InTransit
    <3> QED BY <2>6, <3>4 DEF OneOwner, zcan_release
  <2>7. CASE TxCheck(t) \/ TxStatus(t) \/ TxWrite(t)
    <3>1. \A u \in Threads : InTransit(u)' <=> InTransit(u)
      BY <1>0, <2>7 DEF TxCheck, TxStatus, TxWrite, Leave, NoCall, NewCall, InTransit, Sends, Calls
    <3> QED BY <1>0, <2>7, <3>1, SameOwners DEF TxCheck, TxStatus, TxWrite, chipVars
  <2> QED BY <1>3, <2>1, <2>2, <2>3, <2>4, <2>5, <2>6, <2>7 DEF Step
<1>4. ASSUME NEW t \in Threads, Deadline(t) PROVE OneOwner'
  <2>1. \A u \in Threads : InTransit(u)' <=> InTransit(u)
    BY <1>0, <1>4 DEF Deadline, InTransit, Calls
  <2> QED BY <1>0, <1>4, <2>1, SameOwners DEF Deadline, chipVars
<1>5. CASE BusSends \/ UNCHANGED vars
  BY <1>0, <1>5 DEF BusSends, vars, chipVars, OneOwner, Owner, InTransit
<1> QED BY <1>1, <1>2, <1>3, <1>4, <1>5 DEF Next

\* A thread that is in a lifecycle call and past opening belongs to the one owner.
LEMMA Owns ==
    ASSUME IInv, NEW t \in Threads, call[t].op \in Lifecycle, pc[t] # "open",
           NEW u \in Threads, call[u].op \in Lifecycle, pc[u] # "open"
    PROVE  /\ ProcOf[t] = ProcOf[u]
           /\ t # u => call[t].op \notin {"open", "close"}
           /\ \A p \in Procs : dev_state[p] # {} => p = ProcOf[t]
<1>1. \A v \in Threads : call[v].op \in Lifecycle /\ pc[v] # "open" => Owner(ProcOf[v])
  BY DEF IInv, Handles, Owner, InTransit
<1>2. ProcOf[t] \in Procs /\ ProcOf[u] \in Procs /\ \A p \in Procs : dev_state[p] # {} => Owner(p)
  BY ThreadAssumption DEF Owner
<1>3. ProcOf[t] = ProcOf[u] /\ \A p \in Procs : dev_state[p] # {} => p = ProcOf[t]
  BY <1>1, <1>2 DEF IInv, OneOwner
<1>4. t # u => call[t].op \notin {"open", "close"}
  BY <1>3 DEF IInv, Handles, Lifecycle
<1> QED BY <1>3, <1>4

\* Only who opens or closes the device resets it for good.
LEMMA StepConfigured == IInv /\ [Next]_vars => Configured'
<1> SUFFICES ASSUME IInv, [Next]_vars PROVE Configured'
  OBVIOUS
<1> USE ThreadAssumption DEF Goto
<1>0. /\ pc \in [Threads -> {"idle", "open", "pio", "tx", "work", "config", "restore", "check", "flags",
                             "txlock", "txfull", "txwrite"}]
      /\ call \in [Threads -> Calls] /\ dev_state \in [Procs -> SUBSET Flags] /\ ProcOf \in [Threads -> Procs]
      /\ TypeOK /\ FlagType /\ Handles /\ Configured
      /\ \A u \in Threads : pc[u] \in {"open", "check"} => call[u].op = "open"
      /\ \A u \in Threads : pc[u] \in {"pio", "tx", "work", "config", "restore"} => call[u].op \in Lifecycle
      /\ \A u \in Threads : pc[u] = "restore" => pioState = "INIT"
  BY DEF IInv, TypeOK, ThreadType, ChipType, Control, Core
<1>1. ASSUME NEW t \in Threads, NEW c \in Lifecycle, NEW r \in Rates, LifecycleCall(t, c, r) PROVE Configured'
  <2>1. c # "open" => Handle(t) # {}
    BY <1>1, Allowed DEF LifecycleCall
  <2> QED BY <1>0, <1>1, <2>1 DEF LifecycleCall, chipVars, Configured
<1>2. ASSUME NEW t \in Threads, NEW c \in Sends, NEW n \in 1..MaxSend, SendCall(t, c, n) PROVE Configured'
  BY <1>0, <1>2 DEF SendCall, chipVars, Configured
<1>3. ASSUME NEW t \in Threads, Step(t) PROVE Configured'
  <2>1. CASE UpdateFlags(t)
    <3>1. PICK d \in SUBSET Flags : dev_state' = [dev_state EXCEPT ![ProcOf[t]] = d]
      BY <2>1, NewFlags
    <3>2. dev_state[ProcOf[t]] # {}
      BY <2>1 DEF IInv, Control, UpdateFlags, Handles, Lifecycle
    <3> QED BY <1>0, <2>1, <3>1, <3>2 DEF UpdateFlags, Leave, chipVars, Configured
  <2>2. CASE zcan_open(t) \/ LockPio(t) \/ LockTx(t) \/ zcan_pio_set_baudrate(t) \/ BaudDisable(t)
    BY <1>0, <2>2 DEF zcan_open, Leave, LockPio, LockTx, zcan_pio_set_baudrate, BaudDisable, chipVars, Configured
  <2>3. ASSUME pc[t] \in {"work", "config"}
        PROVE  /\ \A u \in Threads : pc[u] # "check"
               /\ call[t].op \in {"open", "close"} => \A p \in Procs : dev_state[p] = {}
    <3>1. call[t].op \in Lifecycle /\ pc[t] # "open"
      BY <1>0, <2>3
    <3>2. ASSUME NEW u \in Threads, pc[u] = "check" PROVE FALSE
      <4>1. call[u].op = "open" /\ call[u].op \in Lifecycle /\ pc[u] # "open" /\ u # t
        BY <1>0, <2>3, <3>2 DEF Lifecycle
      <4> QED BY <3>1, <4>1, Owns
    <3>3. \A p \in Procs : dev_state[p] # {} => p = ProcOf[t]
      BY <3>1, Owns
    <3> QED BY <1>0, <3>2, <3>3 DEF Handles
  <2>5. CASE zcan_pio_start(t) \/ zcan_pio_stop(t)
    BY <1>0, <2>3, <2>5 DEF zcan_pio_start, zcan_pio_stop, Configured
  <2>6. CASE ChipReset(t) \/ zcan_pio_chip_init(t)
    BY <1>0, <2>3, <2>6 DEF ChipReset, zcan_pio_chip_init, Configured
  <2>7. CASE zcan_release(t)
    BY <1>0, <2>3, <2>7 DEF zcan_release, Leave, Configured
  <2>8. CASE Restore(t)
    <3>1. call[t].op # "open" => \A u \in Threads : pc[u] # "check"
      <4> SUFFICES ASSUME call[t].op # "open", NEW u \in Threads, pc[u] = "check" PROVE FALSE
        OBVIOUS
      <4>1. call[u].op = "open" /\ call[u].op \in Lifecycle /\ pc[u] # "open" /\ u # t /\ pc[t] # "open"
            /\ call[t].op \in Lifecycle
        BY <1>0, <2>8 DEF Lifecycle, Restore
      <4> QED BY <4>1, Owns
    <3> QED BY <1>0, <2>8, <3>1 DEF Restore, Configured
  <2>9. CASE OpenEnd(t)
    BY <1>0, <2>9 DEF OpenEnd, Leave, Configured
  <2>10. CASE TxCheck(t) \/ TxStatus(t) \/ TxWrite(t)
    BY <1>0, <2>10 DEF TxCheck, TxStatus, TxWrite, Leave, chipVars, Configured
  <2> QED BY <1>3, <2>1, <2>2, <2>5, <2>6, <2>7, <2>8, <2>9, <2>10 DEF Step
<1>4. ASSUME NEW t \in Threads, Deadline(t) PROVE Configured'
  BY <1>0, <1>4 DEF Deadline, chipVars, Configured
<1>5. CASE BusSends \/ UNCHANGED vars
  BY <1>0, <1>5 DEF BusSends, vars, chipVars, Configured
<1> QED BY <1>1, <1>2, <1>3, <1>4, <1>5 DEF Next

\* The flags and the state of the driver stay together, call by call.
LEMMA StepTracked == IInv /\ [Next]_vars => Tracked'
<1> SUFFICES ASSUME IInv, [Next]_vars PROVE Tracked'
  OBVIOUS
<1> USE ThreadAssumption DEF Goto, InLifecycle
<1>0. /\ pc \in [Threads -> {"idle", "open", "pio", "tx", "work", "config", "restore", "check", "flags",
                             "txlock", "txfull", "txwrite"}]
      /\ call \in [Threads -> Calls] /\ dev_state \in [Procs -> SUBSET Flags] /\ ProcOf \in [Threads -> Procs]
      /\ TypeOK /\ FlagType /\ Handles /\ Tracked
      /\ \A u \in Threads : (pc[u] = "idle") <=> (call[u].op = "none")
      /\ \A u \in Threads : pc[u] \in {"open", "check"} => call[u].op = "open"
      /\ \A u \in Threads : pc[u] \in {"pio", "tx", "work", "config", "restore"} => call[u].op \in Lifecycle
      /\ \A u \in Threads : pc[u] \in {"txlock", "txfull", "txwrite"} => call[u].op \in Sends
  BY DEF IInv, TypeOK, ThreadType, ChipType, Control
<1>1. ASSUME NEW t \in Threads, NEW c \in Lifecycle, NEW r \in Rates, LifecycleCall(t, c, r) PROVE Tracked'
  <2>1. (c = "open" => Handle(t) = {}) /\ (c # "open" => Handle(t) # {})
    BY <1>1, Allowed DEF LifecycleCall
  <2>2. \A p \in Procs : p # ProcOf[t] => overlap'[p] = overlap[p]
    BY <1>0, <1>1 DEF LifecycleCall, FlagType
  <2>3. ~overlap'[ProcOf[t]] /\ c # "open" => ~overlap[ProcOf[t]] /\ \A u \in Threads : ProcOf[u] = ProcOf[t] => call[u].op \notin Lifecycle
    BY <1>0, <1>1 DEF LifecycleCall, FlagType
  <2>4. \A u \in Threads : call'[u] = IF u = t THEN NewCall(c, IF c = "baud" THEN r ELSE DefaultRate, 0) ELSE call[u]
    BY <1>0, <1>1 DEF LifecycleCall
  <2> QED BY <1>0, <1>1, <2>1, <2>2, <2>3, <2>4 DEF LifecycleCall, NewCall, Handle, chipVars, Tracked
<1>2. ASSUME NEW t \in Threads, NEW c \in Sends, NEW n \in 1..MaxSend, SendCall(t, c, n) PROVE Tracked'
  BY <1>0, <1>2 DEF SendCall, NewCall, Sends, Lifecycle, chipVars, histVars, Tracked
<1>3. ASSUME NEW t \in Threads, Step(t) PROVE Tracked'
  <2>0. pc[t] \in {"work", "config", "restore"} =>
           /\ \A p \in Procs : dev_state[p] # {} => p = ProcOf[t]
           /\ call[t].op \in {"open", "close"} => \A p \in Procs : dev_state[p] = {}
    BY <1>0, Owns DEF Handles
  <2>1. CASE UpdateFlags(t)
    <3>1. PICK d \in SUBSET Flags :
            /\ dev_state' = [dev_state EXCEPT ![ProcOf[t]] = d]
            /\ "START" \in d <=> (call[t].op = "start" \/ (call[t].op # "stop" /\ "START" \in Handle(t)))
      BY <2>1, NewFlags
    <3>2. call[t].op \in Lifecycle \ {"open", "close"} /\ dev_state[ProcOf[t]] # {}
      BY <2>1 DEF IInv, Control, UpdateFlags, Handles, Lifecycle
    <3> QED BY <1>0, <2>1, <3>1, <3>2 DEF UpdateFlags, Leave, NoCall, NewCall, Handle, Lifecycle, chipVars, histVars, Tracked
  <2>2. CASE zcan_open(t)
    BY <1>0, <2>2 DEF zcan_open, Leave, NoCall, NewCall, Lifecycle, histVars, Tracked, Handles
  <2>3. CASE LockPio(t) \/ LockTx(t) \/ zcan_pio_set_baudrate(t)
    BY <1>0, <2>3 DEF LockPio, LockTx, zcan_pio_set_baudrate, chipVars, histVars, Tracked
  <2>4. CASE zcan_pio_start(t) \/ zcan_pio_stop(t)
    BY <1>0, <2>0, <2>4 DEF zcan_pio_start, zcan_pio_stop, histVars, Tracked
  <2>5. CASE BaudDisable(t)
    <3>1. \E x \in BOOLEAN : call' = [call EXCEPT ![t].saved = x]
      BY <1>0, <2>5, Zenon DEF BaudDisable, FlagType
    <3>2. \A u \in Threads : call'[u].op = call[u].op /\ (u # t => call'[u] = call[u])
      BY <1>0, <3>1, NewSaved
    <3> QED BY <1>0, <2>5, <3>2 DEF BaudDisable, histVars, Tracked
  <2>6. CASE ChipReset(t)
    <3>1. \E x \in BOOLEAN : call' = [call EXCEPT ![t].saved = x]
      BY <1>0, <2>6, Zenon DEF ChipReset, FlagType
    <3>2. \A u \in Threads : call'[u].op = call[u].op /\ (u # t => call'[u] = call[u])
      BY <1>0, <3>1, NewSaved
    <3> QED BY <1>0, <2>0, <2>6, <3>2 DEF ChipReset, histVars, Tracked
  <2>7. CASE zcan_pio_chip_init(t)
    <3>1. call[t].op # "open" => (call[t].saved <=> pioState = "START")
      BY <2>7 DEF IInv, Core, zcan_pio_chip_init
    <3> QED BY <1>0, <2>0, <2>7, <3>1 DEF zcan_pio_chip_init, histVars, Tracked
  <2>8. CASE Restore(t)
    <3>1. pioState = "INIT" /\ call[t].op \in {"open", "loopback", "normal"}
      BY <2>8 DEF IInv, Core, Control, Restore
    <3> QED BY <1>0, <2>0, <2>8, <3>1 DEF Restore, histVars, Tracked
  <2>9. CASE OpenEnd(t)
    <3>1. pioState = "INIT" /\ call[t].op = "open"
      BY <1>0, <2>9 DEF IInv, Configured, OpenEnd
    <3>2. CASE Leave(t)
      BY <1>0, <2>9, <3>1, <3>2 DEF OpenEnd, Leave, NoCall, NewCall, Lifecycle, histVars, Tracked, Handles
    <3>3. CASE call' = [call EXCEPT ![t].op = "close"] /\ Goto(t, "pio") /\ UNCHANGED <<dev_state, pioState, overlap>>
      <4>1. \A u \in Threads : u # t => call'[u] = call[u]
        BY <1>0, <3>3 DEF Calls
      <4> QED BY <1>0, <3>1, <3>3, <4>1 DEF Lifecycle, Tracked, Handles
    <3> QED BY <2>9, <3>2, <3>3 DEF OpenEnd, histVars
  <2>10. CASE zcan_release(t)
    BY <1>0, <2>0, <2>10 DEF zcan_release, Leave, Tracked
  <2>11. CASE TxCheck(t) \/ TxStatus(t)
    BY <1>0, <2>11 DEF TxCheck, TxStatus, Leave, NoCall, NewCall, Lifecycle, Sends, chipVars, histVars, Tracked
  <2>12. CASE TxWrite(t)
    <3>1. \A u \in Threads : call'[u].op \in Lifecycle <=> call[u].op \in Lifecycle
      BY <1>0, <2>12 DEF TxWrite, Leave, NoCall, NewCall, Lifecycle, Sends, Calls
    <3>2. \A u \in Threads : call[u].op \in Lifecycle => u # t
      BY <1>0, <2>12 DEF TxWrite, Lifecycle, Sends
    <3>3. \A u \in Threads : u # t => call'[u] = call[u]
      BY <1>0, <2>12 DEF TxWrite, Leave
    <3>4. \A u \in Threads : u # t => pc'[u] = pc[u]
      BY <1>0, <2>12 DEF TxWrite, Leave
    <3>5. UNCHANGED <<pioState, dev_state, overlap>>
      BY <2>12 DEF TxWrite, histVars
    <3> QED BY <1>0, <3>1, <3>2, <3>3, <3>4, <3>5 DEF Tracked
  <2> QED BY <1>3, <2>1, <2>2, <2>3, <2>4, <2>5, <2>6, <2>7, <2>8, <2>9, <2>10, <2>11, <2>12 DEF Step
<1>4. ASSUME NEW t \in Threads, Deadline(t) PROVE Tracked'
  <2>1. \A u \in Threads : call'[u].op = call[u].op /\ call'[u].saved = call[u].saved
    BY <1>0, <1>4 DEF Deadline, Calls
  <2> QED BY <1>0, <1>4, <2>1 DEF Deadline, chipVars, histVars, Tracked
<1>5. CASE BusSends \/ UNCHANGED vars
  BY <1>0, <1>5 DEF BusSends, vars, chipVars, histVars, Tracked
<1> QED BY <1>1, <1>2, <1>3, <1>4, <1>5 DEF Next

\* What a sender read of its FIFO still holds when it writes.
LEMMA StepRoom == IInv /\ [Next]_vars => Room'
<1> SUFFICES ASSUME IInv, [Next]_vars PROVE Room'
  OBVIOUS
<1> USE ThreadAssumption, SizeAssumption DEF Goto, Room, FifoNotOverrun
<1>0. /\ pc \in [Threads -> {"idle", "open", "pio", "tx", "work", "config", "restore", "check", "flags",
                             "txlock", "txfull", "txwrite"}]
      /\ call \in [Threads -> Calls] /\ TypeOK /\ FlagType /\ Room /\ txFifo \in Nat /\ txHpb \in Nat
      /\ \A u \in Threads : pc[u] \in {"txfull", "txwrite"} =>
           (call[u].op = "send" => txLock = u) /\ (call[u].op = "hipri" => hiLock = u)
      /\ \A u \in Threads : pc[u] \in {"txlock", "txfull", "txwrite"} => call[u].op \in {"send", "hipri"}
  BY DEF IInv, TypeOK, ThreadType, ChipType, Control, Locks, Sends
<1>1. ASSUME NEW t \in Threads, NEW c \in Lifecycle, NEW r \in Rates, LifecycleCall(t, c, r) PROVE Room'
  BY <1>0, <1>1 DEF LifecycleCall, chipVars
<1>2. ASSUME NEW t \in Threads, NEW c \in Sends, NEW n \in 1..MaxSend, SendCall(t, c, n) PROVE Room'
  BY <1>0, <1>2 DEF SendCall, chipVars
<1>3. ASSUME NEW t \in Threads, Step(t) PROVE Room'
  <2>1. CASE UpdateFlags(t) \/ zcan_open(t) \/ LockPio(t) \/ LockTx(t) \/ zcan_pio_start(t) \/ zcan_pio_stop(t)
    BY <1>0, <2>1 DEF UpdateFlags, zcan_open, LockPio, LockTx, zcan_pio_start, zcan_pio_stop, Leave, chipVars
  <2>2. CASE BaudDisable(t) \/ ChipReset(t)
    <3>1. \E x \in BOOLEAN : call' = [call EXCEPT ![t].saved = x]
      BY <1>0, <2>2, Zenon DEF BaudDisable, ChipReset, FlagType
    <3>2. \A u \in Threads : call'[u].op = call[u].op
      BY <1>0, <3>1, NewSaved
    <3> QED BY <1>0, <2>2, <3>2 DEF BaudDisable, ChipReset
  <2>3. CASE zcan_pio_set_baudrate(t) \/ zcan_pio_chip_init(t) \/ Restore(t) \/ zcan_release(t)
    BY <1>0, <2>3 DEF zcan_pio_set_baudrate, zcan_pio_chip_init, Restore, zcan_release, Leave
  <2>4. CASE OpenEnd(t)
    BY <1>0, <2>4 DEF OpenEnd, Leave
  <2>5. CASE TxCheck(t)
    BY <1>0, <2>5 DEF TxCheck, Leave, chipVars
  <2>6. CASE TxStatus(t)
    BY <1>0, <2>6 DEF TxStatus, TxFull, Leave, chipVars
  <2>7. CASE TxWrite(t)
    <3>1. txFifo' <= TxCap /\ txHpb' <= 1
      BY <1>0, <2>7 DEF TxWrite
    <3>2. ASSUME NEW u \in Threads, u # t, pc[u] = "txwrite" PROVE call[u].op # call[t].op
      BY <1>0, <2>7, <3>2 DEF TxWrite
    <3> QED BY <1>0, <2>7, <3>1, <3>2 DEF TxWrite, Leave
  <2> QED BY <1>3, <2>1, <2>2, <2>3, <2>4, <2>5, <2>6, <2>7 DEF Step
<1>4. ASSUME NEW t \in Threads, Deadline(t) PROVE Room'
  <2>1. \A u \in Threads : call'[u].op = call[u].op
    BY <1>0, <1>4 DEF Deadline, Calls
  <2> QED BY <1>0, <1>4, <2>1 DEF Deadline, chipVars
<1>5. CASE BusSends \/ UNCHANGED vars
  BY <1>0, <1>5 DEF BusSends, vars, chipVars
<1> QED BY <1>1, <1>2, <1>3, <1>4, <1>5 DEF Next

\* Who stops, resets or closes the channel waits for a sender to leave the lock of the FIFO;
\* who changes the loopback does not wait, but restores the state.
LEMMA StepStarted == IInv /\ [Next]_vars => Started'
<1> SUFFICES ASSUME IInv, [Next]_vars PROVE Started'
  OBVIOUS
<1> USE ThreadAssumption DEF Goto, Started
<1>0. /\ pc \in [Threads -> {"idle", "open", "pio", "tx", "work", "config", "restore", "check", "flags",
                             "txlock", "txfull", "txwrite"}]
      /\ call \in [Threads -> Calls] /\ TypeOK /\ FlagType /\ Started
      /\ \A u \in Threads : pc[u] \in {"txfull", "txwrite"} /\ call[u].op = "send" => txLock = u
      /\ \A u \in Threads : pc[u] \in {"txlock", "txfull", "txwrite"} => call[u].op \in {"send", "hipri"}
      /\ \A u \in Threads : pc[u] \in {"work", "config", "restore"} /\ TakesTxLock(call[u].op) => txLock = u
      /\ \A u \in Threads : pc[u] \in {"tx", "work", "config", "restore"} => pioLock = u
      /\ \A u \in Threads : pc[u] = "config" => call[u].op \in {"open", "loopback", "normal", "baud"}
  BY DEF IInv, TypeOK, ThreadType, Control, Locks, Sends
<1>1. ASSUME NEW t \in Threads, NEW c \in Lifecycle, NEW r \in Rates, LifecycleCall(t, c, r) PROVE Started'
  BY <1>0, <1>1 DEF LifecycleCall, NewCall, chipVars
<1>2. ASSUME NEW t \in Threads, NEW c \in Sends, NEW n \in 1..MaxSend, SendCall(t, c, n) PROVE Started'
  BY <1>0, <1>2 DEF SendCall, NewCall, chipVars
<1>3. ASSUME NEW t \in Threads, Step(t) PROVE Started'
  <2>1. CASE UpdateFlags(t) \/ zcan_open(t) \/ LockPio(t) \/ LockTx(t) \/ zcan_pio_start(t)
    BY <1>0, <2>1 DEF UpdateFlags, zcan_open, LockPio, LockTx, zcan_pio_start, Leave, chipVars
  <2>2. CASE zcan_pio_stop(t) \/ zcan_release(t)
    <3>1. txLock = t
      BY <1>0, <2>2 DEF zcan_pio_stop, zcan_release, TakesTxLock
    <3>2. \A u \in Threads : ~(pc'[u] \in {"txfull", "txwrite"} /\ call'[u].op = "send")
      BY <1>0, <2>2, <3>1 DEF zcan_pio_stop, zcan_release, Leave
    <3> QED BY <3>2
  <2>3. CASE BaudDisable(t) \/ ChipReset(t)
    <3>1. \E x \in BOOLEAN : call' = [call EXCEPT ![t].saved = x]
      BY <1>0, <2>3, Zenon DEF BaudDisable, ChipReset, FlagType
    <3>2. \A u \in Threads : call'[u].op = call[u].op /\ (u # t => call'[u] = call[u])
      BY <1>0, <3>1, NewSaved
    <3> QED BY <1>0, <2>3, <3>2 DEF BaudDisable, ChipReset, TakesTxLock
  <2>4. CASE zcan_pio_chip_init(t)
    <3>1. call[t].op # "open" => (call[t].saved <=> pioState = "START")
      BY <2>4 DEF IInv, Core, zcan_pio_chip_init
    <3>2. \A u \in Threads : pc[u] # "restore"
      BY <1>0, <2>4 DEF zcan_pio_chip_init
    <3>3. call[t].op = "open" => \A u \in Threads : ~(pc[u] \in {"txfull", "txwrite"} /\ call[u].op = "send")
      BY <1>0, <2>4 DEF zcan_pio_chip_init, TakesTxLock
    <3> QED BY <1>0, <2>4, <3>1, <3>2, <3>3 DEF zcan_pio_chip_init
  <2>5. CASE Restore(t) \/ zcan_pio_set_baudrate(t)
    BY <1>0, <2>5 DEF Restore, zcan_pio_set_baudrate
  <2>6. CASE OpenEnd(t)
    BY <1>0, <2>6 DEF OpenEnd, Leave
  <2>7. CASE TxCheck(t)
    BY <1>0, <2>7 DEF TxCheck, Leave, chipVars
  <2>8. CASE TxStatus(t)
    BY <1>0, <2>8 DEF TxStatus, Leave, chipVars
  <2>9. CASE TxWrite(t)
    BY <1>0, <2>9 DEF TxWrite, Leave
  <2> QED BY <1>3, <2>1, <2>2, <2>3, <2>4, <2>5, <2>6, <2>7, <2>8, <2>9 DEF Step
<1>4. ASSUME NEW t \in Threads, Deadline(t) PROVE Started'
  <2>1. \A u \in Threads : call'[u].op = call[u].op /\ call'[u].saved = call[u].saved
    BY <1>0, <1>4 DEF Deadline, Calls
  <2> QED BY <1>0, <1>4, <2>1 DEF Deadline, chipVars
<1>5. CASE BusSends \/ UNCHANGED vars
  BY <1>0, <1>5 DEF BusSends, vars, chipVars
<1> QED BY <1>1, <1>2, <1>3, <1>4, <1>5 DEF Next

-----------------------------------------------------------------------------
\* The invariant holds in every state of every behaviour.
THEOREM Invariance == Spec => []IInv
<1>1. IInv /\ [Next]_vars => IInv'
  <2> SUFFICES ASSUME IInv, [Next]_vars PROVE IInv'
    OBVIOUS
  <2>1. TypeOK'
    BY StepFlag, StepChip, StepThread DEF IInv, TypeOK
  <2>2. \A u \in Threads : Control(u)' /\ Locks(u)'
    BY StepControl
  <2>3. Core' /\ Handles' /\ OneOwner' /\ Configured' /\ Tracked' /\ Room' /\ Started'
    BY StepCore, StepHandles, StepOwner, StepConfigured, StepTracked, StepRoom, StepStarted
  <2> QED BY <2>1, <2>2, <2>3 DEF IInv
<1> QED BY InitIInv, <1>1, PTL DEF Spec

\* The flags of the library, the state of the driver, the registers of the core and the claim of
\* the device file agree, however many threads and processes call zcan_ioctl and the bcan library.
THEOREM ViewsKept == Spec => []ViewsAgree
<1>1. IInv => ViewsAgree
  <2> SUFFICES ASSUME IInv PROVE ViewsAgree
    OBVIOUS
  <2>1. TypeOK /\ CoreMatchesState
    BY DEF IInv, CoreMatchesState, Core, Agree
  <2>2. LibMatchesDriver
    BY DEF IInv, LibMatchesDriver, Tracked
  <2>3. SingleHandle
    <3> DEFINE owners == {p \in Procs : \/ dev_state[p] # {}
                                        \/ \E t \in Threads : ProcOf[t] = p /\ InTransit(t)}
    <3>1. \A p : p \in owners <=> p \in Procs /\ Owner(p)
      BY DEF Owner
    <3>2. opened <=> owners # {}
      BY <3>1 DEF IInv, OneOwner
    <3>3. owners = {} \/ \E p \in Procs : owners = {p}
      <4> HIDE DEF owners
      <4> QED BY <3>1 DEF IInv, OneOwner
    <3>4. Cardinality(owners) <= 1
      <4> HIDE DEF owners
      <4>1. CASE owners = {}
        BY <4>1, FS_EmptySet
      <4>2. ASSUME NEW p \in Procs, owners = {p} PROVE Cardinality(owners) <= 1
        BY <4>2, FS_Singleton
      <4> QED BY <3>3, <4>1, <4>2
    <3> QED BY <3>2, <3>4 DEF SingleHandle
  <2> QED BY <2>1, <2>2, <2>3 DEF ViewsAgree
<1> QED BY <1>1, Invariance, PTL

\* zcan_pio_tx_one and zcan_pio_tx_hi_one never write into a full FIFO, although they read its
\* status first and any number of them run.
THEOREM NoOverrun == Spec => []FifoNotOverrun
<1>1. IInv => FifoNotOverrun
  BY DEF IInv, Room
<1> QED BY <1>1, Invariance, PTL

\* zcan_pio_stop, zcan_pio_reset and zcan_pio_reset_noinit take effect between the transmissions
\* and not within one.
THEOREM StopIsFinal == Spec => NoTxAfterStop
<1> DEFINE Late == txFifo' > txFifo =>
              \/ pioState = "START"
              \/ \E t \in Threads : pioLock = t /\ call[t].op \in {"loopback", "normal"}
<1>1. IInv /\ [Next]_vars => [Late]_vars
  <2> SUFFICES ASSUME IInv, Next, txFifo' > txFifo
               PROVE  \/ pioState = "START"
                      \/ \E t \in Threads : pioLock = t /\ call[t].op \in {"loopback", "normal"}
    OBVIOUS
  <2>0. txFifo \in Nat /\ 0 \in Nat /\ TypeOK
    BY DEF IInv, TypeOK, ChipType
  <2>1. PICK t \in Threads : TxWrite(t)
    <3>1. ASSUME NEW t \in Threads, NEW c \in Lifecycle, NEW r \in Rates, LifecycleCall(t, c, r) PROVE FALSE
      BY <2>0, <3>1 DEF LifecycleCall, chipVars
    <3>2. ASSUME NEW t \in Threads, NEW c \in Sends, NEW n \in 1..MaxSend, SendCall(t, c, n) PROVE FALSE
      BY <2>0, <3>2 DEF SendCall, chipVars
    <3>3. ASSUME NEW t \in Threads, Step(t), ~TxWrite(t) PROVE FALSE
      BY <2>0, <3>3 DEF Step, UpdateFlags, zcan_open, LockPio, LockTx, zcan_pio_start, zcan_pio_stop, BaudDisable,
           zcan_pio_set_baudrate, ChipReset, zcan_pio_chip_init, Restore, OpenEnd, zcan_release, TxCheck, TxStatus, chipVars
    <3>4. ASSUME NEW t \in Threads, Deadline(t) PROVE FALSE
      BY <2>0, <3>4 DEF Deadline, chipVars
    <3>5. ~BusSends
      BY <2>0 DEF BusSends
    <3> QED BY <3>1, <3>2, <3>3, <3>4, <3>5 DEF Next
  <2>2. pc[t] = "txwrite" /\ call[t].op = "send"
    BY <2>0, <2>1 DEF TxWrite
  <2> QED BY <2>2 DEF IInv, Started, Locks
<1> QED BY <1>1, Invariance, PTL DEF Spec, NoTxAfterStop
=============================================================================
