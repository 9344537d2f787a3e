------------------------------ MODULE EsdProofs ------------------------------
(***************************************************************************)
(* The esd CAN driver for any number of threads, DPCs and cards: the       *)
(* safety properties of its run are proved for the composition MCEsd, one  *)
(* inductive invariant for each of its parts.                              *)
(***************************************************************************)
EXTENDS MCEsd, Sequences, FiniteSetTheorems, TLAPS

-----------------------------------------------------------------------------
(* One handle                                                              *)

Job(n) == [state : SUBSET Can!Flags, count : 0 .. n]
NucJob == [rx : {"idle", "job", "timed", "abort"}, q : 0 .. MaxQueue, timed : BOOLEAN, abort : BOOLEAN,
           closing : BOOLEAN, msgs : 0 .. MaxMsgs]
Thread == [pc : Can!Waits \cup {"idle"}, old : Int, intr : BOOLEAN, on : BOOLEAN, lo : Int, hi : Int]

FileType ==
    /\ file \in {"closed", "open", "ready"} /\ closeState \subseteq {"HANDLE_CLOSED", "CLOSE_DONE"}
    /\ status \in {"ok", "wrongFirmware"} /\ filt \subseteq Can!Ids
JobType == rx \in Job(MaxMsgs) /\ tx \in Job(MaxQueue) /\ nuc \in NucJob
ThreadType == th \in [Threads -> Thread]

\* A thread in the rounds of the id filter keeps to identifiers that exist.
FilterInIds == \A t \in Threads : th[t].pc = "filter" => th[t].lo >= 1 /\ th[t].hi <= MaxId

\* The reader is the one thread that PENDING_READ stands for, and it is marked as interrupted only once it waits for its abort.
OneReader ==
    /\ \A t, u \in Threads : Can!Reading(t) /\ Can!Reading(u) => t = u
    /\ (\E t \in Threads : Can!Reading(t)) <=> "PENDING_READ" \in rx.state
    /\ rx.state = {} \/ "PENDING_READ" \in rx.state
    /\ \A t \in Threads : th[t].pc = "read" => "SIGNAL_INTERRUPT" \notin rx.state

OneWriter ==
    /\ \A t, u \in Threads : Can!Writing(t) /\ Can!Writing(u) => t = u
    /\ (\E t \in Threads : Can!Writing(t)) <=> "PENDING_WRITE" \in tx.state
    /\ tx.state = {} \/ tx.state \cap {"PENDING_WRITE", "PENDING_SEND"} # {}
    /\ "PENDING_WRITE" \in tx.state => "PENDING_SEND" \notin tx.state
    /\ \A t \in Threads : th[t].pc = "write" => "SIGNAL_INTERRUPT" \notin tx.state

\* What a sleeping reader waits for is under way.
ReaderServed ==
    \A t \in Threads :
      /\ th[t].pc = "read" /\ ~Can!RxWoken => nuc.rx # "idle"
      /\ th[t].pc = "readsig" /\ "SIGNAL_INTERRUPT" \in rx.state => nuc.rx = "abort"

\* A writer's messages are in the nucleus behind those of an earlier canSend, or they have left it and the writer was told.
WriterServed ==
    \A t \in Threads :
      /\ Can!Writing(t) => th[t].old >= 0
      /\ th[t].pc = "write" => nuc.q > th[t].old \/ (nuc.q = 0 /\ Can!TxWoken(t))
      /\ th[t].pc = "writesig" /\ "SIGNAL_INTERRUPT" \in tx.state => nuc.q > 0 /\ nuc.abort

Closer(t) == th[t].pc \in {"close", "release"}

\* A close marks what is inside; it waits until the nucleus is done and the marks are gone.
Closing ==
    /\ nuc.closing => "HANDLE_CLOSED" \in closeState
    /\ "CLOSE_DONE" \in closeState => "HANDLE_CLOSED" \in closeState /\ nuc.rx = "idle" /\ nuc.q = 0
    /\ "HANDLE_CLOSED" \in closeState =>
         /\ rx.state = {} \/ "CLOSING" \in rx.state
         /\ tx.state = {} \/ "CLOSING" \in tx.state
         /\ \/ \E t \in Threads : Closer(t)
            \/ "CLOSE_DONE" \in closeState /\ rx.state = {} /\ tx.state = {}

\* Threads are inside only while the file has a handle; the release of the file is alone.
FileHeld ==
    /\ file = "ready" \/ \A t \in Threads : th[t].pc = "idle"
    /\ \A t \in Threads : Closer(t) => "HANDLE_CLOSED" \in closeState
    /\ \A t, u \in Threads : th[t].pc = "release" /\ u # t => th[u].pc = "idle"

CanInv ==
    /\ FileType /\ JobType /\ ThreadType /\ FilterInIds
    /\ OneReader /\ OneWriter /\ ReaderServed /\ WriterServed /\ Closing /\ FileHeld
-----------------------------------------------------------------------------
(* Deferred procedure calls                                                *)

Dpc == [mem : {"NOTUSED", "KMEM", "VMEM"}, destroy : BOOLEAN, linked : BOOLEAN, running : BOOLEAN,
        timer : {"off", "armed", "stub"}]

Queued(d) == \E i \in DOMAIN queue : queue[i] = d

OsifType == Osif!TypeOK /\ dpc \in [Dpcs -> Dpc]

\* The queue has each DPC that is linked and not destroyed, once.
QueueExact ==
    /\ \A d \in Dpcs : Queued(d) <=> dpc[d].linked /\ ~dpc[d].destroy
    /\ \A i, j \in DOMAIN queue : queue[i] = queue[j] => i = j

\* What is linked or runs has its memory; the thread is in a function just when one runs.
Alive ==
    /\ \A d \in Dpcs : dpc[d].linked \/ dpc[d].running => Osif!Exists(d)
    /\ thread = "func" <=> \E d \in Dpcs : dpc[d].running
    /\ attach = "no" => thread = "none"

OsifInv == OsifType /\ QueueExact /\ Alive
-----------------------------------------------------------------------------
(* Cards                                                                   *)

Things == {"crd", "enabled", "spaces", "master", "msi", "node", "board", "irq", "lock_irq"}
Steps == {"enable", "spaces", "nodes", "board", "irq", "attach", "final"}

\* What a card has taken when its attach is at a step; MSI may be there or not.
Held(at) ==
    IF at = "enable" THEN {"crd"}
    ELSE IF at = "spaces" THEN {"crd", "enabled"}
    ELSE IF at = "nodes" THEN {"crd", "enabled", "spaces", "master"}
    ELSE IF at = "board" THEN {"crd", "enabled", "spaces", "master", "node"}
    ELSE IF at = "irq" THEN {"crd", "enabled", "spaces", "master", "node", "board"}
    ELSE {"crd", "enabled", "spaces", "master", "node", "board", "irq"}

\* What it may have besides: MSI, and what earlier attaches have left.
Extra == {"msi", "enabled", "lock_irq"}

CardType ==
    /\ load \in {"unloaded", "ioctl32", "osif", "probing", "loaded", "unloading", "failed", "oops"} /\ left \subseteq Cards
    /\ res \in [Cards -> SUBSET Things] /\ up \in [Cards -> SUBSET Card!Nodes]
    /\ nodes \in [Card!Nets -> Cards \cup {NoCard}]
    /\ data \subseteq Cards /\ attached = Cardinality(data)

CurType ==
    cur = Card!None \/ (/\ cur \in [card : Cards \ data, at : Steps, no : Nat]
                        /\ load = "probing" /\ cur.no = attached)

\* A card holds what the step it has reached has taken, or what the code leaks.
Holds ==
    \A c \in Cards :
      /\ c \in data => Held("final") \subseteq res[c] /\ up[c] # {}
      /\ c \notin data /\ c # cur.card => res[c] \subseteq Card!Leaks /\ up[c] = {}
      /\ c = cur.card => /\ Held(cur.at) \subseteq res[c] /\ res[c] \subseteq Held(cur.at) \cup Extra
                         /\ up[c] # {} <=> cur.at = "final"

\* A card has a number that gives its nodes their places in nodes[].
Numbered ==
    \A c \in Cards : \E no \in 0 .. Cardinality(Cards) - 1 :
       \A k \in Card!Nets : nodes[k] = c <=> \E n \in up[c] : k = Card!Net(no, n)

\* While cards come, the numbers from the next one on are free, but for the card that is being attached.
FreeAbove ==
    load = "probing" =>
       \A k \in Card!Nets : nodes[k] # NoCard =>
          k < (IF nodes[k] = cur.card THEN attached + 1 ELSE attached) * NODES_PER_CARD

\* What the module has registered when its load or unload is at a step.
Registered(at) ==
    IF at = "unloaded" THEN {}
    ELSE IF at = "ioctl32" THEN {"ioctl32"}
    ELSE IF at = "loaded" THEN {"ioctl32", "osif", "chrdev", "proc"}
    ELSE IF at = "unloading" THEN {"ioctl32", "osif", "proc"}
    ELSE {"ioctl32", "osif"}

\* Where the load and the unload of the module are.
Loading ==
    /\ load = "probing" => left \cap data = {} /\ cur.card \notin left
    /\ load \in {"unloading", "failed"} => data \subseteq left
    /\ load \in {"unloaded", "ioctl32", "osif"} => data = {}
    /\ load = "loaded" => data # {}
    /\ files = Registered(load)

CardInv == CardType /\ CurType /\ Holds /\ Numbered /\ FreeAbove /\ Loading
-----------------------------------------------------------------------------
IInv == CanInv /\ OsifInv /\ CardInv
-----------------------------------------------------------------------------
(* The handle: what the changes of its records keep.                       *)

\* A job with new flags and a new count is a job.
LEMMA JobSet ==
    ASSUME NEW n \in Nat, NEW j \in Job(n), NEW s \in SUBSET Can!Flags, NEW k \in 0 .. n
    PROVE  [j EXCEPT !.state = s, !.count = k] \in Job(n)
BY Zenon DEF Job

\* The nucleus that is told to abort or to close.
LEMMA NucTold ==
    ASSUME NEW n \in NucJob
    PROVE  [n EXCEPT !.abort = TRUE] \in NucJob /\ [n EXCEPT !.closing = TRUE] \in NucJob
BY Zenon DEF NucJob

\* The nucleus that takes messages for a write.
LEMMA NucTakes ==
    ASSUME NEW n \in NucJob, NEW k \in 0 .. MaxQueue, NEW b \in BOOLEAN
    PROVE  [n EXCEPT !.q = k, !.timed = b] \in NucJob
BY Zenon DEF NucJob

\* The nucleus that has transmitted.
LEMMA NucSent ==
    ASSUME NEW n \in NucJob, NEW k \in 0 .. MaxQueue
    PROVE  [n EXCEPT !.q = k, !.timed = FALSE, !.abort = FALSE] \in NucJob
BY Zenon DEF NucJob

\* The nucleus that has ended a receive job.
LEMMA NucGave ==
    ASSUME NEW n \in NucJob, NEW m \in 0 .. MaxMsgs
    PROVE  [n EXCEPT !.rx = "idle", !.msgs = m] \in NucJob
BY Zenon DEF NucJob

\* A thread that a signal interrupts.
LEMMA ThreadInterrupted ==
    ASSUME NEW f \in [Threads -> Thread], NEW t \in Threads, NEW p \in Can!Waits
    PROVE  [f EXCEPT ![t].pc = p, ![t].intr = TRUE] \in [Threads -> Thread]
BY Zenon DEF Thread

\* A thread that starts to write behind other messages.
LEMMA ThreadWrites ==
    ASSUME NEW f \in [Threads -> Thread], NEW t \in Threads, NEW p \in Can!Waits, NEW i \in Int
    PROVE  [f EXCEPT ![t].pc = p, ![t].old = i] \in [Threads -> Thread]
BY Zenon DEF Thread

\* A thread whose ioctl ends before it sleeps.
LEMMA ThreadTold ==
    ASSUME NEW f \in [Threads -> Thread], NEW t \in Threads
    PROVE  [f EXCEPT ![t].intr = TRUE] \in [Threads -> Thread]
BY Zenon DEF Thread

\* A thread that goes on with the identifiers that are left.
LEMMA ThreadGoesOn ==
    ASSUME NEW f \in [Threads -> Thread], NEW t \in Threads, NEW i \in Int
    PROVE  [f EXCEPT ![t].lo = i] \in [Threads -> Thread]
BY Zenon DEF Thread

\* A thread that leaves the driver.
LEMMA ThreadIdle ==
    ASSUME NEW f \in [Threads -> Thread], NEW t \in Threads
    PROVE  [f EXCEPT ![t] = Can!Idle] \in [Threads -> Thread]
BY SMT DEF Thread, Can!Idle

-----------------------------------------------------------------------------
(* Its calls and call-backs, one by one.                                   *)

\* The start of a read: the only thread that reads is the one that set PENDING_READ.
LEMMA StepReadStart == ASSUME CanInv, NEW t \in Threads, Can!ReadStart(t) PROVE CanInv'
<1> USE BoundAssumption DEF Can!ReadStart, Can!Entered, Can!esdcan_ioctl, Can!CAN_ACTION_CHECK, Can!Go
<1>1. rx' \in Job(MaxMsgs)
  <2>1. {"PENDING_READ"} \in SUBSET Can!Flags /\ rx.state \in SUBSET Can!Flags /\ 0 \in 0 .. MaxMsgs
    BY DEF CanInv, JobType, Job, Can!Flags
  <2>2. [rx EXCEPT !.count = 0] \in Job(MaxMsgs)
    BY <2>1 DEF CanInv, JobType, Job
  <2>3. [rx EXCEPT !.state = {"PENDING_READ"}, !.count = 0] \in Job(MaxMsgs)
    BY <2>1, JobSet DEF CanInv, JobType
  <2>4. QED BY <2>2, <2>3
<1>2. FileType' /\ JobType' /\ ThreadType'
  BY <1>1 DEF CanInv, FileType, JobType, ThreadType, NucJob, Thread, Can!Waits
<1>3. CASE rx' = [rx EXCEPT !.count = 0] /\ UNCHANGED <<nuc, th>>
  BY <1>2, <1>3 DEF CanInv, JobType, Job, FilterInIds, OneReader, OneWriter, ReaderServed, WriterServed, Closing,
     FileHeld, Closer, Can!Reading, Can!Writing, Can!RxWoken, Can!TxWoken
<1>4. CASE /\ rx' = [rx EXCEPT !.state = {"PENDING_READ"}, !.count = 0]
           /\ \E kind \in {"job", "timed"} : nuc' = [nuc EXCEPT !.rx = kind]
           /\ Can!Go(t, "read")
  <2>1. rx'.state = {"PENDING_READ"} /\ \A u \in Threads : th'[u].pc = IF u = t THEN "read" ELSE th[u].pc
    BY <1>4 DEF CanInv, JobType, Job, ThreadType, Thread
  <2>2. OneReader' /\ ReaderServed'
    BY <1>4, <2>1 DEF CanInv, JobType, NucJob, OneReader, ReaderServed, Can!Reading, Can!RxWoken
  <2>3. FilterInIds' /\ OneWriter' /\ WriterServed' /\ Closing' /\ FileHeld'
    BY <1>4 DEF CanInv, JobType, NucJob, ThreadType, Thread, FilterInIds, OneWriter, WriterServed, Closing, FileHeld,
       Closer, Can!Writing, Can!TxWoken
  <2>4. QED BY <1>2, <2>2, <2>3 DEF CanInv
<1>5. QED BY <1>3, <1>4

\* A signal ends the wait of a read.
LEMMA StepReadSignal == ASSUME CanInv, NEW t \in Threads, Can!ReadSignal(t) PROVE CanInv'
<1>1. ThreadType'
  <2>1. "readsig" \in Can!Waits BY DEF Can!Waits
  <2>2. QED BY <2>1, ThreadInterrupted DEF CanInv, ThreadType, Can!ReadSignal
<1>2. FileType' /\ JobType'
  BY DEF CanInv, FileType, JobType, Job, NucJob, Can!Flags, Can!ReadSignal
<1>3. FilterInIds' /\ OneReader' /\ OneWriter' /\ ReaderServed' /\ WriterServed'
  BY DEF CanInv, JobType, Job, NucJob, ThreadType, Thread, FilterInIds, OneReader, OneWriter, ReaderServed, WriterServed,
     Can!Reading, Can!Writing, Can!RxWoken, Can!TxWoken, Can!ReadSignal
<1>4. Closing' /\ FileHeld'
  BY DEF CanInv, JobType, Job, NucJob, ThreadType, Thread, OneReader, Closing, FileHeld, Closer, Can!Reading, Can!RxWoken,
     Can!ReadSignal
<1>5. QED BY <1>1, <1>2, <1>3, <1>4 DEF CanInv

\* The end of a read clears flags and count.
LEMMA StepReadEnd == ASSUME CanInv, NEW t \in Threads, Can!ReadEnd(t) PROVE CanInv'
<1>1. rx' \in Job(MaxMsgs)
  <2>1. {} \in SUBSET Can!Flags /\ 0 \in 0 .. MaxMsgs BY BoundAssumption
  <2>2. QED BY <2>1, JobSet, BoundAssumption DEF CanInv, JobType, Can!ReadEnd
<1>2. FileType' /\ JobType' /\ ThreadType'
  BY <1>1, ThreadIdle DEF CanInv, FileType, JobType, ThreadType, Can!ReadEnd, Can!Leave
<1>3. FilterInIds' /\ OneReader' /\ OneWriter' /\ ReaderServed' /\ WriterServed'
  BY DEF CanInv, JobType, Job, NucJob, ThreadType, Thread, FilterInIds, OneReader, OneWriter, ReaderServed, WriterServed,
     Can!Reading, Can!Writing, Can!RxWoken, Can!TxWoken, Can!ReadEnd, Can!Leave, Can!Idle
<1>4. Closing' /\ FileHeld'
  BY DEF CanInv, JobType, Job, NucJob, ThreadType, Thread, Closing, FileHeld, Closer, Can!ReadEnd, Can!Leave, Can!Idle
<1>5. QED BY <1>2, <1>3, <1>4 DEF CanInv

\* The nucleus ends a receive job: the reader has messages, is told of the abort, or its interruption is over.
LEMMA StepNucRxDone == ASSUME CanInv, Can!NucRxDone PROVE CanInv'
<1>1. PICK n \in 0 .. nuc.msgs :
         /\ n = 0 => nuc.rx \in {"abort", "timed"} \/ nuc.closing
         /\ nuc' = [nuc EXCEPT !.rx = "idle", !.msgs = @ - n]
         /\ Can!esdcan_rx_done(n)
  BY DEF Can!NucRxDone
<1>2. JobType'
  <2>1. n \in 0 .. MaxMsgs /\ nuc.msgs - n \in 0 .. MaxMsgs
    BY <1>1, BoundAssumption DEF CanInv, JobType, NucJob
  <2>2. nuc' \in NucJob
    BY <1>1, <2>1, NucGave DEF CanInv, JobType
  <2>3. PICK s \in SUBSET Can!Flags : rx' = [rx EXCEPT !.state = s, !.count = n]
    BY <1>1 DEF CanInv, JobType, Job, Can!Flags, Can!esdcan_rx_done
  <2>4. rx' \in Job(MaxMsgs)
    BY <2>1, <2>3, JobSet, BoundAssumption DEF CanInv, JobType
  <2>5. QED BY <2>2, <2>4 DEF CanInv, JobType, Can!NucRxDone
<1>3. FileType' /\ ThreadType'
  BY DEF CanInv, FileType, ThreadType, Can!NucRxDone
<1>4. FilterInIds' /\ OneReader' /\ OneWriter' /\ ReaderServed' /\ WriterServed'
  BY <1>1 DEF CanInv, JobType, Job, NucJob, ThreadType, Thread, FilterInIds, OneReader, OneWriter, ReaderServed, WriterServed,
     Can!Reading, Can!Writing, Can!RxWoken, Can!TxWoken, Can!NucRxDone, Can!esdcan_rx_done
<1>5. Closing' /\ FileHeld'
  BY <1>1 DEF CanInv, JobType, Job, NucJob, ThreadType, Thread, Closing, FileHeld, Closer, Can!NucRxDone, Can!esdcan_rx_done
<1>6. QED BY <1>2, <1>3, <1>4, <1>5 DEF CanInv

\* The start of a write: its messages stand behind those of an earlier canSend.
LEMMA StepWriteStart == ASSUME CanInv, NEW t \in Threads, Can!WriteStart(t) PROVE CanInv'
<1> DEFINE ahead == IF "PENDING_SEND" \in tx.state THEN nuc.q ELSE 0
<1>1. PICK n \in (0 .. MaxMsgs) \ {0}, timed \in BOOLEAN :
         /\ nuc.q + n <= MaxQueue
         /\ tx' = [tx EXCEPT !.state = {"PENDING_WRITE"}]
         /\ nuc' = [nuc EXCEPT !.q = @ + n, !.timed = timed]
         /\ th' = [th EXCEPT ![t].pc = "write", ![t].old = ahead]
  BY DEF Can!WriteStart, Can!esdcan_tx_get
<1>2. n \in Nat /\ n > 0 /\ nuc.q + n \in 0 .. MaxQueue /\ ahead \in 0 .. nuc.q
  BY <1>1, BoundAssumption DEF CanInv, JobType, NucJob
<1>3. FileType' /\ JobType' /\ ThreadType'
  <2>1. nuc' \in NucJob
    BY <1>1, <1>2, NucTakes DEF CanInv, JobType
  <2>2. ahead \in Int /\ "write" \in Can!Waits
    BY <1>2 DEF CanInv, JobType, NucJob, Can!Waits
  <2>3. ThreadType'
    BY <1>1, <2>2, ThreadWrites DEF CanInv, ThreadType
  <2>4. QED BY <1>1, <2>1, <2>3 DEF CanInv, FileType, JobType, Job, Can!Flags, Can!WriteStart
<1>4. /\ \A u \in Threads : u # t => th'[u] = th[u]
      /\ th'[t].pc = "write" /\ th'[t].old = ahead
      /\ tx'.state = {"PENDING_WRITE"} /\ nuc'.q = nuc.q + n /\ nuc'.rx = nuc.rx
      /\ nuc'.abort = nuc.abort /\ nuc'.closing = nuc.closing
  BY <1>1 DEF CanInv, JobType, Job, NucJob, ThreadType, Thread
<1>5. /\ th[t].pc = "idle" /\ "PENDING_WRITE" \notin tx.state /\ "HANDLE_CLOSED" \notin closeState /\ file = "ready"
      /\ UNCHANGED <<file, closeState, rx>>
  BY DEF Can!WriteStart, Can!Entered, Can!esdcan_ioctl
<1>6. FilterInIds' /\ OneReader' /\ ReaderServed'
  BY <1>4, <1>5 DEF CanInv, JobType, FilterInIds, OneReader, ReaderServed, Can!Reading, Can!RxWoken
<1>7. OneWriter' /\ WriterServed'
  BY <1>2, <1>4, <1>5 DEF CanInv, JobType, NucJob, OneWriter, WriterServed, Can!Writing, Can!TxWoken
<1>8. Closing' /\ FileHeld'
  BY <1>2, <1>4, <1>5 DEF CanInv, JobType, NucJob, Closing, FileHeld, Closer
<1>9. QED BY <1>3, <1>6, <1>7, <1>8 DEF CanInv

\* A signal ends the wait of a write, which is aborted, or leaves at once.
LEMMA StepWriteSignal == ASSUME CanInv, NEW t \in Threads, Can!WriteSignal(t) PROVE CanInv'
<1>1. CASE tx.count = th[t].old
  <2>1. ThreadType'
    <3>1. "writesig" \in Can!Waits BY DEF Can!Waits
    <3>2. QED BY <1>1, <3>1, ThreadInterrupted DEF CanInv, ThreadType, Can!WriteSignal
  <2>2. nuc' \in NucJob
    BY <1>1, NucTold DEF CanInv, JobType, Can!WriteSignal
  <2>3. FileType' /\ JobType'
    BY <1>1, <2>2 DEF CanInv, FileType, JobType, Job, Can!Flags, Can!WriteSignal
  <2>4. FilterInIds' /\ OneReader' /\ OneWriter' /\ ReaderServed' /\ WriterServed'
    BY SMTT(60), <1>1 DEF CanInv, JobType, Job, NucJob, ThreadType, Thread, FilterInIds, OneReader, OneWriter, ReaderServed, WriterServed,
       Can!Reading, Can!Writing, Can!RxWoken, Can!TxWoken, Can!WriteSignal
  <2>5. Closing' /\ FileHeld'
    BY <1>1 DEF CanInv, JobType, Job, NucJob, ThreadType, Thread, OneWriter, Closing, FileHeld, Closer, Can!Writing, Can!TxWoken,
       Can!WriteSignal
  <2>6. QED BY <2>1, <2>3, <2>4, <2>5 DEF CanInv
<1>2. CASE tx.count # th[t].old
  <2>1. tx' = [tx EXCEPT !.state = {}, !.count = 0] /\ th' = [th EXCEPT ![t] = Can!Idle] /\ nuc' = nuc /\ th[t].pc = "write"
    BY <1>2 DEF Can!WriteSignal, Can!Leave
  <2>2. FileType' /\ JobType' /\ ThreadType'
    <3>1. {} \in SUBSET Can!Flags /\ 0 \in 0 .. MaxQueue BY BoundAssumption
    <3>2. tx' \in Job(MaxQueue) BY <2>1, <3>1, JobSet, BoundAssumption DEF CanInv, JobType
    <3>3. QED BY <2>1, <3>2, ThreadIdle DEF CanInv, FileType, JobType, ThreadType, Can!WriteSignal
  <2>3. /\ \A u \in Threads : u # t => th'[u] = th[u]
        /\ th'[t].pc = "idle" /\ tx'.state = {}
    BY <2>1 DEF CanInv, JobType, Job, ThreadType, Can!Idle
  <2>4. FilterInIds' /\ OneReader' /\ ReaderServed'
    BY <2>1, <2>3 DEF CanInv, JobType, FilterInIds, OneReader, ReaderServed, Can!Reading, Can!RxWoken, Can!WriteSignal
  <2>5. OneWriter' /\ WriterServed'
    BY <2>1, <2>3 DEF CanInv, OneWriter, WriterServed, Can!Writing
  <2>6. Closing' /\ FileHeld'
    BY <2>1, <2>3 DEF CanInv, Closing, FileHeld, Closer, Can!WriteSignal
  <2>7. QED BY <2>2, <2>4, <2>5, <2>6 DEF CanInv
<1>3. QED BY <1>1, <1>2

\* The end of a write clears flags and count.
LEMMA StepWriteEnd == ASSUME CanInv, NEW t \in Threads, Can!WriteEnd(t) PROVE CanInv'
<1>1. tx' \in Job(MaxQueue)
  <2>1. {} \in SUBSET Can!Flags /\ 0 \in 0 .. MaxQueue BY BoundAssumption
  <2>2. QED BY <2>1, JobSet, BoundAssumption DEF CanInv, JobType, Can!WriteEnd
<1>2. FileType' /\ JobType' /\ ThreadType'
  BY <1>1, ThreadIdle DEF CanInv, FileType, JobType, ThreadType, Can!WriteEnd, Can!Leave
<1>3. FilterInIds' /\ OneReader' /\ OneWriter' /\ ReaderServed' /\ WriterServed'
  BY DEF CanInv, JobType, Job, NucJob, ThreadType, Thread, FilterInIds, OneReader, OneWriter, ReaderServed, WriterServed,
     Can!Reading, Can!Writing, Can!RxWoken, Can!TxWoken, Can!WriteEnd, Can!Leave, Can!Idle
<1>4. Closing' /\ FileHeld'
  BY DEF CanInv, JobType, Job, NucJob, ThreadType, Thread, Closing, FileHeld, Closer, Can!WriteEnd, Can!Leave, Can!Idle
<1>5. QED BY <1>2, <1>3, <1>4 DEF CanInv

\* The nucleus ends a transmission: the writer has it all, is told of the abort, or its interruption is over.
LEMMA StepNucTxDone == ASSUME CanInv, Can!NucTxDone PROVE CanInv'
<1>1. PICK all \in BOOLEAN : Can!esdcan_tx_done(IF all THEN nuc.q ELSE 0)
  BY DEF Can!NucTxDone
<1>2. FileType' /\ JobType' /\ ThreadType'
  <2>1. 0 \in 0 .. MaxQueue BY BoundAssumption
  <2>2. nuc' \in NucJob
    BY <2>1, NucSent DEF CanInv, JobType, Can!NucTxDone
  <2>3. tx' \in Job(MaxQueue)
    BY <1>1, <2>1 DEF CanInv, JobType, Job, NucJob, Can!Flags, Can!esdcan_tx_done
  <2>4. QED BY <2>2, <2>3 DEF CanInv, FileType, JobType, ThreadType, Can!NucTxDone
<1>3. FilterInIds' /\ OneReader' /\ OneWriter' /\ ReaderServed' /\ WriterServed'
  BY <1>1 DEF CanInv, JobType, Job, NucJob, ThreadType, Thread, FilterInIds, OneReader, OneWriter, ReaderServed, WriterServed,
     Can!Reading, Can!Writing, Can!RxWoken, Can!TxWoken, Can!NucTxDone, Can!esdcan_tx_done
<1>4. Closing' /\ FileHeld'
  BY <1>1 DEF CanInv, JobType, Job, NucJob, ThreadType, Thread, Closing, FileHeld, Closer, Can!NucTxDone, Can!esdcan_tx_done
<1>5. QED BY <1>2, <1>3, <1>4 DEF CanInv

\* A round of the filter switches identifiers that exist.
LEMMA StepFilter == ASSUME CanInv, NEW t \in Threads, Can!id_filter(t) PROVE CanInv'
<1>1. PICK n \in 0 .. (th[t].hi - th[t].lo + 1), fail \in BOOLEAN :
         /\ filt' = IF ~th[t].on THEN filt \ (th[t].lo .. (th[t].lo + n - 1))
                    ELSE IF fail THEN filt \ (th[t].old .. (th[t].lo + n - 1))
                    ELSE filt \cup (th[t].lo .. (th[t].lo + n - 1))
         /\ IF fail \/ th[t].lo + n > th[t].hi THEN Can!Leave(t) ELSE th' = [th EXCEPT ![t].lo = @ + n]
  BY DEF Can!id_filter
<1>2. th[t].lo \in Int /\ th[t].hi \in Int /\ th[t].lo >= 1 /\ th[t].hi <= MaxId
  BY DEF CanInv, ThreadType, Thread, FilterInIds, Can!id_filter
<1>3. FileType'
  BY <1>1, <1>2, BoundAssumption DEF CanInv, FileType, Can!Ids, Can!id_filter
<1>4. JobType' BY DEF CanInv, JobType, Can!id_filter
<1>5. ThreadType'
  <2>1. CASE Can!Leave(t) BY <2>1, ThreadIdle DEF CanInv, ThreadType, Can!Leave
  <2>2. CASE th' = [th EXCEPT ![t].lo = @ + n] BY <1>2, <2>2, ThreadGoesOn DEF CanInv, ThreadType
  <2>3. QED BY <1>1, <2>1, <2>2
<1>6. \A u \in Threads : u # t => th'[u] = th[u]
  BY <1>1 DEF CanInv, ThreadType, Can!Leave
<1>7. th'[t].pc \in {"idle", "filter"} /\ (th'[t].pc = "filter" => th'[t].lo >= 1 /\ th'[t].hi <= MaxId)
  BY <1>1, <1>2 DEF CanInv, ThreadType, Thread, Can!Leave, Can!Idle, Can!id_filter
<1>8. FilterInIds' /\ OneReader' /\ OneWriter' /\ ReaderServed' /\ WriterServed'
  BY <1>6, <1>7 DEF CanInv, JobType, NucJob, ThreadType, FilterInIds, OneReader, OneWriter, ReaderServed, WriterServed,
     Can!Reading, Can!Writing, Can!RxWoken, Can!TxWoken, Can!id_filter
<1>9. Closing' /\ FileHeld'
  BY <1>6, <1>7 DEF CanInv, Closing, FileHeld, Closer, Can!id_filter
<1>10. QED BY <1>3, <1>4, <1>5, <1>8, <1>9 DEF CanInv

\* The nucleus answers an ioctl.
LEMMA StepIoctlDone == ASSUME CanInv, NEW t \in Threads, Can!esdcan_ioctl_done(t) PROVE CanInv'
<1>1. ThreadType'
  BY ThreadIdle, ThreadTold DEF CanInv, ThreadType, Can!esdcan_ioctl_done, Can!Leave
<1>2. FileType' /\ JobType' BY DEF CanInv, FileType, JobType, Can!esdcan_ioctl_done
<1>3. /\ \A u \in Threads : u # t => th'[u] = th[u]
      /\ th[t].pc \in {"ioctlPrep", "ioctlWait"} /\ th'[t].pc \in {"ioctlPrep", "idle"}
  BY DEF CanInv, ThreadType, Thread, Can!esdcan_ioctl_done, Can!Leave, Can!Idle
<1>4. FilterInIds' /\ OneReader' /\ OneWriter' /\ ReaderServed' /\ WriterServed'
  BY <1>3 DEF CanInv, FilterInIds, OneReader, OneWriter, ReaderServed, WriterServed,
     Can!Reading, Can!Writing, Can!RxWoken, Can!TxWoken, Can!esdcan_ioctl_done
<1>5. Closing' /\ FileHeld'
  BY <1>3 DEF CanInv, Closing, FileHeld, Closer, Can!esdcan_ioctl_done
<1>6. QED BY <1>1, <1>2, <1>4, <1>5 DEF CanInv

\* A close marks the jobs that are inside.
LEMMA StepDestroy ==
    ASSUME CanInv, NEW t \in Threads, NEW p \in {"close", "release"}, Can!ocb_destroy, Can!Go(t, p),
           th[t].pc = "idle", file = "ready", UNCHANGED <<file, status, filt>>,
           p = "release" => \A u \in Threads : th[u].pc = "idle",
           "HANDLE_CLOSED" \notin closeState
    PROVE  CanInv'
<1>1. nuc' \in NucJob BY NucTold DEF CanInv, JobType, Can!ocb_destroy
<1>2. FileType' /\ JobType' /\ ThreadType'
  <2>1. rx' \in Job(MaxMsgs) /\ tx' \in Job(MaxQueue)
    BY DEF CanInv, JobType, Job, Can!Flags, Can!ocb_destroy
  <2>2. ThreadType'
    BY DEF CanInv, ThreadType, Thread, Can!Waits, Can!Go
  <2>3. QED BY <1>1, <2>1, <2>2 DEF CanInv, FileType, JobType, Can!ocb_destroy
<1>3. FilterInIds' /\ OneReader' /\ OneWriter' /\ ReaderServed' /\ WriterServed'
  BY DEF CanInv, JobType, Job, NucJob, ThreadType, Thread, FilterInIds, OneReader, OneWriter, ReaderServed, WriterServed,
     Can!Reading, Can!Writing, Can!RxWoken, Can!TxWoken, Can!ocb_destroy, Can!Go
<1>4. Closing' /\ FileHeld'
  BY DEF CanInv, JobType, Job, NucJob, ThreadType, Thread, Closing, FileHeld, Closer, Can!ocb_destroy, Can!Go
<1>5. QED BY <1>2, <1>3, <1>4 DEF CanInv

\* The remaining calls of a thread.
LEMMA StepOtherCalls ==
    ASSUME CanInv, NEW t \in Threads,
           \/ Can!esdcan_open(t) \/ Can!IoctlCreate(t) \/ Can!IoctlTake(t) \/ Can!IoctlRxAbort(t) \/ Can!IoctlSend(t)
           \/ Can!IoctlTxAbort(t) \/ Can!IoctlIdRange(t) \/ Can!IoctlIdRegion(t) \/ Can!my_nuc_ioctl(t)
           \/ Can!PrepareToWait(t) \/ Can!CloseEnd(t) \/ Can!IoctlDestroy(t) \/ Can!esdcan_release(t)
    PROVE  CanInv'
<1> USE BoundAssumption DEF CanInv, FileType, JobType, ThreadType, FilterInIds, OneReader, OneWriter, ReaderServed,
        WriterServed, Closing, FileHeld, Closer, Job, NucJob, Thread, Can!Flags, Can!Waits, Can!Ids, Can!Reading,
        Can!Writing, Can!RxWoken, Can!TxWoken, Can!Entered, Can!esdcan_ioctl
<1>1. CASE Can!esdcan_open(t) BY <1>1 DEF Can!esdcan_open
<1>2. CASE Can!IoctlCreate(t) BY <1>2 DEF Can!IoctlCreate, Can!ocb_create, Can!ocb_create2, Can!NewJob, Can!NewNuc
<1>3. CASE Can!IoctlTake(t) BY <1>3 DEF Can!IoctlTake
<1>4. CASE Can!IoctlRxAbort(t)
  <2>1. CASE nuc.rx # "idle" /\ nuc' = [nuc EXCEPT !.rx = "abort"] BY <1>4, <2>1 DEF Can!IoctlRxAbort
  <2>2. CASE nuc.msgs > 0 /\ nuc' = [nuc EXCEPT !.msgs = 0] BY <1>4, <2>2 DEF Can!IoctlRxAbort
  <2>3. QED BY <1>4, <2>1, <2>2 DEF Can!IoctlRxAbort
<1>5. CASE Can!IoctlSend(t) BY <1>5 DEF Can!IoctlSend, Can!esdcan_tx_get
<1>6. CASE Can!IoctlTxAbort(t)
  <2>1. nuc' \in NucJob BY <1>6, NucTold DEF Can!IoctlTxAbort
  <2>2. QED BY <1>6, <2>1 DEF Can!IoctlTxAbort
<1>7. CASE Can!IoctlIdRange(t) BY <1>7 DEF Can!IoctlIdRange
<1>8. CASE Can!IoctlIdRegion(t) BY <1>8 DEF Can!IoctlIdRegion
<1>9. CASE Can!my_nuc_ioctl(t) BY <1>9 DEF Can!my_nuc_ioctl, Can!Go
<1>10. CASE Can!PrepareToWait(t) BY <1>10 DEF Can!PrepareToWait, Can!Go
<1>11. CASE Can!CloseEnd(t) BY <1>11 DEF Can!CloseEnd, Can!Leave, Can!Idle
<1> HIDE BoundAssumption DEF CanInv, FileType, JobType, ThreadType, FilterInIds, OneReader, OneWriter, ReaderServed,
        WriterServed, Closing, FileHeld, Closer, Job, NucJob, Thread, Can!Flags, Can!Waits, Can!Ids, Can!Reading,
        Can!Writing, Can!RxWoken, Can!TxWoken
<1>12. CASE Can!IoctlDestroy(t) BY <1>12, StepDestroy DEF Can!IoctlDestroy
<1>13. CASE Can!esdcan_release(t)
  <2>1. CASE Can!ocb_destroy /\ Can!Go(t, "release") /\ UNCHANGED file /\ file = "ready" /\ "HANDLE_CLOSED" \notin closeState
    <3>1. th[t].pc = "idle" /\ UNCHANGED <<file, status, filt>> /\ \A u \in Threads : th[u].pc = "idle"
      BY <1>13, <2>1 DEF Can!esdcan_release
    <3>2. QED BY <2>1, <3>1, StepDestroy
  <2>2. CASE file' = "closed" /\ UNCHANGED <<closeState, rx, tx, nuc, th>>
    BY <1>13, <2>2 DEF CanInv, FileType, JobType, ThreadType, FilterInIds, OneReader, OneWriter, ReaderServed, WriterServed,
       Closing, FileHeld, Closer, Can!Reading, Can!Writing, Can!RxWoken, Can!TxWoken, Can!esdcan_release
  <2>3. QED BY <1>13, <2>1, <2>2 DEF Can!esdcan_release
<1>14. QED BY <1>1, <1>2, <1>3, <1>4, <1>5, <1>6, <1>7, <1>8, <1>9, <1>10, <1>11, <1>12, <1>13

\* Every step of a handle keeps its invariant.
LEMMA StepCan == CanInv /\ [Can!Next]_canVars => CanInv'
<1> SUFFICES ASSUME CanInv, [Can!Next]_canVars PROVE CanInv' OBVIOUS
<1>1. ASSUME NEW t \in Threads, Can!Call(t) \/ Can!Run(t) PROVE CanInv'
  BY <1>1, StepReadStart, StepReadSignal, StepReadEnd, StepWriteStart, StepWriteSignal, StepWriteEnd, StepFilter,
     StepOtherCalls DEF Can!Call, Can!Run
<1>2. CASE Can!Nucleus
  <2>1. CASE Can!esdcan_close_done
    BY <2>1 DEF CanInv, FileType, JobType, ThreadType, FilterInIds, OneReader, OneWriter, ReaderServed, WriterServed,
       Closing, FileHeld, Closer, Can!Reading, Can!Writing, Can!RxWoken, Can!TxWoken, Can!esdcan_close_done
  <2>2. QED BY <1>2, <2>1, StepNucRxDone, StepNucTxDone, StepIoctlDone DEF Can!Nucleus
<1>3. CASE Can!NucReceives
  BY <1>3, BoundAssumption DEF CanInv, FileType, JobType, NucJob, ThreadType, FilterInIds, OneReader, OneWriter, ReaderServed,
     WriterServed, Closing, FileHeld, Closer, Can!Reading, Can!Writing, Can!RxWoken, Can!TxWoken, Can!NucReceives
<1>4. CASE UNCHANGED canVars
  BY <1>4 DEF CanInv, FileType, JobType, ThreadType, FilterInIds, OneReader, OneWriter, ReaderServed,
     WriterServed, Closing, FileHeld, Closer, Can!Reading, Can!Writing, Can!RxWoken, Can!TxWoken, canVars
<1>5. QED BY <1>1, <1>2, <1>3, <1>4 DEF Can!Next
-----------------------------------------------------------------------------
(* The DPCs.                                                               *)

\* A DPC that is linked, or destroyed, with what becomes of its timer.
LEMMA DpcSet ==
    ASSUME NEW f \in [Dpcs -> Dpc], NEW d \in Dpcs, NEW x \in {"off", "armed", "stub"}
    PROVE  /\ [f EXCEPT ![d].linked = TRUE, ![d].timer = x] \in [Dpcs -> Dpc]
           /\ [f EXCEPT ![d].destroy = TRUE, ![d].timer = x] \in [Dpcs -> Dpc]
BY ZenonT(60) DEF Dpc

\* A DPC that starts or ends to run.
LEMMA DpcRun ==
    ASSUME NEW r \in Dpc, NEW a \in BOOLEAN, NEW b \in BOOLEAN
    PROVE  /\ [r EXCEPT !.running = a, !.linked = b].running = a
           /\ [r EXCEPT !.running = a, !.linked = b].linked = b
           /\ [r EXCEPT !.running = a, !.linked = b].destroy = r.destroy
           /\ [r EXCEPT !.running = a, !.linked = b].mem = r.mem
BY DEF Dpc

\* Steps that leave the DPCs and the queue alone.
LEMMA StepThreadOnly ==
    ASSUME OsifInv, UNCHANGED <<dpc, queue>>, Osif!TypeOK', thread' = "func" <=> thread = "func",
           attach' = "no" => thread' = "none"
    PROVE  OsifInv'
BY DEF OsifInv, OsifType, QueueExact, Queued, Alive, Osif!Exists

\* The thread takes the first DPC out of the queue and runs it, or finds none.
LEMMA StepDpcThread == ASSUME OsifInv, Osif!osif_dpc_thread PROVE OsifInv'
<1> USE DEF OsifInv
<1> DEFINE next(d) == queue # <<>> /\ d = queue[1]
<1>1. /\ dpc' \in [Dpcs -> Dpc]
      /\ \A d \in Dpcs : /\ dpc'[d].running <=> next(d)
                         /\ dpc'[d].linked <=> dpc[d].linked /\ ~next(d)
                         /\ dpc'[d].destroy = dpc[d].destroy /\ dpc'[d].mem = dpc[d].mem
  <2>1. dpc' = [d \in Dpcs |-> [dpc[d] EXCEPT !.running = next(d), !.linked = @ /\ ~next(d)]]
    BY DEF Osif!osif_dpc_thread
  <2>2. dpc' \in [Dpcs -> Dpc] BY Zenon, <2>1 DEF OsifType, Dpc
  <2>3. \A d \in Dpcs : dpc'[d] = [dpc[d] EXCEPT !.running = next(d), !.linked = @ /\ ~next(d)] BY <2>1
  <2>4. \A d \in Dpcs : /\ dpc'[d].running = next(d) /\ dpc'[d].linked = (dpc[d].linked /\ ~next(d))
                        /\ dpc'[d].destroy = dpc[d].destroy /\ dpc'[d].mem = dpc[d].mem
    <3> SUFFICES ASSUME NEW d \in Dpcs
                 PROVE  /\ dpc'[d].running = next(d) /\ dpc'[d].linked = (dpc[d].linked /\ ~next(d))
                        /\ dpc'[d].destroy = dpc[d].destroy /\ dpc'[d].mem = dpc[d].mem
      OBVIOUS
    <3> DEFINE a == next(d)
               b == dpc[d].linked /\ ~next(d)
    <3>1. dpc[d] \in Dpc /\ a \in BOOLEAN /\ b \in BOOLEAN BY Zenon DEF OsifType
    <3>2. dpc'[d] = [dpc[d] EXCEPT !.running = a, !.linked = b] BY Zenon, <2>3
    <3> SUFFICES dpc'[d].running = a /\ dpc'[d].linked = b /\ dpc'[d].destroy = dpc[d].destroy /\ dpc'[d].mem = dpc[d].mem
      BY Zenon
    <3> HIDE DEF a, b
    <3>3. QED BY <3>1, <3>2, DpcRun
  <2>5. QED BY Zenon, <2>2, <2>4
<1> HIDE DEF next
<1>2. /\ attach' = attach /\ trig' = trig /\ waking' = waking /\ destroy' = destroy
      /\ thread \in {"drain", "func"} /\ attach # "no"
  BY DEF OsifType, Alive, Osif!TypeOK, Osif!osif_dpc_thread
<1>3. queue \in Seq(Dpcs) /\ Len(queue) \in Nat /\ DOMAIN queue = 1 .. Len(queue)
  BY DEF OsifType, Osif!TypeOK
<1>4. CASE queue # <<>>
  <2>1. queue' = Tail(queue) /\ thread' = "func" BY <1>4 DEF Osif!osif_dpc_thread
  <2>2. /\ queue' \in Seq(Dpcs) /\ Len(queue) > 0 /\ 1 \in DOMAIN queue /\ queue[1] \in Dpcs
        /\ DOMAIN queue' = 1 .. Len(queue) - 1 /\ \A i \in 1 .. Len(queue) - 1 : queue'[i] = queue[i + 1]
    BY <1>3, <1>4, <2>1
  <2>3. OsifType'
    BY <1>1, <1>2, <2>1, <2>2 DEF OsifType, Osif!TypeOK
  <2>4. QueueExact'
    <3>1. \A i \in DOMAIN queue : queue[i] = queue[1] => i = 1
      BY <2>2 DEF QueueExact
    <3>2. \A d \in Dpcs : Queued(d)' <=> Queued(d) /\ d # queue[1]
      <4> SUFFICES ASSUME NEW d \in Dpcs PROVE Queued(d)' <=> Queued(d) /\ d # queue[1] OBVIOUS
      <4>1. ASSUME NEW i \in DOMAIN queue', queue'[i] = d PROVE Queued(d) /\ d # queue[1]
        <5>1. i + 1 \in DOMAIN queue /\ queue[i + 1] = d /\ i + 1 # 1 BY <1>3, <2>2, <4>1
        <5>2. QED BY <3>1, <5>1 DEF Queued
      <4>2. ASSUME NEW i \in DOMAIN queue, queue[i] = d, d # queue[1] PROVE Queued(d)'
        <5>1. i - 1 \in DOMAIN queue' /\ queue'[i - 1] = queue[i] BY <1>3, <2>2, <4>2
        <5>2. QED BY <4>2, <5>1 DEF Queued
      <4>3. QED BY <4>1, <4>2 DEF Queued
    <3>3. \A i, j \in DOMAIN queue' : queue'[i] = queue'[j] => i = j
      <4> SUFFICES ASSUME NEW i \in DOMAIN queue', NEW j \in DOMAIN queue', queue'[i] = queue'[j] PROVE i = j OBVIOUS
      <4>1. i + 1 \in DOMAIN queue /\ j + 1 \in DOMAIN queue /\ queue[i + 1] = queue[j + 1] /\ i \in Nat /\ j \in Nat BY <1>3, <2>2
      <4>2. i + 1 = j + 1 BY <4>1 DEF QueueExact
      <4>3. QED BY <4>1, <4>2
    <3>4. QED BY <1>1, <1>4, <3>2, <3>3 DEF QueueExact, next
  <2>5. Alive'
    <3>1. Queued(queue[1]) BY <2>2 DEF Queued
    <3>2. Osif!Exists(queue[1]) BY <2>2, <3>1 DEF QueueExact, Alive
    <3>3. QED BY <1>1, <1>2, <1>4, <2>1, <2>2, <3>2 DEF Alive, Osif!Exists, next
  <2>6. QED BY <2>3, <2>4, <2>5
<1>5. CASE queue = <<>>
  <2>1. queue' = queue /\ thread' \in {"asleep", "loop"}
    BY <1>5 DEF Osif!osif_dpc_thread
  <2>2. OsifType'
    BY <1>1, <1>2, <1>3, <2>1 DEF OsifType, Osif!TypeOK
  <2>3. QueueExact'
    BY <1>1, <1>5, <2>1 DEF QueueExact, Queued, next
  <2>4. Alive'
    BY <1>1, <1>2, <1>5, <2>1 DEF Alive, Osif!Exists, next
  <2>5. QED BY <2>2, <2>3, <2>4
<1>6. QED BY <1>4, <1>5

\* A trigger appends a DPC that is not in the queue.
LEMMA StepTrigger == ASSUME OsifInv, NEW d \in Dpcs, Osif!osif_dpc_trigger(d) PROVE OsifInv'
<1> USE DEF OsifInv
<1>1. /\ dpc' \in [Dpcs -> Dpc]
      /\ \A e \in Dpcs : /\ dpc'[e].linked <=> dpc[e].linked \/ e = d
                         /\ dpc'[e].running = dpc[e].running
                         /\ dpc'[e].destroy = dpc[e].destroy /\ dpc'[e].mem = dpc[e].mem
  <2>1. PICK x \in {"off", "armed", "stub"} : dpc' = [dpc EXCEPT ![d].linked = TRUE, ![d].timer = x]
    BY DEF OsifType, Dpc, Osif!osif_dpc_trigger
  <2>2. dpc' \in [Dpcs -> Dpc] BY <2>1, DpcSet DEF OsifType
  <2>3. QED BY <2>1, <2>2 DEF OsifType, Dpc
<1>2. /\ queue' = Append(queue, d) /\ queue \in Seq(Dpcs) /\ queue' \in Seq(Dpcs)
      /\ UNCHANGED <<attach, trig, destroy, thread>> /\ waking' \subseteq Dpcs
      /\ Osif!Exists(d) /\ ~dpc[d].destroy /\ ~dpc[d].linked
  BY DEF OsifType, Osif!TypeOK, Osif!osif_dpc_trigger
<1>3. OsifType' BY <1>1, <1>2 DEF OsifType, Osif!TypeOK
<1>4. Alive' BY <1>1, <1>2 DEF Alive, Osif!Exists
<1>5. QueueExact'
  <2>1. /\ Len(queue) \in Nat /\ DOMAIN queue = 1 .. Len(queue) /\ DOMAIN queue' = 1 .. Len(queue) + 1
        /\ queue'[Len(queue) + 1] = d /\ \A i \in DOMAIN queue : queue'[i] = queue[i]
    BY <1>2
  <2>2. ~Queued(d) BY <1>2 DEF QueueExact
  <2>3. \A e \in Dpcs : Queued(e)' <=> Queued(e) \/ e = d
    BY <2>1 DEF Queued
  <2>4. \A i, j \in DOMAIN queue' : queue'[i] = queue'[j] => i = j
    BY <2>1, <2>2 DEF QueueExact, Queued
  <2>5. QED BY <1>1, <1>2, <2>3, <2>4 DEF QueueExact
<1>6. QED BY <1>3, <1>4, <1>5

\* A destroyer links the DPC out, wherever it is in the queue.
LEMMA StepUnlink == ASSUME OsifInv, NEW d \in Dpcs, Osif!osif_dpc_destroy(d) PROVE OsifInv'
<1> USE DEF OsifInv
<1>1. /\ dpc' \in [Dpcs -> Dpc]
      /\ \A e \in Dpcs : /\ dpc'[e].destroy <=> dpc[e].destroy \/ e = d
                         /\ dpc'[e].running = dpc[e].running
                         /\ dpc'[e].linked = dpc[e].linked /\ dpc'[e].mem = dpc[e].mem
  <2>1. PICK x \in {"off", "armed", "stub"} : dpc' = [dpc EXCEPT ![d].destroy = TRUE, ![d].timer = x]
    BY DEF OsifType, Dpc, Osif!osif_dpc_destroy
  <2>2. dpc' \in [Dpcs -> Dpc] BY <2>1, DpcSet DEF OsifType
  <2>3. QED BY <2>1, <2>2 DEF OsifType, Dpc
<1>2. queue \in Seq(Dpcs) /\ UNCHANGED <<attach, trig, waking, destroy, thread>>
  BY DEF OsifType, Osif!TypeOK, Osif!osif_dpc_destroy
<1>3. Alive' BY <1>1, <1>2 DEF Alive, Osif!Exists
<1>4. CASE ~Queued(d)
  <2>1. queue' = queue BY <1>4 DEF Queued, Osif!osif_dpc_destroy
  <2>2. QED BY <1>1, <1>2, <1>3, <1>4, <2>1 DEF OsifType, QueueExact, Queued, Osif!TypeOK
<1>5. CASE Queued(d)
  <2>1. PICK i \in DOMAIN queue : queue[i] = d /\ queue' = Osif!LinkOut(i)
    BY <1>5 DEF Queued, Osif!osif_dpc_destroy
  <2>2. /\ Len(queue) \in Nat /\ DOMAIN queue = 1 .. Len(queue) /\ i \in 1 .. Len(queue)
        /\ queue' = [j \in 1 .. Len(queue) - 1 |-> queue[IF j < i THEN j ELSE j + 1]]
    BY <1>2, <2>1 DEF Osif!LinkOut
  <2>3. queue' \in Seq(Dpcs) /\ DOMAIN queue' = 1 .. Len(queue) - 1
    BY <1>2, <2>2
  <2>4. \A j \in DOMAIN queue : queue[j] = d => j = i
    BY <2>1 DEF QueueExact
  <2>5. \A e \in Dpcs : Queued(e)' <=> Queued(e) /\ e # d
    <3> SUFFICES ASSUME NEW e \in Dpcs PROVE Queued(e)' <=> Queued(e) /\ e # d OBVIOUS
    <3>1. ASSUME NEW j \in DOMAIN queue', queue'[j] = e PROVE Queued(e) /\ e # d
      BY <2>2, <2>3, <2>4, <3>1 DEF Queued
    <3>2. ASSUME NEW j \in DOMAIN queue, queue[j] = e, e # d PROVE Queued(e)'
      <4> DEFINE k == IF j < i THEN j ELSE j - 1
      <4>1. k \in DOMAIN queue' /\ queue'[k] = e BY <2>1, <2>2, <2>3, <3>2
      <4>2. QED BY <4>1 DEF Queued
    <3>3. QED BY <3>1, <3>2 DEF Queued
  <2>6. \A j, k \in DOMAIN queue' : queue'[j] = queue'[k] => j = k
    <3> SUFFICES ASSUME NEW j \in DOMAIN queue', NEW k \in DOMAIN queue', queue'[j] = queue'[k] PROVE j = k OBVIOUS
    <3> DEFINE at(p) == IF p < i THEN p ELSE p + 1
    <3>1. at(j) \in DOMAIN queue /\ at(k) \in DOMAIN queue /\ queue[at(j)] = queue[at(k)] BY <2>2, <2>3
    <3>2. at(j) = at(k) BY <3>1 DEF QueueExact
    <3>3. QED BY <2>2, <2>3, <3>2
  <2>7. QED BY <1>1, <1>2, <1>3, <2>3, <2>5, <2>6 DEF OsifType, QueueExact, Osif!TypeOK
<1>6. QED BY <1>4, <1>5

\* A DPC is made, or freed when it does not run.
LEMMA StepMemory ==
    ASSUME OsifInv, NEW d \in Dpcs, Osif!osif_dpc_create(d) \/ Osif!DestroyEnd(d) PROVE OsifInv'
<1> USE DEF OsifInv
<1>1. UNCHANGED <<attach, queue, trig, waking, destroy, thread>> /\ ~dpc[d].running /\ ~Queued(d)
  BY DEF OsifType, Dpc, QueueExact, Alive, Osif!osif_dpc_create, Osif!DestroyEnd
<1>2. /\ dpc' \in [Dpcs -> Dpc] /\ ~dpc'[d].linked /\ ~dpc'[d].running
      /\ \A e \in Dpcs : e # d => dpc'[e] = dpc[e]
  <2>1. PICK x \in Dpc : ~x.linked /\ ~x.running /\ dpc' = [dpc EXCEPT ![d] = x]
    BY DEF Dpc, Osif!osif_dpc_create, Osif!DestroyEnd, Osif!osif_malloc, Osif!osif_free, Osif!NoDpc
  <2>2. QED BY <2>1 DEF OsifType
<1>3. OsifType' BY <1>1, <1>2 DEF OsifType, Osif!TypeOK
<1>4. QueueExact' BY <1>1, <1>2 DEF QueueExact, Queued
<1>5. Alive' BY <1>1, <1>2 DEF Alive, Osif!Exists
<1>6. QED BY <1>3, <1>4, <1>5

\* Every step of the DPC thread, of triggers, timers and destroyers keeps the invariant.
LEMMA StepOsif == OsifInv /\ [Osif!Next]_osifVars => OsifInv'
<1> SUFFICES ASSUME OsifInv, [Osif!Next]_osifVars PROVE OsifInv' OBVIOUS
<1> USE DEF OsifInv
<1>1. CASE Osif!osif_dpc_root_create \/ Osif!ThreadStart \/ Osif!LoopHead \/ Osif!osif_dpc_root_destroy \/ Osif!RootDestroyed
  <2>1. CASE Osif!osif_dpc_root_create BY <2>1, StepThreadOnly DEF OsifType, Alive, Osif!TypeOK, Osif!osif_dpc_root_create
  <2>2. CASE Osif!ThreadStart BY <2>2, StepThreadOnly DEF OsifType, Alive, Osif!TypeOK, Osif!ThreadStart
  <2>3. CASE Osif!LoopHead BY <2>3, StepThreadOnly DEF OsifType, Alive, Osif!TypeOK, Osif!LoopHead
  <2>4. CASE Osif!osif_dpc_root_destroy BY <2>4, StepThreadOnly DEF OsifType, Alive, Osif!TypeOK, Osif!osif_dpc_root_destroy, Osif!Woken
  <2>5. CASE Osif!RootDestroyed BY <2>5, StepThreadOnly DEF OsifType, Alive, Osif!TypeOK, Osif!RootDestroyed
  <2>6. QED BY <1>1, <2>1, <2>2, <2>3, <2>4, <2>5
<1>2. ASSUME NEW d \in Dpcs, Osif!TriggerWake(d) PROVE OsifInv'
  BY <1>2, StepThreadOnly DEF OsifType, Alive, Osif!TypeOK, Osif!TriggerWake, Osif!Woken
<1>3. ASSUME NEW d \in Dpcs, Osif!osif_timer_set(d) \/ Osif!timer_stub(d) PROVE OsifInv'
  <2>1. dpc' \in [Dpcs -> Dpc] BY <1>3 DEF OsifType, Dpc, Osif!osif_timer_set, Osif!timer_stub
  <2>2. QED BY <1>3, <2>1 DEF OsifType, QueueExact, Queued, Alive, Dpc, Osif!TypeOK, Osif!Exists, Osif!osif_timer_set, Osif!timer_stub
<1>4. CASE UNCHANGED osifVars
  BY <1>4 DEF OsifType, QueueExact, Queued, Alive, Osif!TypeOK, Osif!Exists, osifVars
<1>5. QED BY <1>1, <1>2, <1>3, <1>4, StepDpcThread, StepTrigger, StepUnlink, StepMemory DEF Osif!Next, Osif!Thread
-----------------------------------------------------------------------------
(* The cards.                                                              *)

\* The modules count alike.
LEMMA SameCount == \A S : Card!Cardinality(S) = Cardinality(S) /\ Can!Cardinality(S) = Cardinality(S)
BY DEF Card!Cardinality, Can!Cardinality, Cardinality

\* There is a number of cards.
LEMMA CardCount == Cardinality(Cards) \in Nat /\ \A D \in SUBSET Cards : IsFiniteSet(D) /\ Cardinality(D) \in 0 .. Cardinality(Cards)
<1>1. Cardinality(Cards) \in Nat BY CardAssumption, FS_CardinalityType
<1>2. ASSUME NEW D \in SUBSET Cards PROVE IsFiniteSet(D) /\ Cardinality(D) \in 0 .. Cardinality(Cards)
  <2>1. IsFiniteSet(D) /\ Cardinality(D) <= Cardinality(Cards) BY CardAssumption, FS_Subset
  <2>2. Cardinality(D) \in Nat BY <2>1, FS_CardinalityType
  <2>3. QED BY <1>1, <2>1, <2>2
<1>3. QED BY <1>1, <1>2

\* While a card is missing, the number of the others is the number of a card.
LEMMA NextNumber ==
    ASSUME NEW D \in SUBSET Cards, NEW c \in Cards \ D
    PROVE  /\ Cardinality(D) \in 0 .. Cardinality(Cards) - 1
           /\ Cardinality(D \cup {c}) = Cardinality(D) + 1
<1>1. IsFiniteSet(D) /\ Cardinality(D) \in Nat BY CardCount
<1>2. Cardinality(D \cup {c}) = Cardinality(D) + 1 BY <1>1, FS_AddElement
<1>3. D \cup {c} \in SUBSET Cards OBVIOUS
<1>4. Cardinality(D \cup {c}) <= Cardinality(Cards) BY <1>3, CardCount
<1>5. QED BY <1>1, <1>2, <1>4, CardCount

\* The places of a card's nodes are places of nodes[].
LEMMA NetInNets ==
    ASSUME NEW no \in 0 .. Cardinality(Cards) - 1, NEW n \in Card!Nodes
    PROVE  Card!Net(no, n) \in Card!Nets
<1> DEFINE M == Cardinality(Cards)
           P == NODES_PER_CARD
<1>1. M \in Nat /\ P \in Nat /\ no \in Nat /\ n \in Nat /\ n < P /\ no + 1 <= M
  BY CardCount, CardAssumption DEF Card!Nodes
<1> HIDE DEF M, P
<1>2. M * P = no * P + P + (M - no - 1) * P /\ (M - no - 1) * P >= 0 /\ no * P >= 0 /\ no * P \in Int /\ M * P \in Int
  BY <1>1
<1>3. no * P + n \in 0 .. M * P - 1
  <2>1. (M - no - 1) * P \in Int BY <1>1
  <2>2. QED BY <1>1, <1>2, <2>1
<1>4. Card!Nets = 0 .. M * P - 1 /\ Card!Net(no, n) = no * P + n BY SameCount DEF Card!Net, Card!Nets, M, P
<1>5. QED BY <1>3, <1>4

\* A card whose nodes have a number has as many places in nodes[] as nodes.
LEMMA CountedPlaces ==
    ASSUME NEW c \in Cards, NEW no \in 0 .. Cardinality(Cards) - 1, up[c] \in SUBSET Card!Nodes,
           \A k \in Card!Nets : nodes[k] = c <=> \E n \in up[c] : k = Card!Net(no, n)
    PROVE  Cardinality({k \in Card!esdcan_proc_show : nodes[k] = c}) = Cardinality(up[c])
<1> DEFINE T == {k \in Card!esdcan_proc_show : nodes[k] = c}
           f == [n \in up[c] |-> Card!Net(no, n)]
<1>1. IsFiniteSet(up[c])
  <2>1. IsFiniteSet(Card!Nodes)
    <3>1. 0 \in Int /\ NODES_PER_CARD - 1 \in Int BY CardAssumption
    <3>2. QED BY <3>1, FS_Interval DEF Card!Nodes
  <2>2. QED BY <2>1, FS_Subset
<1>2. f \in [up[c] -> T]
  BY NetInNets, CardAssumption DEF Card!esdcan_proc_show
<1>3. \A a, b \in up[c] : f[a] = f[b] => a = b
  <2> SUFFICES ASSUME NEW a \in up[c], NEW b \in up[c], f[a] = f[b] PROVE a = b OBVIOUS
  <2>1. Card!Net(no, a) = Card!Net(no, b) OBVIOUS
  <2>2. a \in Int /\ b \in Int /\ no * NODES_PER_CARD \in Int BY CardAssumption, CardCount DEF Card!Nodes
  <2>3. QED BY <2>1, <2>2 DEF Card!Net
<1>4. \A k \in T : \E n \in up[c] : f[n] = k
  BY DEF Card!esdcan_proc_show
<1>5. ExistsBijection(up[c], T)
  <2>1. f \in Injection(up[c], T) BY <1>2, <1>3 DEF Injection, IsInjective
  <2>2. f \in Surjection(up[c], T) BY <1>2, <1>4 DEF Surjection
  <2>3. QED BY <2>1, <2>2 DEF Bijection, ExistsBijection
<1>6. QED BY <1>1, <1>5, FS_Bijection

\* A card that is being attached is not attached, and its number is free.
LEMMA Attaching ==
    ASSUME CardInv, cur # Card!None
    PROVE  /\ cur.card \in Cards \ data /\ cur.card # NoCard /\ cur.at \in Steps /\ cur.no = attached /\ load = "probing"
           /\ cur = [card |-> cur.card, at |-> cur.at, no |-> cur.no] /\ attached \in 0 .. Cardinality(Cards) - 1
<1>1. cur \in [card : Cards \ data, at : Steps, no : Nat] /\ load = "probing" /\ cur.no = attached
  BY DEF CardInv, CurType
<1>2. cur.card \in Cards \ data /\ data \in SUBSET Cards /\ attached = Cardinality(data) BY <1>1 DEF CardInv, CardType
<1>3. attached \in 0 .. Cardinality(Cards) - 1 BY <1>2, NextNumber
<1>4. QED BY <1>1, <1>2, <1>3, CardAssumption

\* A card without nodes has no place in nodes[].
LEMMA NoNodes == ASSUME CardInv, NEW c \in Cards, up[c] = {} PROVE \A k \in Card!Nets : nodes[k] # c
BY DEF CardInv, Numbered

\* A step of an attach that goes well and has more steps before the nodes are attached.
LEMMA AttachGoesOn ==
    ASSUME CardInv, cur # Card!None, cur.at # "final", NEW at \in Steps \ {"final"}, Card!Goto(at),
           NEW r \in SUBSET Things, res' = [res EXCEPT ![cur.card] = r],
           Held(at) \subseteq r, r \subseteq Held(at) \cup Extra,
           UNCHANGED <<load, left, up, nodes, data, attached, files>>
    PROVE  CardInv'
<1>1. /\ cur'.card = cur.card /\ cur'.at = at /\ cur'.no = cur.no /\ cur' \in [card : Cards \ data, at : Steps, no : Nat]
      /\ cur.card \in Cards \ data /\ cur.no = attached /\ load = "probing"
  BY Attaching DEF Card!Goto, CardInv, CurType
<1>2. CardType' BY <1>1 DEF CardInv, CardType
<1>3. CurType' BY <1>1 DEF CardInv, CurType
<1>4. Holds' BY <1>1 DEF CardInv, CardType, Holds
<1>5. Numbered' /\ FreeAbove' /\ Loading' BY <1>1 DEF CardInv, Numbered, FreeAbove, Loading
<1>6. QED BY <1>2, <1>3, <1>4, <1>5 DEF CardInv

\* An attach that fails leaves nothing of the card but what the code leaks; the load may go on, or end there.
LEMMA AttachFails ==
    ASSUME CardInv, cur # Card!None, cur' = Card!None, NEW r \in SUBSET Card!Leaks, load' \in {load, "oops"},
           res' = [res EXCEPT ![cur.card] = r], up' = [up EXCEPT ![cur.card] = {}],
           nodes' = [k \in Card!Nets |-> IF nodes[k] = cur.card THEN NoCard ELSE nodes[k]],
           UNCHANGED <<left, data, attached, files>>
    PROVE  CardInv'
<1>1. cur.card \in Cards \ data /\ cur'.card = NoCard /\ cur'.at = "none" /\ load = "probing"
  BY Attaching DEF Card!None
<1>2. CardType' BY <1>1 DEF CardInv, CardType, Things, Card!Leaks
<1>3. CurType' BY DEF CurType
<1>4. Holds' BY <1>1, CardAssumption DEF CardInv, CardType, Holds
<1>5. Numbered'
  <2> SUFFICES ASSUME NEW c \in Cards
               PROVE  \E no \in 0 .. Cardinality(Cards) - 1 :
                         \A k \in Card!Nets : nodes'[k] = c <=> \E n \in up'[c] : k = Card!Net(no, n)
    BY DEF Numbered
  <2>1. PICK no \in 0 .. Cardinality(Cards) - 1 : \A k \in Card!Nets : nodes[k] = c <=> \E n \in up[c] : k = Card!Net(no, n)
    BY DEF CardInv, Numbered
  <2>2. \A k \in Card!Nets : nodes'[k] = c <=> \E n \in up'[c] : k = Card!Net(no, n)
    BY <1>1, <2>1, CardAssumption DEF CardInv, CardType
  <2>3. QED BY <2>2
<1>6. FreeAbove' BY <1>1, CardAssumption DEF CardInv, CardType, FreeAbove
<1>7. Loading' BY <1>1, CardAssumption DEF CardInv, CardType, Loading, Registered
<1>8. QED BY <1>2, <1>3, <1>4, <1>5, <1>6, <1>7 DEF CardInv

\* What the labels leave of a card that holds no more than a step has taken.
LEMMA LabelsLeave ==
    ASSUME NEW r \in SUBSET Things
    PROVE  /\ r \subseteq Held("enable") \cup Extra => Card!release_1(r) \subseteq Card!Leaks
           /\ r \subseteq Held("nodes") \cup Extra => Card!release_2(r) \subseteq Card!Leaks
           /\ \A lock \in SUBSET {"lock_irq"} :
                r \subseteq Held("board") \cup Extra => Card!release_2(Card!common_attach_1(r \cup lock)) \subseteq Card!Leaks
           /\ Card!release_2(Card!common_attach_2(r)) \subseteq Card!Leaks
<1> USE DEF Things, Held, Extra, Card!Leaks, Card!release_1, Card!release_2, Card!common_attach_1, Card!common_attach_2
<1>1. r \subseteq Held("enable") \cup Extra => Card!release_1(r) \subseteq Card!Leaks OBVIOUS
<1>2. r \subseteq Held("nodes") \cup Extra => Card!release_2(r) \subseteq Card!Leaks OBVIOUS
<1>3. ASSUME NEW lock \in SUBSET {"lock_irq"}, r \subseteq Held("board") \cup Extra
      PROVE  Card!release_2(Card!common_attach_1(r \cup lock)) \subseteq Card!Leaks
  BY <1>3
<1>4. Card!release_2(Card!common_attach_2(r)) \subseteq Card!Leaks OBVIOUS
<1>5. QED BY <1>1, <1>2, <1>3, <1>4

\* The steps of an attach before the nodes are attached: one goes on, or everything but what the code leaks is given back.
LEMMA StepAttach ==
    ASSUME CardInv, Card!EnableDevice \/ Card!MapSpaces \/ Card!AllocNodes \/ Card!can_board_attach \/ Card!RequestIrqs
    PROVE  CardInv'
<1> USE DEF Card!EnableDevice, Card!MapSpaces, Card!AllocNodes, Card!can_board_attach, Card!RequestIrqs, Card!At
<1>1. /\ cur # Card!None /\ cur.at # "final" /\ UNCHANGED <<up, nodes>>
      /\ left' = left /\ data' = data /\ attached' = attached /\ files' = files
  <2>1. cur.at \in {"enable", "spaces", "nodes", "board", "irq"} OBVIOUS
  <2>2. cur # Card!None /\ cur.at # "final" BY <2>1 DEF Card!None
  <2>3. UNCHANGED <<up, nodes>> OBVIOUS
  <2>4. UNCHANGED <<left, data, attached, files>> BY DEF Card!Fail
  <2>5. QED BY <2>2, <2>3, <2>4
<1> HIDE DEF Card!EnableDevice, Card!MapSpaces, Card!AllocNodes, Card!can_board_attach, Card!RequestIrqs, Card!At
<1>2. cur.card \in Cards /\ res \in [Cards -> SUBSET Things] /\ nodes \in [Card!Nets -> Cards \cup {NoCard}] /\ up \in [Cards -> SUBSET Card!Nodes]
  BY <1>1, Attaching DEF CardInv, CardType
<1>3. Held(cur.at) \subseteq res[cur.card] /\ res[cur.card] \subseteq Held(cur.at) \cup Extra /\ up[cur.card] = {}
  BY <1>1, <1>2 DEF CardInv, Holds
<1>4. up' = [up EXCEPT ![cur.card] = {}] /\ nodes' = [k \in Card!Nets |-> IF nodes[k] = cur.card THEN NoCard ELSE nodes[k]]
  BY <1>1, <1>2, <1>3, NoNodes
<1>5. ASSUME NEW r, r \subseteq Card!Leaks, res' = [res EXCEPT ![cur.card] = r], cur' = Card!None, load' \in {load, "oops"} PROVE CardInv'
  BY <1>1, <1>4, <1>5, AttachFails
<1>6. ASSUME NEW at \in Steps \ {"final"}, Card!Goto(at), load' = load,
             NEW r \in SUBSET Things, res' = [res EXCEPT ![cur.card] = r], Held(at) \subseteq r, r \subseteq Held(at) \cup Extra
      PROVE  CardInv'
  BY <1>1, <1>6, AttachGoesOn
<1> DEFINE r0 == res[cur.card]
<1>7. r0 \in SUBSET Things BY <1>2
<1>8. CASE Card!EnableDevice
  <2>1. cur.at = "enable" BY <1>8 DEF Card!EnableDevice, Card!At
  <2>2. CASE Card!Take({"enabled"}) /\ Card!Goto("spaces") /\ UNCHANGED load
    <3>1. r0 \cup {"enabled"} \in SUBSET Things BY <1>7 DEF Things
    <3>2. Held("spaces") \subseteq r0 \cup {"enabled"} /\ r0 \cup {"enabled"} \subseteq Held("spaces") \cup Extra
      BY <1>3, <2>1 DEF Held, Extra
    <3>3. QED BY <1>2, <2>2, <3>1, <3>2, <1>6 DEF Card!Take, Steps
  <2>3. CASE res' = [res EXCEPT ![cur.card] = Card!release_1(r0)] /\ cur' = Card!None /\ load' = "oops"
    <3>1. Card!release_1(r0) \subseteq Card!Leaks BY <1>3, <1>7, <2>1, LabelsLeave
    <3>2. QED BY <2>3, <3>1, <1>5
  <2>4. QED BY <1>8, <2>2, <2>3 DEF Card!EnableDevice
<1>9. CASE Card!MapSpaces
  <2>1. cur.at = "spaces" BY <1>9 DEF Card!MapSpaces, Card!At
  <2>2. ASSUME NEW msi \in SUBSET {"msi"}, Card!Take({"spaces", "master"} \cup msi), Card!Goto("nodes"), load' = load PROVE CardInv'
    <3> DEFINE r == r0 \cup ({"spaces", "master"} \cup msi)
    <3>1. r \in SUBSET Things BY <1>7 DEF Things
    <3>2. Held("nodes") \subseteq r /\ r \subseteq Held("nodes") \cup Extra BY <1>3, <2>1 DEF Held, Extra
    <3>3. QED BY <1>2, <2>2, <3>1, <3>2, <1>6 DEF Card!Take, Steps
  <2>3. CASE Card!Fail(Card!release_2)
    <3>1. r0 \subseteq Held("nodes") \cup Extra BY <1>3, <2>1 DEF Held
    <3>2. Card!release_2(r0) \subseteq Card!Leaks BY <1>7, <3>1, LabelsLeave
    <3>3. res' = [res EXCEPT ![cur.card] = Card!release_2(r0)] /\ cur' = Card!None /\ load' = load BY <2>3 DEF Card!Fail
    <3>4. QED BY <3>2, <3>3, <1>5
  <2>4. QED BY <1>9, <2>2, <2>3 DEF Card!MapSpaces
<1>10. CASE Card!AllocNodes
  <2>1. cur.at = "nodes" BY <1>10 DEF Card!AllocNodes, Card!At
  <2>2. CASE Card!Take({"node"}) /\ Card!Goto("board") /\ load' = load
    <3>1. r0 \cup {"node"} \in SUBSET Things BY <1>7 DEF Things
    <3>2. Held("board") \subseteq r0 \cup {"node"} /\ r0 \cup {"node"} \subseteq Held("board") \cup Extra BY <1>3, <2>1 DEF Held, Extra
    <3>3. QED BY <1>2, <2>2, <3>1, <3>2, <1>6 DEF Card!Take, Steps
  <2>3. CASE Card!Fail(LAMBDA r : Card!release_2(Card!common_attach_1(r)))
    <3>1. r0 \subseteq Held("board") \cup Extra BY <1>3, <2>1 DEF Held
    <3>2. r0 \cup {} = r0 OBVIOUS
    <3>3. Card!release_2(Card!common_attach_1(r0)) \subseteq Card!Leaks BY <1>7, <3>1, <3>2, LabelsLeave
    <3>4. res' = [res EXCEPT ![cur.card] = Card!release_2(Card!common_attach_1(r0))] /\ cur' = Card!None /\ load' = load
      BY <2>3 DEF Card!Fail
    <3>5. QED BY <3>3, <3>4, <1>5
  <2>4. QED BY <1>10, <2>2, <2>3 DEF Card!AllocNodes
<1>11. CASE Card!can_board_attach
  <2>1. cur.at = "board" BY <1>11 DEF Card!can_board_attach, Card!At
  <2>2. CASE Card!Take({"board"}) /\ Card!Goto("irq") /\ load' = load
    <3>1. r0 \cup {"board"} \in SUBSET Things BY <1>7 DEF Things
    <3>2. Held("irq") \subseteq r0 \cup {"board"} /\ r0 \cup {"board"} \subseteq Held("irq") \cup Extra BY <1>3, <2>1 DEF Held, Extra
    <3>3. QED BY <1>2, <2>2, <3>1, <3>2, <1>6 DEF Card!Take, Steps
  <2>3. ASSUME NEW lock \in SUBSET {"lock_irq"}, Card!Fail(LAMBDA r : Card!release_2(Card!common_attach_1(r \cup lock))) PROVE CardInv'
    <3>1. Card!release_2(Card!common_attach_1(r0 \cup lock)) \subseteq Card!Leaks BY <1>3, <1>7, <2>1, LabelsLeave
    <3>2. res' = [res EXCEPT ![cur.card] = Card!release_2(Card!common_attach_1(r0 \cup lock))] /\ cur' = Card!None /\ load' = load
      BY <2>3 DEF Card!Fail
    <3>3. QED BY <3>1, <3>2, <1>5
  <2>4. QED BY <1>11, <2>2, <2>3 DEF Card!can_board_attach
<1>12. CASE Card!RequestIrqs
  <2>1. cur.at = "irq" BY <1>12 DEF Card!RequestIrqs, Card!At
  <2>2. CASE Card!Take({"irq"}) /\ Card!Goto("attach") /\ load' = load
    <3>1. r0 \cup {"irq"} \in SUBSET Things BY <1>7 DEF Things
    <3>2. Held("attach") \subseteq r0 \cup {"irq"} /\ r0 \cup {"irq"} \subseteq Held("attach") \cup Extra BY <1>3, <2>1 DEF Held, Extra
    <3>3. QED BY <1>2, <2>2, <3>1, <3>2, <1>6 DEF Card!Take, Steps
  <2>3. CASE Card!Fail(LAMBDA r : Card!release_2(Card!common_attach_2(r)))
    <3>1. Card!release_2(Card!common_attach_2(r0)) \subseteq Card!Leaks BY <1>7, LabelsLeave
    <3>2. res' = [res EXCEPT ![cur.card] = Card!release_2(Card!common_attach_2(r0))] /\ cur' = Card!None /\ load' = load
      BY <2>3 DEF Card!Fail
    <3>3. QED BY <3>1, <3>2, <1>5
  <2>4. QED BY <1>12, <2>2, <2>3 DEF Card!RequestIrqs
<1>13. QED BY <1>8, <1>9, <1>10, <1>11, <1>12

\* The nodes of the card take the places of its number, which are free.
LEMMA StepAttachNodes == ASSUME CardInv, Card!AttachNodes PROVE CardInv'
<1>1. cur.at = "attach" /\ cur # Card!None BY DEF Card!AttachNodes, Card!At, Card!None
<1>2. /\ cur.card \in Cards \ data /\ cur.card # NoCard /\ cur.no = attached /\ load = "probing"
      /\ attached \in 0 .. Cardinality(Cards) - 1 /\ attached \in Nat
  BY <1>1, Attaching, CardCount
<1>3. /\ Held("attach") \subseteq res[cur.card] /\ res[cur.card] \subseteq Held("attach") \cup Extra /\ up[cur.card] = {}
      /\ res \in [Cards -> SUBSET Things] /\ nodes \in [Card!Nets -> Cards \cup {NoCard}] /\ up \in [Cards -> SUBSET Card!Nodes]
  BY <1>1, <1>2 DEF CardInv, CardType, Holds
<1>4. \A k \in Card!Nets : (\E n \in Card!Nodes : k = Card!Net(cur.no, n)) => nodes[k] = NoCard
  <2> SUFFICES ASSUME NEW k \in Card!Nets, NEW n \in Card!Nodes, k = Card!Net(cur.no, n), nodes[k] # NoCard PROVE FALSE OBVIOUS
  <2>1. nodes[k] # cur.card BY <1>2, <1>3, NoNodes
  <2>2. k < attached * NODES_PER_CARD BY <1>2, <2>1 DEF CardInv, FreeAbove
  <2>3. n \in Nat /\ attached * NODES_PER_CARD \in Int BY <1>2, CardAssumption DEF Card!Nodes
  <2>4. QED BY <1>2, <2>2, <2>3 DEF Card!Net
<1>5. PICK ok \in SUBSET Card!Nodes :
         /\ up' = [up EXCEPT ![cur.card] = ok]
         /\ nodes' = [k \in Card!Nets |-> IF \E n \in Card!Nodes : k = Card!Net(cur.no, n)
                                          THEN IF \E n \in ok : k = Card!Net(cur.no, n) THEN cur.card ELSE NoCard
                                          ELSE nodes[k]]
         /\ IF ok = {} THEN Card!Fail(LAMBDA r : Card!release_2(Card!common_attach_2(r)))
            ELSE Card!Goto("final") /\ UNCHANGED <<load, left, res, data, attached, files>>
  BY DEF Card!AttachNodes
<1>6. CASE ok = {}
  <2>1. nodes' = [k \in Card!Nets |-> IF nodes[k] = cur.card THEN NoCard ELSE nodes[k]]
    BY <1>2, <1>3, <1>4, <1>5, <1>6, NoNodes
  <2>2. /\ res' = [res EXCEPT ![cur.card] = Card!release_2(Card!common_attach_2(res[cur.card]))]
        /\ cur' = Card!None /\ UNCHANGED <<load, left, data, attached, files>>
    BY <1>5, <1>6 DEF Card!Fail
  <2>3. Card!release_2(Card!common_attach_2(res[cur.card])) \subseteq Card!Leaks BY <1>2, <1>3, LabelsLeave
  <2>4. QED BY <1>1, <1>5, <1>6, <2>1, <2>2, <2>3, AttachFails
<1>7. CASE ok # {}
  <2>1. /\ cur'.card = cur.card /\ cur'.at = "final" /\ cur'.no = cur.no /\ cur' \in [card : Cards \ data, at : Steps, no : Nat]
        /\ UNCHANGED <<load, left, res, data, attached, files>>
    BY <1>1, <1>5, <1>7, Attaching DEF Card!Goto, CardInv, CurType, Steps
  <2>2. \A k \in Card!Nets : /\ nodes'[k] = cur.card <=> \E n \in ok : k = Card!Net(cur.no, n)
                             /\ nodes'[k] # cur.card => nodes'[k] = nodes[k]
                             /\ nodes[k] # NoCard => nodes'[k] = nodes[k]
    BY <1>2, <1>3, <1>4, <1>5, NoNodes
  <2>3. CardType' BY <1>2, <1>3, <1>5, <2>1 DEF CardInv, CardType
  <2>4. CurType' BY <1>2, <2>1 DEF CurType
  <2>5. Holds' BY <1>2, <1>3, <1>5, <1>7, <2>1 DEF CardInv, Holds, Held
  <2>6. Numbered'
    <3>1. ASSUME NEW c \in Cards
          PROVE  \E no \in 0 .. Cardinality(Cards) - 1 :
                         \A k \in Card!Nets : nodes'[k] = c <=> \E n \in up'[c] : k = Card!Net(no, n)
      <4>1. CASE c = cur.card BY <1>2, <1>3, <1>5, <2>2, <4>1
      <4>2. CASE c # cur.card
        <5>1. PICK no \in 0 .. Cardinality(Cards) - 1 : \A k \in Card!Nets : nodes[k] = c <=> \E n \in up[c] : k = Card!Net(no, n)
          BY DEF CardInv, Numbered
        <5>2. \A k \in Card!Nets : nodes'[k] = c <=> nodes[k] = c BY <2>2, <4>2, CardAssumption
        <5>3. up'[c] = up[c] BY <1>3, <1>5, <4>2
        <5>4. QED BY <5>1, <5>2, <5>3
      <4>3. QED BY <4>1, <4>2
    <3>2. QED BY <3>1 DEF Numbered
  <2>7. FreeAbove'
    <3> SUFFICES ASSUME NEW k \in Card!Nets, nodes'[k] # NoCard
                 PROVE  k < (IF nodes'[k] = cur.card THEN attached + 1 ELSE attached) * NODES_PER_CARD
      BY <2>1 DEF FreeAbove
    <3>1. CASE nodes'[k] = cur.card
      <4>1. PICK n \in Card!Nodes : k = Card!Net(attached, n) BY <1>2, <2>2, <3>1
      <4>2. n \in Nat /\ n < NODES_PER_CARD /\ NODES_PER_CARD \in Nat BY CardAssumption DEF Card!Nodes
      <4>3. (attached + 1) * NODES_PER_CARD = attached * NODES_PER_CARD + NODES_PER_CARD /\ attached * NODES_PER_CARD \in Int
        BY <1>2, <4>2
      <4>4. QED BY <3>1, <4>1, <4>2, <4>3 DEF Card!Net
    <3>2. CASE nodes'[k] # cur.card
      BY <1>2, <2>2, <3>2 DEF CardInv, FreeAbove
    <3>3. QED BY <3>1, <3>2
  <2>8. Loading' BY <2>1 DEF CardInv, Loading
  <2>9. QED BY <2>3, <2>4, <2>5, <2>6, <2>7, <2>8 DEF CardInv
<1>8. QED BY <1>6, <1>7

\* The end of an attach: the card counts, or gives back everything but what the code leaks.
LEMMA StepAttachEnd == ASSUME CardInv, Card!AttachEnd PROVE CardInv'
<1>1. cur.at = "final" /\ cur # Card!None BY DEF Card!AttachEnd, Card!At, Card!None
<1>2. /\ cur.card \in Cards \ data /\ cur.card # NoCard /\ cur.no = attached /\ load = "probing"
      /\ attached \in 0 .. Cardinality(Cards) - 1 /\ attached \in Nat
  BY <1>1, Attaching, CardCount
<1>3. /\ Held("final") \subseteq res[cur.card] /\ res[cur.card] \subseteq Held("final") \cup Extra /\ up[cur.card] # {}
      /\ res \in [Cards -> SUBSET Things]
  BY <1>1, <1>2 DEF CardInv, CardType, Holds
<1>4. CASE Card!common_attach_3
  <2>1. /\ res' = [res EXCEPT ![cur.card] = Card!release_2(Card!common_attach_2(res[cur.card]))]
        /\ cur' = Card!None /\ UNCHANGED <<load, left, data, attached, files>>
    <3>1. ~(UNCHANGED up)
      BY <1>2, <1>3, <1>4 DEF CardInv, CardType, Card!common_attach_3
    <3>2. QED BY <3>1 DEF Card!AttachEnd, Card!Fail
  <2>2. Card!release_2(Card!common_attach_2(res[cur.card])) \subseteq Card!Leaks
    BY <1>2, <1>3, LabelsLeave
  <2>3. QED BY <1>1, <1>4, <2>1, <2>2, AttachFails DEF Card!common_attach_3
<1>5. CASE /\ data' = data \cup {cur.card} /\ attached' = attached + 1 /\ cur' = Card!None
           /\ UNCHANGED <<load, left, res, up, nodes, files>>
  <2>1. cur'.card = NoCard BY <1>5 DEF Card!None
  <2>2. CardType'
    <3>1. attached' = Cardinality(data') BY <1>2, <1>5, NextNumber DEF CardInv, CardType
    <3>2. QED BY <1>2, <1>5, <3>1 DEF CardInv, CardType
  <2>3. CurType' BY <1>5 DEF CurType
  <2>4. Holds' BY <1>2, <1>3, <1>5, <2>1, CardAssumption DEF CardInv, Holds
  <2>5. Numbered' BY <1>5 DEF CardInv, Numbered
  <2>6. FreeAbove'
    <3> SUFFICES ASSUME NEW k \in Card!Nets, nodes[k] # NoCard PROVE k < (attached + 1) * NODES_PER_CARD
      BY <1>5, <2>1 DEF FreeAbove
    <3>1. k < (attached + 1) * NODES_PER_CARD \/ k < attached * NODES_PER_CARD BY <1>2 DEF CardInv, FreeAbove
    <3>2. NODES_PER_CARD \in Nat /\ k \in Int BY CardAssumption DEF Card!Nets
    <3>3. (attached + 1) * NODES_PER_CARD = attached * NODES_PER_CARD + NODES_PER_CARD /\ attached * NODES_PER_CARD \in Int
      BY <1>2, <3>2
    <3>4. QED BY <3>1, <3>2, <3>3
  <2>7. Loading' BY <1>2, <1>5, <2>1, CardAssumption DEF CardInv, CardType, Loading
  <2>8. QED BY <2>2, <2>3, <2>4, <2>5, <2>6, <2>7 DEF CardInv
<1>6. QED BY <1>4, <1>5 DEF Card!AttachEnd

\* The PCI core offers a card.
LEMMA StepAttachBegin == ASSUME CardInv, NEW c \in Cards, Card!AttachBegin(c) PROVE CardInv'
<1>1. /\ load = "probing" /\ cur = Card!None /\ cur.card = NoCard /\ left' = left \ {c}
      /\ UNCHANGED <<load, up, nodes, data, attached, files>>
  BY DEF Card!AttachBegin, Card!None
<1>2. CASE UNCHANGED <<cur, res>>
  BY <1>1, <1>2 DEF CardInv, CardType, CurType, Holds, Numbered, FreeAbove, Loading
<1>3. CASE cur' = [card |-> c, at |-> "enable", no |-> attached] /\ res' = [res EXCEPT ![c] = @ \cup {"crd"}]
  <2>1. c \in Cards \ data /\ c \in left /\ cur'.card = c /\ cur'.at = "enable" /\ cur'.no = attached /\ attached \in Nat
    BY <1>1, <1>3, CardCount DEF CardInv, CardType, Loading, Card!AttachBegin
  <2>2. CardType' BY <1>1, <1>3 DEF CardInv, CardType, Things
  <2>3. CurType' BY <1>1, <1>3, <2>1 DEF CurType, Steps
  <2>4. res[c] \subseteq Card!Leaks /\ up[c] = {} BY <1>1, <2>1, CardAssumption DEF CardInv, Holds
  <2>5. Holds'
    <3>1. res'[c] = res[c] \cup {"crd"} /\ \A d \in Cards : d # c => res'[d] = res[d] BY <1>3 DEF CardInv, CardType
    <3>2. Held("enable") \subseteq res'[c] /\ res'[c] \subseteq Held("enable") \cup Extra BY <2>4, <3>1 DEF Held, Extra, Card!Leaks
    <3>3. QED BY <1>1, <2>1, <2>4, <3>1, <3>2, CardAssumption DEF CardInv, Holds
  <2>6. Numbered' BY <1>1 DEF CardInv, Numbered
  <2>7. FreeAbove'
    <3>1. \A k \in Card!Nets : nodes[k] # c BY <2>4, NoNodes
    <3>2. QED BY <1>1, <2>1, <3>1 DEF CardInv, FreeAbove
  <2>8. Loading' BY <1>1, <2>1 DEF CardInv, Loading
  <2>9. QED BY <2>2, <2>3, <2>5, <2>6, <2>7, <2>8 DEF CardInv
<1>4. QED BY <1>2, <1>3 DEF Card!AttachBegin

\* A card goes: nothing of it stays but what the code leaks.
LEMMA StepDetach == ASSUME CardInv, NEW c \in Cards, Card!can_detach(c) PROVE CardInv'
<1>1. /\ load \in {"unloading", "failed"} /\ c \in left /\ left' = left \ {c} /\ UNCHANGED <<load, cur, files>>
      /\ cur = Card!None /\ cur.card = NoCard
  <2>1. load # "probing" BY DEF Card!can_detach
  <2>2. cur = Card!None BY <2>1 DEF CardInv, CurType
  <2>3. QED BY <2>2 DEF Card!can_detach, Card!None
<1>2. CASE c \notin data
  <2>1. UNCHANGED <<nodes, up, res, data, attached>> BY <1>2 DEF Card!can_detach
  <2>2. QED BY <1>1, <1>2, <2>1 DEF CardInv, CardType, CurType, Holds, Numbered, FreeAbove, Loading
<1>3. CASE c \in data
  <2>1. /\ nodes' = [k \in Card!Nets |-> IF nodes[k] = c THEN NoCard ELSE nodes[k]] /\ up' = [up EXCEPT ![c] = {}]
        /\ res' = [res EXCEPT ![c] = @ \ {"board", "irq", "node", "spaces", "msi", "master", "crd"}]
        /\ data' = data \ {c} /\ attached' = attached - 1
    BY <1>3 DEF Card!can_detach, Card!can_detach_common
  <2>2. res[c] \ {"board", "irq", "node", "spaces", "msi", "master", "crd"} \subseteq Card!Leaks
    BY DEF CardInv, CardType, Things, Card!Leaks
  <2>3. CardType'
    <3>1. IsFiniteSet(data) BY CardCount DEF CardInv, CardType
    <3>2. attached' = Cardinality(data') BY <1>3, <2>1, <3>1, FS_RemoveElement DEF CardInv, CardType
    <3>3. QED BY <1>1, <2>1, <2>2, <3>2 DEF CardInv, CardType
  <2>4. CurType' BY <1>1 DEF CurType
  <2>5. Holds' BY <1>1, <2>1, <2>2, CardAssumption DEF CardInv, CardType, Holds
  <2>6. Numbered'
    <3>1. ASSUME NEW d \in Cards
          PROVE  \E no \in 0 .. Cardinality(Cards) - 1 :
                         \A k \in Card!Nets : nodes'[k] = d <=> \E n \in up'[d] : k = Card!Net(no, n)
      <4>1. PICK no \in 0 .. Cardinality(Cards) - 1 : \A k \in Card!Nets : nodes[k] = d <=> \E n \in up[d] : k = Card!Net(no, n)
        BY DEF CardInv, Numbered
      <4>2. \A k \in Card!Nets : nodes'[k] = d <=> \E n \in up'[d] : k = Card!Net(no, n)
        BY <2>1, <4>1, CardAssumption DEF CardInv, CardType
      <4>3. QED BY <4>2
    <3>2. QED BY <3>1 DEF Numbered
  <2>7. FreeAbove' /\ Loading' BY <1>1, <2>1 DEF CardInv, FreeAbove, Loading
  <2>8. QED BY <2>3, <2>4, <2>5, <2>6, <2>7 DEF CardInv
<1>4. QED BY <1>2, <1>3

\* Load and unload of the module.
LEMMA StepModule ==
    ASSUME CardInv, \/ Card!esdcan_pci_init \/ Card!OsifAttach \/ Card!RegisterDriver
                    \/ Card!InitEnd \/ Card!InitFailed \/ Card!esdcan_pci_exit \/ Card!ExitEnd
    PROVE  CardInv'
<1> USE DEF Card!esdcan_pci_init, Card!OsifAttach, Card!RegisterDriver, Card!InitEnd, Card!InitFailed, Card!esdcan_pci_exit, Card!ExitEnd
<1>1. UNCHANGED <<cur, res, up, nodes, data, attached>> /\ cur = Card!None /\ cur.card = NoCard
  <2>1. UNCHANGED <<cur, res, up, nodes, data, attached>> OBVIOUS
  <2>2. cur = Card!None BY DEF CardInv, CurType
  <2>3. QED BY <2>1, <2>2 DEF Card!None
<1>2. CardType' BY <1>1 DEF CardInv, CardType
<1>3. CurType' /\ Holds' /\ Numbered' BY <1>1 DEF CardInv, CurType, Holds, Numbered
<1>4. FreeAbove'
  <2>1. CASE Card!RegisterDriver
    <3>1. \A c \in Cards : up[c] = {} BY <1>1, <2>1, CardAssumption DEF CardInv, Loading, Holds
    <3>2. \A k \in Card!Nets : nodes[k] = NoCard BY <3>1, NoNodes DEF CardInv, CardType
    <3>3. QED BY <1>1, <3>2 DEF FreeAbove
  <2>2. CASE ~Card!RegisterDriver
    BY <1>1, <2>2 DEF CardInv, FreeAbove
  <2>3. QED BY <2>1, <2>2
<1>5. Loading'
  <2>1. files = Registered(load) BY DEF CardInv, Loading
  <2>2. files' = Registered(load')
    <3>1. CASE Card!esdcan_pci_init \/ Card!InitEnd \/ Card!esdcan_pci_exit \/ Card!ExitEnd BY <2>1, <3>1 DEF Registered
    <3>2. CASE Card!OsifAttach BY <2>1, <3>2 DEF Registered, Card!INIT_ERR_1
    <3>3. CASE Card!RegisterDriver BY <2>1, <3>3 DEF Registered, Card!INIT_ERR_1, Card!INIT_ERR_2
    <3>4. CASE Card!InitFailed BY <2>1, <3>4 DEF Registered, Card!INIT_ERR_1, Card!INIT_ERR_2
    <3>5. QED BY <3>1, <3>2, <3>3, <3>4
  <2>3. attached > 0 => data # {} BY FS_EmptySet DEF CardInv, CardType
  <2>4. QED BY <1>1, <2>2, <2>3, CardAssumption DEF CardInv, CardType, Loading
<1>6. QED BY <1>2, <1>3, <1>4, <1>5 DEF CardInv

\* Every step of load, attach, detach and unload keeps the invariant.
LEMMA StepCard == CardInv /\ [Card!Next]_cardVars => CardInv'
<1>1. ASSUME CardInv, UNCHANGED cardVars PROVE CardInv'
  BY <1>1 DEF CardInv, CardType, CurType, Holds, Numbered, FreeAbove, Loading, cardVars
<1>2. QED BY <1>1, StepModule, StepAttachBegin, StepAttach, StepAttachNodes, StepAttachEnd, StepDetach DEF Card!Next
-----------------------------------------------------------------------------
(* The composition.                                                        *)

\* The invariant of the handle gives what its run checks.
LEMMA HandleFromInv == CanInv => HandleSafe
<1> SUFFICES ASSUME CanInv PROVE HandleSafe OBVIOUS
<1>1. Can!TypeOK
  BY DEF CanInv, FileType, JobType, Job, ThreadType, Thread, Can!TypeOK
<1>2. Can!JobOwned
  <2>1. ASSUME NEW S, \A t, u \in S : t = u PROVE Cardinality(S) = IF \E t \in S : TRUE THEN 1 ELSE 0
    <3>1. CASE S = {} BY <3>1, FS_EmptySet
    <3>2. CASE S # {}
      <4>1. PICK t \in S : TRUE BY <3>2
      <4>2. S = {t} BY <2>1
      <4>3. QED BY <4>1, <4>2, FS_Singleton
    <3>3. QED BY <3>1, <3>2
  <2> DEFINE R == {t \in Threads : Can!Reading(t)}
             W == {t \in Threads : Can!Writing(t)}
  <2>2. Cardinality(R) = IF "PENDING_READ" \in rx.state THEN 1 ELSE 0
    <3>1. \A t, u \in R : t = u BY DEF CanInv, OneReader
    <3>2. (\E t \in R : TRUE) <=> "PENDING_READ" \in rx.state BY DEF CanInv, OneReader
    <3> HIDE DEF R
    <3>3. QED BY <2>1, <3>1, <3>2
  <2>3. Cardinality(W) = IF "PENDING_WRITE" \in tx.state THEN 1 ELSE 0
    <3>1. \A t, u \in W : t = u BY DEF CanInv, OneWriter
    <3>2. (\E t \in W : TRUE) <=> "PENDING_WRITE" \in tx.state BY DEF CanInv, OneWriter
    <3> HIDE DEF W
    <3>3. QED BY <2>1, <3>1, <3>2
  <2>4. QED BY <2>2, <2>3, SameCount DEF Can!JobOwned
<1>3. Can!NoLostJob
  BY DEF CanInv, ReaderServed, WriterServed, Can!NoLostJob
<1>4. Can!ClosedQuiet
  BY DEF CanInv, OneReader, OneWriter, Closing, Closer, Can!ClosedQuiet
<1>5. QED BY <1>1, <1>2, <1>3, <1>4 DEF HandleSafe, Can!HandleSafe

\* The invariants of the DPCs and of the cards give what their run checks.
LEMMA CardsFromInv == OsifInv /\ CardInv => CardsSafe
<1> SUFFICES ASSUME OsifInv, CardInv PROVE CardsSafe OBVIOUS
<1>1. Osif!DpcSafe
  BY DEF OsifInv, OsifType, QueueExact, Queued, Alive, Osif!DpcSafe
<1>2. attached = Card!Cardinality(data)
  BY SameCount DEF CardInv, CardType
<1>3. ASSUME NEW c \in Cards
      PROVE  /\ c \notin data /\ c # cur.card => res[c] \subseteq Card!Leaks /\ up[c] = {}
             /\ c \in data => {"crd", "enabled", "spaces", "node", "board", "irq"} \subseteq res[c] /\ up[c] # {}
  BY DEF CardInv, Holds, Held
<1>4. ASSUME NEW c \in Cards
      PROVE  Card!Cardinality({k \in Card!esdcan_proc_show : nodes[k] = c}) = Card!Cardinality(up[c])
  <2>1. PICK no \in 0 .. Cardinality(Cards) - 1 : \A k \in Card!Nets : nodes[k] = c <=> \E n \in up[c] : k = Card!Net(no, n)
    BY DEF CardInv, Numbered
  <2>2. up[c] \in SUBSET Card!Nodes BY DEF CardInv, CardType
  <2>3. Cardinality({k \in Card!esdcan_proc_show : nodes[k] = c}) = Cardinality(up[c]) BY <2>1, <2>2, CountedPlaces
  <2>4. QED BY <2>3, SameCount
<1>5. "chrdev" \in files => load = "loaded" /\ data # {}
  BY DEF CardInv, Loading, Registered
<1>6. ASSUME load = "unloaded" PROVE files = {} /\ Card!esdcan_proc_show = {}
  <2>1. cur = Card!None /\ cur.card = NoCard BY <1>6 DEF CardInv, CurType, Card!None
  <2>2. \A c \in Cards : up[c] = {} BY <1>6, <2>1, CardAssumption DEF CardInv, Loading, Holds
  <2>3. \A k \in Card!Nets : nodes[k] = NoCard BY <2>2, NoNodes DEF CardInv, CardType
  <2>4. QED BY <1>6, <2>3 DEF CardInv, Loading, Registered, Card!esdcan_proc_show
<1>7. Card!CardsSafe BY <1>2, <1>3, <1>4, <1>5, <1>6 DEF Card!CardsSafe
<1>8. QED BY <1>1, <1>7 DEF CardsSafe

\* The initial states satisfy the invariants.
LEMMA InitInv == Init => IInv
<1> SUFFICES ASSUME Init PROVE IInv OBVIOUS
<1>1. CanInv
  BY BoundAssumption DEF Init, Can!Init, Can!NewJob, Can!NewNuc, Can!Idle, CanInv, FileType, JobType, Job, NucJob, ThreadType, Thread,
     FilterInIds, OneReader, OneWriter, ReaderServed, WriterServed, Closing, FileHeld, Closer, Can!Reading, Can!Writing, Can!Flags,
     Can!Waits, Can!Ids
<1>2. OsifInv
  <2>1. OsifType
    <3>1. Osif!NoDpc \in Dpc BY DEF Osif!NoDpc, Dpc
    <3>2. dpc \in [Dpcs -> Dpc] BY <3>1 DEF Init, Osif!Init
    <3>3. destroy \in BOOLEAN BY Zenon DEF Init, Osif!Init
    <3>4. /\ attach \in {"no", "creating", "yes", "destroying"} /\ queue \in Seq(Dpcs) /\ trig \in Nat /\ waking \subseteq Dpcs
          /\ thread \in {"none", "start", "loop", "drain", "func", "asleep", "exited"}
      BY DEF Init, Osif!Init
    <3>5. QED BY <3>2, <3>3, <3>4 DEF OsifType, Osif!TypeOK
  <2>2. QueueExact BY DEF Init, Osif!Init, Osif!NoDpc, QueueExact, Queued
  <2>3. Alive BY DEF Init, Osif!Init, Osif!NoDpc, Alive
  <2>4. QED BY <2>1, <2>2, <2>3 DEF OsifInv
<1>3. CardInv
  <2>1. CardType BY FS_EmptySet DEF Init, Card!Init, CardType
  <2>2. CurType BY DEF Init, Card!Init, CurType
  <2>3. Holds BY CardAssumption DEF Init, Card!Init, Card!None, Holds
  <2>4. Numbered
    <3> SUFFICES ASSUME NEW c \in Cards
                 PROVE  \E no \in 0 .. Cardinality(Cards) - 1 : \A k \in Card!Nets : nodes[k] = c <=> \E n \in up[c] : k = Card!Net(no, n)
      BY DEF Numbered
    <3>1. Cardinality({}) = 0 /\ c \in Cards \ {} BY FS_EmptySet
    <3>2. 0 \in 0 .. Cardinality(Cards) - 1 BY <3>1, NextNumber
    <3>3. \A k \in Card!Nets : nodes[k] # c BY CardAssumption DEF Init, Card!Init
    <3>4. up[c] = {} BY DEF Init, Card!Init
    <3>5. QED BY <3>2, <3>3, <3>4
  <2>5. FreeAbove /\ Loading BY DEF Init, Card!Init, FreeAbove, Loading, Registered
  <2>6. QED BY <2>1, <2>2, <2>3, <2>4, <2>5 DEF CardInv
<1>4. QED BY <1>1, <1>2, <1>3 DEF IInv

\* The driver keeps the invariants of its three parts, for every number of threads, DPCs, cards and nodes (EsdCan, EsdOsif, EsdCard).
THEOREM Invariance == Spec => []IInv
<1>1. IInv /\ [Next]_vars => IInv'
  <2> SUFFICES ASSUME IInv, [Next]_vars PROVE IInv' OBVIOUS
  <2>1. [Can!Next]_canVars /\ [Osif!Next]_osifVars /\ [Card!Next]_cardVars
    BY DEF Next, vars, canVars, osifVars, cardVars
  <2>2. QED BY <2>1, StepCan, StepOsif, StepCard DEF IInv
<1>2. QED BY <1>1, InitInv, PTL DEF Spec

\* A handle has one reader and one writer, each with a job in the nucleus that will wake it, and a close returns when nothing of the handle is in the driver, whatever number of threads share the handle (esdcan_common.c).
THEOREM HandleKept == Spec => []HandleSafe
<1>1. IInv => HandleSafe BY HandleFromInv DEF IInv
<1>2. QED BY <1>1, Invariance, PTL

\* No DPC is freed while the thread can reach it, an attach that fails gives back everything but pci_enable_device() and the lock_irq of a board layer that failed, a load that fails leaves nothing registered, and nodes[] has the nodes that are there, for every number of cards and nodes (osif.c, esdcan.c, esdcan_pci.c).
THEOREM CardsKept == Spec => []CardsSafe
<1>1. IInv => CardsSafe BY CardsFromInv DEF IInv
<1>2. QED BY <1>1, Invariance, PTL
=============================================================================
