------------------------------- MODULE BasaGps -------------------------------
(***************************************************************************)
(* GPS time synchronisation (basa_gps.c).  One of the sensor cards is the  *)
(* GPS master; a kernel thread sets the system time from its clock, wakes  *)
(* up early while the card smooths a jump of the GPS time, and has to end  *)
(* before the master is removed.  The thread, the ioctls of a process, the *)
(* interrupt of a GPS/PPS change, and the probe and removal of cards run   *)
(* concurrently.                                                           *)
(*                                                                         *)
(* Times are kept as the two differences that zynq_gps_ts_check works      *)
(* with: system time minus GPS time (usec, scaled), and GPS time since the *)
(* last synchronisation (sec).                                             *)
(***************************************************************************)
EXTENDS Integers

CONSTANTS
    Devs,           \* sensor cards
    NoDev,          \* NULL
    SmoothDevs,     \* the cards with ZYNQ_CAP(zdev, GPS_SMOOTH)
    Serial,         \* environment: probe and removal of cards do not overlap
    HighFactor,     \* zynq_gps_high_factor
    MaxGap,         \* bound on the gap of the two clocks
    MaxSince,       \* bound on the time since the last synchronisation
    NotSet,         \* zdev_gps_ts = 0: the system time was not set before
    MaxThreads      \* bound on the threads created

VARIABLES
    dpc,            \* where the probe or removal of each card is
    master,         \* zynq_gps_master_dev
    taskp,          \* zynq_gps_taskp: the thread created last, 0 for NULL
    comp,           \* zynq_gps_wait is posted
    thr,            \* the threads: pc, zdev, result > 0, and kthread_should_stop
    valid,          \* ZYNQ_GPS_TIME_VALID of each card
    lastValid,      \* it was valid before, or ZYNQ_GPS_INIT_SET
    validOnce,      \* zynq_gps_valid_once
    inProgress,     \* ZYNQ_GPS_SMOOTH_IN_PROGRESS of the master
    smoothing,      \* zdev_gps_smoothing of the master
    gap,            \* system time minus GPS time of the master
    since           \* GPS time since zdev_gps_ts of the master, or NotSet

threadVars == <<taskp, comp, thr>>
fixVars    == <<valid, lastValid, validOnce>>
clockVars  == <<inProgress, smoothing, gap, since>>
vars == <<dpc, master, threadVars, fixVars, clockVars>>

Threads == 1..MaxThreads

\* A thread at l that holds nothing.
ThreadAt(l) == [pc |-> l, zdev |-> NoDev, woken |-> FALSE, stop |-> FALSE]

Init ==
    /\ dpc = [d \in Devs |-> "absent"]
    /\ master = NoDev
    /\ taskp = 0 /\ comp = FALSE
    /\ thr = [t \in Threads |-> ThreadAt("none")]
    /\ valid \in [Devs -> BOOLEAN]
    /\ lastValid = valid
    /\ validOnce = FALSE
    /\ inProgress = FALSE /\ smoothing = 0
    /\ gap = MaxGap /\ since = NotSet

Alive(t) == thr[t].pc \notin {"none", "ended", "oops"}

-----------------------------------------------------------------------------
(* The environment: clocks and receivers. *)

\* A second passes, and the system clock may drift.
Tick ==
    /\ since # NotSet
    /\ since < MaxSince
    /\ since' = since + 1
    /\ gap' \in {g \in (gap - 1)..(gap + 1) : g \in -MaxGap..MaxGap}
    /\ UNCHANGED <<dpc, master, threadVars, fixVars, inProgress, smoothing>>

\* The GPS time jumps, backwards perhaps; the card smooths the jump or does not.
GpsJump ==
    /\ since # NotSet
    /\ \E g \in {-MaxGap, MaxGap} : gap' = g
    /\ since' \in {-1, 0, MaxSince}
    /\ inProgress' \in BOOLEAN
    /\ UNCHANGED <<dpc, master, threadVars, fixVars, smoothing>>

SmoothingEnds ==
    /\ inProgress
    /\ inProgress' = FALSE
    /\ UNCHANGED <<dpc, master, threadVars, fixVars, smoothing, gap, since>>

\* The receiver of a card gets or loses its fix.
FixChanges(d) ==
    /\ valid' = [valid EXCEPT ![d] = ~@]
    /\ lastValid' = [lastValid EXCEPT ![d] = @ \/ valid'[d]]
    /\ UNCHANGED <<dpc, master, threadVars, validOnce, clockVars>>

-----------------------------------------------------------------------------
(* Reading the time, and setting the system time. *)

\* The once-valid flag that zynq_get_gps_time leaves behind.
ValidOnceAfter(d) == validOnce \/ valid[d] \/ (d \in SmoothDevs /\ lastValid[d])

\* zynq_get_gps_time: it has a time to return, that of the receiver or, on a card
\* that smooths, that of the FPGA's own clock.
HasTime(d) == valid[d] \/ (d \in SmoothDevs /\ ValidOnceAfter(d))

\* The gap exceeds the high water mark.
GapTooHigh == since # NotSet /\ since >= 0 /\ smoothing = 0
              /\ (gap > HighFactor * since \/ gap < -(HighFactor * since))

\* zynq_gps_ts_check only warns; zynq_do_gps_sync sets the time whatever the gap,
\* unless there is no time to set or do_settimeofday() refuses it.
zynq_do_gps_sync(d) ==
    /\ validOnce' = ValidOnceAfter(d)
    /\ \/ UNCHANGED <<gap, since>>
       \/ HasTime(d) /\ gap' = 0 /\ since' = 0

-----------------------------------------------------------------------------
(* The thread: zynq_gps_sync_thread. *)

\* Mutant: the loop's head tests for a master, and no longer whether to stop.
ThreadLoop_WaitsForMaster(t) ==
    /\ thr[t].pc = "loop"
    /\ master # NoDev
    /\ thr' = [thr EXCEPT ![t].pc = "sync", ![t].zdev = master]
    /\ UNCHANGED <<dpc, master, taskp, comp, fixVars, clockVars>>

\* The loop's head: end, or look up the master.
ThreadLoop(t) ==
    /\ thr[t].pc = "loop"
    /\ thr' = [thr EXCEPT ![t] =
                 IF @.stop THEN ThreadAt("ended")
                 ELSE IF master = NoDev THEN ThreadAt("oops")
                 ELSE [@ EXCEPT !.pc = "sync", !.zdev = master]]
    /\ UNCHANGED <<dpc, master, taskp, comp, fixVars, clockVars>>

ThreadSync(t) ==
    /\ thr[t].pc = "sync"
    /\ zynq_do_gps_sync(thr[t].zdev)
    /\ thr' = [thr EXCEPT ![t].pc = "wait"]
    /\ UNCHANGED <<dpc, master, taskp, comp, valid, lastValid, inProgress, smoothing>>

\* The wait of delay_time seconds; a kernel thread gets no signals.
ThreadWait(t) ==
    /\ thr[t].pc = "wait"
    /\ thr' = [thr EXCEPT ![t].pc = "smooth", ![t].woken = comp]
    /\ UNCHANGED <<dpc, master, taskp, comp, fixVars, clockVars>>

\* Mutant: the counter is decremented at 0 as well.
SmoothingLeft_Underflow == IF inProgress THEN 2 ELSE smoothing - 1

\* zdev_gps_smoothing after the wait: two rounds more than the card smooths.
SmoothingLeft == IF inProgress THEN 2 ELSE IF smoothing > 0 THEN smoothing - 1 ELSE 0

\* Mutant: the counter of the wake-ups after a smoothing is not decremented.
ThreadSmooth_NoEnd(t) ==
    /\ thr[t].pc = "smooth"
    /\ smoothing' = IF inProgress THEN 2 ELSE smoothing
    /\ comp' = IF thr[t].woken THEN FALSE ELSE comp
    /\ thr' = [thr EXCEPT ![t].pc = "loop", ![t].woken = FALSE, ![t].zdev = NoDev]
    /\ UNCHANGED <<dpc, master, taskp, fixVars, inProgress, gap, since>>

\* After the wait: note whether the card is smoothing a jump; rearm the completion.
ThreadSmooth(t) ==
    /\ thr[t].pc = "smooth"
    /\ smoothing' = IF thr[t].zdev \in SmoothDevs THEN SmoothingLeft ELSE smoothing
    /\ comp' = IF thr[t].woken THEN FALSE ELSE comp
    /\ thr' = [thr EXCEPT ![t].pc = "loop", ![t].woken = FALSE, ![t].zdev = NoDev]
    /\ UNCHANGED <<dpc, master, taskp, fixVars, inProgress, gap, since>>

-----------------------------------------------------------------------------
(* Cards come and go: zynq_probe and zynq_remove, as far as GPS goes. *)

MayStart(d) == Serial => \A o \in Devs \ {d} : dpc[o] \in {"absent", "bound"}

\* zynq_gps_init: the first card becomes the master.  A new zynq_dev_t has not
\* been synchronised and is not smoothing.
zynq_gps_init(d) ==
    /\ dpc[d] = "absent"
    /\ MayStart(d)
    /\ \/ /\ master # NoDev
          /\ dpc' = [dpc EXCEPT ![d] = "bound"]
          /\ UNCHANGED <<master, smoothing, since>>
       \/ /\ master = NoDev
          /\ taskp < MaxThreads
          /\ master' = d
          /\ smoothing' = 0
          /\ since' = NotSet
          /\ dpc' = [dpc EXCEPT ![d] = "thread"]
    /\ UNCHANGED <<threadVars, fixVars, inProgress, gap>>

zynq_gps_thread_init(d) ==
    /\ dpc[d] = "thread"
    /\ taskp < MaxThreads
    /\ taskp' = taskp + 1
    /\ thr' = [thr EXCEPT ![taskp'] = ThreadAt("loop")]
    /\ comp' = FALSE
    /\ dpc' = [dpc EXCEPT ![d] = "bound"]
    /\ UNCHANGED <<master, fixVars, clockVars>>

\* Mutant: the thread is left to itself.
zynq_gps_fini_NoThreadFini(d) ==
    /\ dpc[d] = "bound"
    /\ MayStart(d)
    /\ master' = IF master = d THEN NoDev ELSE master
    /\ dpc' = [dpc EXCEPT ![d] = "free"]
    /\ UNCHANGED <<threadVars, fixVars, clockVars>>

\* zynq_gps_fini: only the master has a thread to end.
zynq_gps_fini(d) ==
    /\ dpc[d] = "bound"
    /\ MayStart(d)
    /\ master' = IF master = d THEN NoDev ELSE master
    /\ dpc' = [dpc EXCEPT ![d] = IF master = d THEN "complete" ELSE "free"]
    /\ UNCHANGED <<threadVars, fixVars, clockVars>>

\* zynq_gps_thread_fini: wake up the thread, then tell it to stop.
FiniComplete(d) ==
    /\ dpc[d] = "complete"
    /\ comp' = TRUE
    /\ dpc' = [dpc EXCEPT ![d] = "stop"]
    /\ UNCHANGED <<master, taskp, thr, fixVars, clockVars>>

FiniStop(d) ==
    /\ dpc[d] = "stop"
    /\ thr' = [thr EXCEPT ![taskp].stop = TRUE]
    /\ dpc' = [dpc EXCEPT ![d] = "join"]
    /\ UNCHANGED <<master, taskp, comp, fixVars, clockVars>>

\* Mutant: kthread_stop() does not wait for the thread.
FiniJoin_NoWait(d) ==
    /\ dpc[d] = "join"
    /\ dpc' = [dpc EXCEPT ![d] = "free"]
    /\ UNCHANGED <<master, threadVars, fixVars, clockVars>>

FiniJoin(d) ==
    /\ dpc[d] = "join"
    /\ ~Alive(taskp)
    /\ dpc' = [dpc EXCEPT ![d] = "free"]
    /\ UNCHANGED <<master, threadVars, fixVars, clockVars>>

\* The rest of zynq_remove, up to kfree(zdev).
RemoveFree(d) ==
    /\ dpc[d] = "free"
    /\ dpc' = [dpc EXCEPT ![d] = "absent"]
    /\ UNCHANGED <<master, threadVars, fixVars, clockVars>>

-----------------------------------------------------------------------------
(* Interrupts and ioctls. *)

\* zynq_gps_pps_changed: wake up the thread if the master is smoothing a jump.
zynq_gps_pps_changed(d) ==
    /\ dpc[d] = "bound"
    /\ d \in SmoothDevs
    /\ d = master
    /\ inProgress
    /\ comp' = TRUE
    /\ UNCHANGED <<dpc, master, taskp, thr, fixVars, clockVars>>

\* ZYNQ_IOC_GPS_SYNC on an open master.
IoctlSync(d) ==
    /\ dpc[d] = "bound"
    /\ d = master
    /\ zynq_do_gps_sync(d)
    /\ UNCHANGED <<dpc, master, threadVars, valid, lastValid, inProgress, smoothing>>

\* ZYNQ_IOC_GPS_GET on any card.
IoctlGet(d) ==
    /\ dpc[d] = "bound"
    /\ validOnce' = ValidOnceAfter(d)
    /\ UNCHANGED <<dpc, master, threadVars, valid, lastValid, clockVars>>

\* ZYNQ_IOC_GPS_FPGA_INIT: set the clock of a card that never had a valid time;
\* from then on ZYNQ_GPS_INIT_SET is reported.
zynq_gps_init_fpga_time(d) ==
    /\ dpc[d] = "bound"
    /\ d = master
    /\ validOnce' = ValidOnceAfter(d)
    /\ lastValid' = [lastValid EXCEPT ![d] = @ \/ ~validOnce']
    /\ UNCHANGED <<dpc, master, threadVars, valid, clockVars>>

-----------------------------------------------------------------------------

Thread(t) == ThreadLoop(t) \/ ThreadSync(t) \/ ThreadWait(t) \/ ThreadSmooth(t)

Card(d) ==
    \/ zynq_gps_thread_init(d)
    \/ FiniComplete(d) \/ FiniStop(d) \/ FiniJoin(d) \/ RemoveFree(d)

Next ==
    \/ Tick \/ GpsJump \/ SmoothingEnds
    \/ \E t \in Threads : Thread(t)
    \/ \E d \in Devs : \/ FixChanges(d)
                       \/ zynq_gps_init(d) \/ zynq_gps_fini(d) \/ Card(d)
                       \/ zynq_gps_pps_changed(d)
                       \/ IoctlSync(d) \/ IoctlGet(d) \/ zynq_gps_init_fpga_time(d)

Spec == Init /\ [][Next]_vars

\* The thread is scheduled and its timeout ends; a probe or removal that has begun
\* goes on.
FairSpec ==
    /\ Spec
    /\ \A t \in Threads : WF_vars(Thread(t))
    /\ \A d \in Devs : WF_vars(Card(d))

-----------------------------------------------------------------------------
(* Properties. *)

CardType ==
    /\ dpc \in [Devs -> {"absent", "thread", "bound", "complete", "stop", "join", "free"}]
    /\ master \in Devs \cup {NoDev}
    /\ taskp \in 0..MaxThreads
    /\ thr \in [Threads -> [pc : {"none", "loop", "sync", "wait", "smooth", "ended", "oops"},
                            zdev : Devs \cup {NoDev}, woken : BOOLEAN, stop : BOOLEAN]]

FlagType ==
    /\ comp \in BOOLEAN /\ validOnce \in BOOLEAN /\ inProgress \in BOOLEAN
    /\ valid \in [Devs -> BOOLEAN] /\ lastValid \in [Devs -> BOOLEAN]

ClockType ==
    /\ smoothing \in 0..2
    /\ gap \in -MaxGap..MaxGap /\ since \in -1..MaxSince \cup {NotSet}

TypeOK == CardType /\ FlagType /\ ClockType

\* There is one zynq_gps_wait and one zynq_gps_taskp: when cards come and go one
\* after the other, no two threads set the system time, and the one that does is
\* the one zynq_gps_fini will stop.
OneSyncThread == \A t \in Threads : Alive(t) => t = taskp

\* zynq_gps_fini clears the master before it stops the thread, and the thread
\* keeps a pointer to it across its wait: the card is not freed while the thread
\* may use it.
ThreadDevLive ==
    \A t \in Threads : thr[t].zdev # NoDev => dpc[thr[t].zdev] \notin {"absent", "free"}

\* One thread sets the system time, from a card that is there.
SyncSafe == TypeOK /\ OneSyncThread /\ ThreadDevLive

\* The completion of zynq_gps_thread_fini may be taken for that of a GPS/PPS change
\* and rearmed before kthread_stop(): the removal of the master returns all the same.
RemovalReturns == \A d \in Devs : dpc[d] = "complete" ~> dpc[d] = "absent"

\* Once the card does not smooth any more, the thread falls back from its 1 s pace.
BackToNormal ==
    \A d \in Devs : []<>(inProgress \/ smoothing = 0 \/ master # d)

-----------------------------------------------------------------------------
(* What the comments say, and the code does not do. *)

\* The comment in zynq_gps_ts_check: "When the gap is more than the high water mark,
\* we'll fail the system time sync."
HighGapFailsSync ==
    [][\A t \in Threads : ThreadSync(t) /\ GapTooHigh => UNCHANGED gap]_vars

\* The comments in zynq_gps_sync_thread, on leaving the loop: "Interrupted or module
\* is being unloaded".  The wait that ends because the module is unloaded ends the
\* thread; it does not go on to work without a master.
UnloadEndsThread == \A t \in Threads : thr[t].pc # "oops"
=============================================================================
