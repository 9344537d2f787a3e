------------------------------ MODULE EsdOsif ------------------------------
(***************************************************************************)
(* The deferred procedure calls of the esd CAN driver, src/esd/src/osif.c: *)
(* one kernel thread works off a queue of DPCs that interrupt handlers and *)
(* timers trigger, in the OSIF_USE_PREEMPT_RT_IMPLEMENTATION build.        *)
(*                                                                         *)
(* What happens under dpc_root.spinlock is one action.  Outside of it are  *)
(* the function of a DPC, the increment of dpc_root.trig with the wake-up  *)
(* that follows a link, and the test of dpc_root.destroy.                  *)
(***************************************************************************)
EXTENDS Integers, Sequences

CONSTANTS
    Dpcs,       \* DPCs the board layer makes; each may belong to a timer
    MaxTrig     \* bound: triggers that the thread has not counted down

VARIABLES
    attach,     \* "no", "creating", "yes" or "destroying": where osif_attach and osif_detach are
    dpc,        \* OSIF_DPC: memory, destroy, linked, running, and the timer that triggers it
    queue,      \* dpc_root.first
    trig,       \* dpc_root.trig
    waking,     \* DPCs that are linked and whose trigger has not incremented trig yet
    destroy,    \* dpc_root.destroy
    thread      \* osif_dpc_thread

vars == <<attach, dpc, queue, trig, waking, destroy, thread>>

NoDpc == [mem |-> "NOTUSED", destroy |-> FALSE, linked |-> FALSE, running |-> FALSE, timer |-> "off"]
Exists(d) == dpc[d].mem # "NOTUSED"

\* The wake-up of the thread: it counts only if the thread has declared itself asleep.
Woken(t) == IF t = "asleep" THEN "loop" ELSE t
-----------------------------------------------------------------------------
\* osif_dpc_root_create starts the thread and waits for it; osif_attach does nothing else that lasts.
osif_dpc_root_create ==
    /\ attach = "no"
    /\ attach' = "creating" /\ thread' = "start"
    /\ UNCHANGED <<dpc, queue, trig, waking, destroy>>

ThreadStart ==
    /\ thread = "start"
    /\ thread' = "loop" /\ attach' = "yes"
    /\ UNCHANGED <<dpc, queue, trig, waking, destroy>>

\* The head of the loop of osif_dpc_thread: the test of destroy, then one trigger is counted down.
LoopHead ==
    /\ thread = "loop"
    /\ IF destroy THEN thread' = "exited" /\ UNCHANGED trig
       ELSE thread' = "drain" /\ trig' = IF trig > 0 THEN trig - 1 ELSE 0
    /\ UNCHANGED <<attach, dpc, queue, waking, destroy>>

\* The inner loop: the first DPC is linked out and run.  When there is none the thread declares itself asleep before it gives the lock up, unless a trigger is left.
osif_dpc_thread ==
    /\ thread \in {"drain", "func"}
    /\ LET next(d) == queue # <<>> /\ d = queue[1]
       IN  dpc' = [d \in Dpcs |-> [dpc[d] EXCEPT !.running = next(d), !.linked = @ /\ ~next(d)]]
    /\ IF queue # <<>> THEN queue' = Tail(queue) /\ thread' = "func"
       ELSE thread' = (IF trig = 0 THEN "asleep" ELSE "loop") /\ UNCHANGED queue
    /\ UNCHANGED <<attach, trig, waking, destroy>>

\* osif_dpc_root_destroy: the board layer has destroyed its DPCs before.
osif_dpc_root_destroy ==
    /\ attach = "yes" /\ \A d \in Dpcs : ~Exists(d)
    /\ attach' = "destroying" /\ destroy' = TRUE /\ thread' = Woken(thread)
    /\ UNCHANGED <<dpc, queue, trig, waking>>

RootDestroyed ==
    /\ attach = "destroying" /\ thread = "exited"
    /\ attach' = "no" /\ destroy' = FALSE /\ thread' = "none"
    /\ UNCHANGED <<dpc, queue, trig, waking>>
-----------------------------------------------------------------------------
\* osif_malloc: kmalloc, then vmalloc; the word before the block says which, for osif_free.
osif_malloc(d) == \E kind \in {"KMEM", "VMEM"} : dpc' = [dpc EXCEPT ![d] = [mem |-> kind, destroy |-> FALSE, linked |-> FALSE, running |-> FALSE, timer |-> "off"]]
osif_free(d) == dpc' = [dpc EXCEPT ![d] = NoDpc]

osif_dpc_create(d) ==
    /\ attach = "yes" /\ ~Exists(d)
    /\ osif_malloc(d)
    /\ UNCHANGED <<attach, queue, trig, waking, destroy, thread>>

\* osif_dpc_trigger: a DPC that is destroyed or linked already is left alone.
osif_dpc_trigger(d) ==
    /\ Exists(d) /\ ~dpc[d].destroy /\ ~dpc[d].linked
    /\ d \notin waking /\ trig < MaxTrig
    /\ dpc' = [dpc EXCEPT ![d].linked = TRUE, ![d].timer = IF @ = "stub" THEN "off" ELSE @]
    /\ queue' = Append(queue, d) /\ waking' = waking \cup {d}
    /\ UNCHANGED <<attach, trig, destroy, thread>>

\* Mutant: the thread is not woken.
TriggerWake_Silent(d) ==
    /\ d \in waking
    /\ waking' = waking \ {d} /\ trig' = trig + 1
    /\ UNCHANGED <<attach, dpc, queue, destroy, thread>>

TriggerWake(d) ==
    /\ d \in waking
    /\ waking' = waking \ {d} /\ trig' = trig + 1 /\ thread' = Woken(thread)
    /\ UNCHANGED <<attach, dpc, queue, destroy>>

\* The queue without the DPC at place i.
LinkOut(i) == [j \in 1 .. Len(queue) - 1 |-> queue[IF j < i THEN j ELSE j + 1]]

\* osif_dpc_destroy up to its wait for a running DPC: the DPC is marked and, where the walk along the queue meets it, linked out.  osif_timer_destroy deletes its timer first.
osif_dpc_destroy(d) ==
    /\ Exists(d) /\ ~dpc[d].destroy
    /\ dpc' = [dpc EXCEPT ![d].destroy = TRUE, ![d].timer = IF @ = "armed" THEN "off" ELSE @]
    /\ IF \E i \in DOMAIN queue : queue[i] = d
       THEN \E i \in DOMAIN queue : queue[i] = d /\ queue' = LinkOut(i)
       ELSE UNCHANGED queue
    /\ UNCHANGED <<attach, trig, waking, destroy, thread>>

\* Mutant: a DPC that runs is not waited for.
DestroyEnd_Hasty(d) ==
    /\ Exists(d) /\ dpc[d].destroy
    /\ osif_free(d)
    /\ UNCHANGED <<attach, queue, trig, waking, destroy, thread>>

DestroyEnd(d) ==
    /\ Exists(d) /\ dpc[d].destroy /\ ~dpc[d].running
    /\ osif_free(d)
    /\ UNCHANGED <<attach, queue, trig, waking, destroy, thread>>

\* osif_timer_set arms the timer of a DPC, or with 0 ms takes it back; when it expires timer_stub triggers the DPC.
osif_timer_set(d) ==
    /\ Exists(d) /\ ~dpc[d].destroy /\ dpc[d].timer # "stub"
    /\ dpc' = [dpc EXCEPT ![d].timer = IF @ = "armed" THEN "off" ELSE "armed"]
    /\ UNCHANGED <<attach, queue, trig, waking, destroy, thread>>

\* timer_stub runs in a soft interrupt that del_timer does not wait for.
timer_stub(d) ==
    /\ dpc[d].timer = "armed"
    /\ dpc' = [dpc EXCEPT ![d].timer = "stub"]
    /\ UNCHANGED <<attach, queue, trig, waking, destroy, thread>>
-----------------------------------------------------------------------------
Init ==
    /\ attach = "no" /\ thread = "none" /\ destroy = FALSE
    /\ dpc = [d \in Dpcs |-> NoDpc] /\ queue = <<>> /\ trig = 0 /\ waking = {}

Thread == ThreadStart \/ LoopHead \/ osif_dpc_thread

Next ==
    \/ osif_dpc_root_create \/ osif_dpc_root_destroy \/ RootDestroyed \/ Thread
    \/ \E d \in Dpcs : \/ osif_dpc_create(d) \/ osif_dpc_trigger(d) \/ TriggerWake(d)
                       \/ osif_dpc_destroy(d) \/ DestroyEnd(d)
                       \/ osif_timer_set(d) \/ timer_stub(d)

\* The thread runs while it is not asleep, and a trigger that has begun ends.
Fairness == WF_vars(Thread) /\ \A d \in Dpcs : WF_vars(TriggerWake(d))

Spec == Init /\ [][Next]_vars /\ Fairness
-----------------------------------------------------------------------------
TypeOK ==
    /\ attach \in {"no", "creating", "yes", "destroying"}
    /\ thread \in {"none", "start", "loop", "drain", "func", "asleep", "exited"}
    /\ queue \in Seq(Dpcs) /\ trig \in Nat /\ waking \subseteq Dpcs /\ destroy \in BOOLEAN

\* A DPC is freed only when the thread can no longer reach it: it is in the queue just when it is linked and not destroyed, once, and the function the thread is in is one of a DPC that still exists.
DpcSafe ==
    /\ TypeOK
    /\ \A d \in Dpcs :
         /\ (\E i \in DOMAIN queue : queue[i] = d) <=> (dpc[d].linked /\ ~dpc[d].destroy)
    /\ \A i, j \in DOMAIN queue : queue[i] = queue[j] => i = j
    /\ thread = "func" <=> \E d \in Dpcs : Exists(d) /\ dpc[d].running

\* No DPC is forgotten: one that is linked is run or destroyed, although the trigger is counted after the link, without the lock, and the thread may have gone to sleep between the two.
DpcRuns == \A d \in Dpcs : dpc[d].linked /\ ~dpc[d].destroy ~> dpc[d].running \/ dpc[d].destroy
=============================================================================
