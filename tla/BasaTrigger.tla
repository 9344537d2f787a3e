------------------------------ MODULE BasaTrigger ------------------------------
(***************************************************************************)
(* The camera triggers: the ioctls of /dev/zynq_trigger for all cameras of *)
(* a card (basa_trigger.c), those of a video device for one camera         *)
(* (basa_video.c), and the library (adv_trigger_ctl.c) that opens devices  *)
(* and makes these ioctls for a program.                                   *)
(*                                                                         *)
(* The first kind works under zdev_lock of the card, the second under      *)
(* rlock of the camera (and vdev->lock, which serialises the ioctls of a   *)
(* camera).  Both read, modify and write the same registers, so that a     *)
(* call is a list of loads and stores.                                     *)
(***************************************************************************)
EXTENDS Integers, FiniteSets, Sequences, SequencesExt

CONSTANTS
    Procs,        \* processes
    Cards,        \* cards, 1 .. n
    Nodes,        \* the cards whose /dev/zynq_trigger can be opened
    CamCnt,       \* cameras of each card
    FpsMax,       \* ZYNQ_FPD_FPS_MAX
    FpsDefault,   \* ZYNQ_FPD_FPS_DEFAULT
    DelayMask,    \* ZYNQ_CAM_TRIG_DELAY_MASK
    Delays,       \* trigger delays that are asked for
    FpsAsked,     \* frame rates that are asked for
    NoProc        \* nobody

VARIABLES
    glob,    \* ZYNQ_CONFIG_TRIGGER of each card
    reg,     \* of each camera: ZYNQ_CAM_EN, and frame rate and delay in ZYNQ_CAM_TRIGGER
    zvideo,  \* of each camera: fps and last_trig_delay
    link,    \* caps.link_up of each camera
    zdev_lock, rlock,   \* who holds the locks of a card and of a camera
    call,    \* of each process: the steps left, arguments, loaded values, open files
    mixed    \* history: cameras for which calls of both kinds have overlapped

vars == <<glob, reg, zvideo, link, zdev_lock, rlock, call, mixed>>

Cameras == Cards \X (1 .. CamCnt)
Card(c) == c[1]
NoVal == [en |-> FALSE, fps |-> 0, delay |-> 0]
Quiet == [steps |-> <<>>, fps |-> 0, delay |-> 0, val |-> NoVal, fds |-> {}, got |-> "none"]

S(kind, on) == <<kind, on>>
Rate(fps) == IF fps = 0 \/ fps > FpsMax THEN FpsDefault ELSE fps
OfCard(z, steps) == FlattenSeq([i \in 1 .. CamCnt |-> steps[<<z, i>>]])

\* The ioctls as steps.  A camera without a link is passed over, with the 5 (or 3) steps that follow.
zynq_trigger_enable_all(z) ==
    <<S("zlock", z), S("global_off", z)>>
    \o OfCard(z, [c \in Cameras |-> <<S("link5", c), S("load_trigger", c), S("store_fps", c), S("load_config", c), S("store_on", c), S("note_fps", c)>>])
    \o <<S("global_on", z), S("zunlock", z)>>

zynq_trigger_disable_all(z) ==
    <<S("zlock", z), S("global_off", z)>>
    \o OfCard(z, [c \in Cameras |-> <<S("link3", c), S("load_config", c), S("store_off", c), S("note_off", c)>>])
    \o <<S("zunlock", z)>>

zynq_trigger_status_fpd(z) == <<S("zlock", z), S("status", z), S("zunlock", z)>>

zvideo_trigger_enable(c) ==
    <<S("rlock", c), S("load_config", c), S("store_off", c), S("load_trigger", c), S("store_fps", c), S("load_config", c), S("store_on", c),
      S("zlock", Card(c)), S("global_on", Card(c)), S("zunlock", Card(c)), S("note_fps", c), S("runlock", c)>>

zvideo_trigger_disable(c) ==
    <<S("rlock", c), S("load_config", c), S("store_off", c), S("note_off", c), S("runlock", c)>>

\* last_trig_delay is noted after the lock was given back.
zvideo_trigger_delay_set(c) ==
    <<S("rlock", c), S("load_trigger", c), S("store_delay", c), S("runlock", c), S("note_delay", c)>>
zvideo_trigger_delay_get(c) == <<S("rlock", c), S("load_trigger", c), S("runlock", c), S("assert_delay", c)>>
-----------------------------------------------------------------------------
\* The library: an ioctl for every card that could be opened, in order; the files are closed at the end.
Opened == SelectSeq([i \in 1 .. Cardinality(Cards) |-> i], LAMBDA z : z \in Nodes)
EachCard(steps) == FlattenSeq([i \in 1 .. Len(Opened) |-> steps[Opened[i]]])
adv_trigger_fini == <<S("close", 0)>>
adv_trigger_enable_all == EachCard([z \in Cards |-> zynq_trigger_enable_all(z)]) \o adv_trigger_fini
adv_trigger_disable_all == EachCard([z \in Cards |-> zynq_trigger_disable_all(z)]) \o adv_trigger_fini
adv_trigger_get_status == EachCard([z \in Cards |-> zynq_trigger_status_fpd(z)]) \o adv_trigger_fini
adv_trigger_enable_fpd(c) == zvideo_trigger_enable(c) \o adv_trigger_fini
adv_trigger_disable_fpd(c) == zvideo_trigger_disable(c) \o adv_trigger_fini
adv_trigger_delay_fpd(c, set) == (IF set THEN zvideo_trigger_delay_set(c) ELSE <<>>) \o zvideo_trigger_delay_get(c) \o adv_trigger_fini

Run(p, steps, fps, delay, fds) ==
    /\ call[p].steps = <<>>
    /\ call' = [call EXCEPT ![p] = [Quiet EXCEPT !.steps = steps, !.fps = Rate(fps), !.delay = delay, !.fds = fds]]
    /\ UNCHANGED <<glob, reg, zvideo, link, zdev_lock, rlock, mixed>>

\* adv_trigger_vdev_init: no path means all cameras.  The type of a device of another driver is -1, which as an unsigned enumeration is not negative: it is not refused and means all cameras, too.
adv_trigger_all(p) ==
    /\ Nodes # {}
    /\ \E video \in {{}, {0}}, fps \in FpsAsked :
         \/ Run(p, adv_trigger_enable_all, fps, 0, Nodes \union video)
         \/ Run(p, adv_trigger_disable_all, 0, 0, Nodes \union video)
         \/ Run(p, adv_trigger_get_status, 0, 0, Nodes)

\* One camera.  Its ioctls wait for each other (vdev->lock).
Using(p, c) == \E i \in DOMAIN call[p].steps : call[p].steps[i] = S("rlock", c) \/ call[p].steps[i] = S("runlock", c) \/ call[p].steps[i] = S("note_delay", c) \/ call[p].steps[i] = S("assert_delay", c)
adv_trigger_fpd(p, c) ==
    /\ \A q \in Procs : ~Using(q, c)
    /\ \/ \E fps \in FpsAsked : Run(p, adv_trigger_enable_fpd(c), fps, 0, {0})
       \/ Run(p, adv_trigger_disable_fpd(c), 0, 0, {0})
       \/ \E d \in Delays, set \in BOOLEAN : Run(p, adv_trigger_delay_fpd(c, set), 0, d, {0})

\* A device whose name has no number is opened, found to be of the driver, and given up without being closed.
adv_trigger_nameless(p) ==
    /\ call[p].steps = <<>> /\ call' = [call EXCEPT ![p].fds = {0}]
    /\ UNCHANGED <<glob, reg, zvideo, link, zdev_lock, rlock, mixed>>
-----------------------------------------------------------------------------
Now(p) == Head(call[p].steps)
On(p) == Now(p)[2]
Is(p, kind) == call[p].steps # <<>> /\ Now(p)[1] = kind
Go(p) == call' = [call EXCEPT ![p].steps = Tail(@), ![p].val = IF Tail(call[p].steps)[1][1] = "assert_delay" THEN @ ELSE NoVal]
Load(p, v) == call' = [call EXCEPT ![p].steps = Tail(@), ![p].val = v]

\* Calls of the two kinds are at work on one camera at a time.
InOne(p, c) == call[p].steps # <<>> /\ rlock[c] = p
InAll(p, c) == zdev_lock[Card(c)] = p /\ {k \in Cameras : rlock[k] = p} = {}
Overlap(c) == \E p, q \in Procs : (InOne(p, c) \/ (Is(p, "note_delay") /\ On(p) = c)) /\ InAll(q, c)

Locks(p) ==
    /\ \/ Is(p, "zlock") /\ zdev_lock[On(p)] = NoProc /\ zdev_lock' = [zdev_lock EXCEPT ![On(p)] = p] /\ UNCHANGED rlock
       \/ Is(p, "zunlock") /\ zdev_lock' = [zdev_lock EXCEPT ![On(p)] = NoProc] /\ UNCHANGED rlock
       \/ Is(p, "rlock") /\ rlock[On(p)] = NoProc /\ rlock' = [rlock EXCEPT ![On(p)] = p] /\ UNCHANGED zdev_lock
       \/ Is(p, "runlock") /\ rlock' = [rlock EXCEPT ![On(p)] = NoProc] /\ UNCHANGED zdev_lock
    /\ Go(p)
    /\ UNCHANGED <<glob, reg, zvideo, link>>

Global(p) ==
    /\ \/ Is(p, "global_off") /\ glob' = [glob EXCEPT ![On(p)] = FALSE]
       \/ Is(p, "global_on") /\ glob' = [glob EXCEPT ![On(p)] = TRUE]
    /\ Go(p)
    /\ UNCHANGED <<reg, zvideo, link, zdev_lock, rlock>>

\* caps.link_up is looked at when the loop comes to the camera.
LinkTest(p) ==
    /\ \/ Is(p, "link5") /\ call' = [call EXCEPT ![p].steps = IF link[On(p)] THEN Tail(@) ELSE SubSeq(@, 7, Len(@))]
       \/ Is(p, "link3") /\ call' = [call EXCEPT ![p].steps = IF link[On(p)] THEN Tail(@) ELSE SubSeq(@, 5, Len(@))]
    /\ UNCHANGED <<glob, reg, zvideo, link, zdev_lock, rlock>>

Loads(p) ==
    /\ \/ Is(p, "load_trigger") /\ Load(p, [reg[On(p)] EXCEPT !.en = FALSE])
       \/ Is(p, "load_config") /\ Load(p, [NoVal EXCEPT !.en = reg[On(p)].en])
    /\ UNCHANGED <<glob, reg, zvideo, link, zdev_lock, rlock>>

\* SET_BITS keeps the other bits of the value that was loaded, and no more of a new one than the field holds.
SetTrigger(c, fps, delay) == [reg EXCEPT ![c].fps = fps, ![c].delay = delay % (DelayMask + 1)]
Stores(p) ==
    LET v == call[p].val IN
    /\ \/ Is(p, "store_fps") /\ reg' = SetTrigger(On(p), call[p].fps, v.delay)
       \/ Is(p, "store_delay") /\ reg' = SetTrigger(On(p), v.fps, call[p].delay)
       \/ Is(p, "store_on") /\ reg' = [reg EXCEPT ![On(p)].en = TRUE]
       \/ Is(p, "store_off") /\ reg' = [reg EXCEPT ![On(p)].en = FALSE]
    /\ Go(p)
    /\ UNCHANGED <<glob, zvideo, link, zdev_lock, rlock>>

\* Mutant: the frame rate stays noted when the trigger is switched off.
Notes_KeepsFps(p) ==
    /\ \/ Is(p, "note_fps") /\ zvideo' = [zvideo EXCEPT ![On(p)].fps = call[p].fps]
       \/ Is(p, "note_off") /\ UNCHANGED zvideo
       \/ Is(p, "note_delay") /\ zvideo' = [zvideo EXCEPT ![On(p)].last_trig_delay = call[p].delay]
    /\ Go(p)
    /\ UNCHANGED <<glob, reg, link, zdev_lock, rlock>>

\* fps with frame_interval and frame_usec_max, and last_trig_delay.
Notes(p) ==
    /\ \/ Is(p, "note_fps") /\ zvideo' = [zvideo EXCEPT ![On(p)].fps = call[p].fps]
       \/ Is(p, "note_off") /\ zvideo' = [zvideo EXCEPT ![On(p)].fps = 0]
       \/ Is(p, "note_delay") /\ zvideo' = [zvideo EXCEPT ![On(p)].last_trig_delay = call[p].delay]
    /\ Go(p)
    /\ UNCHANGED <<glob, reg, link, zdev_lock, rlock>>

\* What a program is told: which cameras are enabled; and the ASSERT of zvideo_trigger_delay_get.
Asks(p) ==
    /\ \/ Is(p, "status") /\ Go(p)
       \/ /\ Is(p, "assert_delay")
          /\ call' = [call EXCEPT ![p].steps = Tail(@), ![p].val = NoVal, ![p].got = IF zvideo[On(p)].last_trig_delay = call[p].val.delay THEN "same" ELSE "other"]
       \/ Is(p, "close") /\ call' = [call EXCEPT ![p] = Quiet]
    /\ UNCHANGED <<glob, reg, zvideo, link, zdev_lock, rlock>>

\* zvideo_check_link_status: caps.link_up follows the status of the camera.
LinkChange(c) ==
    /\ link' = [link EXCEPT ![c] = ~@]
    /\ UNCHANGED <<glob, reg, zvideo, zdev_lock, rlock, call, mixed>>
-----------------------------------------------------------------------------
Init ==
    /\ glob = [z \in Cards |-> FALSE]
    /\ reg = [c \in Cameras |-> [en |-> FALSE, fps |-> 0, delay |-> 0]]
    /\ zvideo = [c \in Cameras |-> [fps |-> 0, last_trig_delay |-> 0]]
    /\ link = [c \in Cameras |-> TRUE]
    /\ zdev_lock = [z \in Cards |-> NoProc] /\ rlock = [c \in Cameras |-> NoProc]
    /\ call = [p \in Procs |-> Quiet]
    /\ mixed = {}

Step(p) ==
    /\ Locks(p) \/ Global(p) \/ LinkTest(p) \/ Loads(p) \/ Stores(p) \/ Notes(p) \/ Asks(p)
    /\ mixed' = mixed \union {c \in Cameras : Overlap(c) \/ Overlap(c)'}

Next ==
    \/ \E p \in Procs : Step(p) \/ adv_trigger_all(p) \/ adv_trigger_nameless(p) \/ \E c \in Cameras : adv_trigger_fpd(p, c)
    \/ \E c \in Cameras : LinkChange(c)

Spec == Init /\ [][Next]_vars
-----------------------------------------------------------------------------
Busy(c) == \E p \in Procs : Using(p, c) \/ zdev_lock[Card(c)] = p

\* When nobody is at work on a camera, and calls for it alone and for its card never overlapped, the driver's idea of its trigger (fps is what frames are dated by) is what the registers say, a delay wider than its field apart; and the library leaves no trigger device open.
TriggerSafe ==
    /\ \A c \in Cameras : ~Busy(c) /\ c \notin mixed =>
         /\ reg[c].en <=> zvideo[c].fps # 0
         /\ reg[c].en => reg[c].fps = zvideo[c].fps
         /\ reg[c].delay = zvideo[c].last_trig_delay % (DelayMask + 1)
    /\ \A p \in Procs : call[p].steps = <<>> => call[p].fds \subseteq {0}

\* ASSERT(zvideo->last_trig_delay == delay->trigger_delay) in zvideo_trigger_delay_get.
DelayAssert == \A p \in Procs : call[p].got # "other"
=============================================================================
