------------------------------ MODULE BasaCamera ------------------------------
(***************************************************************************)
(* The host interface of the cameras (basa_cam_hci.c) over the I2C bus of  *)
(* a card (basa_i2c.c), as the ioctls of a video device, the sysfs files   *)
(* and the watchdog use it.                                                *)
(*                                                                         *)
(* All cameras answer to one I2C address.  A call therefore programs that  *)
(* address into two registers of the deserialiser of its camera, talks to  *)
(* the camera and clears them again, all of it under zdev_lock.  A command *)
(* takes its parameters from a pool, is written to the command register    *)
(* together with a doorbell bit, and is done when the camera has cleared   *)
(* the bit.                                                                *)
(*                                                                         *)
(* One step is one I2C access, which zdev_i2c_lock makes atomic; accesses  *)
(* of two and four bytes are one step, since the camera changes nothing in *)
(* such a register while it is read, except for the doorbell, whose byte   *)
(* is read first.  What the camera does comes between any two steps.       *)
(***************************************************************************)
EXTENDS Integers, FiniteSets, Sequences

CONSTANTS
    Procs,        \* processes, the watchdog among them
    Cams,         \* cameras of one card
    NoProc,       \* nobody
    Retries,      \* ZCAM_WAIT_RETRY: attempts of each loop
    ReadLimit,    \* FLASH_READ_LIMIT, in bytes
    WriteLimit,   \* FLASH_WRITE_LIMIT
    FlashPage,    \* FLASH_PAGE_SIZE
    FlashStart,   \* where flash accesses begin
    FlashSize,    \* and their size
    I2cErrors,    \* outcomes of an I2C access besides success
    MaxErrors     \* bound: accesses that fail and waits that time out

VARIABLES
    zdev_lock,   \* who holds it
    call,        \* the call of each process
    route,       \* the registers of each deserialiser that hold the address of the ISP
    left,        \* history: cameras whose registers a failing clean-up left as they were
    hci,         \* of each camera: doorbell, command, answer, and whose parameters the pool holds; history: a command was left alone
    swap,        \* ZYNQ_CAM_PIN_SWAP of each camera
    pin_swap,    \* caps->pin_swap
    errors       \* accesses and waits that failed so far

vars == <<zdev_lock, call, route, left, hci, swap, pin_swap, errors>>

None == [op |-> "none"]
Regs == {"alias", "id"}      \* 0x10 and 0x08 of a deserialiser

Stage(cmd, par, again, opt) == [cmd |-> cmd, par |-> par, again |-> again, opt |-> opt]
Plain(cmd) == Stage(cmd, FALSE, {}, FALSE)

\* The commands of each call: with parameters or not, the errors on which it is repeated, whether its failure is ignored.
zcam_reg_access == <<>>
zcam_sys_set_state == Stage("set_state", TRUE, {}, FALSE)
zcam_sys_get_state == Stage("get_state", FALSE, {"EAGAIN"}, FALSE)
zcam_set_suspend == <<zcam_sys_set_state, zcam_sys_get_state>>
zcam_change_config == <<zcam_sys_set_state, zcam_sys_get_state>>
zcam_flash_get_lock == <<Plain("get_lock")>>
zcam_flash_lock_status == <<Plain("lock_status")>>
zcam_flash_release_lock == <<Plain("release_lock")>>
zcam_flash_status == Stage("status", FALSE, {"EBUSY"}, FALSE)
zcam_flash_query_device == <<Plain("query"), [zcam_flash_status EXCEPT !.opt = TRUE]>>
zcam_flash_config_device == <<Stage("config", TRUE, {}, FALSE)>>
zcam_flash_read == <<Stage("read", TRUE, {}, FALSE), zcam_flash_status>>
zcam_flash_write == <<Stage("write", TRUE, {}, FALSE), zcam_flash_status>>
zcam_check_caps == <<>>

Body(op) ==
    CASE op = "set_suspend" -> zcam_set_suspend
      [] op = "change_config" -> zcam_change_config
      [] op = "get_lock" -> zcam_flash_get_lock
      [] op = "lock_status" -> zcam_flash_lock_status
      [] op = "release_lock" -> zcam_flash_release_lock
      [] op = "query" -> zcam_flash_query_device
      [] op = "config" -> zcam_flash_config_device
      [] op = "read" -> zcam_flash_read
      [] op = "write" -> zcam_flash_write
      [] op = "check_caps" -> zcam_check_caps
      [] OTHER -> zcam_reg_access

\* The ioctls of a video device, as the calls they make.  FLASH_INIT gives the lock back when the device cannot be queried or configured, and only then.
zvideo_ioctl_default ==
    {<<"reg">>, <<"set_suspend", "get_lock", "lock_status", "query", "config">>, <<"get_lock", "lock_status">>,
     <<"release_lock">>, <<"read">>, <<"write">>, <<"check_caps">>}
sysfs_calls == {<<"reg">>, <<"change_config">>}
zvideo_get_camera_info == {<<"check_caps">>}   \* of the watchdog, when a link has come up

At(p, l) == call[p] # None /\ call[p].pc = l
Cam(p) == call[p].cam
Goto(p, l) == call' = [call EXCEPT ![p].pc = l]
Own(p) == zdev_lock = p
cameras == <<route, left, hci, swap, pin_swap>>

\* The length of the next piece: no longer than the limit, and a write not beyond the end of a page.
ReadPiece(size) == IF size > ReadLimit THEN ReadLimit ELSE size
WritePiece(addr, size) ==
    LET len == IF size > WriteLimit THEN WriteLimit ELSE size
        off == addr % FlashPage
    IN IF off + len > FlashPage THEN FlashPage - off ELSE len
Piece(k) == IF k.op = "read" THEN ReadPiece(k.size) ELSE WritePiece(k.addr, k.size)
-----------------------------------------------------------------------------
\* One I2C access: it is done, or fails before or after the device has seen it; zdev_i2c_check_busy reports both.
I2c(p, Done, Missed, ok, bad) ==
    \/ Done /\ Goto(p, ok) /\ UNCHANGED errors
    \/ \E e \in I2cErrors :
          /\ errors < MaxErrors /\ errors' = errors + 1
          /\ IF e = "EAGAIN" THEN Done \/ Missed ELSE Missed
          /\ call' = [call EXCEPT ![p].pc = bad, ![p].ret = e]

zdev_i2c_write(p, Done, ok, bad) == I2c(p, Done, UNCHANGED cameras, ok, bad)
zdev_i2c_read(p, ok, bad) == I2c(p, UNCHANGED cameras, UNCHANGED cameras, ok, bad)

SetRoute(p, r, on) ==
    /\ route' = [route EXCEPT ![Cam(p)] = IF on THEN @ \union {r} ELSE @ \ {r}]
    /\ UNCHANGED <<left, hci, swap, pin_swap>>

\* The ioctls of one camera exclude each other (vdev->lock); sysfs files and the watchdog do not ask for that lock.
MayCall(p, c, ioctl) ==
    /\ call[p] = None
    /\ ioctl => {q \in Procs : call[q] # None /\ call[q].cam = c /\ call[q].ioctl} = {}
NewCall(c, todo, ioctl) ==
    [op |-> Head(todo), todo |-> Tail(todo), ioctl |-> ioctl, cam |-> c, ret |-> "ok", pc |-> "init1",
     left |-> Body(Head(todo)), tries |-> 0, reprobe |-> FALSE, orig |-> FALSE, addr |-> FlashStart, size |-> FlashSize]

\* A process makes an ioctl or uses a sysfs file, or the watchdog finds a camera, and takes the lock.
Begin(p, c, todo, ioctl) ==
    LET k == NewCall(c, todo, ioctl) IN
    /\ zdev_lock = NoProc /\ MayCall(p, c, ioctl)
    /\ zdev_lock' = p
    /\ \/ call' = [call EXCEPT ![p] = k] /\ UNCHANGED pin_swap
       \* check_caps first probes a camera that is not streaming, unless the pins are forced
       \/ /\ k.op = "check_caps"
          /\ call' = [call EXCEPT ![p] = [k EXCEPT !.pc = "probe1", !.orig = swap[c]]]
          /\ pin_swap' = [pin_swap EXCEPT ![c] = swap[c]]
    /\ UNCHANGED <<route, left, hci, swap, errors>>

\* The module parameter videopinswap, which may be written at any time, forces the pins: check_caps notes its value before it takes the lock ...
ForceBegin(p, c, ioctl) ==
    /\ MayCall(p, c, ioctl)
    /\ call' = [call EXCEPT ![p] = [NewCall(c, <<"check_caps">>, ioctl) EXCEPT !.pc = "force"]]
    /\ \E v \in BOOLEAN : pin_swap' = [pin_swap EXCEPT ![c] = v]
    /\ UNCHANGED <<zdev_lock, route, left, hci, swap, errors>>

\* ... and writes what is then noted to the register.
ForcePins(p) ==
    /\ At(p, "force") /\ zdev_lock = NoProc
    /\ swap' = [swap EXCEPT ![Cam(p)] = pin_swap[Cam(p)]]
    /\ Goto(p, "lock")
    /\ UNCHANGED <<zdev_lock, route, left, hci, pin_swap, errors>>

\* The next call of an ioctl.
Lock(p) ==
    /\ At(p, "lock") /\ zdev_lock = NoProc
    /\ zdev_lock' = p
    /\ call' = [call EXCEPT ![p].pc = "init1", ![p].left = Body(call[p].op)]
    /\ UNCHANGED <<cameras, errors>>

Enter(stages) == IF Head(stages).par THEN "params" ELSE "check"

\* zcam_i2c_init: both registers, or the call is given up.
After(p) == IF call[p].op = "check_caps" THEN "caps" ELSE IF call[p].op = "reg" THEN "reg" ELSE Enter(call[p].left)
zcam_i2c_init(p) ==
    /\ Own(p)
    /\ \/ At(p, "init1") /\ zdev_i2c_write(p, SetRoute(p, "alias", TRUE), "init2", "fini1")
       \/ At(p, "init2") /\ zdev_i2c_write(p, SetRoute(p, "id", TRUE), After(p), "fini1")
       \/ At(p, "probe1") /\ zdev_i2c_write(p, SetRoute(p, "alias", TRUE), "probe2", "probe_end")
       \/ At(p, "probe2") /\ zdev_i2c_write(p, SetRoute(p, "id", TRUE), "probe", "probe_end")
    /\ UNCHANGED zdev_lock

\* zcam_i2c_fini: errors are ignored.
ClearRoute(p, r, next) ==
    \/ /\ SetRoute(p, r, FALSE) /\ UNCHANGED errors /\ Goto(p, next)
    \/ /\ errors < MaxErrors /\ errors' = errors + 1
       /\ left' = left \union {Cam(p)} /\ UNCHANGED <<route, hci, swap, pin_swap>> /\ Goto(p, next)

\* Mutant: the registers are only cleared after a success.
zcam_i2c_fini_OnSuccess(p) ==
    /\ Own(p)
    /\ \/ At(p, "fini1") /\ IF call[p].ret = "ok" THEN ClearRoute(p, "alias", "fini2") ELSE Goto(p, "fini2") /\ UNCHANGED <<cameras, errors>>
       \/ At(p, "fini2") /\ IF call[p].ret = "ok" THEN ClearRoute(p, "id", "unlock") ELSE Goto(p, "unlock") /\ UNCHANGED <<cameras, errors>>
       \/ At(p, "pfini1") /\ ClearRoute(p, "alias", "pfini2")
       \/ At(p, "pfini2") /\ ClearRoute(p, "id", "i2c_reset")
       \/ At(p, "pend1") /\ ClearRoute(p, "alias", "pend2")
       \/ At(p, "pend2") /\ ClearRoute(p, "id", "punlock")
    /\ UNCHANGED zdev_lock

zcam_i2c_fini(p) ==
    /\ Own(p)
    /\ \/ At(p, "fini1") /\ ClearRoute(p, "alias", "fini2")
       \/ At(p, "fini2") /\ ClearRoute(p, "id", "unlock")
       \/ At(p, "pfini1") /\ ClearRoute(p, "alias", "pfini2")
       \/ At(p, "pfini2") /\ ClearRoute(p, "id", "i2c_reset")
       \/ At(p, "pend1") /\ ClearRoute(p, "alias", "pend2")
       \/ At(p, "pend2") /\ ClearRoute(p, "id", "punlock")
    /\ UNCHANGED zdev_lock

Idle(h) == [bell |-> FALSE, cmd |-> "plain", resp |-> "ok", pool |-> NoProc, late |-> h.late]

\* The lock is given back; the ioctl goes on with its next call, or with the release of the flash, or ends.
NextOp(p) ==
    LET k == call[p] IN
    CASE k.ret = "ok" /\ k.todo # <<>> -> [k EXCEPT !.op = Head(k.todo), !.todo = Tail(k.todo), !.pc = "lock"]
      [] k.ret # "ok" /\ k.op \in {"query", "config"} -> [k EXCEPT !.op = "release_lock", !.todo = <<>>, !.pc = "lock", !.ret = "ok"]
      [] OTHER -> None

Unlock(p) ==
    /\ Own(p) /\ At(p, "unlock")
    /\ zdev_lock' = NoProc
    /\ call' = [call EXCEPT ![p] = NextOp(p)]
    \* nobody asks any more for the answer, or whose parameters there are
    /\ hci' = [hci EXCEPT ![Cam(p)] = IF @.bell THEN [@ EXCEPT !.pool = NoProc] ELSE Idle(@)]
    /\ UNCHANGED <<route, left, swap, pin_swap, errors>>

\* zcam_reg_read, zcam_reg_write: an access of 1, 2 or 4 bytes.  A write may hit any register of the camera but those of the commands.
zcam_reg(p) ==
    /\ Own(p) /\ At(p, "reg") /\ zdev_i2c_read(p, "fini1", "fini1")
    /\ UNCHANGED zdev_lock

\* The second half of zcam_check_caps: registers that keep their default when they cannot be read.
CheckCaps(p) ==
    /\ Own(p) /\ At(p, "caps") /\ zdev_i2c_read(p, "fini1", "fini1")
    /\ UNCHANGED zdev_lock
-----------------------------------------------------------------------------
\* What a command does: it leaves results in the pool, may answer that the flash is busy, or neither.
Kind(cmd) == CASE cmd \in {"get_state", "query", "read"} -> "result" [] cmd = "status" -> "status" [] OTHER -> "plain"
SetHci(p, f) == hci' = [hci EXCEPT ![Cam(p)] = f] /\ UNCHANGED <<route, left, swap, pin_swap>>
Now(p) == Head(call[p].left)

\* zcam_params_write: the pool is filled, whatever the camera is doing.
zcam_params_write(p) ==
    /\ Own(p) /\ At(p, "params")
    /\ zdev_i2c_write(p, SetHci(p, [hci[Cam(p)] EXCEPT !.pool = p]), "check", "failed")
    /\ UNCHANGED zdev_lock

\* zcam_command: the doorbell is looked at, ...
DoorbellCheck(p) ==
    /\ Own(p) /\ At(p, "check")
    /\ \/ ~hci[Cam(p)].bell /\ zdev_i2c_read(p, "issue", "failed")
       \/ hci[Cam(p)].bell /\ call' = [call EXCEPT ![p].pc = "failed", ![p].ret = "EAGAIN"] /\ UNCHANGED <<cameras, errors>>
    /\ UNCHANGED zdev_lock

\* ... the command is written ...
DoorbellRing(p) ==
    /\ Own(p) /\ At(p, "issue")
    /\ zdev_i2c_write(p, SetHci(p, [hci[Cam(p)] EXCEPT !.bell = TRUE, !.cmd = Kind(Now(p).cmd)]), "wait", "failed")
    /\ UNCHANGED zdev_lock

\* ... and waited for: until the doorbell is cleared, or for too long.
DoorbellWait(p) ==
    /\ Own(p) /\ At(p, "wait")
    /\ LET h == hci[Cam(p)] IN
       \/ /\ h.bell /\ errors < MaxErrors /\ errors' = errors + 1
          /\ call' = [call EXCEPT ![p].pc = "failed", ![p].ret = "EAGAIN"]
       \/ ~h.bell /\ call' = [call EXCEPT ![p].pc = IF h.resp = "ok" THEN "done" ELSE "failed", ![p].ret = h.resp] /\ UNCHANGED errors
       \/ I2c(p, FALSE, TRUE, "wait", "failed")
    /\ UNCHANGED <<zdev_lock, cameras>>

\* The command is done; flash accesses go on with the next piece.
Loops(p) == call[p].op \in {"read", "write"}
StageDone(p) ==
    /\ Own(p) /\ At(p, "done")
    /\ LET k == [call[p] EXCEPT !.left = Tail(call[p].left), !.tries = 0]
           len == Piece(k)
       IN call' = [call EXCEPT ![p] =
            IF k.left # <<>> THEN [k EXCEPT !.pc = Enter(k.left)]
            ELSE IF Loops(p) /\ k.size > len
              THEN [k EXCEPT !.addr = k.addr + len, !.size = k.size - len, !.left = Body(k.op), !.pc = Enter(Body(k.op))]
            ELSE IF Loops(p) THEN [k EXCEPT !.addr = k.addr + len, !.size = 0, !.pc = "fini1"]
            ELSE [k EXCEPT !.pc = "fini1"]]
    /\ UNCHANGED <<zdev_lock, cameras, errors>>

\* The command has failed: it is repeated, ignored, or ends the call.
StageFailed(p) ==
    /\ Own(p) /\ At(p, "failed")
    /\ call' = [call EXCEPT ![p] =
          IF @.ret \in Now(p).again /\ @.tries + 1 < Retries THEN [@ EXCEPT !.tries = call[p].tries + 1, !.pc = Enter(call[p].left), !.ret = "ok"]
          ELSE IF Now(p).opt THEN [@ EXCEPT !.pc = "done", !.ret = "ok"]
          ELSE [@ EXCEPT !.pc = "fini1"]]
    /\ hci' = [hci EXCEPT ![Cam(p)].late = @ \/ hci[Cam(p)].bell]
    /\ UNCHANGED <<zdev_lock, route, left, swap, pin_swap, errors>>

\* The camera carries out the command in its register; what the command returns goes to the pool.
CameraDoes(c) ==
    /\ hci[c].bell
    /\ \E r \in {"ok", "EINVAL"} \union (IF hci[c].cmd = "status" THEN {"EBUSY"} ELSE {}) :
          hci' = [hci EXCEPT ![c] =
            IF \E p \in Procs : At(p, "wait") /\ Cam(p) = c
            THEN [@ EXCEPT !.bell = FALSE, !.resp = r, !.pool = IF hci[c].cmd = "result" THEN NoProc ELSE hci[c].pool]
            ELSE [Idle(@) EXCEPT !.pool = IF hci[c].cmd = "result" THEN NoProc ELSE hci[c].pool]]
    /\ UNCHANGED <<zdev_lock, call, route, left, swap, pin_swap, errors>>
-----------------------------------------------------------------------------
\* zcam_probe: does the camera answer with its pins as they are?
SetPins(p, v) == swap' = [swap EXCEPT ![Cam(p)] = v] /\ pin_swap' = [pin_swap EXCEPT ![Cam(p)] = v]

\* It does; or it does not, or is one whose pins must be swapped, and the other way is tried once.
Probe(p) ==
    /\ Own(p) /\ At(p, "probe")
    /\ \/ call' = [call EXCEPT ![p].pc = "probe_end", ![p].ret = "ok"]
       \/ call' = [call EXCEPT ![p].pc = IF call[p].reprobe THEN "probe_end" ELSE "pfini1", ![p].ret = "EFAULT"]
    /\ UNCHANGED <<zdev_lock, cameras, errors>>

\* The I2C bus is reset and the lock released for a while ...
ProbeSleep(p) ==
    /\ Own(p) /\ At(p, "i2c_reset")
    /\ zdev_lock' = NoProc /\ Goto(p, "pin_swap")
    /\ UNCHANGED <<cameras, errors>>

\* ... the pins are swapped, and the lock released again ...
ProbeSwap(p) ==
    /\ At(p, "pin_swap") /\ zdev_lock = NoProc
    /\ SetPins(p, ~pin_swap[Cam(p)])
    /\ call' = [call EXCEPT ![p].pc = "reprobe", ![p].reprobe = TRUE, ![p].ret = "ok"]
    /\ UNCHANGED <<zdev_lock, route, left, hci, errors>>

Reprobe(p) ==
    /\ At(p, "reprobe") /\ zdev_lock = NoProc
    /\ zdev_lock' = p /\ Goto(p, "probe1")
    /\ UNCHANGED <<cameras, errors>>

\* After a second failure the pins are what they were when the call began.
ProbeEnd(p) ==
    /\ Own(p) /\ At(p, "probe_end")
    /\ IF call[p].ret # "ok" /\ call[p].reprobe THEN SetPins(p, call[p].orig) ELSE UNCHANGED <<swap, pin_swap>>
    /\ Goto(p, "pend1")
    /\ UNCHANGED <<zdev_lock, route, left, hci, errors>>

ProbeUnlock(p) ==
    /\ Own(p) /\ At(p, "punlock")
    /\ zdev_lock' = NoProc
    /\ call' = [call EXCEPT ![p] = IF @.ret = "ok" THEN [@ EXCEPT !.pc = "lock", !.reprobe = FALSE, !.orig = FALSE] ELSE None]
    /\ UNCHANGED <<cameras, errors>>
-----------------------------------------------------------------------------
Init ==
    /\ zdev_lock = NoProc
    /\ call = [p \in Procs |-> None]
    /\ route = [c \in Cams |-> {}] /\ left = {}
    /\ hci = [c \in Cams |-> Idle([late |-> FALSE])]
    /\ swap \in [Cams -> BOOLEAN] /\ pin_swap = swap
    /\ errors = 0

Step(p) ==
    \/ ForcePins(p) \/ Lock(p) \/ zcam_i2c_init(p) \/ zcam_i2c_fini(p) \/ Unlock(p) \/ zcam_reg(p) \/ CheckCaps(p)
    \/ zcam_params_write(p) \/ DoorbellCheck(p) \/ DoorbellRing(p) \/ DoorbellWait(p) \/ StageDone(p) \/ StageFailed(p)
    \/ Probe(p) \/ ProbeSleep(p) \/ ProbeSwap(p) \/ Reprobe(p) \/ ProbeEnd(p) \/ ProbeUnlock(p)

Next ==
    \/ \E p \in Procs : Step(p)
    \/ \E c \in Cams : CameraDoes(c)
    \/ \E p \in Procs, c \in Cams :
         \/ \E t \in zvideo_ioctl_default : Begin(p, c, t, TRUE)
         \/ \E t \in sysfs_calls \union zvideo_get_camera_info : Begin(p, c, t, FALSE)
         \/ \E ioctl \in BOOLEAN : ForceBegin(p, c, ioctl)

Spec == Init /\ [][Next]_vars
-----------------------------------------------------------------------------
\* The address of the ISP reaches the camera of the call that holds zdev_lock and no other (a camera whose clean-up failed apart): what is written for one camera never arrives at two.
Routed == \A c \in Cams : route[c] # {} => c \in left \/ (zdev_lock # NoProc /\ Cam(zdev_lock) = c)

\* While a call waits for the camera, the command register and the parameter pool hold what this call has written, and not the parameters or results of another, until some call has gone on without waiting for the doorbell: a command that ends late puts its results where the next one has already put its parameters.
CommandIntact ==
    \A p \in Procs : At(p, "wait") /\ ~hci[Cam(p)].late => LET h == hci[Cam(p)] IN h.cmd = Kind(Now(p).cmd) /\ (Now(p).par /\ h.bell => h.pool = p)

\* Flash accesses stay within the area that was asked for, piece after piece.
InArea == \A p \in Procs : call[p] # None /\ Loops(p) => LET k == call[p] IN k.size >= 0 /\ k.addr + k.size = FlashStart + FlashSize

\* Whenever the lock is free, caps->pin_swap tells how the pins of a camera are, whatever calls probe it at the same time; only a value that is being forced is noted before it is true.
PinsKnown == zdev_lock = NoProc => \A c \in Cams : swap[c] = pin_swap[c] \/ \E p \in Procs : At(p, "force") /\ Cam(p) = c

CameraSafe == Routed /\ CommandIntact /\ InArea /\ PinsKnown
=============================================================================
