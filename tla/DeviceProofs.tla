---------------------------- MODULE DeviceProofs ----------------------------
(***************************************************************************)
(* The life of a basa card, its debugging files, the host interface of its *)
(* cameras, the update of its FPGA, the ring frames are copied from and    *)
(* the stamps of frames, for any number of cards, processes, cameras, page *)
(* tables, descriptors, buffers and frames, and any sizes of the register  *)
(* spaces, the flash, the FIFO, the image, a page, a frame and the ring;   *)
(* and the time of the cards, for any clocks and threads.                  *)
(***************************************************************************)
EXTENDS MCDevice, Sequences, FiniteSetTheorems, TLAPS

-----------------------------------------------------------------------------
(* The debugging files                                                     *)

Selections ==
    [can_ip : 0 .. CanCnt - 1, chan : 0 .. CanCnt + VideoCnt - 1, cam : 0 .. VideoCnt - 1, tx_desc : 0 .. TxNum - 1,
     g_off : 0 .. Bar0Max, ch_off : 0 .. ChanRegMax, can_off : 0 .. CanCnt * IpRegs - 1, i2c : I2cRegs,
     i2c_bus : 0 .. I2cBuses - 1]
CallKinds == {"idle", "g_reg", "chan_reg", "can_ip_reg", "bar2", "tx_desc", "can", "cam", "i2c", "wait", "reinit"}
Call == [at : CallKinds, obj : Nat, off : Nat, go : BOOLEAN, race : BOOLEAN]

\* The object that a call has loaded is one of the card, also before the access.
ObjectInCard(c) ==
    /\ c.at = "chan_reg" => c.obj < CanCnt + VideoCnt
    /\ c.at \in {"can_ip_reg", "tx_desc", "can"} => c.obj < CanCnt

CallOk(c) == ObjectInCard(c) /\ (c.go => Sysfs!InRange(c))

CallsOk == call \in [Procs -> Call] /\ \A p \in Procs : CallOk(call[p])

SysfsInv ==
    /\ sel \in Selections
    /\ gpspps \in Nat /\ posted \in Nat /\ told \in Nat /\ told + gpspps <= posted
    /\ CallsOk
-----------------------------------------------------------------------------
(* One card                                                                *)

Base == {"zdev", "pci", "bar0", "bar2"}
Vectors == {"msix", "msixp", "msi"}
Files == {"kobj", "master"} \cup Device!cdevs
Stages == {"none", "zombie", "probe", "pci", "chans", "vectors", "request", "kobj", "finish", "up",
           "remove", "free_irq", "kill", "unwind", "fini"}

\* All that a channel of a kind may hold.
RxThings(kind) == IF Device!RxOwn(kind) THEN Device!RxObjects ELSE {}
TxThings(kind) == IF Device!TxOwn(kind) THEN Device!TxObjects ELSE {}
Node(kind) == IF kind = "can" THEN {<<"cdev">>, <<"rxbuf">>} ELSE {<<"v4l2">>, <<"ctrls">>, <<"vdev">>}
ChanThings(kind) == {<<"watchdog">>} \cup Node(kind) \cup RxThings(kind) \cup TxThings(kind)

\* A channel is whole.
Whole(kind, held) == Device!WholeChan(kind, held) /\ held \subseteq ChanThings(kind)

Params == [fw : BOOLEAN, rxdma : BOOLEAN, txdma : BOOLEAN, zerocopy : BOOLEAN]
Things == UNION {ChanThings(kind) : kind \in {"can", "video"}}
CardRec ==
    [at : Stages, res : SUBSET (Base \cup Vectors \cup Device!WholeCard), ch : [1 .. 2 -> SUBSET Things], n : 0 .. 2, nvec : 0 .. 2,
     vec : SUBSET (1 .. 2), ta : [1 .. 2 -> SUBSET {"sched", "run"}], tinit : SUBSET (1 .. 2),
     back : {"none", "zombie", "remove"}]

\* A bound card that is to be removed.
Leaving(c) == c.at = "remove" /\ c.res # {}

\* What a card has at each step of its probe and removal.
ResOk(c) ==
    /\ c.at \in {"none", "zombie", "probe"} => c.res = {}
    /\ c.at = "pci" => c.res = {"zdev"}
    /\ c.at \in {"chans", "vectors", "unwind"} => c.res = Base
    /\ c.at \in {"request", "kobj"} => Base \subseteq c.res /\ c.res \subseteq Base \cup Vectors
    /\ c.at = "finish" => Base \cup Files \subseteq c.res /\ c.res \subseteq Base \cup Files \cup Vectors
    /\ c.at = "up" \/ Leaving(c) => Device!WholeCard \subseteq c.res
    /\ c.at \in {"free_irq", "kill"} =>
         /\ Base \subseteq c.res /\ c.res \subseteq Base \cup Vectors \cup {"drvdata"}
         /\ "drvdata" \in c.res <=> c.back = "remove"
    /\ c.at = "fini" => c.res = Base \cup {"drvdata"}

\* Where the steps that probe and removal share go on.
BackOk(c) ==
    /\ c.at \notin {"free_irq", "kill", "unwind", "fini"} => c.back = "none"
    /\ c.at = "unwind" => c.back # "remove"
    /\ c.at = "fini" => c.back = "remove"

\* The channels are set up one after the other, all before the interrupts, and ended after them.
ChansOk(c) ==
    /\ \A i \in 1 .. 2 :
         IF i <= c.n THEN Whole(Device!Kinds[i], c.ch[i]) ELSE c.ch[i] = {}
    /\ c.n <= Device!zynq_zdev_init
    /\ c.at \in {"none", "zombie", "probe", "pci"} \/ (c.at = "remove" /\ ~Leaving(c)) => c.n = 0
    /\ c.at \notin {"none", "zombie", "probe", "pci", "chans", "remove"} \/ Leaving(c) => c.n = Device!zynq_zdev_init

\* The card has its vectors.
Wired(c) == c.at \in {"request", "kobj", "finish", "up", "free_irq", "kill"} \/ Leaving(c)

\* Tasklets are there while the card is wired; before the interrupts are unmasked only a shared line schedules one.
VectorsOk(c) ==
    /\ ~Wired(c) => c.nvec = 0 /\ c.vec = {} /\ c.tinit = {} /\ \A i \in 1 .. 2 : c.ta[i] = {}
    /\ Wired(c) => c.nvec \in {1, 2} /\ (par.fw => c.nvec = 1) /\ c.vec \subseteq 1 .. c.nvec
    /\ c.at \in {"kobj", "finish", "up"} \/ Leaving(c) => c.vec = 1 .. c.nvec
    /\ c.at = "request" => (2 \in c.vec => 1 \in c.vec) /\ (c.vec = {} => \A i \in 1 .. 2 : c.ta[i] = {})
    /\ c.at = "kill" => c.vec = {}
    /\ Wired(c) /\ c.at # "kill" => c.tinit = Device!zdev_init_tasklet(c.nvec)
    /\ \A i \in 1 .. 2 : c.ta[i] # {} => i \in c.tinit /\ ~par.fw
    /\ c.at \in {"request", "kobj", "finish"} /\ c.res \cap {"msix", "msi"} # {} => \A i \in 1 .. 2 : c.ta[i] = {}
    /\ c.at = "request" /\ c.nvec = 2 => "msix" \in c.res

CardOk(c) == c \in CardRec /\ ResOk(c) /\ BackOk(c) /\ ChansOk(c) /\ VectorsOk(c)

Removing(c) == c.at \in {"remove", "fini"} \/ c.back = "remove"

\* The module binds all cards before it is loaded and unbinds them one by one; a card that was linked keeps its driver data until it is unbound.
ModuleOk ==
    /\ "zdev_all" \in mod.res => mod.st = "loaded"
    /\ mod.st = "unloaded" => mod.res = {} /\ \A k \in Cards : card[k].at = "none"
    /\ mod.st = "probing" => \A k \in Cards : ~Removing(card[k])
    /\ mod.st = "unloading" =>
         \A k \in Cards : IF k \in mod.left THEN card[k].at \in Device!Idle ELSE card[k].at = "none" \/ Removing(card[k])
    /\ mod.st \in {"probing", "loaded"} => \A k \in Cards \cap list : k \in unbound \/ "drvdata" \in card[k].res

ModuleRec ==
    [st : {"unloaded", "probing", "loaded", "unloading"}, res : SUBSET {"region", "class", "driver", "zdev_all"}, left : SUBSET Cards]

CardsOk == card \in [Cards -> CardRec] /\ \A k \in Cards : CardOk(card[k])

DeviceInv == par \in Params /\ mod \in ModuleRec /\ list \subseteq Cards /\ CardsOk /\ ModuleOk
-----------------------------------------------------------------------------
(* The cameras                                                             *)

CamOps == {"reg", "set_suspend", "change_config", "get_lock", "lock_status", "release_lock", "query", "config", "read", "write", "check_caps"}

\* The record of a call, and what its fields promise: a flash access has not left its area.
CamCall(k) ==
    k = [op |-> k.op, todo |-> k.todo, ioctl |-> k.ioctl, cam |-> k.cam, ret |-> k.ret, pc |-> k.pc, left |-> k.left,
         tries |-> k.tries, reprobe |-> k.reprobe, orig |-> k.orig, addr |-> k.addr, size |-> k.size]
CamCallOk(k) ==
    /\ CamCall(k) /\ k.op \in CamOps /\ k.todo \in Seq(CamOps) /\ k.cam \in Cams
    /\ k.addr \in Nat /\ k.size \in Nat /\ k.addr + k.size = FlashStart + FlashSize
CamCallsOk ==
    /\ camera_call = [p \in Procs |-> camera_call[p]]
    /\ \A p \in Procs : camera_call[p] # Camera!None => CamCallOk(camera_call[p])

\* A call holds zdev_lock at all times but before its first access and while the pins of its camera are swapped or forced.
Unlocked == {"lock", "pin_swap", "reprobe", "force"}
Holding(p) == camera_call[p] # Camera!None /\ camera_call[p].pc \notin Unlocked
LockOk ==
    /\ zdev_lock \in Procs \cup {NoProc}
    /\ \A p \in Procs : zdev_lock = p <=> Holding(p)

\* Between the two writes that clear a route one register may still hold the address; after them none does.
Half == {"fini2", "pfini2", "pend2"}
Clear == {"unlock", "i2c_reset", "punlock"}
RouteOk ==
    /\ route \in [Cams -> SUBSET Camera!Regs] /\ Camera!Routed
    /\ \A p \in Procs : zdev_lock = p /\ Camera!Cam(p) \notin left =>
         /\ camera_call[p].pc \in Half => route[Camera!Cam(p)] \subseteq {"id"}
         /\ camera_call[p].pc \in Clear => route[Camera!Cam(p)] = {}

\* Unless a command was left alone: a doorbell rings for the call that holds the lock, which waits or is about to give up; and that call keeps what it has written for the camera.
HciRec(h) == h = [bell |-> h.bell, cmd |-> h.cmd, resp |-> h.resp, pool |-> h.pool, late |-> h.late]
HciOk == hci = [c \in Cams |-> hci[c]] /\ \A c \in Cams : HciRec(hci[c])
BellOk ==
    \A c \in Cams : hci[c].bell /\ ~hci[c].late =>
      \E p \in Procs : zdev_lock = p /\ Camera!Cam(p) = c /\ camera_call[p].pc \in {"wait", "failed"}
Written(p) ==
    LET h == hci[Camera!Cam(p)] IN
    /\ camera_call[p].pc \in {"check", "issue"} /\ Camera!Now(p).par => h.pool = p
    /\ camera_call[p].pc = "wait" => h.cmd = Camera!Kind(Camera!Now(p).cmd) /\ (Camera!Now(p).par /\ h.bell => h.pool = p)
WrittenOk == \A p \in Procs : zdev_lock = p /\ ~hci[Camera!Cam(p)].late => Written(p)

\* The pins are as they were noted, but where a value is being forced.
Forcing(c) == \E p \in Procs : Camera!At(p, "force") /\ Camera!Cam(p) = c
PinsOk ==
    /\ swap = [c \in Cams |-> swap[c]] /\ pin_swap = [c \in Cams |-> pin_swap[c]]
    /\ \A c \in Cams : swap[c] = pin_swap[c] \/ Forcing(c)

CamInv == CamCallsOk /\ LockOk /\ RouteOk /\ HciOk /\ BellOk /\ WrittenOk /\ PinsOk
-----------------------------------------------------------------------------
(* The firmware                                                            *)

FwStages == {"closed", "open", "idle", "magic", "wait_grant", "send", "write", "wait_done"}
FwTypes ==
    /\ pc \in [Procs -> FwStages] /\ sent \in [Procs -> Nat] /\ fine \subseteq Procs
    /\ got \in Nat /\ fifo \in 0..FifoSize

\* What the one program that has the device open may rely on at each step of its requests.
FwHolderOk(p) ==
    /\ pc[p] = "magic" => cfg = {"upload"} /\ "grant" \notin status /\ sent[p] = 0
    /\ pc[p] = "wait_grant" => cfg = Firmware!Magic /\ sent[p] = 0 /\ ("grant" \in status => arm = "granted" /\ got = 0 /\ fifo = 0)
    /\ pc[p] = "write" => fifo < FifoSize
    /\ pc[p] = "wait_done" /\ "done" \in status /\ ~late => cfg = {flash}
    /\ p \in fine => pc[p] \in {"idle", "send", "write"} /\ cfg = {} /\ arm = "granted" /\ got + fifo = sent[p]
    /\ pc[p] \in {"send", "write"} /\ ~astray => p \in fine

\* In the documented order a flash is asked for when the whole image is on its way; and unless a wait was given up, a flash is written for the program that waits for it.
FwOrdered ==
    ~astray => /\ cfg # {} /\ "upload" \notin cfg /\ arm = "granted" => got + fifo = ImageLen
               /\ arm = "writing" => got = ImageLen
FwWaited ==
    ~late => /\ arm = "writing" => cfg = {flash} /\ flash # "upload"
             /\ cfg # {} /\ "upload" \notin cfg => \E p \in Procs : pc[p] = "wait_done"
             /\ cfg # {} /\ "upload" \notin cfg /\ arm \in {"granted", "writing"} => "done" \notin status

FwAlone ==
    /\ \A p, q \in Firmware!Holders : p = q
    /\ \A p \in Procs : FwHolderOk(p)
    /\ FwOrdered /\ FwWaited

FwInv == FwTypes /\ (~raced /\ ~gone => FwAlone /\ ~lost)
-----------------------------------------------------------------------------
(* The debugging files: one step.                                          *)

NewCall(st, obj, o, go, race) == [at |-> st, obj |-> obj, off |-> o, go |-> go, race |-> race]

\* A process whose new call is in order leaves all calls in order.
LEMMA CallSet ==
    ASSUME NEW p \in Procs, NEW st \in CallKinds, NEW obj \in Nat, NEW o \in Nat, NEW go \in BOOLEAN, NEW race \in BOOLEAN,
           CallsOk, CallOk(NewCall(st, obj, o, go, race)), call' = [call EXCEPT ![p] = NewCall(st, obj, o, go, race)]
    PROVE  CallsOk'
<1>1. NewCall(st, obj, o, go, race) \in Call
  BY DEF NewCall, Call, CallKinds
<1>2. call' \in [Procs -> Call]
  BY <1>1 DEF CallsOk
<1>3. \A q \in Procs : call'[q] = IF q = p THEN NewCall(st, obj, o, go, race) ELSE call[q]
  BY DEF CallsOk
<1>4. \A q \in Procs : CallOk(call'[q])
  BY <1>3 DEF CallsOk
<1>5. \A q \in Procs : CallOk(call[q])' <=> CallOk(call'[q])
  BY DEF CallOk, ObjectInCard, Sysfs!InRange, Sysfs!InIp, Sysfs!ChanCnt, Sysfs!Bar2Max
<1> QED BY <1>2, <1>4, <1>5 DEF CallsOk

\* A call that loads its object, and one that accesses a register.
LEMMA CallStart ==
    ASSUME NEW p \in Procs, NEW st \in CallKinds, NEW obj \in Nat, CallsOk, Sysfs!Start(p, st, obj),
           st = "chan_reg" => obj < CanCnt + VideoCnt, st \in {"can_ip_reg", "tx_desc", "can"} => obj < CanCnt
    PROVE  CallsOk'
<1>1. CallOk(NewCall(st, obj, 0, FALSE, FALSE))
  BY DEF CallOk, ObjectInCard, NewCall
<1>2. call' = [call EXCEPT ![p] = NewCall(st, obj, 0, FALSE, FALSE)]
  BY DEF Sysfs!Start, NewCall
<1> QED BY <1>1, <1>2, CallSet

\* A call that uses the object it loaded keeps it.
LEMMA CallUse ==
    ASSUME NEW p \in Procs, NEW st \in CallKinds, NEW obj \in Nat, NEW o \in Nat, CallsOk, Sysfs!Use(p, st, obj, o),
           ObjectInCard(NewCall(st, obj, o, TRUE, FALSE)), Sysfs!InRange(NewCall(st, obj, o, TRUE, FALSE))
    PROVE  CallsOk'
<1>1. CallOk(NewCall(st, obj, o, TRUE, FALSE))
  BY DEF CallOk
<1>2. call' = [call EXCEPT ![p] = NewCall(st, obj, o, TRUE, FALSE)]
  BY DEF Sysfs!Use, NewCall
<1> QED BY <1>1, <1>2, CallSet

\* A call that returns leaves nothing behind.
LEMMA CallOver == ASSUME NEW p \in Procs, CallsOk, call' = [call EXCEPT ![p] = Sysfs!Quiet] PROVE CallsOk'
BY SysfsAssumption, CallStart DEF Sysfs!Start, Sysfs!Quiet, CallKinds

\* A selection that was tested is one of the card.
LEMMA SelKept ==
    ASSUME SysfsInv, NEW p \in Procs, NEW v \in Sysfs!Numbers, Sysfs!SetSelection(p, v)
    PROVE  sel' \in Selections
<1> USE SysfsAssumption DEF SysfsInv, Sysfs!Numbers, Sysfs!Select, Sysfs!ChanCnt
<1>1. CASE Sysfs!zynq_sysfs_can_ip_set(v)
  BY <1>1 DEF Sysfs!zynq_sysfs_can_ip_set, Selections
<1>2. CASE Sysfs!zynq_sysfs_chan_set(v)
  BY <1>2 DEF Sysfs!zynq_sysfs_chan_set, Selections
<1>3. CASE Sysfs!zynq_sysfs_cam_set(v)
  BY <1>3 DEF Sysfs!zynq_sysfs_cam_set, Selections
<1>4. CASE Sysfs!zynq_sysfs_tx_desc_set(v)
  BY <1>4 DEF Sysfs!zynq_sysfs_tx_desc_set, Selections
<1>5. CASE Sysfs!zynq_sysfs_i2c_bus_set(v)
  BY <1>5 DEF Sysfs!zynq_sysfs_i2c_bus_set, Selections
<1> QED BY <1>1, <1>2, <1>3, <1>4, <1>5 DEF Sysfs!SetSelection

\* A step of a process on its call.
LEMMA StepCall ==
    ASSUME SysfsInv, NEW p \in Procs,
           \/ Sysfs!zynq_sysfs_g_reg_read(p) \/ Sysfs!zynq_sysfs_chan_reg_read(p) \/ Sysfs!zynq_sysfs_can_ip_reg_read(p)
           \/ Sysfs!zynq_sysfs_chan_tx_info_show(p) \/ Sysfs!ShowChan(p) \/ Sysfs!UseCan(p) \/ Sysfs!zynq_sysfs_cam_reg(p)
           \/ Sysfs!zynq_sysfs_i2c_read(p) \/ Sysfs!Return(p)
    PROVE  SysfsInv'
<1> USE SysfsAssumption
<1>c. CallsOk /\ call \in [Procs -> Call] /\ CallOk(call[p])
  BY DEF SysfsInv, CallsOk
<1>0. /\ sel.can_ip \in Nat /\ sel.can_ip < CanCnt /\ sel.chan \in Nat /\ sel.chan < CanCnt + VideoCnt
      /\ sel.cam \in Nat /\ sel.cam < VideoCnt /\ sel.tx_desc \in Nat /\ sel.tx_desc < TxNum
      /\ sel.g_off \in Nat /\ sel.g_off <= Bar0Max /\ sel.ch_off \in Nat /\ sel.ch_off <= ChanRegMax
      /\ sel.can_off \in Nat /\ sel.can_off <= CanCnt * IpRegs - 1 /\ sel.i2c \in I2cRegs /\ sel.i2c \in Nat
      /\ sel.i2c_bus \in Nat /\ sel.i2c_bus < I2cBuses
  <2>1. CanCnt * IpRegs \in Int
    OBVIOUS
  <2> DEFINE top == CanCnt * IpRegs
  <2>2. sel.can_off \in 0 .. top - 1 /\ top \in Int
    BY <2>1 DEF SysfsInv, Selections
  <2> HIDE DEF top
  <2>3. sel.can_off \in Nat /\ sel.can_off <= top - 1
    BY <2>2
  <2>4. sel.can_ip \in 0 .. CanCnt - 1 /\ sel.chan \in 0 .. CanCnt + VideoCnt - 1 /\ sel.cam \in 0 .. VideoCnt - 1
        /\ sel.tx_desc \in 0 .. TxNum - 1 /\ sel.g_off \in 0 .. Bar0Max /\ sel.ch_off \in 0 .. ChanRegMax
        /\ sel.i2c \in I2cRegs /\ sel.i2c_bus \in 0 .. I2cBuses - 1
    BY DEF SysfsInv, Selections
  <2>5. sel.can_off \in Nat /\ sel.can_off <= CanCnt * IpRegs - 1
    BY <2>3 DEF top
  <2>6. /\ sel.can_ip \in Nat /\ sel.can_ip < CanCnt /\ sel.chan \in Nat /\ sel.chan < CanCnt + VideoCnt
        /\ sel.cam \in Nat /\ sel.cam < VideoCnt /\ sel.tx_desc \in Nat /\ sel.tx_desc < TxNum
        /\ sel.g_off \in Nat /\ sel.g_off <= Bar0Max /\ sel.ch_off \in Nat /\ sel.ch_off <= ChanRegMax
    BY <2>4
  <2>7. sel.i2c \in I2cRegs /\ sel.i2c \in Nat
    BY Zenon, <2>4
  <2>8. sel.i2c_bus \in Nat /\ sel.i2c_bus < I2cBuses
    BY <2>4
  <2> HIDE SysfsAssumption
  <2> QED BY <2>5, <2>6, <2>7, <2>8
<1>u. /\ UNCHANGED <<sel, gpspps, posted, told>> /\ CallsOk' => SysfsInv'
  BY DEF SysfsInv
<1> DEFINE Ok(st, obj, o) == ObjectInCard(NewCall(st, obj, o, TRUE, FALSE)) /\ Sysfs!InRange(NewCall(st, obj, o, TRUE, FALSE))
<1>t. /\ Ok("g_reg", 0, sel.g_off) /\ Ok("chan_reg", sel.chan, 0) /\ Ok("can", sel.can_ip, 0)
      /\ Ok("cam", sel.cam, 0) /\ Ok("i2c", sel.i2c_bus, sel.i2c)
  <2>1. Ok("g_reg", 0, sel.g_off)
    BY <1>0 DEF ObjectInCard, Sysfs!InRange, NewCall
  <2>2. Ok("chan_reg", sel.chan, 0)
    BY <1>0 DEF ObjectInCard, Sysfs!InRange, Sysfs!ChanCnt, NewCall
  <2>3. Ok("can", sel.can_ip, 0) /\ Ok("cam", sel.cam, 0)
    BY <1>0 DEF ObjectInCard, Sysfs!InRange, NewCall
  <2>4. Ok("i2c", sel.i2c_bus, sel.i2c)
    BY <1>0 DEF ObjectInCard, Sysfs!InRange, NewCall
  <2> QED BY <2>1, <2>2, <2>3, <2>4
<1>l. /\ call[p].at = "chan_reg" => Ok(call[p].at, call[p].obj, sel.ch_off)
      /\ call[p].at = "tx_desc" => Ok(call[p].at, call[p].obj, sel.tx_desc)
  BY <1>0, <1>c DEF ObjectInCard, Sysfs!InRange, Sysfs!ChanCnt, NewCall, CallOk
<1>v. call[p].at \in CallKinds /\ call[p].obj \in Nat
  BY <1>c DEF Call, CallKinds
<1>1. CASE Sysfs!zynq_sysfs_g_reg_read(p)
  BY <1>0, <1>1, <1>c, <1>u, <1>t, CallUse DEF Sysfs!zynq_sysfs_g_reg_read, CallKinds, Sysfs!events
<1>2. CASE Sysfs!zynq_sysfs_chan_reg_read(p)
  <2>1. CASE Sysfs!Start(p, "chan_reg", sel.chan)
    BY <1>0, <1>2, <1>c, <1>u, <2>1, CallStart DEF Sysfs!zynq_sysfs_chan_reg_read, CallKinds, Sysfs!events
  <2>2. CASE Sysfs!At(p, "chan_reg") /\ Sysfs!Access(p, sel.ch_off)
    BY <1>0, <1>2, <1>c, <1>u, <1>l, <1>v, <2>2, CallUse DEF Sysfs!zynq_sysfs_chan_reg_read, Sysfs!events, Sysfs!Access, Sysfs!At
  <2> QED BY <1>2, <2>1, <2>2 DEF Sysfs!zynq_sysfs_chan_reg_read
<1>3. CASE Sysfs!zynq_sysfs_can_ip_reg_read(p)
  <2>1. CASE Sysfs!Start(p, IF Sysfs!InIp(sel.can_off) THEN "can_ip_reg" ELSE "bar2",
                         IF Sysfs!InIp(sel.can_off) THEN sel.can_ip ELSE 0)
    <3>1. CASE Sysfs!InIp(sel.can_off)
      BY <1>0, <1>3, <1>c, <1>u, <2>1, <3>1, CallStart DEF Sysfs!zynq_sysfs_can_ip_reg_read, CallKinds, Sysfs!events
    <3>2. CASE ~Sysfs!InIp(sel.can_off)
      BY <1>0, <1>3, <1>c, <1>u, <2>1, <3>2, CallStart DEF Sysfs!zynq_sysfs_can_ip_reg_read, CallKinds, Sysfs!events
    <3> QED BY <3>1, <3>2
  <2> DEFINE race == Sysfs!At(p, "can_ip_reg") /\ ~Sysfs!InIp(sel.can_off)
  <2>2. CASE /\ Sysfs!At(p, "can_ip_reg") \/ Sysfs!At(p, "bar2")
             /\ call' = [call EXCEPT ![p] = [at |-> call[p].at, obj |-> call[p].obj, off |-> sel.can_off, go |-> TRUE,
                                             race |-> race]]
    <3>1. call' = [call EXCEPT ![p] = NewCall(call[p].at, call[p].obj, sel.can_off, TRUE, race)]
      BY <2>2 DEF NewCall
    <3>2. race \in BOOLEAN
      OBVIOUS
    <3>3. CallOk(NewCall(call[p].at, call[p].obj, sel.can_off, TRUE, race))
      BY <1>0, <1>c, <2>2 DEF CallOk, ObjectInCard, Sysfs!At, Sysfs!InRange, Sysfs!Bar2Max, Sysfs!InIp, NewCall
    <3> HIDE DEF race
    <3>4. CallsOk'
      BY <1>0, <1>c, <1>v, <3>1, <3>2, <3>3, CallSet
    <3> QED BY <1>3, <1>u, <3>4 DEF Sysfs!zynq_sysfs_can_ip_reg_read, Sysfs!events
  <2> QED BY <1>3, <2>1, <2>2 DEF Sysfs!zynq_sysfs_can_ip_reg_read
<1>4. CASE Sysfs!zynq_sysfs_chan_tx_info_show(p)
  <2>1. CASE sel.chan < CanCnt /\ Sysfs!Start(p, "tx_desc", sel.chan)
    BY <1>0, <1>4, <1>c, <1>u, <2>1, CallStart DEF Sysfs!zynq_sysfs_chan_tx_info_show, CallKinds, Sysfs!events
  <2>2. CASE Sysfs!At(p, "tx_desc") /\ Sysfs!Access(p, sel.tx_desc)
    BY <1>0, <1>4, <1>c, <1>u, <1>l, <1>v, <2>2, CallUse DEF Sysfs!zynq_sysfs_chan_tx_info_show, Sysfs!events, Sysfs!Access, Sysfs!At
  <2> QED BY <1>4, <2>1, <2>2 DEF Sysfs!zynq_sysfs_chan_tx_info_show
<1>5. CASE Sysfs!ShowChan(p)
  BY <1>0, <1>5, <1>c, <1>u, <1>t, CallUse DEF Sysfs!ShowChan, CallKinds, Sysfs!events
<1>6. CASE Sysfs!UseCan(p)
  BY <1>0, <1>6, <1>c, <1>u, <1>t, CallUse DEF Sysfs!UseCan, CallKinds, Sysfs!events
<1>7. CASE Sysfs!zynq_sysfs_cam_reg(p)
  BY <1>0, <1>7, <1>c, <1>u, <1>t, CallUse DEF Sysfs!zynq_sysfs_cam_reg, CallKinds, Sysfs!events
<1>8. CASE Sysfs!zynq_sysfs_i2c_read(p)
  BY <1>0, <1>8, <1>c, <1>u, <1>t, CallUse DEF Sysfs!zynq_sysfs_i2c_read, CallKinds, Sysfs!events
<1>9. CASE Sysfs!Return(p)
  BY <1>9, <1>c, <1>u, CallOver DEF Sysfs!Return, Sysfs!events
<1> QED BY <1>1, <1>2, <1>3, <1>4, <1>5, <1>6, <1>7, <1>8, <1>9

\* A store through a file.
LEMMA StepStore ==
    ASSUME SysfsInv, NEW p \in Procs, NEW v \in Sysfs!Numbers,
           \/ Sysfs!SetSelection(p, v) \/ Sysfs!zynq_sysfs_g_reg_set(p, v) \/ Sysfs!zynq_sysfs_chan_reg_set(p, v)
           \/ Sysfs!zynq_sysfs_can_ip_reg_set(p, v) \/ Sysfs!zynq_sysfs_i2c_write(p, v)
    PROVE  SysfsInv'
<1> USE SysfsAssumption
<1>0. v \in Nat /\ sel.can_ip \in Nat /\ sel.can_ip < CanCnt /\ sel.chan \in Nat /\ sel.chan < CanCnt + VideoCnt
  BY DEF SysfsInv, Selections, Sysfs!Numbers
<1>c. CallsOk
  BY DEF SysfsInv
<1>w. UNCHANGED call => CallsOk'
  BY <1>c DEF CallsOk, CallOk, ObjectInCard, Sysfs!InRange, Sysfs!InIp, Sysfs!ChanCnt, Sysfs!Bar2Max
<1>u. UNCHANGED <<gpspps, posted, told>> /\ sel' \in Selections /\ CallsOk' => SysfsInv'
  BY DEF SysfsInv
<1> DEFINE Ok(st, obj, o) == ObjectInCard(NewCall(st, obj, o, TRUE, FALSE)) /\ Sysfs!InRange(NewCall(st, obj, o, TRUE, FALSE))
<1>1. CASE Sysfs!SetSelection(p, v)
  BY <1>1, <1>u, <1>w, SelKept DEF Sysfs!SetSelection, Sysfs!events
<1>2. CASE Sysfs!zynq_sysfs_g_reg_set(p, v)
  <2>1. sel' \in Selections
    BY <1>0, <1>2 DEF SysfsInv, Sysfs!zynq_sysfs_g_reg_set, Sysfs!Select, Selections
  <2>2. Ok("g_reg", 0, v)
    BY <1>2 DEF ObjectInCard, Sysfs!InRange, NewCall, Sysfs!zynq_sysfs_g_reg_set
  <2>3. Sysfs!Use(p, "g_reg", 0, v) => CallsOk'
    BY <1>0, <1>c, <2>2, CallUse DEF CallKinds
  <2> QED BY <1>2, <1>u, <1>w, <2>1, <2>3 DEF Sysfs!zynq_sysfs_g_reg_set, Sysfs!events
<1>3. CASE Sysfs!zynq_sysfs_chan_reg_set(p, v)
  <2>1. sel' \in Selections
    BY <1>0, <1>3 DEF SysfsInv, Sysfs!zynq_sysfs_chan_reg_set, Sysfs!Select, Selections
  <2>2. Ok("chan_reg", sel.chan, v)
    BY <1>0, <1>3 DEF ObjectInCard, Sysfs!InRange, NewCall, Sysfs!zynq_sysfs_chan_reg_set, Sysfs!ChanCnt
  <2>3. Sysfs!Use(p, "chan_reg", sel.chan, v) => CallsOk'
    BY <1>0, <1>c, <2>2, CallUse DEF CallKinds
  <2> QED BY <1>3, <1>u, <1>w, <2>1, <2>3 DEF Sysfs!zynq_sysfs_chan_reg_set, Sysfs!events
<1>4. CASE Sysfs!zynq_sysfs_can_ip_reg_set(p, v)
  <2>1. sel' \in Selections
    BY <1>0, <1>4 DEF SysfsInv, Sysfs!zynq_sysfs_can_ip_reg_set, Sysfs!Select, Selections, Sysfs!Bar2Max
  <2>2. ASSUME Sysfs!Use(p, IF Sysfs!InIp(v) THEN "can_ip_reg" ELSE "bar2", IF Sysfs!InIp(v) THEN sel.can_ip ELSE 0, v)
        PROVE  CallsOk'
    <3>1. CASE Sysfs!InIp(v)
      <4>1. Ok("can_ip_reg", sel.can_ip, v)
        BY <1>0, <3>1 DEF ObjectInCard, Sysfs!InRange, NewCall
      <4> QED BY <1>0, <1>c, <2>2, <3>1, <4>1, CallUse DEF CallKinds
    <3>2. CASE ~Sysfs!InIp(v)
      <4>1. Ok("bar2", 0, v)
        BY <1>0, <1>4 DEF ObjectInCard, Sysfs!InRange, NewCall, Sysfs!zynq_sysfs_can_ip_reg_set
      <4> QED BY <1>0, <1>c, <2>2, <3>2, <4>1, CallUse DEF CallKinds
    <3> QED BY <3>1, <3>2
  <2> QED BY <1>4, <1>u, <1>w, <2>1, <2>2 DEF Sysfs!zynq_sysfs_can_ip_reg_set, Sysfs!events
<1>5. CASE Sysfs!zynq_sysfs_i2c_write(p, v)
  <2>1. sel' \in Selections
    BY <1>0, <1>5 DEF SysfsInv, Sysfs!zynq_sysfs_i2c_write, Sysfs!Select, Selections
  <2>2. Sysfs!Start(p, "i2c", 0) => CallsOk'
    BY <1>c, CallStart DEF CallKinds
  <2> QED BY <1>5, <1>u, <1>w, <2>1, <2>2 DEF Sysfs!zynq_sysfs_i2c_write, Sysfs!events
<1> QED BY <1>1, <1>2, <1>3, <1>4, <1>5

\* The events of GPS and PPS.
LEMMA StepEvent ==
    ASSUME SysfsInv,
           \/ Sysfs!zynq_gps_pps_changed
           \/ \E p \in Procs : Sysfs!EventWait(p) \/ Sysfs!EventTake(p) \/ Sysfs!EventReinit(p)
    PROVE  SysfsInv'
<1> USE SysfsAssumption
<1>c. CallsOk
  BY DEF SysfsInv
<1>1. CASE Sysfs!zynq_gps_pps_changed
  <2>1. CallsOk'
    BY <1>1, <1>c DEF Sysfs!zynq_gps_pps_changed, CallsOk, CallOk, ObjectInCard, Sysfs!InRange, Sysfs!InIp, Sysfs!ChanCnt, Sysfs!Bar2Max
  <2> QED BY <1>1, <2>1 DEF SysfsInv, Sysfs!zynq_gps_pps_changed
<1>2. ASSUME NEW p \in Procs, Sysfs!EventWait(p) PROVE SysfsInv'
  <2>1. CallsOk'
    BY <1>2, <1>c, CallStart DEF Sysfs!EventWait, CallKinds
  <2> QED BY <1>2, <2>1 DEF SysfsInv, Sysfs!EventWait, Sysfs!events
<1>3. ASSUME NEW p \in Procs, Sysfs!EventTake(p) PROVE SysfsInv'
  <2>1. CallsOk'
    BY <1>3, <1>c, CallStart DEF Sysfs!EventTake, CallKinds
  <2> QED BY <1>3, <2>1 DEF SysfsInv, Sysfs!EventTake
<1>4. ASSUME NEW p \in Procs, Sysfs!EventReinit(p) PROVE SysfsInv'
  <2>1. CallsOk'
    BY <1>4, <1>c, CallOver DEF Sysfs!EventReinit
  <2> QED BY <1>4, <2>1 DEF SysfsInv, Sysfs!EventReinit
<1> QED BY <1>1, <1>2, <1>3, <1>4

\* Every step of the files keeps their invariant (basa_sysfs.c).
LEMMA StepSysfs == SysfsInv /\ [Sysfs!Next]_sysfsVars => SysfsInv'
<1> SUFFICES ASSUME SysfsInv, [Sysfs!Next]_sysfsVars PROVE SysfsInv'
  OBVIOUS
<1>1. CASE Sysfs!Next
  BY <1>1, StepCall, StepStore, StepEvent
  DEF Sysfs!Next, Sysfs!zynq_sysfs_chan_rx_info_show, Sysfs!zynq_sysfs_chan_stats_show, Sysfs!zynq_sysfs_can_ip_test,
      Sysfs!zynq_sysfs_chan_pio_info_show
<1>2. CASE UNCHANGED sysfsVars
  BY <1>2 DEF sysfsVars, SysfsInv, CallsOk, CallOk, ObjectInCard, Sysfs!InRange, Sysfs!InIp, Sysfs!ChanCnt, Sysfs!Bar2Max
<1> QED BY <1>1, <1>2

\* It holds when the files are made.
LEMMA InitSysfs == Sysfs!Init => SysfsInv
<1> SUFFICES ASSUME Sysfs!Init PROVE SysfsInv
  OBVIOUS
<1> USE SysfsAssumption DEF Sysfs!Init
<1>1. sel \in Selections
  BY DEF Selections
<1>2. Sysfs!Quiet \in Call /\ CallOk(Sysfs!Quiet)
  BY DEF Sysfs!Quiet, Call, CallKinds, CallOk, ObjectInCard
<1> QED BY <1>1, <1>2 DEF SysfsInv, CallsOk
-----------------------------------------------------------------------------
(* The channels of a card: what an initialisation leaves.                  *)

\* An allocation of the receive table that fails gives back all that were made before it.
LEMMA RxFailed == ASSUME NEW held, NEW h \in Device!RxFail(held) PROVE h \subseteq held
<1> DEFINE Up(i) == UNION {Device!Page(k) : k \in 1 .. i - 1}
           Tables(i) == held \cup {<<"pdt">>, <<"ptp">>} \cup Up(i)
           Few(i, j) == {<<"buf", i, k>> : k \in 1 .. j - 1}
           Bufs(i, j) == Tables(i) \cup {<<"pt", i>>, <<"bufs", i>>} \cup Few(i, j)
           S2 == {Device!pt_alloc_fail(Tables(i), i) : i \in 1 .. PdtEntries}
           S3 == {Device!pt_alloc_fail((Tables(i) \cup {<<"pt", i>>}) \ {<<"pt", i>>}, i) : i \in 1 .. PdtEntries}
           S4 == UNION {{Device!buf_alloc_fail(Bufs(i, j), i, j) : j \in 1 .. PtEntries} : i \in 1 .. PdtEntries}
<1>1. h = held \/ h = (held \cup {<<"pdt">>}) \ {<<"pdt">>} \/ h \in S2 \/ h \in S3 \/ h \in S4
  <2>1. h \in {held, (held \cup {<<"pdt">>}) \ {<<"pdt">>}} \cup S2 \cup S3 \cup S4
    BY Zenon DEF Device!RxFail
  <2> HIDE DEF S2, S3, S4
  <2> QED BY <2>1, Zenon
<1>2. ASSUME NEW i \in 1 .. PdtEntries, NEW s, s \subseteq Tables(i) PROVE Device!pt_alloc_fail(s, i) \subseteq held
  <2>1. Device!pt_alloc_fail(s, i) = s \ (Up(i) \cup {<<"ptp">>, <<"pdt">>})
    BY Zenon DEF Device!pt_alloc_fail
  <2> HIDE DEF Up
  <2> QED BY <1>2, <2>1, Zenon
<1>3. ASSUME NEW i \in 1 .. PdtEntries, NEW j \in 1 .. PtEntries, h = Device!buf_alloc_fail(Bufs(i, j), i, j) PROVE h \subseteq held
  <2>1. Bufs(i, j) \ (Few(i, j) \cup {<<"bufs", i>>, <<"pt", i>>}) \subseteq Tables(i)
    <3> HIDE DEF Few, Tables
    <3> QED BY Zenon
  <2>2. h = Device!pt_alloc_fail(Bufs(i, j) \ (Few(i, j) \cup {<<"bufs", i>>, <<"pt", i>>}), i)
    BY <1>3, Zenon DEF Device!buf_alloc_fail
  <2> QED BY <1>2, <2>1, <2>2
<1>4. \A i \in 1 .. PdtEntries : /\ Tables(i) \subseteq Tables(i)
                                 /\ (Tables(i) \cup {<<"pt", i>>}) \ {<<"pt", i>>} \subseteq Tables(i)
  <2> HIDE DEF Tables
  <2> QED BY Zenon
<1>5. h \in S2 \/ h \in S3 => h \subseteq held
  <2> HIDE DEF Tables
  <2> QED BY <1>2, <1>4, Zenon
<1>6. h \in S4 => h \subseteq held
  <2> HIDE DEF Bufs
  <2> QED BY <1>3, Zenon
<1> HIDE DEF S2, S3, S4
<1> QED BY <1>1, <1>5, <1>6, Zenon

\* zchan_init_rx_table ends with the whole table or with what was there before.
LEMMA RxOutcome ==
    ASSUME NEW kind, NEW held, NEW o \in Device!zchan_init_rx_tbl(kind, held)
    PROVE  \/ o.ok = TRUE /\ o.held = held \cup RxThings(kind)
           \/ o.ok = FALSE /\ o.held \subseteq held
<1>1. CASE ~Device!RxOwn(kind)
  BY <1>1 DEF Device!zchan_init_rx_tbl, Device!Outcome, RxThings
<1>2. CASE Device!RxOwn(kind)
  <2>1. o = Device!Outcome(TRUE, held \cup Device!RxObjects) \/ \E h \in Device!RxFail(held) : o = Device!Outcome(FALSE, h)
    BY <1>2 DEF Device!zchan_init_rx_tbl
  <2> QED BY <1>2, <2>1, RxFailed DEF Device!Outcome, RxThings
<1> QED BY <1>1, <1>2

\* An allocation of the transmit ring that fails gives back all that were made before it.
LEMMA TxFailed == ASSUME NEW held, NEW h \in Device!TxFail(held) PROVE h \subseteq held
BY Zenon DEF Device!TxFail

\* zchan_init_tx_ring ends with the whole ring or with what was there before.
LEMMA TxOutcome ==
    ASSUME NEW kind, NEW held, NEW o \in Device!zchan_init_tx_ring(kind, held)
    PROVE  \/ o.ok = TRUE /\ o.held = held \cup TxThings(kind)
           \/ o.ok = FALSE /\ o.held \subseteq held
<1>1. CASE ~Device!TxOwn(kind)
  BY <1>1 DEF Device!zchan_init_tx_ring, Device!Outcome, TxThings
<1>2. CASE Device!TxOwn(kind)
  <2>1. o = Device!Outcome(TRUE, held \cup Device!TxObjects) \/ \E h \in Device!TxFail(held) : o = Device!Outcome(FALSE, h)
    BY <1>2 DEF Device!zchan_init_tx_ring
  <2> QED BY <1>2, <2>1, TxFailed DEF Device!Outcome, TxThings
<1> QED BY <1>1, <1>2

\* The ends of the two take all that the beginnings gave.
LEMMA RxFini == ASSUME NEW kind, NEW held PROVE Device!zchan_fini_rx_tbl(kind, held) = held \ RxThings(kind)
<1> DEFINE U == UNION {Device!Page(i) : i \in 1 .. PdtEntries}
<1>1. Device!RxObjects = {<<"pdt">>, <<"ptp">>} \cup U
  BY Zenon DEF Device!RxObjects
<1>2. Device!zchan_fini_rx_tbl(kind, held) = IF Device!RxOwn(kind) THEN held \ (U \cup {<<"ptp">>, <<"pdt">>}) ELSE held
  BY Zenon DEF Device!zchan_fini_rx_tbl
<1> HIDE DEF U
<1>3. {<<"pdt">>, <<"ptp">>} \cup U = U \cup {<<"ptp">>, <<"pdt">>} /\ held \ {} = held
  BY Zenon
<1> QED BY <1>1, <1>2, <1>3, Zenon DEF RxThings

\* zchan_fini_tx_ring takes the ring and nothing else.
LEMMA TxFini == ASSUME NEW kind, NEW held PROVE Device!zchan_fini_tx_ring(kind, held) = held \ TxThings(kind)
<1>1. held \ {} = held
  BY Zenon
<1> QED BY <1>1, Zenon DEF Device!zchan_fini_tx_ring, TxThings

\* The rings and tables of a channel: all of them or what was there before.
LEMMA DmaOutcome ==
    ASSUME NEW kind, NEW held, NEW o \in Device!zchan_init_dma(kind, held)
    PROVE  \/ o.ok = TRUE /\ o.held = held \cup RxThings(kind) \cup TxThings(kind)
           \/ o.ok = FALSE /\ o.held \subseteq held
<1>1. PICK table \in Device!zchan_init_rx_tbl(kind, held) :
        o \in (IF ~table.ok THEN {table}
               ELSE {IF tx.ok THEN tx ELSE Device!Outcome(FALSE, Device!zchan_fini_rx_tbl(kind, tx.held)) :
                       tx \in Device!zchan_init_tx_ring(kind, table.held)})
  BY Zenon DEF Device!zchan_init_dma
<1>2. \/ table.ok = TRUE /\ table.held = held \cup RxThings(kind)
      \/ table.ok = FALSE /\ table.held \subseteq held
  BY RxOutcome
<1>3. CASE table.ok = FALSE
  BY <1>1, <1>2, <1>3
<1>4. CASE table.ok = TRUE
  <2>1. PICK tx \in Device!zchan_init_tx_ring(kind, table.held) :
          o = IF tx.ok THEN tx ELSE Device!Outcome(FALSE, Device!zchan_fini_rx_tbl(kind, tx.held))
    BY <1>1, <1>4, Zenon
  <2>2. \/ tx.ok = TRUE /\ tx.held = table.held \cup TxThings(kind)
        \/ tx.ok = FALSE /\ tx.held \subseteq table.held
    BY TxOutcome
  <2>3. table.held = held \cup RxThings(kind)
    BY <1>2, <1>4
  <2>4. CASE tx.ok = TRUE
    BY <2>1, <2>2, <2>3, <2>4
  <2>5. CASE tx.ok = FALSE
    <3>1. o = Device!Outcome(FALSE, tx.held \ RxThings(kind))
      BY <2>1, <2>5, RxFini
    <3>2. o.ok = FALSE /\ o.held = tx.held \ RxThings(kind)
      BY <3>1 DEF Device!Outcome
    <3>3. tx.held \subseteq held \cup RxThings(kind)
      BY <2>2, <2>3, <2>5
    <3> QED BY <3>2, <3>3, Zenon
  <2> QED BY <2>2, <2>4, <2>5
<1> QED BY <1>2, <1>3, <1>4

\* zchan_fini_dma takes the table and the ring.
LEMMA DmaFini == ASSUME NEW kind, NEW held PROVE Device!zchan_fini_dma(kind, held) = (held \ RxThings(kind)) \ TxThings(kind)
BY RxFini, TxFini, Zenon DEF Device!zchan_fini_dma

\* What makes a channel whole: the watchdog, the objects of its own rings and tables, and its device node.
LEMMA WholeOf ==
    ASSUME NEW kind \in {"can", "video"}, NEW held,
           <<"watchdog">> \in held, Node(kind) \ {<<"vdev">>} \subseteq held, RxThings(kind) \subseteq held, TxThings(kind) \subseteq held
    PROVE  Device!WholeChan(kind, held)
<1>1. IF kind = "can" THEN {<<"cdev">>, <<"rxbuf">>} \subseteq held ELSE {<<"v4l2">>, <<"ctrls">>} \subseteq held
  BY DEF Node
<1>2. (Device!RxOwn(kind) => Device!RxObjects \subseteq held) /\ (Device!TxOwn(kind) => Device!TxObjects \subseteq held)
  BY Zenon DEF RxThings, TxThings
<1> QED BY <1>1, <1>2, Zenon DEF Device!WholeChan

\* A channel is set up whole, or nothing is left of it.
LEMMA CanInit ==
    ASSUME NEW d \in Device!zchan_init_dma("can", {}),
           NEW o \in (IF ~d.ok THEN {d}
                      ELSE {IF c.ok THEN c ELSE Device!Outcome(FALSE, Device!zchan_fini_dma("can", c.held)) : c \in Device!zcan_init(d.held)})
    PROVE  \/ o.ok = TRUE /\ o.held = Node("can") \cup RxThings("can") \cup TxThings("can")
           \/ o.ok = FALSE /\ o.held = {}
<1> DEFINE R == RxThings("can")
           T == TxThings("can")
<1>1. \/ d.ok = TRUE /\ d.held = {} \cup R \cup T
      \/ d.ok = FALSE /\ d.held \subseteq {}
  BY DmaOutcome
<1>2. CASE d.ok = FALSE
  BY <1>1, <1>2
<1>3. CASE d.ok = TRUE
  <2>1. PICK c \in Device!zcan_init(d.held) : o = IF c.ok THEN c ELSE Device!Outcome(FALSE, Device!zchan_fini_dma("can", c.held))
    BY <1>3, Zenon
  <2>2. (c.ok = TRUE /\ c.held = d.held \cup {<<"cdev">>, <<"rxbuf">>}) \/ (c.ok = FALSE /\ c.held = d.held)
    BY DEF Device!zcan_init, Device!Outcome
  <2>3. d.held = R \cup T
    BY <1>1, <1>3
  <2>4. CASE c.ok = TRUE
    <3>1. o.ok = TRUE /\ o.held = (R \cup T) \cup {<<"cdev">>, <<"rxbuf">>}
      BY <2>1, <2>2, <2>3, <2>4
    <3> HIDE DEF R, T
    <3>2. (R \cup T) \cup {<<"cdev">>, <<"rxbuf">>} = {<<"cdev">>, <<"rxbuf">>} \cup R \cup T
      BY Zenon
    <3> QED BY <3>1, <3>2 DEF Node, R, T
  <2>5. CASE c.ok = FALSE
    <3>1. o = Device!Outcome(FALSE, ((R \cup T) \ R) \ T)
      BY <2>1, <2>2, <2>3, <2>5, DmaFini
    <3> HIDE DEF R, T
    <3>2. ((R \cup T) \ R) \ T = {}
      BY Zenon
    <3> QED BY <3>1, <3>2 DEF Device!Outcome
  <2> QED BY <2>2, <2>4, <2>5
<1> QED BY <1>1, <1>2, <1>3

\* A video channel is registered whole, or its node is taken back.
LEMMA VideoInit ==
    ASSUME NEW v \in Device!zvideo_init({}),
           NEW o \in (IF ~v.ok THEN {v}
                      ELSE {IF d.ok THEN d ELSE Device!Outcome(FALSE, Device!zvideo_fini(d.held)) :
                              d \in Device!zchan_init_dma("video", v.held)})
    PROVE  \/ /\ o.ok = TRUE /\ o.held \subseteq Node("video") \cup RxThings("video") \cup TxThings("video")
              /\ Node("video") \ {<<"vdev">>} \subseteq o.held /\ RxThings("video") \subseteq o.held /\ TxThings("video") \subseteq o.held
           \/ o.ok = FALSE /\ o.held = {}
<1>1. \/ v.ok = TRUE /\ {<<"v4l2">>, <<"ctrls">>} \subseteq v.held /\ v.held \subseteq {<<"v4l2">>, <<"ctrls">>, <<"vdev">>}
      \/ v.ok = FALSE /\ v.held = {}
  BY DEF Device!zvideo_init, Device!Outcome, Device!free_hdl
<1>2. CASE v.ok = FALSE
  BY <1>1, <1>2
<1>3. CASE v.ok = TRUE
  <2>1. PICK d \in Device!zchan_init_dma("video", v.held) : o = IF d.ok THEN d ELSE Device!Outcome(FALSE, Device!zvideo_fini(d.held))
    BY <1>3, Zenon
  <2>2. \/ d.ok = TRUE /\ d.held = v.held \cup RxThings("video") \cup TxThings("video")
        \/ d.ok = FALSE /\ d.held \subseteq v.held
    BY DmaOutcome
  <2>3. {<<"v4l2">>, <<"ctrls">>} \subseteq v.held /\ v.held \subseteq {<<"v4l2">>, <<"ctrls">>, <<"vdev">>}
    BY <1>1, <1>3
  <2>4. CASE d.ok = TRUE
    BY <2>1, <2>2, <2>3, <2>4 DEF Node
  <2>5. CASE d.ok = FALSE
    <3>1. o = Device!Outcome(FALSE, d.held \ {<<"vdev">>, <<"ctrls">>, <<"v4l2">>})
      BY <2>1, <2>5 DEF Device!zvideo_fini
    <3>2. d.held \ {<<"vdev">>, <<"ctrls">>, <<"v4l2">>} = {}
      BY <2>2, <2>3, <2>5
    <3> QED BY <3>1, <3>2 DEF Device!Outcome
  <2> QED BY <2>2, <2>4, <2>5
<1> QED BY <1>1, <1>2, <1>3

\* zynq_chan_init gives a whole channel, or the channel holds what it held.
LEMMA ChanInit ==
    ASSUME NEW kind \in {"can", "video"}, NEW w \in Device!zchan_init(kind)
    PROVE  (w.ok = TRUE /\ Whole(kind, w.held)) \/ (w.ok = FALSE /\ w.held = {})
<1>1. ASSUME NEW o, w = Device!zchan_watchdog_init(o),
             \/ /\ o.ok = TRUE /\ o.held \subseteq Node(kind) \cup RxThings(kind) \cup TxThings(kind)
                /\ Node(kind) \ {<<"vdev">>} \subseteq o.held /\ RxThings(kind) \subseteq o.held /\ TxThings(kind) \subseteq o.held
             \/ o.ok = FALSE /\ o.held = {}
      PROVE  (w.ok = TRUE /\ Whole(kind, w.held)) \/ (w.ok = FALSE /\ w.held = {})
  <2>1. CASE o.ok = FALSE
    BY <1>1, <2>1 DEF Device!zchan_watchdog_init
  <2>2. CASE o.ok = TRUE
    <3>1. w.ok = TRUE /\ w.held = o.held \cup {<<"watchdog">>}
      BY <1>1, <2>2 DEF Device!zchan_watchdog_init, Device!Outcome
    <3>2. o.held \cup {<<"watchdog">>} \subseteq ChanThings(kind)
      BY <1>1, <2>2, Zenon DEF ChanThings
    <3>3. Device!WholeChan(kind, o.held \cup {<<"watchdog">>})
      BY <1>1, <2>2, WholeOf
    <3> QED BY <3>1, <3>2, <3>3 DEF Whole
  <2> QED BY <1>1, <2>1, <2>2
<1>2. CASE kind = "can"
  <2>1. PICK d \in Device!zchan_init_dma("can", {}) :
          \E o \in (IF ~d.ok THEN {d}
                    ELSE {IF c.ok THEN c ELSE Device!Outcome(FALSE, Device!zchan_fini_dma("can", c.held)) : c \in Device!zcan_init(d.held)}) :
            w = Device!zchan_watchdog_init(o)
    <3> DEFINE F(d) == IF ~d.ok THEN {d}
                       ELSE {IF c.ok THEN c ELSE Device!Outcome(FALSE, Device!zchan_fini_dma(kind, c.held)) : c \in Device!zcan_init(d.held)}
    <3>1. w \in {Device!zchan_watchdog_init(o) : o \in UNION {F(d) : d \in Device!zchan_init_dma(kind, {})}}
      BY <1>2, Zenon DEF Device!zchan_init
    <3> HIDE DEF F
    <3>2. \E d \in Device!zchan_init_dma(kind, {}) : \E o \in F(d) : w = Device!zchan_watchdog_init(o)
      BY <3>1, Zenon
    <3> QED BY <1>2, <3>2 DEF F
  <2>2. PICK o \in (IF ~d.ok THEN {d}
                    ELSE {IF c.ok THEN c ELSE Device!Outcome(FALSE, Device!zchan_fini_dma("can", c.held)) : c \in Device!zcan_init(d.held)}) :
            w = Device!zchan_watchdog_init(o)
    BY <2>1
  <2>3. \/ o.ok = TRUE /\ o.held = Node("can") \cup RxThings("can") \cup TxThings("can")
        \/ o.ok = FALSE /\ o.held = {}
    BY CanInit
  <2> QED BY <1>1, <1>2, <2>2, <2>3
<1>3. CASE kind = "video"
  <2>1. PICK v \in Device!zvideo_init({}) :
          \E o \in (IF ~v.ok THEN {v}
                    ELSE {IF d.ok THEN d ELSE Device!Outcome(FALSE, Device!zvideo_fini(d.held)) :
                            d \in Device!zchan_init_dma("video", v.held)}) :
            w = Device!zchan_watchdog_init(o)
    BY <1>3, Zenon DEF Device!zchan_init
  <2>2. PICK o \in (IF ~v.ok THEN {v}
                    ELSE {IF d.ok THEN d ELSE Device!Outcome(FALSE, Device!zvideo_fini(d.held)) :
                            d \in Device!zchan_init_dma("video", v.held)}) :
            w = Device!zchan_watchdog_init(o)
    BY <2>1
  <2>3. \/ /\ o.ok = TRUE /\ o.held \subseteq Node("video") \cup RxThings("video") \cup TxThings("video")
           /\ Node("video") \ {<<"vdev">>} \subseteq o.held /\ RxThings("video") \subseteq o.held /\ TxThings("video") \subseteq o.held
        \/ o.ok = FALSE /\ o.held = {}
    BY VideoInit
  <2> QED BY <1>1, <1>3, <2>2, <2>3
<1> QED BY <1>2, <1>3

\* The end of a channel leaves nothing.
LEMMA ChanFini ==
    ASSUME NEW kind \in {"can", "video"}, NEW held, held \subseteq ChanThings(kind)
    PROVE  Device!zchan_fini(kind, held) = {}
<1> DEFINE R == RxThings(kind)
           T == TxThings(kind)
<1>1. held \subseteq {<<"watchdog">>} \cup Node(kind) \cup R \cup T
  BY DEF ChanThings
<1>2. Device!zchan_fini(kind, held) = ((((held \ {<<"watchdog">>}) \ Node(kind)) \ R) \ T)
  <2>1. CASE kind = "can"
    BY <2>1, DmaFini DEF Device!zchan_fini, Device!zcan_fini, Node
  <2>2. CASE kind = "video"
    <3>1. Node(kind) = {<<"vdev">>, <<"ctrls">>, <<"v4l2">>}
      BY <2>2 DEF Node
    <3> QED BY <2>2, <3>1, DmaFini DEF Device!zchan_fini, Device!zvideo_fini
  <2> QED BY <2>1, <2>2
<1> HIDE DEF R, T
<1> QED BY <1>1, <1>2, Zenon
-----------------------------------------------------------------------------
(* A card as its fields, and what the steps make of them.                  *)

Fields(at, res, ch, n, nvec, vec, ta, tinit, back) ==
    [at |-> at, res |-> res, ch |-> ch, n |-> n, nvec |-> nvec, vec |-> vec, ta |-> ta, tinit |-> tinit, back |-> back]

\* The nine fields of a card decide it.
LEMMA FieldsOf ==
    ASSUME NEW c \in CardRec PROVE c = Fields(c.at, c.res, c.ch, c.n, c.nvec, c.vec, c.ta, c.tinit, c.back)
BY DEF CardRec, Fields

\* The fields of a card that goes on to another stage.
LEMMA FieldsGo ==
    \A at, res, ch, n, nvec, vec, ta, tinit, back, x :
      Device!Go(Fields(at, res, ch, n, nvec, vec, ta, tinit, back), x) = Fields(x, res, ch, n, nvec, vec, ta, tinit, back)
BY DEF Fields, Device!Go

\* The fields of a card that was given a resource.
LEMMA FieldsHold ==
    \A at, res, ch, n, nvec, vec, ta, tinit, back, x :
      Device!Hold(Fields(at, res, ch, n, nvec, vec, ta, tinit, back), x) = Fields(at, res \cup x, ch, n, nvec, vec, ta, tinit, back)
BY DEF Fields, Device!Hold

\* The fields of a card that lost a resource.
LEMMA FieldsDrop ==
    \A at, res, ch, n, nvec, vec, ta, tinit, back, x :
      Device!Drop(Fields(at, res, ch, n, nvec, vec, ta, tinit, back), x) = Fields(at, res \ x, ch, n, nvec, vec, ta, tinit, back)
BY DEF Fields, Device!Drop

\* The fields of a card that goes to a shared step and notes where that ends.
LEMMA FieldsTurn ==
    \A at, res, ch, n, nvec, vec, ta, tinit, back, s, b :
      Device!Turn(Fields(at, res, ch, n, nvec, vec, ta, tinit, back), s, b) = Fields(s, res, ch, n, nvec, vec, ta, tinit, b)
<1> TAKE at, res, ch, n, nvec, vec, ta, tinit, back, s, b
<1>1. Device!Turn(Fields(at, res, ch, n, nvec, vec, ta, tinit, back), s, b) =
        [[Fields(at, res, ch, n, nvec, vec, ta, tinit, back) EXCEPT !.at = s] EXCEPT !.back = b]
  BY DEF Device!Turn, Fields
<1>2. [Fields(at, res, ch, n, nvec, vec, ta, tinit, back) EXCEPT !.at = s] = Fields(s, res, ch, n, nvec, vec, ta, tinit, back)
  BY DEF Fields
<1>3. [Fields(s, res, ch, n, nvec, vec, ta, tinit, back) EXCEPT !.back = b] = Fields(s, res, ch, n, nvec, vec, ta, tinit, b)
  BY DEF Fields
<1> QED BY <1>1, <1>2, <1>3

\* The fields of a card whose channel was set up.
LEMMA FieldsEquip ==
    \A at, res, ch, n, nvec, vec, ta, tinit, back, h, m :
      Device!Equip(Fields(at, res, ch, n, nvec, vec, ta, tinit, back), h, m) = Fields(at, res, h, m, nvec, vec, ta, tinit, back)
<1> TAKE at, res, ch, n, nvec, vec, ta, tinit, back, h, m
<1>1. Device!Equip(Fields(at, res, ch, n, nvec, vec, ta, tinit, back), h, m) =
        [[Fields(at, res, ch, n, nvec, vec, ta, tinit, back) EXCEPT !.ch = h] EXCEPT !.n = m]
  BY DEF Device!Equip, Fields
<1>2. [Fields(at, res, ch, n, nvec, vec, ta, tinit, back) EXCEPT !.ch = h] = Fields(at, res, h, n, nvec, vec, ta, tinit, back)
  BY DEF Fields
<1>3. [Fields(at, res, h, n, nvec, vec, ta, tinit, back) EXCEPT !.n = m] = Fields(at, res, h, m, nvec, vec, ta, tinit, back)
  BY DEF Fields
<1> QED BY <1>1, <1>2, <1>3

\* The fields of a card whose vectors or tasklets changed.
LEMMA FieldsWire ==
    \A at, res, ch, n, nvec, vec, ta, tinit, back, m, v, t :
      Device!Wire(Fields(at, res, ch, n, nvec, vec, ta, tinit, back), m, v, t) = Fields(at, res, ch, n, m, v, ta, t, back)
<1> TAKE at, res, ch, n, nvec, vec, ta, tinit, back, m, v, t
<1>1. Device!Wire(Fields(at, res, ch, n, nvec, vec, ta, tinit, back), m, v, t) =
        [[[Fields(at, res, ch, n, nvec, vec, ta, tinit, back) EXCEPT !.nvec = m] EXCEPT !.vec = v] EXCEPT !.tinit = t]
  BY DEF Device!Wire, Fields
<1>2. [Fields(at, res, ch, n, nvec, vec, ta, tinit, back) EXCEPT !.nvec = m] = Fields(at, res, ch, n, m, vec, ta, tinit, back)
  BY DEF Fields
<1>3. [Fields(at, res, ch, n, m, vec, ta, tinit, back) EXCEPT !.vec = v] = Fields(at, res, ch, n, m, v, ta, tinit, back)
  BY DEF Fields
<1>4. [Fields(at, res, ch, n, m, v, ta, tinit, back) EXCEPT !.tinit = t] = Fields(at, res, ch, n, m, v, ta, t, back)
  BY DEF Fields
<1> QED BY <1>1, <1>2, <1>3, <1>4

\* The fields of a card with a tasklet that changed.
LEMMA FieldsTask ==
    \A at, res, ch, n, nvec, vec, ta, tinit, back, i, x :
      Device!Task(Fields(at, res, ch, n, nvec, vec, ta, tinit, back), i, x) = Fields(at, res, ch, n, nvec, vec, [ta EXCEPT ![i] = x], tinit, back)
BY DEF Device!Task, Fields

\* The fields of a card after err_enable_pci.
LEMMA FieldsErr1 ==
    \A at, res, ch, n, nvec, vec, ta, tinit, back :
      Device!err_enable_pci(Fields(at, res, ch, n, nvec, vec, ta, tinit, back)) =
        Fields(at, res \ {"zdev"}, ch, n, nvec, vec, ta, tinit, back)
BY FieldsDrop DEF Device!err_enable_pci

\* The fields of a card after err_ioremap_bar0 and the label below it.
LEMMA FieldsErr2 ==
    \A at, res, ch, n, nvec, vec, ta, tinit, back :
      Device!err_ioremap_bar0(Fields(at, res, ch, n, nvec, vec, ta, tinit, back)) =
        Fields(at, (res \ {"pci"}) \ {"zdev"}, ch, n, nvec, vec, ta, tinit, back)
<1> TAKE at, res, ch, n, nvec, vec, ta, tinit, back
<1> DEFINE F == Fields(at, res, ch, n, nvec, vec, ta, tinit, back)
<1>1. Device!Drop(F, {"pci"}) = Fields(at, res \ {"pci"}, ch, n, nvec, vec, ta, tinit, back)
  BY FieldsDrop
<1> HIDE DEF F
<1>2. Device!err_ioremap_bar0(F) = Device!err_enable_pci(Device!Drop(F, {"pci"}))
  BY DEF Device!err_ioremap_bar0
<1>3. Device!err_ioremap_bar0(F) = Device!err_enable_pci(Fields(at, res \ {"pci"}, ch, n, nvec, vec, ta, tinit, back))
  BY <1>1, <1>2
<1> QED BY <1>3, FieldsErr1 DEF F

\* The fields of a card after err_ioremap_bar2 and the labels below it.
LEMMA FieldsErr3 ==
    \A at, res, ch, n, nvec, vec, ta, tinit, back :
      Device!err_ioremap_bar2(Fields(at, res, ch, n, nvec, vec, ta, tinit, back)) =
        Fields(at, ((res \ {"bar0"}) \ {"pci"}) \ {"zdev"}, ch, n, nvec, vec, ta, tinit, back)
<1> TAKE at, res, ch, n, nvec, vec, ta, tinit, back
<1> DEFINE F == Fields(at, res, ch, n, nvec, vec, ta, tinit, back)
<1>1. Device!Drop(F, {"bar0"}) = Fields(at, res \ {"bar0"}, ch, n, nvec, vec, ta, tinit, back)
  BY FieldsDrop
<1> HIDE DEF F
<1>2. Device!err_ioremap_bar2(F) = Device!err_ioremap_bar0(Device!Drop(F, {"bar0"}))
  BY DEF Device!err_ioremap_bar2
<1>3. Device!err_ioremap_bar2(F) = Device!err_ioremap_bar0(Fields(at, res \ {"bar0"}, ch, n, nvec, vec, ta, tinit, back))
  BY <1>1, <1>2
<1> QED BY <1>3, FieldsErr2 DEF F

\* After the channels were ended nothing of them is left.
NoChans == [i \in 1 .. 2 |-> {}]

\* Two empty channels, as a tuple and as a function.
LEMMA TwoEmpty == <<{}, {}>> = NoChans
BY DEF NoChans
\* The first channel is CAN, the second video.
LEMMA KindOf == Device!Kinds[1] = "can" /\ Device!Kinds[2] = "video"
BY DEF Device!Kinds
\* Each channel is one or the other.
LEMMA KindIn == \A i \in 1 .. 2 : Device!Kinds[i] \in {"can", "video"}
BY KindOf
\* A card has all of its channels, or none while its firmware is updated.
LEMMA CountOf == ASSUME par \in Params PROVE Device!zynq_zdev_init \in {0, 2}
BY DEF Device!Kinds, Device!zynq_zdev_init, Params

\* The error labels from err_chan_init on, and the end of a removal.
LEMMA Unwound ==
    ASSUME par \in Params, NEW c \in CardRec,
           \A i \in 1 .. 2 : IF i <= c.n THEN Whole(Device!Kinds[i], c.ch[i]) ELSE c.ch[i] = {}
    PROVE  Device!err_chan_init(c) = Fields(c.at, c.res \ Base, NoChans, 0, c.nvec, c.vec, c.ta, c.tinit, c.back)
<1> DEFINE F == [i \in DOMAIN c.ch |-> IF i <= c.n THEN Device!zchan_fini(Device!Kinds[i], c.ch[i]) ELSE c.ch[i]]
<1>1. F = NoChans
  <2>1. DOMAIN c.ch = 1 .. 2 /\ 1 .. 2 = {1, 2}
    BY DEF CardRec
  <2>2. \A i \in 1 .. 2 : (IF i <= c.n THEN Device!zchan_fini(Device!Kinds[i], c.ch[i]) ELSE c.ch[i]) = {}
    BY <2>1, ChanFini, KindOf DEF Whole
  <2> QED BY <2>1, <2>2 DEF NoChans
<1>2. c = Fields(c.at, c.res, c.ch, c.n, c.nvec, c.vec, c.ta, c.tinit, c.back)
  BY FieldsOf
<1>3. Device!Equip(c, F, 0) = Fields(c.at, c.res, F, 0, c.nvec, c.vec, c.ta, c.tinit, c.back)
  <2> HIDE DEF F
  <2> QED BY <1>2, FieldsEquip
<1>4. Device!err_chan_init(c) = Device!err_ioremap_bar2(Device!Drop(Device!Equip(c, F, 0), {"bar2"}))
  BY DEF Device!err_chan_init
<1>5. Device!err_chan_init(c) =
        Fields(c.at, (((c.res \ {"bar2"}) \ {"bar0"}) \ {"pci"}) \ {"zdev"}, NoChans, 0, c.nvec, c.vec, c.ta, c.tinit, c.back)
  <2> HIDE DEF F
  <2>1. Device!Drop(Device!Equip(c, F, 0), {"bar2"}) =
          Fields(c.at, c.res \ {"bar2"}, NoChans, 0, c.nvec, c.vec, c.ta, c.tinit, c.back)
    BY <1>1, <1>3, FieldsDrop
  <2> QED BY <1>4, <2>1, FieldsErr3
<1>6. (((c.res \ {"bar2"}) \ {"bar0"}) \ {"pci"}) \ {"zdev"} = c.res \ Base
  BY DEF Base
<1> QED BY <1>5, <1>6

\* The end of all channels of a removal leaves nothing of them.
LEMMA Ended ==
    ASSUME par \in Params, NEW ch \in [1 .. 2 -> SUBSET Things], NEW n \in 0 .. 2, n = Device!zynq_zdev_init,
           \A i \in 1 .. 2 : IF i <= n THEN Whole(Device!Kinds[i], ch[i]) ELSE ch[i] = {}
    PROVE  [i \in DOMAIN ch |-> IF i \in Device!Chans THEN Device!zchan_fini(Device!Kinds[i], ch[i]) ELSE ch[i]] = NoChans
<1>1. DOMAIN ch = 1 .. 2 /\ 1 .. 2 = {1, 2} /\ Device!Chans = 1 .. n
  BY DEF Device!Chans
<1>2. \A i \in 1 .. 2 : (IF i \in Device!Chans THEN Device!zchan_fini(Device!Kinds[i], ch[i]) ELSE ch[i]) = {}
  BY <1>1, ChanFini, KindOf DEF Whole
<1> QED BY <1>1, <1>2 DEF NoChans

\* A step of the thread that probes or removes card k: the card is in order again, and a removal stays one until the card is free.
Follows(c, new) ==
    /\ c.at \notin Device!Idle
    /\ Removing(new) => Removing(c)
    /\ Removing(c) => Removing(new) \/ new.at = "none"
    /\ "drvdata" \in c.res => "drvdata" \in new.res

Moves(k, new) == CardOk(new) /\ card' = [card EXCEPT ![k] = new] /\ Follows(card[k], new)

\* The allocation of the card at the beginning of zynq_probe.
LEMMA AllocMoves ==
    ASSUME par \in Params, card \in [Cards -> CardRec], NEW k \in Cards, CardOk(card[k]), Device!ProbeAlloc(k)
    PROVE  \E new : Moves(k, new)
<1> DEFINE c == card[k]
           new1 == Fields("pci", {"zdev"}, c.ch, c.n, c.nvec, c.vec, c.ta, c.tinit, c.back)
           new2 == Fields("none", {}, c.ch, c.n, c.nvec, c.vec, c.ta, c.tinit, c.back)
<1>0. c \in CardRec /\ c.at = "probe" /\ c.res = {} /\ c = Fields(c.at, c.res, c.ch, c.n, c.nvec, c.vec, c.ta, c.tinit, c.back)
  BY FieldsOf DEF Device!ProbeAlloc, Device!At, CardOk, ResOk
<1>1. CASE card' = [card EXCEPT ![k] = new1]
  <2>1. CardOk(new1)
    BY <1>0 DEF CardOk, CardRec, ResOk, BackOk, ChansOk, VectorsOk, Fields, Leaving, Wired, Stages, Base
  <2> QED BY <1>0, <1>1, <2>1 DEF Moves, Follows, Fields, Removing, CardOk, BackOk, Device!Idle
<1>2. CASE card' = [card EXCEPT ![k] = new2]
  <2>1. CardOk(new2)
    BY <1>0 DEF CardOk, CardRec, ResOk, BackOk, ChansOk, VectorsOk, Fields, Leaving, Wired, Stages, Base
  <2> QED BY <1>0, <1>2, <2>1 DEF Moves, Follows, Fields, Removing, CardOk, BackOk, Device!Idle
<1>3. Device!Go(Device!Hold(c, {"zdev"}), "pci") = new1 /\ Device!Refused(c) = new2
  <2> HIDE DEF c
  <2> QED BY <1>0, FieldsGo, FieldsHold, FieldsDrop DEF Device!Refused
<1> QED BY <1>1, <1>2, <1>3 DEF Device!ProbeAlloc, Device!Put

\* A card of which nothing is left.
LEMMA GoneOk ==
    ASSUME par \in Params, NEW at \in {"none", "zombie"}, NEW ta \in [1 .. 2 -> SUBSET {"sched", "run"}], \A i \in 1 .. 2 : ta[i] = {}
    PROVE  CardOk(Fields(at, {}, NoChans, 0, 0, {}, ta, {}, "none"))
<1>1. 0 <= Device!zynq_zdev_init
  BY DEF Device!zynq_zdev_init, Device!Kinds
<1>2. NoChans \in [1 .. 2 -> SUBSET Things] /\ \A i \in 1 .. 2 : NoChans[i] = {}
  BY DEF NoChans
<1> QED BY <1>1, <1>2 DEF CardOk, CardRec, ResOk, BackOk, ChansOk, VectorsOk, Fields, Leaving, Wired, Stages

\* A card that has no channel yet holds nothing in either place.
LEMMA NoneSet ==
    ASSUME NEW c \in CardRec, ChansOk(c), c.n = 0 PROVE c.ch = NoChans
<1>1. \A i \in 1 .. 2 : c.ch[i] = {}
  BY DEF ChansOk
<1> QED BY <1>1 DEF NoChans, CardRec

\* The register spaces are mapped, or the card is freed again.
LEMMA MapMoves ==
    ASSUME par \in Params, card \in [Cards -> CardRec], NEW k \in Cards, CardOk(card[k]), Device!ProbeMap(k)
    PROVE  \E new : Moves(k, new)
<1> DEFINE c == card[k]
           new1 == Fields("chans", Base, c.ch, c.n, c.nvec, c.vec, c.ta, c.tinit, c.back)
           new2 == Fields("none", {}, c.ch, c.n, c.nvec, c.vec, c.ta, c.tinit, c.back)
<1>0. c \in CardRec /\ c.at = "pci" /\ c.res = {"zdev"} /\ c = Fields(c.at, c.res, c.ch, c.n, c.nvec, c.vec, c.ta, c.tinit, c.back)
  BY FieldsOf DEF Device!ProbeMap, Device!At, CardOk, ResOk
<1>1. CASE card' = [card EXCEPT ![k] = new1]
  <2>1. CardOk(new1)
    BY <1>0 DEF CardOk, CardRec, ResOk, BackOk, ChansOk, VectorsOk, Fields, Leaving, Wired, Stages, Base
  <2> QED BY <1>0, <1>1, <2>1 DEF Moves, Follows, Fields, Removing, CardOk, BackOk, Device!Idle
<1>2. CASE card' = [card EXCEPT ![k] = new2]
  <2>1. CardOk(new2)
    BY <1>0 DEF CardOk, CardRec, ResOk, BackOk, ChansOk, VectorsOk, Fields, Leaving, Wired, Stages, Base
  <2> QED BY <1>0, <1>2, <2>1 DEF Moves, Follows, Fields, Removing, CardOk, BackOk, Device!Idle
<1> DEFINE R(r) == Fields(c.at, r, c.ch, c.n, c.nvec, c.vec, c.ta, c.tinit, c.back)
<1>3. \A x : Device!Hold(c, x) = R({"zdev"} \cup x)
  <2> HIDE DEF c
  <2> QED BY <1>0, FieldsHold
<1>4. Device!Go(Device!Hold(c, {"pci", "bar0", "bar2"}), "chans") = new1
  <2>1. {"zdev"} \cup {"pci", "bar0", "bar2"} = Base
    BY DEF Base
  <2> HIDE DEF c
  <2> QED BY <1>3, <2>1, FieldsGo
<1>5. \A r : Device!Refused(R(r)) = Fields("none", r, c.ch, c.n, c.nvec, c.vec, c.ta, c.tinit, c.back)
  <2> HIDE DEF c
  <2> QED BY FieldsGo DEF Device!Refused
<1>6. Device!err_enable_pci(c) = R({})
  <2>1. {"zdev"} \ {"zdev"} = {}
    OBVIOUS
  <2> HIDE DEF c
  <2> QED BY <1>0, <2>1, FieldsErr1
<1>7. Device!err_ioremap_bar0(Device!Hold(c, {"pci"})) = R({})
  <2>1. (({"zdev"} \cup {"pci"}) \ {"pci"}) \ {"zdev"} = {}
    OBVIOUS
  <2> HIDE DEF c
  <2>2. Device!Hold(c, {"pci"}) = R({"zdev"} \cup {"pci"})
    BY <1>3, Zenon
  <2>3. Device!err_ioremap_bar0(R({"zdev"} \cup {"pci"})) = R((({"zdev"} \cup {"pci"}) \ {"pci"}) \ {"zdev"})
    BY FieldsErr2
  <2> HIDE DEF R
  <2> QED BY <2>1, <2>2, <2>3
<1>8. Device!err_ioremap_bar2(Device!Hold(c, {"pci", "bar0"})) = R({})
  <2>1. ((({"zdev"} \cup {"pci", "bar0"}) \ {"bar0"}) \ {"pci"}) \ {"zdev"} = {}
    OBVIOUS
  <2> HIDE DEF c
  <2>2. Device!Hold(c, {"pci", "bar0"}) = R({"zdev"} \cup {"pci", "bar0"})
    BY <1>3, Zenon
  <2>3. Device!err_ioremap_bar2(R({"zdev"} \cup {"pci", "bar0"})) = R(((({"zdev"} \cup {"pci", "bar0"}) \ {"bar0"}) \ {"pci"}) \ {"zdev"})
    BY FieldsErr3
  <2> HIDE DEF R
  <2> QED BY <2>1, <2>2, <2>3
<1>9. \/ card' = [card EXCEPT ![k] = Device!Go(Device!Hold(c, {"pci", "bar0", "bar2"}), "chans")]
      \/ card' = [card EXCEPT ![k] = Device!Refused(Device!err_enable_pci(c))]
      \/ card' = [card EXCEPT ![k] = Device!Refused(Device!err_ioremap_bar0(Device!Hold(c, {"pci"})))]
      \/ card' = [card EXCEPT ![k] = Device!Refused(Device!err_ioremap_bar2(Device!Hold(c, {"pci", "bar0"})))]
  BY DEF Device!ProbeMap, Device!Put
<1>10. card' = [card EXCEPT ![k] = new1] \/ card' = [card EXCEPT ![k] = new2]
  <2> HIDE DEF c, R
  <2> QED BY <1>4, <1>5, <1>6, <1>7, <1>8, <1>9
<1> QED BY <1>1, <1>2, <1>10

\* One channel is set up, or all before it are ended.
LEMMA ChanMoves ==
    ASSUME par \in Params, card \in [Cards -> CardRec], NEW k \in Cards, CardOk(card[k]), Device!ProbeChan(k)
    PROVE  \E new : Moves(k, new)
<1> DEFINE c == card[k]
           next == c.n + 1
<1>0. c \in CardRec /\ c.at = "chans" /\ c.res = Base /\ c.n \in 0 .. 2 /\ c.back = "none" /\ ~Removing(c) /\ c.at \notin Device!Idle
  BY DEF Device!ProbeChan, Device!At, CardOk, ResOk, BackOk, CardRec, Removing, Device!Idle
<1>1. ASSUME next \in Device!Chans, NEW o \in Device!zchan_init(Device!Kinds[next]), o.ok = TRUE,
             card' = [card EXCEPT ![k] = Device!Equip(c, [c.ch EXCEPT ![next] = o.held], next)]
      PROVE  \E new : Moves(k, new)
  <2> DEFINE ch == [c.ch EXCEPT ![next] = o.held]
             new == Fields("chans", Base, ch, next, c.nvec, c.vec, c.ta, c.tinit, "none")
  <2>1. next \in 1 .. 2 /\ next <= Device!zynq_zdev_init
    BY <1>0, <1>1, CountOf DEF Device!Chans
  <2>2. Whole(Device!Kinds[next], o.held)
    <3>1. Device!Kinds[next] \in {"can", "video"} /\ o.ok = TRUE
      BY <1>1, <2>1, KindIn
    <3> HIDE DEF next
    <3> QED BY <3>1, ChanInit
  <2>3. o.held \subseteq Things
    BY <2>1, <2>2, KindOf DEF Things, Whole
  <2>4. ch \in [1 .. 2 -> SUBSET Things] /\ \A i \in 1 .. 2 : IF i <= next THEN Whole(Device!Kinds[i], ch[i]) ELSE ch[i] = {}
    BY <1>0, <2>1, <2>2, <2>3 DEF CardOk, CardRec, ChansOk
  <2>5. CardOk(new)
    <3> HIDE DEF ch, next
    <3> QED BY <1>0, <2>1, <2>4 DEF CardOk, CardRec, ResOk, BackOk, ChansOk, VectorsOk, Fields, Leaving, Wired, Stages, Base
  <2>6. Device!Equip(c, ch, next) = new
    <3>1. c = Fields("chans", Base, c.ch, c.n, c.nvec, c.vec, c.ta, c.tinit, "none")
      BY <1>0, FieldsOf
    <3> HIDE DEF c, ch, next
    <3> QED BY <3>1, FieldsEquip
  <2>7. Follows(c, new)
    BY <1>0 DEF Follows, Fields, Removing, Base
  <2> HIDE DEF new
  <2> QED BY <1>1, <2>5, <2>6, <2>7 DEF Moves
<1>2. ASSUME next \in Device!Chans, NEW o \in Device!zchan_init(Device!Kinds[next]), o.ok = FALSE,
             card' = [card EXCEPT ![k] = Device!Accepted(Device!err_chan_init(Device!Equip(c, [c.ch EXCEPT ![next] = o.held], c.n)))]
      PROVE  \E new : Moves(k, new)
  <2> DEFINE new == Fields("zombie", {}, NoChans, 0, 0, {}, c.ta, {}, "none")
  <2>1. next \in 1 .. 2
    BY <1>0, <1>2, CountOf DEF Device!Chans
  <2>2. o.held = {} /\ c.ch[next] = {}
    <3>1. Device!Kinds[next] \in {"can", "video"} /\ o.ok = FALSE
      BY <1>2, <2>1, KindIn
    <3>2. c.ch[next] = {}
      BY <1>0, <2>1 DEF CardOk, ChansOk
    <3> HIDE DEF next
    <3> QED BY <3>1, <3>2, ChanInit
  <2>3. Device!Equip(c, [c.ch EXCEPT ![next] = o.held], c.n) = c
    <3>1. [c.ch EXCEPT ![next] = o.held] = c.ch
      BY <1>0, <2>1, <2>2 DEF CardRec
    <3>2. c = Fields(c.at, c.res, c.ch, c.n, c.nvec, c.vec, c.ta, c.tinit, c.back)
      BY <1>0, FieldsOf
    <3> HIDE DEF c, next
    <3>3. Device!Equip(c, c.ch, c.n) = c
      BY <3>2, FieldsEquip
    <3> QED BY <3>1, <3>3
  <2>4. /\ c.nvec = 0 /\ c.vec = {} /\ c.tinit = {} /\ c.ta \in [1 .. 2 -> SUBSET {"sched", "run"}] /\ \A i \in 1 .. 2 : c.ta[i] = {}
        /\ \A i \in 1 .. 2 : IF i <= c.n THEN Whole(Device!Kinds[i], c.ch[i]) ELSE c.ch[i] = {}
    BY <1>0 DEF CardOk, VectorsOk, Wired, Leaving, CardRec, ChansOk
  <2>5. Device!err_chan_init(c) = Fields("chans", {}, NoChans, 0, 0, {}, c.ta, {}, "none")
    <3> HIDE DEF c
    <3>1. Base \ Base = {}
      OBVIOUS
    <3> QED BY <1>0, <2>4, <3>1, Unwound
  <2>6. card' = [card EXCEPT ![k] = new]
    <3> HIDE DEF c
    <3>1. card' = [card EXCEPT ![k] = Device!Accepted(Device!err_chan_init(c))]
      BY <1>2, <2>3
    <3>2. Device!Accepted(Fields("chans", {}, NoChans, 0, 0, {}, c.ta, {}, "none")) = new
      BY FieldsGo DEF Device!Accepted
    <3> HIDE DEF new
    <3> QED BY <2>5, <3>1, <3>2
  <2>7. CardOk(new)
    BY <2>4, GoneOk
  <2> QED BY <1>0, <2>6, <2>7 DEF Moves, Follows, Fields, Removing, Base
<1>3. ASSUME next \notin Device!Chans, card' = [card EXCEPT ![k] = Device!Go(c, "vectors")] PROVE \E new : Moves(k, new)
  <2> DEFINE new == Fields("vectors", Base, c.ch, c.n, c.nvec, c.vec, c.ta, c.tinit, "none")
  <2>1. c.n = Device!zynq_zdev_init
    BY <1>0, <1>3, CountOf DEF Device!Chans, CardOk, ChansOk
  <2>2. CardOk(new)
    BY <1>0, <2>1 DEF CardOk, CardRec, ResOk, BackOk, ChansOk, VectorsOk, Fields, Leaving, Wired, Stages, Base
  <2>3. Device!Go(c, "vectors") = new
    <3>1. c = Fields("chans", Base, c.ch, c.n, c.nvec, c.vec, c.ta, c.tinit, "none")
      BY <1>0, FieldsOf
    <3>2. Device!Go(Fields("chans", Base, c.ch, c.n, c.nvec, c.vec, c.ta, c.tinit, "none"), "vectors") = new
      <4> HIDE DEF c
      <4> QED BY FieldsGo
    <3> HIDE DEF c, new
    <3> QED BY <3>1, <3>2
  <2> QED BY <1>0, <1>3, <2>2, <2>3 DEF Moves, Follows, Fields, Removing, Base
<1>4. \A o \in Device!zchan_init(Device!Kinds[next]) : next \in Device!Chans => o.ok \in BOOLEAN
  <2>1. next \in Device!Chans => Device!Kinds[next] \in {"can", "video"}
    BY <1>0, CountOf, KindIn DEF Device!Chans
  <2> HIDE DEF next
  <2> QED BY <2>1, ChanInit
<1> QED BY <1>1, <1>2, <1>3, <1>4 DEF Device!ProbeChan, Device!Put

\* zynq_alloc_irq takes MSI-X, MSI or the shared line.
LEMMA VectorsMoves ==
    ASSUME par \in Params, card \in [Cards -> CardRec], NEW k \in Cards, CardOk(card[k]), Device!ProbeVectors(k)
    PROVE  \E new : Moves(k, new)
<1> DEFINE c == card[k]
<1>0. c \in CardRec /\ c.at = "vectors" /\ c.res = Base /\ c.back = "none" /\ c.vec = {} /\ ~Removing(c) /\ c.at \notin Device!Idle
  BY DEF Device!ProbeVectors, Device!At, CardOk, ResOk, BackOk, VectorsOk, Wired, Leaving, CardRec, Removing, Device!Idle
<1>1. PICK v \in Device!zdev_enable_msix \cup {Device!zdev_enable_msi, <<1, {}>>} :
        card' = [card EXCEPT ![k] = Device!Wire(Device!Go(Device!Hold(c, v[2]), "request"), v[1], {}, Device!zdev_init_tasklet(v[1]))]
  BY DEF Device!ProbeVectors, Device!Put
<1> DEFINE m == v[1]
           w == v[2]
           t == Device!zdev_init_tasklet(m)
           new == Fields("request", Base \cup w, c.ch, c.n, m, {}, c.ta, t, "none")
<1>2. /\ m \in {1, 2} /\ (par.fw => m = 1) /\ w \subseteq Vectors /\ (m = 2 => "msix" \in w)
      /\ t \subseteq 1 .. 2
  <2>1. Device!zynq_zdev_init = IF par.fw THEN 0 ELSE 2
    BY DEF Device!zynq_zdev_init, Device!Kinds
  <2>2. m \in {1, 2} /\ (par.fw => m = 1) /\ w \subseteq Vectors /\ (m = 2 => "msix" \in w)
    BY <2>1 DEF Device!zdev_enable_msix, Device!zdev_enable_msi, Vectors
  <2>3. t \subseteq 1 .. 2
    BY CountOf DEF Device!zdev_init_tasklet, Device!Chans
  <2> QED BY <2>2, <2>3
<1>3. CardOk(new)
  <2> HIDE DEF m, w
  <2>1. \A i \in 1 .. 2 : c.ta[i] = {}
    BY <1>0 DEF CardOk, VectorsOk, Wired, Leaving
  <2>2. new \in CardRec
    BY <1>0, <1>2 DEF CardRec, Fields, Stages
  <2>3. ResOk(new) /\ BackOk(new)
    BY <1>0, <1>2 DEF ResOk, BackOk, Fields, Leaving, Base, Vectors
  <2>4. ChansOk(new)
    BY <1>0 DEF CardOk, ChansOk, Fields, Leaving
  <2>5. VectorsOk(new)
    BY <1>0, <1>2, <2>1 DEF VectorsOk, Fields, Leaving, Wired
  <2> QED BY <2>2, <2>3, <2>4, <2>5 DEF CardOk
<1>4. card' = [card EXCEPT ![k] = new]
  <2>1. c = Fields("vectors", Base, c.ch, c.n, c.nvec, {}, c.ta, c.tinit, "none")
    BY <1>0, FieldsOf
  <2> HIDE DEF c, m, w, t
  <2>2. Device!Hold(c, w) = Fields("vectors", Base \cup w, c.ch, c.n, c.nvec, {}, c.ta, c.tinit, "none")
    BY <2>1, FieldsHold
  <2>3. Device!Go(Device!Hold(c, w), "request") = Fields("request", Base \cup w, c.ch, c.n, c.nvec, {}, c.ta, c.tinit, "none")
    BY <2>2, FieldsGo
  <2>4. Device!Wire(Device!Go(Device!Hold(c, w), "request"), m, {}, t) = new
    BY <2>3, FieldsWire
  <2>5. card' = [card EXCEPT ![k] = Device!Wire(Device!Go(Device!Hold(c, w), "request"), m, {}, t)]
    BY <1>1 DEF m, w, t
  <2> HIDE DEF new
  <2> QED BY <2>4, <2>5
<1> QED BY <1>0, <1>3, <1>4 DEF Moves, Follows, Fields, Removing, Base

\* The vectors are requested and freed, and the tasklets killed, in order.
LEMMA FirstOf ==
    ASSUME NEW s, s \subseteq 1 .. 2, s # {}
    PROVE  Device!First(s) \in s /\ \A j \in s : Device!First(s) <= j
<1>1. \E i \in s : \A j \in s : i <= j
  <2>1. CASE 1 \in s
    BY <2>1
  <2>2. CASE 1 \notin s
    <3>1. 1 .. 2 = {1, 2}
      OBVIOUS
    <3>2. s = {2}
      BY <2>2, <3>1, Zenon
    <3> QED BY <3>2
  <2> QED BY <2>1, <2>2
<1> QED BY <1>1 DEF Device!First

\* One vector is requested, or all before it are freed.
LEMMA RequestMoves ==
    ASSUME par \in Params, card \in [Cards -> CardRec], NEW k \in Cards, CardOk(card[k]), Device!RequestIrq(k)
    PROVE  \E new : Moves(k, new)
<1> DEFINE c == card[k]
           rest == (1 .. c.nvec) \ c.vec
           all == {"msix", "msixp", "msi"}
<1>0. /\ c \in CardRec /\ c.at = "request" /\ Base \subseteq c.res /\ c.res \subseteq Base \cup Vectors /\ c.back = "none"
      /\ ~Removing(c) /\ c.at \notin Device!Idle
      /\ c.nvec \in {1, 2} /\ c.vec \subseteq 1 .. c.nvec /\ (2 \in c.vec => 1 \in c.vec)
  BY DEF Device!RequestIrq, Device!At, CardOk, ResOk, BackOk, VectorsOk, Wired, Leaving, CardRec, Removing, Device!Idle
<1>e. c = Fields("request", c.res, c.ch, c.n, c.nvec, c.vec, c.ta, c.tinit, "none")
  BY <1>0, FieldsOf
<1>v. rest # {} => Device!First(rest) \in rest /\ (2 \in c.vec \cup {Device!First(rest)} => 1 \in c.vec \cup {Device!First(rest)})
  <2>1. rest \subseteq 1 .. 2
    BY <1>0
  <2>2. rest # {} => Device!First(rest) \in rest /\ \A j \in rest : Device!First(rest) <= j
    <3> HIDE DEF rest
    <3> QED BY <2>1, FirstOf
  <2> QED BY <1>0, <2>2
<1>1. ASSUME rest = {}, card' = [card EXCEPT ![k] = Device!Go(c, "kobj")] PROVE \E new : Moves(k, new)
  <2> DEFINE new == Fields("kobj", c.res, c.ch, c.n, c.nvec, c.vec, c.ta, c.tinit, "none")
  <2>1. c.vec = 1 .. c.nvec
    BY <1>0, <1>1
  <2>2. CardOk(new)
    <3>2. new \in CardRec
      BY <1>0 DEF CardRec, Fields, Stages
    <3>3. ResOk(new) /\ BackOk(new)
      BY <1>0 DEF ResOk, BackOk, Fields, Leaving, Base, Vectors
    <3>4. ChansOk(new)
      BY <1>0 DEF CardOk, ChansOk, Fields, Leaving
    <3>5. VectorsOk(new)
      BY <1>0, <2>1 DEF CardOk, VectorsOk, Fields, Leaving, Wired
    <3> QED BY <3>2, <3>3, <3>4, <3>5 DEF CardOk
  <2>3. Device!Go(c, "kobj") = new
    <3> HIDE DEF c
    <3> QED BY <1>e, FieldsGo
  <2> QED BY <1>0, <1>1, <2>2, <2>3 DEF Moves, Follows, Fields, Removing, Base, Vectors
<1>2. ASSUME rest # {}, card' = [card EXCEPT ![k] = Device!Wire(c, c.nvec, c.vec \cup {Device!First(rest)}, c.tinit)]
      PROVE  \E new : Moves(k, new)
  <2> DEFINE w == c.vec \cup {Device!First(rest)}
             new == Fields("request", c.res, c.ch, c.n, c.nvec, w, c.ta, c.tinit, "none")
  <2>1. w \subseteq 1 .. c.nvec /\ w # {} /\ (2 \in w => 1 \in w)
    BY <1>0, <1>2, <1>v
  <2>2. CardOk(new)
    <3> HIDE DEF w
    <3>2. new \in CardRec
      BY <1>0, <2>1 DEF CardRec, Fields, Stages
    <3>3. ResOk(new) /\ BackOk(new)
      BY <1>0 DEF ResOk, BackOk, Fields, Leaving, Base, Vectors
    <3>4. ChansOk(new)
      BY <1>0 DEF CardOk, ChansOk, Fields, Leaving
    <3>5. VectorsOk(new)
      BY <1>0, <2>1 DEF CardOk, VectorsOk, Fields, Leaving, Wired
    <3> QED BY <3>2, <3>3, <3>4, <3>5 DEF CardOk
  <2>3. Device!Wire(c, c.nvec, w, c.tinit) = new
    <3> HIDE DEF c, w
    <3> QED BY <1>e, FieldsWire
  <2> QED BY <1>0, <1>2, <2>2, <2>3 DEF Moves, Follows, Fields, Removing, Base, Vectors
<1>3. ASSUME rest # {}, card' = [card EXCEPT ![k] = Device!Accepted(Device!err_chan_init(Device!Drop(Device!Wire(c, 0, {}, {}), all)))]
      PROVE  \E new : Moves(k, new)
  <2> DEFINE f == Fields("request", c.res, c.ch, c.n, 0, {}, c.ta, {}, "none")
             g == Fields("request", c.res \ all, c.ch, c.n, 0, {}, c.ta, {}, "none")
             new == Fields("zombie", {}, NoChans, 0, 0, {}, c.ta, {}, "none")
  <2>1. Device!Wire(c, 0, {}, {}) = f
    <3> HIDE DEF c
    <3> QED BY <1>e, FieldsWire
  <2>2. Device!Drop(f, all) = g
    <3> HIDE DEF c
    <3> QED BY FieldsDrop
  <2>3. g \in CardRec /\ \A i \in 1 .. 2 : IF i <= g.n THEN Whole(Device!Kinds[i], g.ch[i]) ELSE g.ch[i] = {}
    BY <1>0 DEF CardOk, CardRec, ChansOk, Fields, Stages
  <2>4. Device!err_chan_init(g) = Fields("request", {}, NoChans, 0, 0, {}, c.ta, {}, "none")
    <3>1. (c.res \ all) \ Base = {}
      BY <1>0 DEF Vectors
    <3>2. /\ g.at = "request" /\ g.res = c.res \ all /\ g.nvec = 0 /\ g.vec = {} /\ g.ta = c.ta /\ g.tinit = {} /\ g.back = "none"
      BY DEF Fields
    <3> HIDE DEF g
    <3> QED BY <2>3, <3>1, <3>2, Unwound
  <2>5. Device!Accepted(Fields("request", {}, NoChans, 0, 0, {}, c.ta, {}, "none")) = new
    BY FieldsGo DEF Device!Accepted
  <2>6. card' = [card EXCEPT ![k] = new]
    <3> HIDE DEF new, f, g, all
    <3> QED BY <1>3, <2>1, <2>2, <2>4, <2>5
  <2>7. c.ta \in [1 .. 2 -> SUBSET {"sched", "run"}] /\ \A i \in 1 .. 2 : c.ta[i] = {}
    <3>1. c.nvec = 1 => c.vec = {}
      BY <1>0, <1>3
    <3> QED BY <1>0, <3>1 DEF CardOk, VectorsOk, CardRec
  <2>8. CardOk(new)
    BY <2>7, GoneOk
  <2> QED BY <1>0, <2>6, <2>8 DEF Moves, Follows, Fields, Removing, Base, Vectors
<1> QED BY <1>1, <1>2, <1>3 DEF Device!RequestIrq, Device!Put

\* A card whose interrupts are to be freed.
LEMMA FreeOk ==
    ASSUME par \in Params, NEW c, CardOk(c), c.at \in {"kobj", "finish"} \/ Leaving(c),
           NEW r, NEW b \in {"none", "zombie", "remove"},
           Base \subseteq r, r \subseteq Base \cup Vectors \cup {"drvdata"}, "drvdata" \in r <=> b = "remove"
    PROVE  CardOk(Fields("free_irq", r, c.ch, c.n, c.nvec, c.vec, c.ta, c.tinit, b))
<1> DEFINE new == Fields("free_irq", r, c.ch, c.n, c.nvec, c.vec, c.ta, c.tinit, b)
<1>1. new \in CardRec
  <2>1. r \in SUBSET (Base \cup Vectors \cup Device!WholeCard)
    BY DEF Device!WholeCard
  <2> QED BY <2>1 DEF CardOk, CardRec, Fields, Stages
<1>2. ResOk(new) /\ BackOk(new)
  BY DEF ResOk, BackOk, Fields, Leaving
<1>3. ChansOk(new)
  BY DEF CardOk, ChansOk, Fields, Leaving
<1>4. VectorsOk(new)
  BY DEF CardOk, VectorsOk, Fields, Leaving, Wired
<1> QED BY <1>1, <1>2, <1>3, <1>4 DEF CardOk

\* A card that was requested may be sent to free its interrupts.
LEMMA TurnFree ==
    ASSUME NEW c, NEW a, NEW r, NEW h, NEW n, NEW m, NEW v, NEW t, NEW u, NEW b0, c = Fields(a, r, h, n, m, v, t, u, b0), NEW b
    PROVE  Device!err_sysfs_init(c, b) = Fields("free_irq", r, h, n, m, v, t, u, b)
BY FieldsTurn DEF Device!err_sysfs_init

AllCdevs == {"fw", "reg", "i2c", "trigger", "gps"}

\* The files of the card are made, or its interrupts are freed again.
LEMMA FilesMoves ==
    ASSUME par \in Params, card \in [Cards -> CardRec], NEW k \in Cards, CardOk(card[k]), Device!ProbeFiles(k)
    PROVE  \E new : Moves(k, new)
<1> DEFINE c == card[k]
<1>0. /\ c \in CardRec /\ c.at = "kobj" /\ Base \subseteq c.res /\ c.res \subseteq Base \cup Vectors /\ c.back = "none"
      /\ ~Removing(c) /\ c.at \notin Device!Idle /\ "drvdata" \notin c.res
  BY DEF Device!ProbeFiles, Device!At, CardOk, ResOk, BackOk, CardRec, Removing, Device!Idle, Base, Vectors
<1>e. c = Fields("kobj", c.res, c.ch, c.n, c.nvec, c.vec, c.ta, c.tinit, "none")
  BY <1>0, FieldsOf
<1>1. ASSUME card' = [card EXCEPT ![k] = Device!Go(Device!Hold(c, {"kobj"} \cup Device!cdevs \cup {"master"}), "finish")]
      PROVE  \E new : Moves(k, new)
  <2> DEFINE x == {"kobj"} \cup Device!cdevs \cup {"master"}
             r == c.res \cup x
             new == Fields("finish", r, c.ch, c.n, c.nvec, c.vec, c.ta, c.tinit, "none")
  <2>1. Base \cup Files \subseteq r /\ r \subseteq Base \cup Files \cup Vectors /\ r \subseteq Base \cup Vectors \cup Device!WholeCard
    BY <1>0 DEF Files, Device!WholeCard
  <2>2. r \cap {"msix", "msi"} # {} => c.res \cap {"msix", "msi"} # {}
    BY DEF Device!cdevs
  <2>3. CardOk(new)
    <3> HIDE DEF r
    <3>1. new \in CardRec
      BY <1>0, <2>1 DEF CardRec, Fields, Stages
    <3>2. ResOk(new) /\ BackOk(new)
      BY <1>0, <2>1 DEF ResOk, BackOk, Fields, Leaving
    <3>3. ChansOk(new)
      BY <1>0 DEF CardOk, ChansOk, Fields, Leaving
    <3>4. VectorsOk(new)
      BY <1>0, <2>2 DEF CardOk, VectorsOk, Fields, Leaving, Wired
    <3> QED BY <3>1, <3>2, <3>3, <3>4 DEF CardOk
  <2>4. Device!Go(Device!Hold(c, x), "finish") = new
    <3> HIDE DEF c, x
    <3>1. Device!Hold(c, x) = Fields("kobj", r, c.ch, c.n, c.nvec, c.vec, c.ta, c.tinit, "none")
      BY <1>e, FieldsHold
    <3> QED BY <3>1, FieldsGo
  <2>5. Follows(c, new)
    BY <1>0 DEF Follows, Fields, Removing
  <2> HIDE DEF new, r
  <2> QED BY <1>1, <2>3, <2>4, <2>5 DEF Moves
<1> DEFINE new == Fields("free_irq", c.res, c.ch, c.n, c.nvec, c.vec, c.ta, c.tinit, "zombie")
<1>2. ASSUME card' = [card EXCEPT ![k] = new] PROVE \E x : Moves(k, x)
  <2>1. CardOk(new)
    <3>1. CardOk(c) /\ Base \subseteq c.res /\ c.res \subseteq Base \cup Vectors \cup {"drvdata"} /\ ("drvdata" \in c.res <=> "zombie" = "remove")
          /\ c.at \in {"kobj", "finish"}
      BY <1>0
    <3> HIDE DEF c
    <3> QED BY <3>1, FreeOk
  <2>2. Follows(c, new)
    BY <1>0 DEF Follows, Fields, Removing
  <2> HIDE DEF new
  <2> QED BY <1>2, <2>1, <2>2 DEF Moves
<1>3. Device!err_sysfs_init(c, "zombie") = new
  <2> HIDE DEF c
  <2> QED BY <1>e, TurnFree
<1>4. ASSUME NEW made \in SUBSET Device!cdevs
      PROVE  Device!err_sysfs_init(Device!err_create_cdev(Device!zynq_destroy_cdev_all(Device!Hold(c, {"kobj"} \cup made))), "zombie") = new
  <2> DEFINE r1 == c.res \cup ({"kobj"} \cup made)
             R(r) == Fields("kobj", r, c.ch, c.n, c.nvec, c.vec, c.ta, c.tinit, "none")
  <2>1. (r1 \ AllCdevs) \ {"kobj"} = c.res
    BY <1>0 DEF AllCdevs, Device!cdevs, Base, Vectors
  <2> HIDE DEF c
  <2>2. Device!Hold(c, {"kobj"} \cup made) = R(r1)
    BY <1>e, FieldsHold
  <2> HIDE DEF r1
  <2>3. Device!zynq_destroy_cdev_all(R(r1)) = R(r1 \ AllCdevs)
    BY FieldsDrop DEF Device!zynq_destroy_cdev_all, AllCdevs
  <2>4. Device!err_create_cdev(R(r1 \ AllCdevs)) = R((r1 \ AllCdevs) \ {"kobj"})
    BY FieldsDrop DEF Device!err_create_cdev
  <2>5. Device!err_sysfs_init(R(c.res), "zombie") = new
    BY TurnFree
  <2> HIDE DEF R, new
  <2> QED BY <2>1, <2>2, <2>3, <2>4, <2>5
<1> HIDE DEF new
<1> QED BY <1>1, <1>2, <1>3, <1>4 DEF Device!ProbeFiles, Device!Put

\* The end of a probe: all is there, or the interrupts are freed again.
LEMMA FinishMoves ==
    ASSUME par \in Params, card \in [Cards -> CardRec], NEW k \in Cards, CardOk(card[k]), Device!ProbeFinish(k)
    PROVE  \E new : /\ Moves(k, new)
                    /\ \/ "drvdata" \in new.res /\ list' = list \cup {k} /\ unbound' = unbound \ {k}
                       \/ UNCHANGED <<list, unbound>>
<1> DEFINE c == card[k]
<1>0. /\ c \in CardRec /\ c.at = "finish" /\ Base \cup Files \subseteq c.res /\ c.res \subseteq Base \cup Files \cup Vectors /\ c.back = "none"
      /\ ~Removing(c) /\ c.at \notin Device!Idle
  BY DEF Device!ProbeFinish, Device!At, CardOk, ResOk, BackOk, CardRec, Removing, Device!Idle
<1>d. "drvdata" \notin c.res
  BY <1>0 DEF Base, Files, Vectors, Device!cdevs
<1>e. c = Fields("finish", c.res, c.ch, c.n, c.nvec, c.vec, c.ta, c.tinit, "none")
  BY <1>0, FieldsOf
<1>1. ASSUME card' = [card EXCEPT ![k] = Device!Go(Device!Hold(c, {"drvdata", "gps"} \cup Device!zdev_enable_intr_all), "up")]
      PROVE  \E new : Moves(k, new) /\ "drvdata" \in new.res
  <2> DEFINE x == {"drvdata", "gps"} \cup Device!zdev_enable_intr_all
             r == c.res \cup x
             new == Fields("up", r, c.ch, c.n, c.nvec, c.vec, c.ta, c.tinit, "none")
  <2>1. Device!WholeCard \subseteq r /\ r \subseteq Base \cup Vectors \cup Device!WholeCard /\ "drvdata" \in r
    BY <1>0 DEF Files, Base, Device!WholeCard, Device!zdev_enable_intr_all
  <2>3. CardOk(new)
    <3> HIDE DEF r
    <3>1. new \in CardRec
      BY <1>0, <2>1 DEF CardRec, Fields, Stages
    <3>2. ResOk(new) /\ BackOk(new)
      BY <1>0, <2>1 DEF ResOk, BackOk, Fields, Leaving
    <3>3. ChansOk(new)
      BY <1>0 DEF CardOk, ChansOk, Fields, Leaving
    <3>4. VectorsOk(new)
      BY <1>0 DEF CardOk, VectorsOk, Fields, Leaving, Wired
    <3> QED BY <3>1, <3>2, <3>3, <3>4 DEF CardOk
  <2>4. Device!Go(Device!Hold(c, x), "up") = new
    <3> HIDE DEF c, x
    <3>1. Device!Hold(c, x) = Fields("finish", r, c.ch, c.n, c.nvec, c.vec, c.ta, c.tinit, "none")
      BY <1>e, FieldsHold
    <3> QED BY <3>1, FieldsGo
  <2>5. Follows(c, new) /\ "drvdata" \in new.res
    BY <1>0, <2>1 DEF Follows, Fields, Removing
  <2> HIDE DEF new, r
  <2> QED BY <1>1, <2>3, <2>4, <2>5 DEF Moves
<1>2. ASSUME card' = [card EXCEPT ![k] = Device!err_sysfs_init(Device!err_dma_mask(c), "none")] PROVE \E new : Moves(k, new)
  <2> DEFINE r == ((c.res \ {"master"}) \ AllCdevs) \ {"kobj"}
             R(x) == Fields("finish", x, c.ch, c.n, c.nvec, c.vec, c.ta, c.tinit, "none")
             new == Fields("free_irq", r, c.ch, c.n, c.nvec, c.vec, c.ta, c.tinit, "none")
  <2>1. Base \subseteq r /\ r \subseteq Base \cup Vectors \cup {"drvdata"} /\ "drvdata" \notin r
    BY <1>0, <1>d DEF Base, Files, Vectors, AllCdevs, Device!cdevs
  <2>2. CardOk(new)
    <3>1. CardOk(c) /\ c.at \in {"kobj", "finish"}
      BY <1>0
    <3> HIDE DEF c, r
    <3> QED BY <2>1, <3>1, FreeOk
  <2>3. Follows(c, new)
    BY <1>0, <1>d DEF Follows, Fields, Removing
  <2>4. Device!err_sysfs_init(Device!err_dma_mask(c), "none") = new
    <3> HIDE DEF c
    <3>1. Device!Drop(c, {"master"}) = R(c.res \ {"master"})
      BY <1>e, FieldsDrop
    <3>2. Device!zynq_destroy_cdev_all(R(c.res \ {"master"})) = R((c.res \ {"master"}) \ AllCdevs)
      BY FieldsDrop DEF Device!zynq_destroy_cdev_all, AllCdevs
    <3>3. Device!err_create_cdev(R((c.res \ {"master"}) \ AllCdevs)) = R(r)
      BY FieldsDrop DEF Device!err_create_cdev
    <3>4. Device!err_sysfs_init(R(r), "none") = new
      BY TurnFree
    <3>5. Device!err_dma_mask(c) = Device!err_create_cdev(Device!zynq_destroy_cdev_all(Device!Drop(c, {"master"})))
      BY DEF Device!err_dma_mask
    <3> HIDE DEF R, new, r
    <3> QED BY <3>1, <3>2, <3>3, <3>4, <3>5
  <2> HIDE DEF new
  <2> QED BY <1>2, <2>2, <2>3, <2>4 DEF Moves
<1>3. \/ /\ card' = [card EXCEPT ![k] = Device!Go(Device!Hold(c, {"drvdata", "gps"} \cup Device!zdev_enable_intr_all), "up")]
         /\ list' = list \cup {k} /\ unbound' = unbound \ {k}
      \/ /\ card' = [card EXCEPT ![k] = Device!err_sysfs_init(Device!err_dma_mask(c), "none")]
         /\ list' = list /\ unbound' = unbound
  BY DEF Device!ProbeFinish, Device!Put
<1> QED BY <1>1, <1>2, <1>3

\* zynq_remove begins with the files and masks the interrupts.
LEMMA RemoveMoves ==
    ASSUME par \in Params, card \in [Cards -> CardRec], NEW k \in Cards, CardOk(card[k]), Device!zynq_remove(k)
    PROVE  \E new : Moves(k, new)
<1> DEFINE c == card[k]
<1>0. c \in CardRec /\ c.at = "remove" /\ c.back = "none" /\ Removing(c) /\ c.at \notin Device!Idle
  BY DEF Device!zynq_remove, Device!At, CardOk, BackOk, Removing, Device!Idle
<1>e. c = Fields("remove", c.res, c.ch, c.n, c.nvec, c.vec, c.ta, c.tinit, "none")
  BY <1>0, FieldsOf
<1>1. ASSUME "drvdata" \notin c.res, card' = [card EXCEPT ![k] = Device!Go(c, "none")] PROVE \E new : Moves(k, new)
  <2> DEFINE new == Fields("none", {}, c.ch, c.n, c.nvec, c.vec, c.ta, c.tinit, "none")
  <2>1. c.res = {}
    BY <1>0, <1>1 DEF CardOk, ResOk, Leaving, Device!WholeCard
  <2>2. CardOk(new)
    BY <1>0, <2>1 DEF CardOk, CardRec, ResOk, BackOk, ChansOk, VectorsOk, Fields, Leaving, Wired, Stages
  <2>3. Device!Go(c, "none") = new
    <3> HIDE DEF c
    <3> QED BY <1>e, <2>1, FieldsGo
  <2>4. Follows(c, new)
    BY <1>0, <1>1 DEF Follows, Fields, Removing
  <2> HIDE DEF new
  <2> QED BY <1>1, <2>2, <2>3, <2>4 DEF Moves
<1>2. ASSUME "drvdata" \in c.res,
             card' = [card EXCEPT ![k] = Device!err_sysfs_init(
                        Device!Drop(Device!zynq_destroy_cdev_all(Device!Drop(c, {"gps", "unmasked"})), {"master", "kobj"}), "remove")]
      PROVE  \E new : Moves(k, new)
  <2> DEFINE r1 == c.res \ {"gps", "unmasked"}
             r2 == r1 \ AllCdevs
             r == r2 \ {"master", "kobj"}
             R(x) == Fields("remove", x, c.ch, c.n, c.nvec, c.vec, c.ta, c.tinit, "none")
             new == Fields("free_irq", r, c.ch, c.n, c.nvec, c.vec, c.ta, c.tinit, "remove")
  <2>1. c.res \subseteq Base \cup Vectors \cup Device!WholeCard /\ Leaving(c) /\ Device!WholeCard \subseteq c.res
    BY <1>0, <1>2 DEF CardRec, Leaving, CardOk, ResOk
  <2>2. Base \subseteq r /\ r \subseteq Base \cup Vectors \cup {"drvdata"} /\ "drvdata" \in r
    BY <1>2, <2>1 DEF Base, Vectors, AllCdevs, Device!WholeCard, Device!cdevs
  <2>3. CardOk(new)
    <3> HIDE DEF c, r
    <3> QED BY <2>1, <2>2, FreeOk DEF c
  <2>4. Follows(c, new)
    BY <1>0, <2>2 DEF Follows, Fields, Removing
  <2>5. Device!err_sysfs_init(Device!Drop(Device!zynq_destroy_cdev_all(Device!Drop(c, {"gps", "unmasked"})), {"master", "kobj"}), "remove") = new
    <3> HIDE DEF c
    <3>1. Device!Drop(c, {"gps", "unmasked"}) = R(r1)
      BY <1>e, FieldsDrop
    <3> HIDE DEF r1
    <3>2. Device!zynq_destroy_cdev_all(R(r1)) = R(r2)
      BY FieldsDrop DEF Device!zynq_destroy_cdev_all, AllCdevs
    <3> HIDE DEF r2
    <3>3. Device!Drop(R(r2), {"master", "kobj"}) = R(r)
      BY FieldsDrop
    <3>4. Device!err_sysfs_init(R(r), "remove") = new
      BY TurnFree
    <3> HIDE DEF R, new, r
    <3> QED BY <3>1, <3>2, <3>3, <3>4
  <2> HIDE DEF new
  <2> QED BY <1>2, <2>3, <2>4, <2>5 DEF Moves
<1> QED BY <1>1, <1>2 DEF Device!zynq_remove, Device!Put

\* One vector is freed.
LEMMA FreeMoves ==
    ASSUME par \in Params, card \in [Cards -> CardRec], NEW k \in Cards, CardOk(card[k]), Device!zynq_free_irq(k)
    PROVE  \E new : Moves(k, new)
<1> DEFINE c == card[k]
<1>0. /\ c \in CardRec /\ c.at = "free_irq" /\ c.at \notin Device!Idle /\ Base \subseteq c.res /\ c.res \subseteq Base \cup Vectors \cup {"drvdata"}
      /\ ("drvdata" \in c.res <=> c.back = "remove") /\ c.vec \subseteq 1 .. 2
  BY DEF Device!zynq_free_irq, Device!At, CardOk, ResOk, CardRec, Device!Idle
<1>e. c = Fields("free_irq", c.res, c.ch, c.n, c.nvec, c.vec, c.ta, c.tinit, c.back)
  BY <1>0, FieldsOf
<1>1. ASSUME c.vec # {}, card' = [card EXCEPT ![k] = Device!Wire(c, c.nvec, c.vec \ {Device!First(c.vec)}, c.tinit)]
      PROVE  \E new : Moves(k, new)
  <2> DEFINE w == c.vec \ {Device!First(c.vec)}
             new == Fields("free_irq", c.res, c.ch, c.n, c.nvec, w, c.ta, c.tinit, c.back)
  <2>1. w \subseteq c.vec
    OBVIOUS
  <2>2. CardOk(new)
    <3> HIDE DEF w
    <3>1. new \in CardRec
      BY <1>0, <2>1 DEF CardRec, Fields, Stages
    <3>2. ResOk(new) /\ BackOk(new)
      BY <1>0 DEF ResOk, BackOk, Fields, Leaving
    <3>3. ChansOk(new)
      BY <1>0 DEF CardOk, ChansOk, Fields, Leaving
    <3>4. VectorsOk(new)
      BY <1>0, <2>1 DEF CardOk, VectorsOk, Fields, Leaving, Wired
    <3> QED BY <3>1, <3>2, <3>3, <3>4 DEF CardOk
  <2>3. Device!Wire(c, c.nvec, w, c.tinit) = new
    <3> HIDE DEF c, w
    <3> QED BY <1>e, FieldsWire
  <2>4. Follows(c, new)
    BY <1>0 DEF Follows, Fields, Removing
  <2> HIDE DEF new
  <2> QED BY <1>1, <2>2, <2>3, <2>4 DEF Moves
<1>2. ASSUME c.vec = {}, card' = [card EXCEPT ![k] = Device!Go(Device!Drop(c, {"msix", "msi"}), "kill")] PROVE \E new : Moves(k, new)
  <2> DEFINE r == c.res \ {"msix", "msi"}
             new == Fields("kill", r, c.ch, c.n, c.nvec, c.vec, c.ta, c.tinit, c.back)
  <2>1. Base \subseteq r /\ r \subseteq c.res /\ ("drvdata" \in r <=> "drvdata" \in c.res)
    BY <1>0 DEF Base
  <2>2. CardOk(new)
    <3> HIDE DEF r
    <3>1. new \in CardRec
      BY <1>0, <2>1 DEF CardRec, Fields, Stages
    <3>2. ResOk(new) /\ BackOk(new)
      BY <1>0, <2>1 DEF ResOk, BackOk, Fields, Leaving
    <3>3. ChansOk(new)
      BY <1>0 DEF CardOk, ChansOk, Fields, Leaving
    <3>4. VectorsOk(new)
      BY <1>0, <1>2 DEF CardOk, VectorsOk, Fields, Leaving, Wired
    <3> QED BY <3>1, <3>2, <3>3, <3>4 DEF CardOk
  <2>3. Device!Go(Device!Drop(c, {"msix", "msi"}), "kill") = new
    <3> HIDE DEF c
    <3>1. Device!Drop(c, {"msix", "msi"}) = Fields("free_irq", r, c.ch, c.n, c.nvec, c.vec, c.ta, c.tinit, c.back)
      BY <1>e, FieldsDrop
    <3> QED BY <3>1, FieldsGo
  <2>4. Follows(c, new)
    BY <1>0, <2>1 DEF Follows, Fields, Removing
  <2> HIDE DEF new
  <2> QED BY <1>2, <2>2, <2>3, <2>4 DEF Moves
<1> QED BY <1>1, <1>2 DEF Device!zynq_free_irq, Device!Put

\* One tasklet is killed, when it does not run.
LEMMA KillMoves ==
    ASSUME par \in Params, card \in [Cards -> CardRec], NEW k \in Cards, CardOk(card[k]), Device!zdev_fini_tasklet(k)
    PROVE  \E new : Moves(k, new)
<1> DEFINE c == card[k]
           all == {"msixp", "msix", "msi"}
<1>0. /\ c \in CardRec /\ c.at = "kill" /\ c.at \notin Device!Idle /\ Base \subseteq c.res /\ c.res \subseteq Base \cup Vectors \cup {"drvdata"}
      /\ ("drvdata" \in c.res <=> c.back = "remove") /\ c.tinit \subseteq 1 .. 2
  BY DEF Device!zdev_fini_tasklet, Device!At, CardOk, ResOk, CardRec, Device!Idle
<1>e. c = Fields("kill", c.res, c.ch, c.n, c.nvec, c.vec, c.ta, c.tinit, c.back)
  BY <1>0, FieldsOf
<1>1. ASSUME c.tinit # {}, c.ta[Device!First(c.tinit)] = {},
             card' = [card EXCEPT ![k] = Device!Wire(c, c.nvec, c.vec, c.tinit \ {Device!First(c.tinit)})]
      PROVE  \E new : Moves(k, new)
  <2> DEFINE i0 == Device!First(c.tinit)
             w == c.tinit \ {i0}
             new == Fields("kill", c.res, c.ch, c.n, c.nvec, c.vec, c.ta, w, c.back)
  <2>1. w \subseteq c.tinit /\ \A i \in 1 .. 2 : c.ta[i] # {} /\ i \in c.tinit => i \in w
    BY <1>1
  <2>2. CardOk(new)
    <3> HIDE DEF w
    <3>1. new \in CardRec
      BY <1>0, <2>1 DEF CardRec, Fields, Stages
    <3>2. ResOk(new) /\ BackOk(new)
      BY <1>0 DEF ResOk, BackOk, Fields, Leaving
    <3>3. ChansOk(new)
      BY <1>0 DEF CardOk, ChansOk, Fields, Leaving
    <3>4. VectorsOk(new)
      BY <1>0, <2>1 DEF CardOk, VectorsOk, Fields, Leaving, Wired
    <3> QED BY <3>1, <3>2, <3>3, <3>4 DEF CardOk
  <2>3. Device!Wire(c, c.nvec, c.vec, w) = new
    <3> HIDE DEF c, w
    <3> QED BY <1>e, FieldsWire
  <2>4. Follows(c, new)
    BY <1>0 DEF Follows, Fields, Removing
  <2> HIDE DEF new
  <2> QED BY <1>1, <2>2, <2>3, <2>4 DEF Moves
<1>2. ASSUME c.tinit = {},
             card' = [card EXCEPT ![k] = Device!Go(Device!Drop(Device!Wire(c, 0, {}, {}), all), IF c.back = "remove" THEN "fini" ELSE "unwind")]
      PROVE  \E new : Moves(k, new)
  <2> DEFINE r == c.res \ all
             s == IF c.back = "remove" THEN "fini" ELSE "unwind"
             new == Fields(s, r, c.ch, c.n, 0, {}, c.ta, {}, c.back)
  <2>1. r = (IF c.back = "remove" THEN Base \cup {"drvdata"} ELSE Base)
    BY <1>0 DEF Base, Vectors
  <2>2. \A i \in 1 .. 2 : c.ta[i] = {}
    BY <1>0, <1>2 DEF CardOk, VectorsOk
  <2>3. CardOk(new)
    <3> HIDE DEF r
    <3>1. new \in CardRec
      BY <1>0, <2>1 DEF CardRec, Fields, Stages, Device!WholeCard
    <3>2. ResOk(new) /\ BackOk(new)
      BY <1>0, <2>1 DEF ResOk, BackOk, Fields, Leaving
    <3>3. ChansOk(new)
      BY <1>0 DEF CardOk, ChansOk, Fields, Leaving
    <3>4. VectorsOk(new)
      BY <1>0, <2>2 DEF VectorsOk, Fields, Leaving, Wired
    <3> QED BY <3>1, <3>2, <3>3, <3>4 DEF CardOk
  <2>4. Device!Go(Device!Drop(Device!Wire(c, 0, {}, {}), all), s) = new
    <3> HIDE DEF c, s
    <3>1. Device!Wire(c, 0, {}, {}) = Fields("kill", c.res, c.ch, c.n, 0, {}, c.ta, {}, c.back)
      BY <1>e, FieldsWire
    <3>2. Device!Drop(Device!Wire(c, 0, {}, {}), all) = Fields("kill", r, c.ch, c.n, 0, {}, c.ta, {}, c.back)
      BY <3>1, FieldsDrop
    <3> QED BY <3>2, FieldsGo
  <2>5. Follows(c, new)
    <3>1. "drvdata" \in c.res => "drvdata" \in r
      BY <1>0, <2>1
    <3> HIDE DEF r
    <3> QED BY <1>0, <3>1 DEF Follows, Fields, Removing
  <2> HIDE DEF new
  <2> QED BY <1>2, <2>3, <2>4, <2>5 DEF Moves
<1> QED BY <1>1, <1>2 DEF Device!zdev_fini_tasklet, Device!Put

\* The error labels end the channels and unmap the card.
LEMMA UnwindMoves ==
    ASSUME par \in Params, card \in [Cards -> CardRec], NEW k \in Cards, CardOk(card[k]), Device!Unwind(k)
    PROVE  \E new : Moves(k, new)
<1> DEFINE c == card[k]
           new == Fields(c.back, {}, NoChans, 0, 0, {}, c.ta, {}, "none")
<1>0. /\ c \in CardRec /\ c.at = "unwind" /\ c.at \notin Device!Idle /\ c.res = Base /\ c.back \in {"none", "zombie"} /\ ~Removing(c)
      /\ c.nvec = 0 /\ c.vec = {} /\ c.tinit = {} /\ c.ta \in [1 .. 2 -> SUBSET {"sched", "run"}]
      /\ \A i \in 1 .. 2 : c.ta[i] = {}
      /\ \A i \in 1 .. 2 : IF i <= c.n THEN Whole(Device!Kinds[i], c.ch[i]) ELSE c.ch[i] = {}
  BY DEF Device!Unwind, Device!At, CardOk, ResOk, CardRec, Device!Idle, BackOk, Removing, VectorsOk, Wired, Leaving, ChansOk
<1>1. Device!err_chan_init(c) = Fields("unwind", {}, NoChans, 0, 0, {}, c.ta, {}, c.back)
  <2>1. Base \ Base = {}
    OBVIOUS
  <2> HIDE DEF c
  <2> QED BY <1>0, <2>1, Unwound
<1>2. Device!Turn(Device!err_chan_init(c), c.back, "none") = new
  <2> HIDE DEF c
  <2> QED BY <1>1, FieldsTurn
<1>3. CardOk(new)
  <2> HIDE DEF c
  <2> QED BY <1>0, GoneOk
<1>4. Follows(c, new)
  BY <1>0 DEF Follows, Fields, Removing, Base
<1>5. card' = [card EXCEPT ![k] = Device!Turn(Device!err_chan_init(c), c.back, "none")]
  BY DEF Device!Unwind, Device!Put
<1> HIDE DEF new
<1> QED BY <1>2, <1>3, <1>4, <1>5 DEF Moves

\* The end of a removal: the card is free.
LEMMA EndMoves ==
    ASSUME par \in Params, card \in [Cards -> CardRec], NEW k \in Cards, CardOk(card[k]), Device!RemoveEnd(k)
    PROVE  \E new : CardOk(new) /\ card' = [card EXCEPT ![k] = new] /\ new.at = "none" /\ ~Removing(new) /\ card[k].at = "fini"
<1> DEFINE c == card[k]
           ch == [i \in DOMAIN c.ch |-> IF i \in Device!Chans THEN Device!zchan_fini(Device!Kinds[i], c.ch[i]) ELSE c.ch[i]]
           all == {"bar2", "bar0", "pci", "drvdata", "zdev"}
           new == Fields("none", {}, NoChans, 0, 0, {}, c.ta, {}, "none")
<1>0. /\ c \in CardRec /\ c.at = "fini" /\ c.res = Base \cup {"drvdata"}
      /\ c.nvec = 0 /\ c.vec = {} /\ c.tinit = {} /\ c.ta \in [1 .. 2 -> SUBSET {"sched", "run"}]
      /\ \A i \in 1 .. 2 : c.ta[i] = {}
      /\ \A i \in 1 .. 2 : IF i <= c.n THEN Whole(Device!Kinds[i], c.ch[i]) ELSE c.ch[i] = {}
      /\ c.n = Device!zynq_zdev_init /\ c.n \in 0 .. 2 /\ c.ch \in [1 .. 2 -> SUBSET Things]
  BY DEF Device!RemoveEnd, Device!At, CardOk, ResOk, CardRec, VectorsOk, Wired, Leaving, ChansOk
<1>1. ch = NoChans
  <2> HIDE DEF c
  <2> QED BY <1>0, Ended
<1>2. Device!Turn(Device!Drop(Device!Equip(c, ch, 0), all), "none", "none") = new
  <2>1. (Base \cup {"drvdata"}) \ all = {}
    BY DEF Base
  <2>2. c = Fields("fini", Base \cup {"drvdata"}, c.ch, c.n, 0, {}, c.ta, {}, c.back)
    BY <1>0, FieldsOf
  <2> HIDE DEF c, ch
  <2>3. Device!Equip(c, ch, 0) = Fields("fini", Base \cup {"drvdata"}, NoChans, 0, 0, {}, c.ta, {}, c.back)
    BY <1>1, <2>2, FieldsEquip
  <2>4. Device!Drop(Device!Equip(c, ch, 0), all) = Fields("fini", {}, NoChans, 0, 0, {}, c.ta, {}, c.back)
    BY <2>1, <2>3, FieldsDrop
  <2> QED BY <2>4, FieldsTurn
<1>3. CardOk(new)
  <2> HIDE DEF c
  <2> QED BY <1>0, GoneOk
<1>4. new.at = "none" /\ ~Removing(new)
  BY DEF Fields, Removing
<1>5. card' = [card EXCEPT ![k] = Device!Turn(Device!Drop(Device!Equip(c, ch, 0), all), "none", "none")]
  BY DEF Device!RemoveEnd, Device!Put
<1> HIDE DEF new, ch
<1> QED BY <1>0, <1>2, <1>3, <1>4, <1>5

\* An interrupt, a tasklet or the watchdog: the card stays where it is and keeps what it has.
Stays(k, new) ==
    /\ CardOk(new) /\ card' = [card EXCEPT ![k] = new]
    /\ new.at = card[k].at /\ new.back = card[k].back /\ new.res = card[k].res

\* A tasklet begins or ends.
LEMMA TaskStays ==
    ASSUME par \in Params, card \in [Cards -> CardRec], NEW k \in Cards, CardOk(card[k]), NEW i \in 1 .. 2, NEW x \in SUBSET {"sched", "run"},
           card' = [card EXCEPT ![k] = Device!Task(card[k], i, x)],
           x # {} => \/ card[k].ta[i] # {}
                     \/ i \in card[k].vec /\ ~par.fw /\ ("unmasked" \in card[k].res \/ card[k].res \cap {"msix", "msi"} = {})
    PROVE  \E new : Stays(k, new)
<1> DEFINE c == card[k]
           ta == [c.ta EXCEPT ![i] = x]
           new == Fields(c.at, c.res, c.ch, c.n, c.nvec, c.vec, ta, c.tinit, c.back)
<1>0. c \in CardRec /\ c = Fields(c.at, c.res, c.ch, c.n, c.nvec, c.vec, c.ta, c.tinit, c.back)
  BY FieldsOf
<1>1. ta \in [1 .. 2 -> SUBSET {"sched", "run"}] /\ \A j \in 1 .. 2 : ta[j] = IF j = i THEN x ELSE c.ta[j]
  BY <1>0 DEF CardRec
<1>2. ASSUME x # {}, c.ta[i] = {}
      PROVE  /\ i \in c.tinit /\ ~par.fw /\ Wired(c) /\ c.vec # {} /\ c.at # "kill"
             /\ ~(c.at \in {"request", "kobj", "finish"} /\ c.res \cap {"msix", "msi"} # {})
  <2>1. i \in c.vec /\ ~par.fw /\ ("unmasked" \in c.res \/ c.res \cap {"msix", "msi"} = {})
    BY <1>2
  <2>2. Wired(c) /\ c.vec # {} /\ c.at # "kill" /\ c.tinit = Device!zdev_init_tasklet(c.nvec) /\ i \in 1 .. c.nvec /\ c.nvec \in {1, 2}
    BY <2>1 DEF CardOk, VectorsOk
  <2>3. i \in c.tinit
    <3>1. Device!Chans = 1 .. 2
      BY <2>1 DEF Device!Chans, Device!zynq_zdev_init, Device!Kinds
    <3> QED BY <2>2, <3>1 DEF Device!zdev_init_tasklet
  <2>4. c.at \in {"request", "kobj", "finish"} => "unmasked" \notin c.res
    BY DEF CardOk, ResOk, Base, Vectors, Files, Device!cdevs
  <2> QED BY <2>1, <2>2, <2>3, <2>4
<1>3. CardOk(new)
  <2> HIDE DEF ta
  <2>1. new \in CardRec
    BY <1>0, <1>1 DEF CardRec, Fields
  <2>2. ResOk(new) /\ BackOk(new)
    BY DEF CardOk, ResOk, BackOk, Fields, Leaving
  <2>3. ChansOk(new)
    BY DEF CardOk, ChansOk, Fields, Leaving
  <2>4. VectorsOk(new)
    <3>1. CASE x = {}
      BY <1>1, <3>1 DEF CardOk, VectorsOk, Fields, Leaving, Wired
    <3>2. CASE x # {} /\ c.ta[i] # {}
      BY <1>1, <3>2 DEF CardOk, VectorsOk, Fields, Leaving, Wired
    <3>3. CASE x # {} /\ c.ta[i] = {}
      <4>1. /\ i \in c.tinit /\ ~par.fw /\ Wired(c) /\ c.vec # {} /\ c.at # "kill"
            /\ ~(c.at \in {"request", "kobj", "finish"} /\ c.res \cap {"msix", "msi"} # {})
        BY <1>2, <3>3
      <4> QED BY <1>1, <4>1 DEF CardOk, VectorsOk, Fields, Leaving, Wired
    <3> QED BY <3>1, <3>2, <3>3
  <2> QED BY <2>1, <2>2, <2>3, <2>4 DEF CardOk
<1>4. Device!Task(c, i, x) = new
  <2> HIDE DEF c
  <2> QED BY <1>0, FieldsTask
<1>5. new.at = c.at /\ new.back = c.back /\ new.res = c.res
  BY DEF Fields
<1> HIDE DEF new, ta
<1> QED BY <1>3, <1>4, <1>5 DEF Stays

\* The watchdog registers or unregisters the video device.
LEMMA LinkStays ==
    ASSUME par \in Params, card \in [Cards -> CardRec], NEW k \in Cards, CardOk(card[k]), Device!zvideo_link_change(k)
    PROVE  \E new : Stays(k, new)
<1> DEFINE c == card[k]
<1>0. c \in CardRec /\ c.n = 2 /\ c = Fields(c.at, c.res, c.ch, c.n, c.nvec, c.vec, c.ta, c.tinit, c.back)
  BY FieldsOf DEF Device!zvideo_link_change
<1>1. PICK held \in {c.ch[2] \cup {<<"vdev">>}, c.ch[2] \ {<<"vdev">>}} :
        card' = [card EXCEPT ![k] = Device!Equip(c, [c.ch EXCEPT ![2] = held], c.n)]
  BY DEF Device!zvideo_link_change, Device!Put
<1> DEFINE ch == [c.ch EXCEPT ![2] = held]
           new == Fields(c.at, c.res, ch, c.n, c.nvec, c.vec, c.ta, c.tinit, c.back)
<1>2. Whole("video", c.ch[2])
  BY <1>0, KindOf DEF CardOk, ChansOk
<1>3. Whole("video", held)
  <2> DEFINE R == Device!RxObjects
             T == Device!TxObjects
  <2>1. <<"vdev">> \notin {<<"watchdog">>, <<"v4l2">>, <<"ctrls">>}
    OBVIOUS
  <2>2. <<"vdev">> \notin R
    BY DEF Device!RxObjects, Device!Page
  <2>3. <<"vdev">> \notin T
    BY DEF Device!TxObjects
  <2>4. <<"vdev">> \in ChanThings("video")
    BY DEF ChanThings, Node
  <2>5. held \subseteq ChanThings("video")
    BY <1>2, <2>4 DEF Whole
  <2>6. <<"watchdog">> \in held /\ {<<"v4l2">>, <<"ctrls">>} \subseteq held
    BY <1>2, <2>1 DEF Whole, Device!WholeChan
  <2>7. (Device!RxOwn("video") => R \subseteq held) /\ (Device!TxOwn("video") => T \subseteq held)
    <3>1. (Device!RxOwn("video") => R \subseteq c.ch[2]) /\ (Device!TxOwn("video") => T \subseteq c.ch[2])
      BY <1>2 DEF Whole, Device!WholeChan
    <3> HIDE DEF R, T, c
    <3> QED BY <2>2, <2>3, <3>1
  <2> QED BY <2>5, <2>6, <2>7 DEF Whole, Device!WholeChan
<1>4. /\ ch \in [1 .. 2 -> SUBSET Things]
      /\ \A i \in 1 .. 2 : ch[i] = IF i = 2 THEN held ELSE c.ch[i]
  <2>1. held \subseteq Things
    BY <1>3 DEF Whole, Things
  <2> HIDE DEF Things
  <2> QED BY <1>0, <2>1 DEF CardRec
<1>5. CardOk(new)
  <2> HIDE DEF ch
  <2>1. new \in CardRec
    BY <1>0, <1>4 DEF CardRec, Fields
  <2>2. ResOk(new) /\ BackOk(new)
    BY DEF CardOk, ResOk, BackOk, Fields, Leaving
  <2>3. ChansOk(new)
    BY <1>0, <1>3, <1>4, KindOf DEF CardOk, ChansOk, Fields, Leaving
  <2>4. VectorsOk(new)
    BY DEF CardOk, VectorsOk, Fields, Leaving, Wired
  <2> QED BY <2>1, <2>2, <2>3, <2>4 DEF CardOk
<1>6. Device!Equip(c, ch, c.n) = new
  <2> HIDE DEF c, ch
  <2> QED BY <1>0, FieldsEquip
<1>7. new.at = c.at /\ new.back = c.back /\ new.res = c.res
  BY DEF Fields
<1> HIDE DEF new, ch
<1> QED BY <1>1, <1>5, <1>6, <1>7 DEF Stays, ch

\* Bind and unbind.
LEMMA BoundOk ==
    ASSUME par \in Params, NEW c, CardOk(c)
    PROVE  /\ c.at = "none" => CardOk(Device!Go(c, "probe"))
           /\ c.at \in {"up", "zombie"} => CardOk(Device!Go(c, "remove"))
           /\ \A s : Device!Go(c, s).at = s /\ Device!Go(c, s).back = c.back /\ Device!Go(c, s).res = c.res
<1>0. c \in CardRec /\ c = Fields(c.at, c.res, c.ch, c.n, c.nvec, c.vec, c.ta, c.tinit, c.back)
  BY FieldsOf DEF CardOk
<1>1. \A s : Device!Go(c, s) = Fields(s, c.res, c.ch, c.n, c.nvec, c.vec, c.ta, c.tinit, c.back)
  BY <1>0, FieldsGo
<1>2. ASSUME NEW s \in {"probe", "remove"}, IF s = "probe" THEN c.at = "none" ELSE c.at \in {"up", "zombie"}
      PROVE  CardOk(Fields(s, c.res, c.ch, c.n, c.nvec, c.vec, c.ta, c.tinit, c.back))
  <2> DEFINE new == Fields(s, c.res, c.ch, c.n, c.nvec, c.vec, c.ta, c.tinit, c.back)
  <2>0. c.at = "up" => c.res # {}
    BY DEF CardOk, ResOk, Device!WholeCard
  <2>1. new \in CardRec
    BY <1>0 DEF CardRec, Fields, Stages
  <2>2. ResOk(new) /\ BackOk(new)
    BY <1>2 DEF CardOk, ResOk, BackOk, Fields, Leaving
  <2>3. ChansOk(new)
    BY <1>2, <2>0 DEF CardOk, ChansOk, ResOk, Fields, Leaving
  <2>4. VectorsOk(new)
    BY <1>2, <2>0 DEF CardOk, VectorsOk, ResOk, Fields, Leaving, Wired
  <2> QED BY <2>1, <2>2, <2>3, <2>4 DEF CardOk
<1>3. \A s : LET f == Fields(s, c.res, c.ch, c.n, c.nvec, c.vec, c.ta, c.tinit, c.back) IN f.at = s /\ f.back = c.back /\ f.res = c.res
  BY DEF Fields
<1> QED BY <1>1, <1>2, <1>3
-----------------------------------------------------------------------------
(* The module and all its cards.                                           *)

\* The parameters of the module do not change, and what they decide does not either.
LEMMA ParKept == ASSUME UNCHANGED par PROVE \A c : CardOk(c)' <=> CardOk(c)
<1>1. \A kind : RxThings(kind)' = RxThings(kind) /\ TxThings(kind)' = TxThings(kind)
  BY Zenon DEF RxThings, TxThings, Device!RxOwn, Device!TxOwn
<1>2. \A kind : ChanThings(kind)' = ChanThings(kind)
  BY <1>1, Zenon DEF ChanThings
<1>3. \A kind, held : Whole(kind, held)' <=> Whole(kind, held)
  <2>1. \A kind, held : Device!WholeChan(kind, held)' <=> Device!WholeChan(kind, held)
    BY Zenon DEF Device!WholeChan, Device!RxOwn, Device!TxOwn
  <2> QED BY <1>2, <2>1 DEF Whole
<1>4. Device!cdevs' = Device!cdevs /\ Device!zynq_zdev_init' = Device!zynq_zdev_init
  BY Zenon DEF Device!cdevs, Device!zynq_zdev_init
<1>5. Device!WholeCard' = Device!WholeCard /\ Files' = Files /\ \A n : Device!zdev_init_tasklet(n)' = Device!zdev_init_tasklet(n)
  BY <1>4, Zenon DEF Device!WholeCard, Files, Device!zdev_init_tasklet, Device!Chans
<1>6. Things' = Things
  BY <1>2, Zenon DEF Things
<1>7. CardRec' = CardRec
  BY <1>5, <1>6, Zenon DEF CardRec
<1>8. \A c : ResOk(c)' <=> ResOk(c)
  BY <1>5, Zenon DEF ResOk
<1>9. \A c : ChansOk(c)' <=> ChansOk(c)
  BY <1>3, <1>4 DEF ChansOk
<1>10. \A c : VectorsOk(c)' <=> VectorsOk(c)
  BY <1>5 DEF VectorsOk
<1> QED BY <1>7, <1>8, <1>9, <1>10, Zenon DEF CardOk

\* One card changes.
LEMMA CardPut ==
    ASSUME UNCHANGED par, CardsOk, NEW k \in Cards, NEW new, CardOk(new), card' = [card EXCEPT ![k] = new]
    PROVE  CardsOk' /\ \A j \in Cards : card'[j] = IF j = k THEN new ELSE card[j]
<1>1. \A j \in Cards : card'[j] = IF j = k THEN new ELSE card[j]
  BY DEF CardsOk
<1>2. \A j \in Cards : CardOk(card'[j])
  BY <1>1 DEF CardsOk
<1>3. \A c : CardOk(c)' <=> CardOk(c)
  BY ParKept
<1>4. \A j \in Cards : CardOk(card[j])'
  <2> TAKE j \in Cards
  <2> DEFINE c == card'[j]
  <2>1. CardOk(c)
    BY <1>2
  <2> QED BY <1>2, <1>3
<1>5. card' \in [Cards -> CardRec']
  <2>1. \A j \in Cards : card'[j] \in CardRec'
    BY <1>4 DEF CardOk
  <2>2. card' = [j \in Cards |-> card'[j]]
    BY DEF CardsOk
  <2> HIDE DEF CardRec
  <2> QED BY <2>1, <2>2
<1> QED BY <1>1, <1>4, <1>5 DEF CardsOk

\* The module while one of its cards changes.
LEMMA ModuleKept ==
    ASSUME DeviceInv, NEW k \in Cards, NEW new, UNCHANGED mod,
           \A j \in Cards : card'[j] = IF j = k THEN new ELSE card[j],
           \/ /\ card[k].at \notin Device!Idle
              /\ Removing(new) => Removing(card[k])
              /\ Removing(card[k]) => Removing(new) \/ new.at = "none"
           \/ new.at = card[k].at /\ new.back = card[k].back,
           mod.st \in {"probing", "loaded"} => \A j \in Cards \cap list' : j \in unbound' \/ "drvdata" \in card'[j].res
    PROVE  ModuleOk'
<1>1. mod.st = "unloaded" => \A j \in Cards : card'[j].at = "none"
  BY DEF DeviceInv, ModuleOk, Device!Idle
<1>2. mod.st = "probing" => \A j \in Cards : ~Removing(card'[j])
  BY DEF DeviceInv, ModuleOk, Removing
<1>3. mod.st = "unloading" =>
        \A j \in Cards : IF j \in mod.left THEN card'[j].at \in Device!Idle ELSE card'[j].at = "none" \/ Removing(card'[j])
  BY DEF DeviceInv, ModuleOk, Removing, Device!Idle
<1> QED BY <1>1, <1>2, <1>3 DEF DeviceInv, ModuleOk, Removing, Device!Idle

\* A card whose thread moved leaves the cards and the module in order.
LEMMA MovesKeep ==
    ASSUME DeviceInv, NEW k \in Cards, NEW new, Moves(k, new), UNCHANGED <<par, mod>>, list' \subseteq Cards,
           \A j \in Cards \cap list' : j \in unbound' \/ (j = k /\ "drvdata" \in new.res) \/ (j \in list /\ j \notin unbound)
    PROVE  DeviceInv'
<1>1. CardsOk' /\ \A j \in Cards : card'[j] = IF j = k THEN new ELSE card[j]
  BY CardPut DEF Moves, DeviceInv
<1>2. mod.st \in {"probing", "loaded"} => \A j \in Cards \cap list' : j \in unbound' \/ "drvdata" \in card'[j].res
  BY <1>1 DEF DeviceInv, ModuleOk, Moves, Follows
<1>3. ModuleOk'
  BY <1>1, <1>2, ModuleKept DEF Moves, Follows
<1> QED BY <1>1, <1>3 DEF DeviceInv, Params, ModuleRec

\* So does a card that stayed where it is.
LEMMA StaysKeep ==
    ASSUME DeviceInv, NEW k \in Cards, NEW new, Stays(k, new), UNCHANGED <<par, mod, list, unbound>>
    PROVE  DeviceInv'
<1>1. CardsOk' /\ \A j \in Cards : card'[j] = IF j = k THEN new ELSE card[j]
  BY CardPut DEF Stays, DeviceInv
<1>2. mod.st \in {"probing", "loaded"} => \A j \in Cards \cap list' : j \in unbound' \/ "drvdata" \in card'[j].res
  BY <1>1 DEF DeviceInv, ModuleOk, Stays
<1>3. ModuleOk'
  BY <1>1, <1>2, ModuleKept DEF Stays
<1> QED BY <1>1, <1>3 DEF DeviceInv, Params, ModuleRec

\* A step of the thread that probes or removes a card.
LEMMA StepThread == ASSUME DeviceInv, NEW k \in Cards, Device!CardStep(k) PROVE DeviceInv'
<1>0. par \in Params /\ card \in [Cards -> CardRec] /\ CardOk(card[k]) /\ list \subseteq Cards
  BY DEF DeviceInv, CardsOk
<1>1. ASSUME \E new : Moves(k, new), UNCHANGED <<par, mod, list, unbound>> PROVE DeviceInv'
  BY <1>0, <1>1, MovesKeep
<1>2. CASE Device!ProbeAlloc(k)
  BY <1>0, <1>1, <1>2, AllocMoves DEF Device!ProbeAlloc, Device!Put
<1>3. CASE Device!ProbeMap(k)
  BY <1>0, <1>1, <1>3, MapMoves DEF Device!ProbeMap, Device!Put
<1>4. CASE Device!ProbeChan(k)
  BY <1>0, <1>1, <1>4, ChanMoves DEF Device!ProbeChan, Device!Put
<1>5. CASE Device!ProbeVectors(k)
  BY <1>0, <1>1, <1>5, VectorsMoves DEF Device!ProbeVectors, Device!Put
<1>6. CASE Device!RequestIrq(k)
  BY <1>0, <1>1, <1>6, RequestMoves DEF Device!RequestIrq, Device!Put
<1>7. CASE Device!ProbeFiles(k)
  BY <1>0, <1>1, <1>7, FilesMoves DEF Device!ProbeFiles, Device!Put
<1>8. CASE Device!ProbeFinish(k)
  <2>1. PICK new : /\ Moves(k, new)
                   /\ \/ "drvdata" \in new.res /\ list' = list \cup {k} /\ unbound' = unbound \ {k}
                      \/ UNCHANGED <<list, unbound>>
    BY <1>0, <1>8, FinishMoves
  <2>2. UNCHANGED <<par, mod>>
    BY <1>8 DEF Device!ProbeFinish, Device!Put
  <2>3. list' \subseteq Cards
    BY <1>0, <2>1
  <2>4. \A j \in Cards \cap list' : j \in unbound' \/ (j = k /\ "drvdata" \in new.res) \/ (j \in list /\ j \notin unbound)
    BY <2>1
  <2> QED BY <2>1, <2>2, <2>3, <2>4, MovesKeep
<1>9. CASE Device!zynq_remove(k)
  BY <1>0, <1>1, <1>9, RemoveMoves DEF Device!zynq_remove, Device!Put
<1>10. CASE Device!zynq_free_irq(k)
  BY <1>0, <1>1, <1>10, FreeMoves DEF Device!zynq_free_irq, Device!Put
<1>11. CASE Device!zdev_fini_tasklet(k)
  BY <1>0, <1>1, <1>11, KillMoves DEF Device!zdev_fini_tasklet, Device!Put
<1>12. CASE Device!Unwind(k)
  BY <1>0, <1>1, <1>12, UnwindMoves DEF Device!Unwind, Device!Put
<1>13. CASE Device!RemoveEnd(k)
  <2>1. PICK new : CardOk(new) /\ card' = [card EXCEPT ![k] = new] /\ new.at = "none" /\ ~Removing(new) /\ card[k].at = "fini"
    BY <1>0, <1>13, EndMoves
  <2>2. UNCHANGED <<par, mod, list>> /\ unbound' = IF mod.st = "loaded" THEN unbound \cup {k} ELSE unbound
    BY <1>13 DEF Device!RemoveEnd, Device!Put
  <2>3. CardsOk' /\ \A j \in Cards : card'[j] = IF j = k THEN new ELSE card[j]
    BY <2>1, <2>2, CardPut DEF DeviceInv
  <2>4. mod.st # "probing"
    BY <2>1 DEF DeviceInv, ModuleOk, Removing
  <2>5. mod.st = "loaded" => \A j \in Cards \cap list' : j \in unbound' \/ "drvdata" \in card'[j].res
    BY <2>2, <2>3 DEF DeviceInv, ModuleOk
  <2>6. ModuleOk'
    BY <2>1, <2>2, <2>3, <2>4, <2>5, ModuleKept DEF Device!Idle
  <2> QED BY <2>2, <2>3, <2>6 DEF DeviceInv, Params, ModuleRec
<1> QED BY <1>2, <1>3, <1>4, <1>5, <1>6, <1>7, <1>8, <1>9, <1>10, <1>11, <1>12, <1>13 DEF Device!CardStep

\* Interrupts, tasklets and the watchdog.
LEMMA StepStay ==
    ASSUME DeviceInv, NEW k \in Cards,
           Device!zvideo_link_change(k) \/ \E i \in 1 .. 2 : Device!zynq_intr(k, i) \/ Device!Tasklet(k, i)
    PROVE  DeviceInv'
<1>0. par \in Params /\ card \in [Cards -> CardRec] /\ CardOk(card[k])
  BY DEF DeviceInv, CardsOk
<1>t. \A i \in 1 .. 2 : card[k].ta[i] \in SUBSET {"sched", "run"}
  BY <1>0 DEF CardRec
<1>1. CASE Device!zvideo_link_change(k)
  BY <1>0, <1>1, LinkStays, StaysKeep DEF Device!zvideo_link_change, Device!Put
<1>2. ASSUME NEW i \in 1 .. 2, Device!zynq_intr(k, i) PROVE DeviceInv'
  <2>1. card[k].ta[i] \cup {"sched"} \in SUBSET {"sched", "run"}
    BY <1>t
  <2>2. \E new : Stays(k, new)
    BY <1>0, <1>2, <2>1, TaskStays DEF Device!zynq_intr, Device!Put
  <2> QED BY <1>2, <2>2, StaysKeep DEF Device!zynq_intr, Device!Put
<1>3. ASSUME NEW i \in 1 .. 2, Device!TaskletStart(k, i) PROVE DeviceInv'
  <2>1. {"run"} \in SUBSET {"sched", "run"} /\ card[k].ta[i] # {}
    BY <1>3 DEF Device!TaskletStart
  <2>2. \E new : Stays(k, new)
    BY <1>0, <1>3, <2>1, TaskStays DEF Device!TaskletStart, Device!Put
  <2> QED BY <1>3, <2>2, StaysKeep DEF Device!TaskletStart, Device!Put
<1>4. ASSUME NEW i \in 1 .. 2, Device!TaskletEnd(k, i) PROVE DeviceInv'
  <2>1. card[k].ta[i] \ {"run"} \in SUBSET {"sched", "run"} /\ card[k].ta[i] # {}
    BY <1>4, <1>t DEF Device!TaskletEnd
  <2>2. \E new : Stays(k, new)
    BY <1>0, <1>4, <2>1, TaskStays DEF Device!TaskletEnd, Device!Put
  <2> QED BY <1>4, <2>2, StaysKeep DEF Device!TaskletEnd, Device!Put
<1> QED BY <1>1, <1>2, <1>3, <1>4 DEF Device!Tasklet

\* The turn of one card of the module, or the administrator's choice.
LEMMA TurnOf ==
    ASSUME DeviceInv, NEW k \in Cards, mod' = [mod EXCEPT !.left = @ \ {k}]
    PROVE  mod' \in ModuleRec /\ mod'.st = mod.st /\ mod'.res = mod.res /\ mod'.left = mod.left \ {k}
BY DEF DeviceInv, ModuleRec

\* The administrator or the module binds a card.
LEMMA StepBind == ASSUME DeviceInv, NEW k \in Cards, Device!Bind(k) PROVE DeviceInv'
<1> DEFINE new == Device!Go(card[k], "probe")
<1>0. par \in Params /\ CardOk(card[k]) /\ card[k].at = "none" /\ card[k].back = "none"
  BY DEF DeviceInv, CardsOk, Device!Bind, Device!At, CardOk, BackOk
<1>1. CardOk(new) /\ new.at = "probe" /\ new.back = "none" /\ new.res = card[k].res
  BY <1>0, BoundOk
<1>2. UNCHANGED <<par, list, unbound>> /\ card' = [card EXCEPT ![k] = new]
  BY DEF Device!Bind
<1> HIDE DEF new
<1>3. CardsOk' /\ \A j \in Cards : card'[j] = IF j = k THEN new ELSE card[j]
  BY <1>1, <1>2, CardPut DEF DeviceInv
<1>4. mod' \in ModuleRec /\ mod'.st = mod.st /\ mod'.res = mod.res /\ mod.st \in {"probing", "loaded"}
  BY TurnOf DEF Device!Bind, DeviceInv
<1>5. ModuleOk'
  BY <1>1, <1>2, <1>3, <1>4 DEF DeviceInv, ModuleOk, Removing
<1> QED BY <1>2, <1>3, <1>4, <1>5 DEF DeviceInv, Params, ModuleRec

\* The administrator or the module unbinds one.
LEMMA StepUnbind == ASSUME DeviceInv, NEW k \in Cards, Device!Unbind(k) PROVE DeviceInv'
<1> DEFINE new == IF card[k].at = "none" THEN card[k] ELSE Device!Go(card[k], "remove")
<1>0. par \in Params /\ CardOk(card[k]) /\ card[k].at \in {"none", "up", "zombie"}
  BY DEF DeviceInv, CardsOk, Device!Unbind, Device!Quiet, Device!Idle
<1>1. CardOk(new) /\ new.at \in {"none", "remove"} /\ new.res = card[k].res
  BY <1>0, BoundOk
<1>2. UNCHANGED <<par, list, unbound>> /\ card' = [card EXCEPT ![k] = new]
  BY DEF Device!Unbind
<1> HIDE DEF new
<1>3. CardsOk' /\ \A j \in Cards : card'[j] = IF j = k THEN new ELSE card[j]
  BY <1>1, <1>2, CardPut DEF DeviceInv
<1>4. CASE mod.st = "loaded" /\ UNCHANGED mod
  <2>1. ModuleOk'
    BY <1>1, <1>2, <1>3, <1>4 DEF DeviceInv, ModuleOk
  <2> QED BY <1>2, <1>3, <1>4, <2>1 DEF DeviceInv, Params, ModuleRec
<1>5. CASE mod.st = "unloading" /\ k \in mod.left /\ mod' = [mod EXCEPT !.left = @ \ {k}]
  <2>1. mod' \in ModuleRec /\ mod'.st = mod.st /\ mod'.res = mod.res /\ mod'.left = mod.left \ {k}
    BY <1>5, TurnOf
  <2>2. ModuleOk'
    BY <1>1, <1>2, <1>3, <1>5, <2>1 DEF DeviceInv, ModuleOk, Removing
  <2> QED BY <1>2, <1>3, <2>1, <2>2 DEF DeviceInv, Params, ModuleRec
<1> QED BY <1>4, <1>5 DEF Device!Unbind

\* Load and unload.
LEMMA StepModule ==
    ASSUME DeviceInv, Device!zynq_module_init \/ Device!InitEnd \/ Device!zynq_module_exit \/ Device!ExitEnd
    PROVE  DeviceInv'
<1>0. UNCHANGED <<par, card>>
  BY DEF Device!zynq_module_init, Device!InitEnd, Device!zynq_module_exit, Device!ExitEnd, Device!Module
<1>1. CardsOk'
  <2>1. \A c : CardOk(c)' <=> CardOk(c)
    BY <1>0, ParKept
  <2>2. \A j \in Cards : CardOk(card[j])'
    BY <1>0, <2>1 DEF DeviceInv, CardsOk
  <2>3. \A j \in Cards : card'[j] \in CardRec'
    BY <2>2 DEF CardOk
  <2>4. card' = [j \in Cards |-> card'[j]]
    BY <1>0 DEF DeviceInv, CardsOk
  <2>5. card' \in [Cards -> CardRec']
    <3> HIDE DEF CardRec
    <3> QED BY <2>3, <2>4
  <2> QED BY <2>2, <2>5 DEF CardsOk
<1>2. \A j \in Cards : card[j].at \in Device!Idle => ~Removing(card[j])
  BY DEF DeviceInv, CardsOk, CardOk, BackOk, Removing, Device!Idle
<1>3. CASE Device!zynq_module_init
  <2>1. /\ mod' \in ModuleRec /\ mod'.st \in {"probing", "unloaded"} /\ "zdev_all" \notin mod'.res
        /\ (mod'.st = "unloaded" => mod'.res = {}) /\ list' = {}
    BY <1>3 DEF Device!zynq_module_init, Device!Module, ModuleRec
  <2>2. \A j \in Cards : card[j].at = "none"
    BY <1>3 DEF Device!zynq_module_init, DeviceInv, ModuleOk
  <2>3. ModuleOk'
    BY <1>0, <1>2, <2>1, <2>2 DEF ModuleOk, Removing, Device!Idle
  <2> QED BY <1>0, <1>1, <2>1, <2>3 DEF DeviceInv, Params, ModuleRec
<1>4. CASE Device!InitEnd
  <2>0. /\ mod.st = "probing" /\ UNCHANGED <<list, unbound>> /\ \A j \in Cards : card[j].at \in Device!Idle
    BY <1>4 DEF Device!InitEnd, Device!Module, Device!Quiet
  <2>1. \/ mod' \in ModuleRec /\ mod'.st = "loaded"
        \/ mod' \in ModuleRec /\ mod'.st = "unloading" /\ mod'.left = Cards /\ mod'.res = mod.res
    <3>1. \/ mod' = [mod EXCEPT !.st = "loaded", !.res = @ \cup {"zdev_all"}]
          \/ mod' = [mod EXCEPT !.st = "unloading", !.left = Cards]
      BY <1>4 DEF Device!InitEnd, Device!Module
    <3>2. mod \in ModuleRec
      BY DEF DeviceInv
    <3>3. CASE mod' = [mod EXCEPT !.st = "loaded", !.res = @ \cup {"zdev_all"}]
      BY <3>2, <3>3 DEF ModuleRec
    <3>4. CASE mod' = [mod EXCEPT !.st = "unloading", !.left = Cards]
      BY <3>2, <3>4 DEF ModuleRec
    <3> QED BY <3>1, <3>3, <3>4
  <2>2. ModuleOk'
    BY <1>0, <2>0, <2>1 DEF DeviceInv, ModuleOk, Removing, Device!Idle
  <2> QED BY <1>0, <1>1, <2>0, <2>1, <2>2 DEF DeviceInv, Params, ModuleRec
<1>5. CASE Device!zynq_module_exit
  <2>0. /\ mod.st = "loaded" /\ UNCHANGED <<list, unbound>> /\ \A j \in Cards : card[j].at \in Device!Idle
    BY <1>5 DEF Device!zynq_module_exit, Device!Module, Device!Quiet
  <2>1. mod' \in ModuleRec /\ mod'.st = "unloading" /\ mod'.left = Cards /\ "zdev_all" \notin mod'.res
    BY <1>5 DEF Device!zynq_module_exit, Device!Module, ModuleRec, DeviceInv
  <2>2. ModuleOk'
    BY <1>0, <2>0, <2>1 DEF ModuleOk, Device!Idle
  <2> QED BY <1>0, <1>1, <2>0, <2>1, <2>2 DEF DeviceInv, Params, ModuleRec
<1>6. CASE Device!ExitEnd
  <2>1. mod' = [st |-> "unloaded", res |-> {}, left |-> {}] /\ UNCHANGED list
    BY <1>6 DEF Device!ExitEnd
  <2>2. \A j \in Cards : card[j].at = "none"
    BY <1>2, <1>6 DEF Device!ExitEnd, Device!Quiet, DeviceInv, ModuleOk
  <2>3. ModuleOk'
    BY <1>0, <2>1, <2>2 DEF ModuleOk
  <2> QED BY <1>0, <1>1, <2>1, <2>3 DEF DeviceInv, Params, ModuleRec
<1> QED BY <1>3, <1>4, <1>5, <1>6

\* Every step of the device keeps its invariant (basa_main.c, basa_intr.c).
LEMMA StepDevice == DeviceInv /\ [Device!Next]_deviceVars => DeviceInv'
<1> SUFFICES ASSUME DeviceInv, [Device!Next]_deviceVars PROVE DeviceInv'
  OBVIOUS
<1>1. CASE Device!Next
  BY <1>1, StepModule, StepBind, StepUnbind, StepThread, StepStay DEF Device!Next
<1>2. CASE UNCHANGED deviceVars
  <2>0. UNCHANGED <<par, mod, card, list, unbound>>
    BY <1>2 DEF deviceVars
  <2>1. \A c : CardOk(c)' <=> CardOk(c)
    BY <2>0, ParKept
  <2>2. \A j \in Cards : CardOk(card[j])'
    BY <2>0, <2>1 DEF DeviceInv, CardsOk
  <2>3. \A j \in Cards : card'[j] \in CardRec'
    BY <2>2 DEF CardOk
  <2>4. card' = [j \in Cards |-> card'[j]]
    BY <2>0 DEF DeviceInv, CardsOk
  <2>5. card' \in [Cards -> CardRec']
    <3> HIDE DEF CardRec
    <3> QED BY <2>3, <2>4
  <2>6. ModuleOk'
    BY <2>0 DEF DeviceInv, ModuleOk, Removing, Device!Idle
  <2> QED BY <2>0, <2>2, <2>5, <2>6 DEF DeviceInv, CardsOk, Params, ModuleRec
<1> QED BY <1>1, <1>2

\* It holds before the module is loaded.
LEMMA InitDevice == Device!Init => DeviceInv
<1> SUFFICES ASSUME Device!Init PROVE DeviceInv
  OBVIOUS
<1>1. Device!NoCard = Fields("none", {}, NoChans, 0, 0, {}, NoChans, {}, "none")
  BY TwoEmpty DEF Device!NoCard, Fields
<1>2. par \in Params
  BY DEF Device!Init, Params
<1>3. CardOk(Device!NoCard)
  <2>1. NoChans \in [1 .. 2 -> SUBSET {"sched", "run"}] /\ \A i \in 1 .. 2 : NoChans[i] = {}
    BY DEF NoChans
  <2> HIDE DEF NoChans
  <2> QED BY <1>1, <1>2, <2>1, GoneOk
<1>4. CardsOk
  <2>1. Device!NoCard \in CardRec
    BY <1>3 DEF CardOk
  <2> QED BY <1>3, <2>1 DEF CardsOk, Device!Init
<1>5. mod \in ModuleRec /\ list \subseteq Cards
  BY DEF Device!Init, ModuleRec
<1>6. ModuleOk
  <2>1. Device!NoCard.at = "none"
    BY DEF Device!NoCard
  <2> QED BY <2>1 DEF ModuleOk, Device!Init
<1> QED BY <1>2, <1>4, <1>5, <1>6 DEF DeviceInv
-----------------------------------------------------------------------------
(* What the invariants say.                                                *)

\* A card in order is safe: what each stage holds is what the tasklets and the watchdog need.
LEMMA CardSafe ==
    ASSUME par \in Params, NEW c, CardOk(c)
    PROVE  /\ c.at \in {"none", "zombie"} => c.res = {} /\ c.ch = <<{}, {}>> /\ c.vec = {} /\ c.ta = <<{}, {}>>
           /\ c.at = "up" => Device!WholeCard \subseteq c.res /\ c.vec = 1 .. c.nvec
                             /\ \A i \in Device!Chans : Device!WholeChan(Device!Kinds[i], c.ch[i])
           /\ \A i \in 1 .. 2 : c.ta[i] # {} =>
                /\ {"zdev", "bar0", "bar2"} \subseteq c.res /\ i \in c.tinit
                /\ \A j \in (IF c.nvec > 1 THEN {i} ELSE Device!Chans) : Device!WholeChan(Device!Kinds[j], c.ch[j])
           /\ \A i \in 1 .. 2 : <<"watchdog">> \in c.ch[i] => "bar0" \in c.res
           /\ c.at = "none" => c = Device!NoCard
           /\ "drvdata" \in c.res => "zdev" \in c.res
<1>0. c \in CardRec
  BY DEF CardOk
<1>n. Device!zynq_zdev_init = (IF par.fw THEN 0 ELSE 2) /\ Device!Chans = 1 .. Device!zynq_zdev_init /\ Device!zynq_zdev_init \in {0, 2}
  BY DEF Device!zynq_zdev_init, Device!Kinds, Device!Chans
<1>1. ASSUME c.at \in {"none", "zombie"}
      PROVE  /\ c.res = {} /\ c.ch = NoChans /\ c.vec = {} /\ c.ta = NoChans
             /\ c.n = 0 /\ c.nvec = 0 /\ c.tinit = {} /\ c.back = "none"
  <2>1. c.n = 0 /\ c.res = {} /\ c.back = "none"
    BY <1>1 DEF CardOk, ChansOk, ResOk, BackOk
  <2>2. c.vec = {} /\ c.nvec = 0 /\ c.tinit = {} /\ \A i \in 1 .. 2 : c.ta[i] = {}
    BY <1>1 DEF CardOk, VectorsOk, Wired, Leaving
  <2>3. c.ch = NoChans
    BY <1>0, <2>1, NoneSet DEF CardOk
  <2>4. c.ta = NoChans
    BY <1>0, <2>2 DEF CardRec, NoChans
  <2> QED BY <2>1, <2>2, <2>3, <2>4
<1>2. ASSUME c.at = "none" PROVE c = Device!NoCard
  <2>1. c = Fields("none", {}, NoChans, 0, 0, {}, NoChans, {}, "none")
    BY <1>0, <1>1, <1>2, FieldsOf
  <2>2. Device!NoCard = Fields("none", {}, NoChans, 0, 0, {}, NoChans, {}, "none")
    BY TwoEmpty DEF Device!NoCard, Fields
  <2> QED BY <2>1, <2>2
<1>3. c.n = Device!zynq_zdev_init => \A i \in Device!Chans : Device!WholeChan(Device!Kinds[i], c.ch[i])
  BY <1>n DEF CardOk, ChansOk, Whole
<1>4. Wired(c) => Base \subseteq c.res /\ c.n = Device!zynq_zdev_init
  BY DEF Wired, CardOk, ResOk, ChansOk, Leaving, Device!WholeCard, Base
<1>5. c.at = "up" => Device!WholeCard \subseteq c.res /\ c.vec = 1 .. c.nvec /\ c.n = Device!zynq_zdev_init
  BY DEF CardOk, ResOk, ChansOk, VectorsOk
<1>6. ASSUME NEW i \in 1 .. 2, c.ta[i] # {}
      PROVE  /\ {"zdev", "bar0", "bar2"} \subseteq c.res /\ i \in c.tinit
             /\ \A j \in (IF c.nvec > 1 THEN {i} ELSE Device!Chans) : Device!WholeChan(Device!Kinds[j], c.ch[j])
  <2>1. Wired(c) /\ i \in c.tinit /\ ~par.fw
    BY <1>6 DEF CardOk, VectorsOk
  <2>2. i \in Device!Chans
    BY <1>n, <2>1
  <2>3. {"zdev", "bar0", "bar2"} \subseteq c.res
    BY <1>4, <2>1 DEF Base
  <2> QED BY <1>3, <1>4, <2>1, <2>2, <2>3
<1>7. ASSUME NEW i \in 1 .. 2, <<"watchdog">> \in c.ch[i] PROVE "bar0" \in c.res
  <2>1. i <= c.n
    BY <1>7 DEF CardOk, ChansOk
  <2>2. c.n # 0
    BY <1>0, <2>1
  <2>3. c.at \notin {"none", "zombie", "probe", "pci"} /\ (c.at = "remove" => Leaving(c))
    BY <2>2 DEF CardOk, ChansOk
  <2> QED BY <1>0, <2>3 DEF CardOk, ResOk, CardRec, Stages, Base, Device!WholeCard
<1>8. "drvdata" \in c.res => "zdev" \in c.res
  BY <1>0 DEF CardOk, ResOk, CardRec, Stages, Base, Device!WholeCard, Leaving
<1>9. c.at \in {"none", "zombie"} => c.res = {} /\ c.ch = <<{}, {}>> /\ c.vec = {} /\ c.ta = <<{}, {}>>
  BY <1>1, TwoEmpty
<1> QED BY <1>2, <1>3, <1>5, <1>6, <1>7, <1>8, <1>9

\* The invariant of the device implies what the run checks of it.
LEMMA InvDevice == DeviceInv => DeviceSafe
<1> SUFFICES ASSUME DeviceInv PROVE DeviceSafe
  OBVIOUS
<1>0. par \in Params /\ \A k \in Cards : CardOk(card[k])
  BY DEF DeviceInv, CardsOk
<1>1. ASSUME NEW k \in Cards
      PROVE  LET c == card[k] IN
             /\ c.at \in {"none", "zombie"} => c.res = {} /\ c.ch = <<{}, {}>> /\ c.vec = {} /\ c.ta = <<{}, {}>>
             /\ c.at = "up" => Device!WholeCard \subseteq c.res /\ c.vec = 1 .. c.nvec
                               /\ \A i \in Device!Chans : Device!WholeChan(Device!Kinds[i], c.ch[i])
             /\ \A i \in 1 .. 2 : c.ta[i] # {} =>
                  /\ {"zdev", "bar0", "bar2"} \subseteq c.res /\ i \in c.tinit
                  /\ \A j \in Device!Serves(k, i) : Device!WholeChan(Device!Kinds[j], c.ch[j])
             /\ \A i \in 1 .. 2 : <<"watchdog">> \in c.ch[i] => "bar0" \in c.res
  <2> DEFINE c == card[k]
  <2>1. CardOk(c)
    BY <1>0
  <2>2. \A i : Device!Serves(k, i) = IF c.nvec > 1 THEN {i} ELSE Device!Chans
    BY DEF Device!Serves
  <2> HIDE DEF c
  <2>3. /\ c.at \in {"none", "zombie"} => c.res = {} /\ c.ch = <<{}, {}>> /\ c.vec = {} /\ c.ta = <<{}, {}>>
        /\ c.at = "up" => Device!WholeCard \subseteq c.res /\ c.vec = 1 .. c.nvec
                          /\ \A i \in Device!Chans : Device!WholeChan(Device!Kinds[i], c.ch[i])
        /\ \A i \in 1 .. 2 : c.ta[i] # {} =>
             /\ {"zdev", "bar0", "bar2"} \subseteq c.res /\ i \in c.tinit
             /\ \A j \in (IF c.nvec > 1 THEN {i} ELSE Device!Chans) : Device!WholeChan(Device!Kinds[j], c.ch[j])
        /\ \A i \in 1 .. 2 : <<"watchdog">> \in c.ch[i] => "bar0" \in c.res
    BY <1>0, <2>1, CardSafe
  <2>4. \A i \in 1 .. 2 : c.ta[i] # {} =>
           /\ {"zdev", "bar0", "bar2"} \subseteq c.res /\ i \in c.tinit
           /\ \A j \in Device!Serves(k, i) : Device!WholeChan(Device!Kinds[j], c.ch[j])
    <3> TAKE i \in 1 .. 2
    <3>1. Device!Serves(k, i) = IF c.nvec > 1 THEN {i} ELSE Device!Chans
      BY <2>2
    <3> QED BY <2>3, <3>1
  <2> QED BY <2>3, <2>4, Zenon DEF c
<1>2. ASSUME mod.st = "unloaded" PROVE mod.res = {} /\ \A k \in Cards : card[k] = Device!NoCard
  <2>1. mod.res = {} /\ \A k \in Cards : card[k].at = "none"
    BY <1>2 DEF DeviceInv, ModuleOk
  <2>2. \A c : CardOk(c) /\ c.at = "none" => c = Device!NoCard
    BY <1>0, CardSafe
  <2> QED BY <1>0, <2>1, <2>2, Zenon
<1>3. ASSUME NEW k \in Device!zynq_zdev_all_show, "zdev" \notin card[k].res PROVE k \in unbound
  <2>1. "zdev_all" \in mod.res /\ k \in list /\ k \in Cards
    BY <1>3 DEF Device!zynq_zdev_all_show, DeviceInv
  <2>2. k \in unbound \/ "drvdata" \in card[k].res
    BY <2>1 DEF DeviceInv, ModuleOk
  <2>3. CardOk(card[k])
    BY <1>0, <2>1
  <2>4. \A c : CardOk(c) /\ "drvdata" \in c.res => "zdev" \in c.res
    BY <1>0, CardSafe
  <2> QED BY <1>3, <2>2, <2>3, <2>4
<1>4. Device!DeviceSafe
  BY <1>1, <1>2, Zenon DEF Device!DeviceSafe
<1>5. Device!ListSafe
  BY <1>3, Zenon DEF Device!ListSafe
<1> QED BY <1>4, <1>5 DEF DeviceSafe

\* The invariant of the files implies what the run checks of them.
LEMMA InvSysfs == SysfsInv => SysfsSafe
BY DEF SysfsInv, CallsOk, CallOk, SysfsSafe, Sysfs!SysfsSafe
-----------------------------------------------------------------------------
(* The cameras: one step.                                                  *)

\* A call goes on at x, and keeps all but its answer.
Jump(p, x) ==
    /\ camera_call' = [q \in Procs |-> camera_call'[q]]
    /\ \A q \in Procs : q # p => camera_call'[q] = camera_call[q]
    /\ CamCall(camera_call'[p]) /\ camera_call'[p].pc = x
    /\ camera_call'[p].op = camera_call[p].op /\ camera_call'[p].todo = camera_call[p].todo
    /\ camera_call'[p].cam = camera_call[p].cam /\ camera_call'[p].left = camera_call[p].left
    /\ camera_call'[p].addr = camera_call[p].addr /\ camera_call'[p].size = camera_call[p].size

\* Who holds the lock has a call.
LEMMA Owner ==
    ASSUME CamCallsOk, LockOk, NEW p \in Procs, zdev_lock = p
    PROVE  camera_call[p] # Camera!None /\ CamCallOk(camera_call[p]) /\ camera_call[p].pc \notin Unlocked
BY DEF CamCallsOk, LockOk, Holding

\* What is known of the pins stays true in a step of a call that forces nothing, and changes both or neither.
LEMMA PinsKept ==
    ASSUME PinsOk, NEW p \in Procs, ~Camera!At(p, "force"), \A q \in Procs : q # p => camera_call'[q] = camera_call[q],
           swap' = [d \in Cams |-> swap'[d]], pin_swap' = [d \in Cams |-> pin_swap'[d]],
           \A d \in Cams : (swap'[d] = swap[d] /\ pin_swap'[d] = pin_swap[d]) \/ swap'[d] = pin_swap'[d]
    PROVE  PinsOk'
<1>1. ASSUME NEW d \in Cams, Forcing(d) PROVE Forcing(d)'
  BY <1>1 DEF Forcing, Camera!At, Camera!Cam
<1> QED BY <1>1 DEF PinsOk

\* So it does in a step of the holder of the lock that leaves the pins alone.
LEMMA PinsHeld ==
    ASSUME CamInv, NEW p \in Procs, zdev_lock = p, UNCHANGED <<swap, pin_swap>>, \A q \in Procs : q # p => camera_call'[q] = camera_call[q]
    PROVE  PinsOk'
<1>1. ~Camera!At(p, "force")
  BY Owner DEF CamInv, Camera!At, Unlocked
<1>2. swap' = [d \in Cams |-> swap'[d]] /\ pin_swap' = [d \in Cams |-> pin_swap'[d]]
  BY DEF CamInv, PinsOk
<1> QED BY <1>1, <1>2, PinsKept DEF CamInv

\* A call of the camera interface is not the absence of one.
LEMMA CallNotNone == \A k : CamCallOk(k) => k # Camera!None
BY DEF CamCallOk, CamOps, Camera!None

\* The fields of a call that goes on.
CamCallAt(k, x, e) ==
    [op |-> k.op, todo |-> k.todo, ioctl |-> k.ioctl, cam |-> k.cam, ret |-> e, pc |-> x, left |-> k.left,
     tries |-> k.tries, reprobe |-> k.reprobe, orig |-> k.orig, addr |-> k.addr, size |-> k.size]

\* What such a call keeps.
LEMMA CamCallFields ==
    \A k, x, e :
      /\ CamCallAt(k, x, e).op = k.op /\ CamCallAt(k, x, e).todo = k.todo /\ CamCallAt(k, x, e).cam = k.cam
      /\ CamCallAt(k, x, e).left = k.left /\ CamCallAt(k, x, e).addr = k.addr /\ CamCallAt(k, x, e).size = k.size
      /\ CamCallAt(k, x, e).pc = x /\ CamCall(CamCallAt(k, x, e))
BY DEF CamCallAt, CamCall

\* A change of its place alone gives such a call.
LEMMA CamCallExcept == ASSUME NEW k, CamCall(k), NEW x PROVE [k EXCEPT !.pc = x] = CamCallAt(k, x, k.ret)
BY DEF CamCallAt, CamCall

\* Such a call is a jump.
LEMMA JumpTo ==
    ASSUME CamCallsOk, NEW p \in Procs, NEW x, NEW e, camera_call' = [camera_call EXCEPT ![p] = CamCallAt(camera_call[p], x, e)]
    PROVE  Jump(p, x)
<1>1. /\ camera_call' = [q \in Procs |-> camera_call'[q]] /\ camera_call'[p] = CamCallAt(camera_call[p], x, e)
      /\ \A q \in Procs : q # p => camera_call'[q] = camera_call[q]
  BY DEF CamCallsOk
<1>2. CamCall(camera_call'[p])
  BY <1>1, CamCallFields
<1> QED BY <1>1, <1>2, CamCallFields DEF Jump

\* Going on is one.
LEMMA GotoJump ==
    ASSUME CamCallsOk, NEW p \in Procs, camera_call[p] # Camera!None, NEW x, Camera!Goto(p, x)
    PROVE  Jump(p, x)
<1>1. CamCall(camera_call[p])
  BY DEF CamCallsOk, CamCallOk
<1>2. [camera_call[p] EXCEPT !.pc = x] = CamCallAt(camera_call[p], x, camera_call[p].ret)
  BY <1>1, CamCallExcept
<1>3. camera_call' = [camera_call EXCEPT ![p] = CamCallAt(camera_call[p], x, camera_call[p].ret)]
  BY <1>2 DEF Camera!Goto
<1> QED BY <1>3, JumpTo

\* So is going on with an answer.
LEMMA FailJump ==
    ASSUME CamCallsOk, NEW p \in Procs, camera_call[p] # Camera!None, NEW x, NEW e,
           camera_call' = [camera_call EXCEPT ![p].pc = x, ![p].ret = e]
    PROVE  Jump(p, x)
<1>1. CamCall(camera_call[p])
  BY DEF CamCallsOk, CamCallOk
<1>2. [camera_call[p] EXCEPT !.pc = x, !.ret = e] = CamCallAt(camera_call[p], x, e)
  <2> DEFINE k == camera_call[p]
  <2>1. CamCall(k)
    BY <1>1
  <2> HIDE DEF k
  <2>2. [k EXCEPT !.pc = x] = CamCallAt(k, x, k.ret)
    BY <2>1, CamCallExcept
  <2>3. [[k EXCEPT !.pc = x] EXCEPT !.ret = e] = [CamCallAt(k, x, k.ret) EXCEPT !.ret = e]
    BY <2>2
  <2>4. [CamCallAt(k, x, k.ret) EXCEPT !.ret = e] = CamCallAt(k, x, e)
    BY DEF CamCallAt
  <2>5. [k EXCEPT !.pc = x, !.ret = e] = [[k EXCEPT !.pc = x] EXCEPT !.ret = e]
    BY <2>1 DEF CamCall
  <2>6. [k EXCEPT !.pc = x, !.ret = e] = CamCallAt(k, x, e)
    BY <2>3, <2>4, <2>5
  <2> QED BY <2>6 DEF k
<1>3. [camera_call EXCEPT ![p].pc = x, ![p].ret = e] = [camera_call EXCEPT ![p] = [camera_call[p] EXCEPT !.pc = x, !.ret = e]]
  BY DEF CamCallsOk
<1>4. camera_call' = [camera_call EXCEPT ![p] = CamCallAt(camera_call[p], x, e)]
  BY <1>2, <1>3
<1> QED BY <1>4, JumpTo

\* An access of the I2C bus, whatever becomes of it, lets the call go on in one of two places.
LEMMA ReadJump ==
    ASSUME CamCallsOk, NEW p \in Procs, camera_call[p] # Camera!None, NEW ok, NEW bad, Camera!zdev_i2c_read(p, ok, bad)
    PROVE  (Jump(p, ok) \/ Jump(p, bad)) /\ UNCHANGED <<route, left, hci, swap, pin_swap>>
<1>1. UNCHANGED <<route, left, hci, swap, pin_swap>>
  BY DEF Camera!zdev_i2c_read, Camera!I2c, Camera!cameras
<1>2. Camera!Goto(p, ok) => Jump(p, ok)
  BY GotoJump
<1>3. ASSUME NEW e, camera_call' = [camera_call EXCEPT ![p].pc = bad, ![p].ret = e] PROVE Jump(p, bad)
  BY <1>3, FailJump
<1>4. Camera!Goto(p, ok) \/ \E e \in I2cErrors : camera_call' = [camera_call EXCEPT ![p].pc = bad, ![p].ret = e]
  BY DEF Camera!zdev_i2c_read, Camera!I2c
<1> QED BY <1>1, <1>2, <1>3, <1>4

\* So does an access that sets a register of a route.
LEMMA RouteJump ==
    ASSUME CamCallsOk, NEW p \in Procs, camera_call[p] # Camera!None, NEW r, NEW ok, NEW bad,
           Camera!zdev_i2c_write(p, Camera!SetRoute(p, r, TRUE), ok, bad)
    PROVE  /\ Jump(p, ok) \/ Jump(p, bad)
           /\ UNCHANGED <<left, hci, swap, pin_swap>>
           /\ route' = route \/ route' = [route EXCEPT ![Camera!Cam(p)] = @ \cup {r}]
<1>1. /\ UNCHANGED <<left, hci, swap, pin_swap>>
      /\ route' = route \/ route' = [route EXCEPT ![Camera!Cam(p)] = @ \cup {r}]
  BY DEF Camera!zdev_i2c_write, Camera!I2c, Camera!cameras, Camera!SetRoute
<1>2. Camera!Goto(p, ok) => Jump(p, ok)
  BY GotoJump
<1>3. ASSUME NEW e, camera_call' = [camera_call EXCEPT ![p].pc = bad, ![p].ret = e] PROVE Jump(p, bad)
  BY <1>3, FailJump
<1>4. Camera!Goto(p, ok) \/ \E e \in I2cErrors : camera_call' = [camera_call EXCEPT ![p].pc = bad, ![p].ret = e]
  BY DEF Camera!zdev_i2c_write, Camera!I2c
<1> QED BY <1>1, <1>2, <1>3, <1>4

\* A jump under the lock keeps the calls and the lock in order.
LEMMA Held ==
    ASSUME CamCallsOk, LockOk, NEW p \in Procs, zdev_lock = p, NEW x, Jump(p, x), x \notin Unlocked, zdev_lock' = p
    PROVE  CamCallsOk' /\ LockOk'
<1>1. CamCallOk(camera_call[p])
  BY Owner
<1>2. CamCallOk(camera_call'[p])
  BY <1>1 DEF CamCallOk, Jump
<1>3. CamCallsOk'
  BY <1>2 DEF CamCallsOk, Jump
<1>4. camera_call'[p] # Camera!None /\ camera_call'[p].pc = x
  BY <1>2, CallNotNone DEF Jump
<1>5. Holding(p)'
  BY <1>4 DEF Holding
<1>6. \A q \in Procs : q # p => (Holding(q)' <=> Holding(q))
  BY DEF Holding, Jump
<1>7. LockOk'
  BY <1>5, <1>6 DEF LockOk
<1> QED BY <1>3, <1>7

\* One that gives the lock back leaves it free.
LEMMA Freed ==
    ASSUME CamCallsOk, LockOk, NEW p \in Procs, zdev_lock = p, zdev_lock' = NoProc,
           camera_call' = [q \in Procs |-> camera_call'[q]], \A q \in Procs : q # p => camera_call'[q] = camera_call[q],
           camera_call'[p] = Camera!None \/ (CamCallOk(camera_call'[p]) /\ camera_call'[p].pc \in Unlocked)
    PROVE  CamCallsOk' /\ LockOk'
<1>1. CamCallsOk'
  BY DEF CamCallsOk
<1>2. ~Holding(p)'
  BY DEF Holding
<1>3. \A q \in Procs : q # p => (Holding(q)' <=> Holding(q))
  BY DEF Holding
<1>4. LockOk'
  BY <1>2, <1>3, CameraAssumption DEF LockOk
<1> QED BY <1>1, <1>4

\* And one that takes it holds it alone.
LEMMA Taken ==
    ASSUME CamCallsOk, LockOk, NEW p \in Procs, zdev_lock = NoProc, zdev_lock' = p,
           camera_call' = [q \in Procs |-> camera_call'[q]], \A q \in Procs : q # p => camera_call'[q] = camera_call[q],
           CamCallOk(camera_call'[p]), camera_call'[p].pc \notin Unlocked
    PROVE  CamCallsOk' /\ LockOk'
<1>1. CamCallsOk'
  BY DEF CamCallsOk
<1>2. Holding(p)'
  BY CallNotNone DEF Holding
<1>3. \A q \in Procs : q # p => ~Holding(q)' /\ q # p
  BY CameraAssumption DEF LockOk, Holding
<1>4. LockOk'
  BY <1>2, <1>3 DEF LockOk
<1> QED BY <1>1, <1>4
-----------------------------------------------------------------------------
\* The routes, while the lock is held and they are left alone, ...
LEMMA RouteQuiet ==
    ASSUME RouteOk, NEW p \in Procs, zdev_lock = p, zdev_lock' = p, route' = route, left' = left,
           camera_call'[p].cam = camera_call[p].cam, camera_call'[p].pc \notin Half \cup Clear
    PROVE  RouteOk'
<1>1. Camera!Routed'
  BY DEF RouteOk, Camera!Routed, Camera!Cam
<1> QED BY <1>1 DEF RouteOk, Camera!Cam

\* ... one register of the camera of the call is set, ...
LEMMA RouteSet ==
    ASSUME RouteOk, NEW p \in Procs, zdev_lock = p, zdev_lock' = p, left' = left, NEW r \in Camera!Regs,
           route' = [route EXCEPT ![Camera!Cam(p)] = @ \cup {r}],
           camera_call'[p].cam = camera_call[p].cam, camera_call'[p].pc \notin Half \cup Clear
    PROVE  RouteOk'
<1>0. p # NoProc
  BY CameraAssumption
<1>1. \A c \in Cams : c # Camera!Cam(p) => route'[c] = route[c]
  BY DEF RouteOk
<1>2. Camera!Routed'
  BY <1>0, <1>1 DEF RouteOk, Camera!Routed, Camera!Cam
<1>3. route' \in [Cams -> SUBSET Camera!Regs]
  BY DEF RouteOk
<1> QED BY <1>2, <1>3 DEF RouteOk, Camera!Cam

\* ... the lock is given back after both are cleared, ...
LEMMA RouteFreed ==
    ASSUME RouteOk, NEW p \in Procs, zdev_lock = p, zdev_lock' = NoProc, route' = route, left' = left, camera_call[p].pc \in Clear
    PROVE  RouteOk'
<1>1. Camera!Routed'
  BY DEF RouteOk, Camera!Routed, Camera!Cam
<1> QED BY <1>1, CameraAssumption DEF RouteOk

\* ... and taken.
LEMMA RouteTaken ==
    ASSUME RouteOk, NEW p \in Procs, zdev_lock = NoProc, zdev_lock' = p, route' = route, left' = left, camera_call'[p].pc \notin Half \cup Clear
    PROVE  RouteOk'
<1>1. Camera!Routed'
  BY DEF RouteOk, Camera!Routed
<1> QED BY <1>1 DEF RouteOk
-----------------------------------------------------------------------------
\* The doorbells and the parameters, while the call that holds the lock goes on, ...
LEMMA BellQuiet ==
    ASSUME BellOk, WrittenOk, NEW p \in Procs, zdev_lock = p, zdev_lock' = p, hci' = hci,
           camera_call'[p].cam = camera_call[p].cam, camera_call'[p].pc # "wait",
           camera_call[p].pc \in {"wait", "failed"} => camera_call'[p].pc = "failed",
           camera_call'[p].pc \in {"check", "issue"} =>
             ~Head(camera_call'[p].left).par \/ (camera_call[p].pc = "check" /\ camera_call'[p].left = camera_call[p].left)
    PROVE  BellOk' /\ WrittenOk'
<1>1. BellOk'
  BY DEF BellOk, Camera!Cam
<1>2. ASSUME ~hci[Camera!Cam(p)].late PROVE Written(p)'
  BY <1>2 DEF WrittenOk, Written, Camera!Cam, Camera!Now
<1>3. WrittenOk'
  BY <1>2 DEF WrittenOk, Camera!Cam
<1> QED BY <1>1, <1>3

\* ... when it gives the lock back, ...
LEMMA BellFreed ==
    ASSUME BellOk, NEW p \in Procs, zdev_lock = p, zdev_lock' = NoProc, camera_call[p].pc \notin {"wait", "failed"},
           \A c \in Cams : hci'[c].late = hci[c].late /\ (hci'[c].bell => hci[c].bell)
    PROVE  BellOk' /\ WrittenOk'
<1>1. BellOk'
  BY DEF BellOk
<1>2. WrittenOk'
  BY CameraAssumption DEF WrittenOk
<1> QED BY <1>1, <1>2

\* ... and when one takes it.
LEMMA BellTaken ==
    ASSUME BellOk, NEW p \in Procs, zdev_lock = NoProc, zdev_lock' = p, hci' = hci, camera_call'[p].pc \notin {"check", "issue", "wait"}
    PROVE  BellOk' /\ WrittenOk'
<1>1. BellOk'
  BY CameraAssumption DEF BellOk
<1>2. WrittenOk'
  BY DEF WrittenOk, Written
<1> QED BY <1>1, <1>2
-----------------------------------------------------------------------------
\* A jump under the lock that writes nothing to a camera keeps the invariant, unless it goes on where something was to be written.
LEMMA JumpQuiet ==
    ASSUME CamInv, NEW p \in Procs, zdev_lock = p, NEW x, Jump(p, x), x \notin Unlocked \cup Half \cup Clear, x # "wait",
           zdev_lock' = p, UNCHANGED <<route, left, hci, swap, pin_swap>>,
           camera_call[p].pc \in {"wait", "failed"} => x = "failed",
           x \in {"check", "issue"} => ~Head(camera_call[p].left).par \/ camera_call[p].pc = "check"
    PROVE  CamInv'
<1>1. CamCallsOk' /\ LockOk'
  BY Held DEF CamInv
<1>2. camera_call'[p].cam = camera_call[p].cam /\ camera_call'[p].pc = x /\ camera_call'[p].left = camera_call[p].left
  BY DEF Jump
<1>3. RouteOk'
  BY <1>2, RouteQuiet DEF CamInv
<1>4. BellOk' /\ WrittenOk'
  BY <1>2, BellQuiet DEF CamInv
<1>5. HciOk' /\ PinsOk'
  BY PinsHeld DEF CamInv, HciOk, Jump
<1> QED BY <1>1, <1>3, <1>4, <1>5 DEF CamInv

\* Where a call begins its commands, it has no parameters to write or goes to write them.
LEMMA EnterStage == \A s : Camera!Enter(s) \in {"params", "check"} /\ (Camera!Enter(s) = "check" => ~Head(s).par)
BY DEF Camera!Enter

\* Setting a route (zcam_i2c_init).
LEMMA CamStepInit == ASSUME CamInv, NEW p \in Procs, Camera!zcam_i2c_init(p) PROVE CamInv'
<1>0. zdev_lock = p /\ zdev_lock' = p
  BY DEF Camera!zcam_i2c_init, Camera!Own
<1>1. camera_call[p] # Camera!None /\ CamCallOk(camera_call[p])
  BY <1>0, Owner DEF CamInv
<1>2. \E x, r : /\ Jump(p, x) /\ r \in Camera!Regs
                /\ x \in {"init2", "fini1", "probe2", "probe_end", "probe", "caps", "reg", "params", "check"}
                /\ x = "check" => ~Head(camera_call[p].left).par
                /\ UNCHANGED <<left, hci, swap, pin_swap>>
                /\ route' = route \/ route' = [route EXCEPT ![Camera!Cam(p)] = @ \cup {r}]
  <2>1. "alias" \in Camera!Regs /\ "id" \in Camera!Regs
    BY DEF Camera!Regs
  <2>2. CASE Camera!zdev_i2c_write(p, Camera!SetRoute(p, "alias", TRUE), "init2", "fini1")
    BY <1>1, <2>1, <2>2, RouteJump DEF CamInv
  <2>3. CASE Camera!zdev_i2c_write(p, Camera!SetRoute(p, "id", TRUE), Camera!After(p), "fini1")
    <3>1. Camera!After(p) \in {"caps", "reg", "params", "check"} /\ (Camera!After(p) = "check" => ~Head(camera_call[p].left).par)
      BY EnterStage DEF Camera!After
    <3> QED BY <1>1, <2>1, <2>3, <3>1, RouteJump DEF CamInv
  <2>4. CASE Camera!zdev_i2c_write(p, Camera!SetRoute(p, "alias", TRUE), "probe2", "probe_end")
    BY <1>1, <2>1, <2>4, RouteJump DEF CamInv
  <2>5. CASE Camera!zdev_i2c_write(p, Camera!SetRoute(p, "id", TRUE), "probe", "probe_end")
    BY <1>1, <2>1, <2>5, RouteJump DEF CamInv
  <2> QED BY <2>2, <2>3, <2>4, <2>5 DEF Camera!zcam_i2c_init
<1>3. PICK x, r : /\ Jump(p, x) /\ r \in Camera!Regs
                  /\ x \in {"init2", "fini1", "probe2", "probe_end", "probe", "caps", "reg", "params", "check"}
                  /\ x = "check" => ~Head(camera_call[p].left).par
                  /\ UNCHANGED <<left, hci, swap, pin_swap>>
                  /\ route' = route \/ route' = [route EXCEPT ![Camera!Cam(p)] = @ \cup {r}]
  BY <1>2
<1>4. camera_call[p].pc \in {"init1", "init2", "probe1", "probe2"}
  BY DEF Camera!zcam_i2c_init, Camera!At
<1>5. camera_call'[p].cam = camera_call[p].cam /\ camera_call'[p].pc = x /\ camera_call'[p].left = camera_call[p].left
  BY <1>3 DEF Jump
<1>6. CamCallsOk' /\ LockOk'
  BY <1>0, <1>3, Held DEF CamInv, Unlocked
<1>7. RouteOk'
  BY <1>0, <1>3, <1>5, RouteQuiet, RouteSet DEF CamInv, Half, Clear
<1>8. BellOk' /\ WrittenOk'
  BY <1>0, <1>3, <1>4, <1>5, BellQuiet DEF CamInv
<1>9. HciOk' /\ PinsOk'
  BY <1>0, <1>3, PinsHeld DEF CamInv, HciOk, Jump
<1> QED BY <1>6, <1>7, <1>8, <1>9 DEF CamInv

\* One register of the route is cleared, or the camera is one whose clean-up failed.
LEMMA RouteCleared ==
    ASSUME RouteOk, NEW p \in Procs, zdev_lock = p, zdev_lock' = p, camera_call[p].cam \in Cams, camera_call'[p].cam = camera_call[p].cam,
           NEW r \in Camera!Regs,
           \/ route' = [route EXCEPT ![Camera!Cam(p)] = @ \ {r}] /\ left' = left
           \/ route' = route /\ left' = left \cup {Camera!Cam(p)},
           \/ r = "alias" /\ camera_call'[p].pc \in Half
           \/ r = "id" /\ camera_call[p].pc \in Half /\ camera_call'[p].pc \in Clear
    PROVE  RouteOk'
<1> DEFINE c == Camera!Cam(p)
<1>0. p # NoProc /\ c \in Cams /\ Camera!Cam(p)' = c
  BY CameraAssumption DEF Camera!Cam
<1>1. route' \in [Cams -> SUBSET Camera!Regs] /\ \A d \in Cams : d # c => route'[d] = route[d]
  BY DEF RouteOk
<1>2. left \subseteq left'
  OBVIOUS
<1>3. Camera!Routed'
  BY <1>0, <1>1, <1>2 DEF RouteOk, Camera!Routed, Camera!Cam
<1>4. ASSUME c \notin left' PROVE /\ camera_call'[p].pc \in Half => route'[c] \subseteq {"id"}
                                  /\ camera_call'[p].pc \in Clear => route'[c] = {}
  <2>1. c \notin left /\ route'[c] = route[c] \ {r} /\ route[c] \subseteq Camera!Regs
    BY <1>0, <1>4 DEF RouteOk
  <2>2. CASE r = "alias"
    BY <2>1, <2>2 DEF Camera!Regs, Half, Clear
  <2>3. CASE r = "id"
    BY <2>1, <2>3 DEF RouteOk, Half, Clear
  <2> QED BY <2>2, <2>3 DEF Camera!Regs
<1>5. \A q \in Procs : zdev_lock' = q => q = p
  OBVIOUS
<1> HIDE DEF c
<1> QED BY <1>0, <1>1, <1>3, <1>4, <1>5 DEF RouteOk

\* Clearing a route (zcam_i2c_fini).
LEMMA CamStepFini == ASSUME CamInv, NEW p \in Procs, Camera!zcam_i2c_fini(p) PROVE CamInv'
<1>0. zdev_lock = p /\ zdev_lock' = p
  BY DEF Camera!zcam_i2c_fini, Camera!Own
<1>1. camera_call[p] # Camera!None /\ CamCallOk(camera_call[p])
  BY <1>0, Owner DEF CamInv
<1>2. \E x, r :
        /\ Jump(p, x) /\ r \in Camera!Regs /\ UNCHANGED <<hci, swap, pin_swap>>
        /\ \/ route' = [route EXCEPT ![Camera!Cam(p)] = @ \ {r}] /\ left' = left
           \/ route' = route /\ left' = left \cup {Camera!Cam(p)}
        /\ \/ r = "alias" /\ x \in Half
           \/ r = "id" /\ camera_call[p].pc \in Half /\ x \in Clear
  <2>1. \A r, x : Camera!ClearRoute(p, r, x) =>
          /\ Jump(p, x) /\ UNCHANGED <<hci, swap, pin_swap>>
          /\ \/ route' = [route EXCEPT ![Camera!Cam(p)] = @ \ {r}] /\ left' = left
             \/ route' = route /\ left' = left \cup {Camera!Cam(p)}
    <3> TAKE r, x
    <3>1. Camera!ClearRoute(p, r, x) => Camera!Goto(p, x)
      BY DEF Camera!ClearRoute
    <3>2. Camera!Goto(p, x) => Jump(p, x)
      BY <1>1, GotoJump DEF CamInv
    <3>3. Camera!ClearRoute(p, r, x) =>
            /\ UNCHANGED <<hci, swap, pin_swap>>
            /\ \/ route' = [route EXCEPT ![Camera!Cam(p)] = @ \ {r}] /\ left' = left
               \/ route' = route /\ left' = left \cup {Camera!Cam(p)}
      BY DEF Camera!ClearRoute, Camera!SetRoute
    <3> QED BY <3>1, <3>2, <3>3
  <2>2. \E r, x : /\ r \in Camera!Regs /\ Camera!ClearRoute(p, r, x)
                  /\ \/ r = "alias" /\ x \in Half
                     \/ r = "id" /\ camera_call[p].pc \in Half /\ x \in Clear
    <3>1. "alias" \in Camera!Regs /\ "id" \in Camera!Regs
      BY DEF Camera!Regs
    <3>2. "fini2" \in Half /\ "pfini2" \in Half /\ "pend2" \in Half /\ "unlock" \in Clear /\ "i2c_reset" \in Clear /\ "punlock" \in Clear
      BY DEF Half, Clear
    <3>3. \/ Camera!ClearRoute(p, "alias", "fini2") \/ Camera!ClearRoute(p, "alias", "pfini2") \/ Camera!ClearRoute(p, "alias", "pend2")
          \/ camera_call[p].pc = "fini2" /\ Camera!ClearRoute(p, "id", "unlock")
          \/ camera_call[p].pc = "pfini2" /\ Camera!ClearRoute(p, "id", "i2c_reset")
          \/ camera_call[p].pc = "pend2" /\ Camera!ClearRoute(p, "id", "punlock")
      BY DEF Camera!zcam_i2c_fini, Camera!At
    <3> QED BY <3>1, <3>2, <3>3, Zenon
  <2> QED BY <2>1, <2>2
<1>3. PICK x, r :
        /\ Jump(p, x) /\ r \in Camera!Regs /\ UNCHANGED <<hci, swap, pin_swap>>
        /\ \/ route' = [route EXCEPT ![Camera!Cam(p)] = @ \ {r}] /\ left' = left
           \/ route' = route /\ left' = left \cup {Camera!Cam(p)}
        /\ \/ r = "alias" /\ x \in Half
           \/ r = "id" /\ camera_call[p].pc \in Half /\ x \in Clear
  BY <1>2
<1>4. x \in Half \cup Clear /\ x \notin Unlocked \cup {"wait", "failed", "check", "issue"}
  BY <1>3 DEF Half, Clear, Unlocked
<1>5. camera_call'[p].cam = camera_call[p].cam /\ camera_call'[p].pc = x
  BY <1>3 DEF Jump
<1>6. CamCallsOk' /\ LockOk'
  BY <1>0, <1>3, <1>4, Held DEF CamInv
<1>7. RouteOk'
  BY <1>0, <1>1, <1>3, <1>5, RouteCleared DEF CamInv, CamCallOk
<1>8. camera_call[p].pc \notin {"wait", "failed"}
  BY DEF Camera!zcam_i2c_fini, Camera!At
<1>9. BellOk' /\ WrittenOk'
  BY <1>0, <1>3, <1>4, <1>5, <1>8, BellQuiet DEF CamInv
<1>10. HciOk' /\ PinsOk'
  BY <1>0, <1>3, PinsHeld DEF CamInv, HciOk, Jump
<1> QED BY <1>6, <1>7, <1>9, <1>10 DEF CamInv
-----------------------------------------------------------------------------
\* A register of the camera, or its capabilities.
LEMMA CamStepReg == ASSUME CamInv, NEW p \in Procs, Camera!zcam_reg(p) \/ Camera!CheckCaps(p) PROVE CamInv'
<1>0. zdev_lock = p /\ zdev_lock' = p /\ camera_call[p].pc \in {"reg", "caps"} /\ Camera!zdev_i2c_read(p, "fini1", "fini1")
  BY DEF Camera!zcam_reg, Camera!CheckCaps, Camera!Own, Camera!At
<1>1. camera_call[p] # Camera!None
  BY <1>0, Owner DEF CamInv
<1>2. Jump(p, "fini1") /\ UNCHANGED <<route, left, hci, swap, pin_swap>>
  BY <1>0, <1>1, ReadJump DEF CamInv
<1> QED BY <1>0, <1>2, JumpQuiet DEF Unlocked, Half, Clear

\* The doorbell is looked at: it does not ring, or it rings for a command that was left alone.
LEMMA CamStepCheck == ASSUME CamInv, NEW p \in Procs, Camera!DoorbellCheck(p) PROVE CamInv'
<1>0. zdev_lock = p /\ zdev_lock' = p /\ camera_call[p].pc = "check"
  BY DEF Camera!DoorbellCheck, Camera!Own, Camera!At
<1>1. camera_call[p] # Camera!None
  BY <1>0, Owner DEF CamInv
<1>2. (Jump(p, "issue") \/ Jump(p, "failed")) /\ UNCHANGED <<route, left, hci, swap, pin_swap>>
  <2>1. CASE Camera!zdev_i2c_read(p, "issue", "failed")
    BY <1>1, <2>1, ReadJump DEF CamInv
  <2>2. CASE camera_call' = [camera_call EXCEPT ![p].pc = "failed", ![p].ret = "EAGAIN"] /\ UNCHANGED Camera!cameras
    <3>1. Jump(p, "failed")
      BY <1>1, <2>2, FailJump DEF CamInv
    <3> QED BY <2>2, <3>1 DEF Camera!cameras
  <2> QED BY <2>1, <2>2 DEF Camera!DoorbellCheck
<1>3. CASE Jump(p, "issue")
  BY <1>0, <1>2, <1>3, JumpQuiet DEF Unlocked, Half, Clear
<1>4. CASE Jump(p, "failed")
  BY <1>0, <1>2, <1>4, JumpQuiet DEF Unlocked, Half, Clear
<1> QED BY <1>2, <1>3, <1>4

\* A wait ends: in time or not.
LEMMA CamStepWait == ASSUME CamInv, NEW p \in Procs, Camera!DoorbellWait(p) PROVE CamInv'
<1>0. /\ zdev_lock = p /\ zdev_lock' = p /\ camera_call[p].pc = "wait"
      /\ UNCHANGED <<route, left, hci, swap, pin_swap>>
  BY DEF Camera!DoorbellWait, Camera!Own, Camera!At, Camera!cameras
<1>1. camera_call[p] # Camera!None /\ CamCallOk(camera_call[p])
  BY <1>0, Owner DEF CamInv
<1>2. \/ Jump(p, "failed")
      \/ Jump(p, "done") /\ ~hci[Camera!Cam(p)].bell
  <2>1. ASSUME NEW e, NEW x, camera_call' = [camera_call EXCEPT ![p].pc = x, ![p].ret = e] PROVE Jump(p, x)
    BY <1>1, <2>1, FailJump DEF CamInv
  <2>2. \/ \E e : camera_call' = [camera_call EXCEPT ![p].pc = "failed", ![p].ret = e]
        \/ \E e : camera_call' = [camera_call EXCEPT ![p].pc = "done", ![p].ret = e] /\ ~hci[Camera!Cam(p)].bell
    <3> DEFINE h == hci[Camera!Cam(p)]
    <3>1. \/ camera_call' = [camera_call EXCEPT ![p].pc = "failed", ![p].ret = "EAGAIN"]
          \/ ~h.bell /\ camera_call' = [camera_call EXCEPT ![p].pc = IF h.resp = "ok" THEN "done" ELSE "failed", ![p].ret = h.resp]
          \/ Camera!I2c(p, FALSE, TRUE, "wait", "failed")
      BY DEF Camera!DoorbellWait
    <3>2. Camera!I2c(p, FALSE, TRUE, "wait", "failed") => \E e : camera_call' = [camera_call EXCEPT ![p].pc = "failed", ![p].ret = e]
      BY DEF Camera!I2c
    <3>3. CASE h.resp = "ok"
      BY <3>1, <3>2, <3>3
    <3>4. CASE h.resp # "ok"
      BY <3>1, <3>2, <3>4
    <3> QED BY <3>3, <3>4
  <2> QED BY <2>1, <2>2
<1>3. CASE Jump(p, "failed")
  BY <1>0, <1>3, JumpQuiet DEF Unlocked, Half, Clear
<1>4. CASE Jump(p, "done") /\ ~hci[Camera!Cam(p)].bell
  <2>1. CamCallsOk' /\ LockOk'
    BY <1>0, <1>4, Held DEF CamInv, Unlocked
  <2>2. camera_call'[p].cam = camera_call[p].cam /\ camera_call'[p].pc = "done"
    BY <1>4 DEF Jump
  <2>3. RouteOk'
    BY <1>0, <2>2, RouteQuiet DEF CamInv, Half, Clear
  <2>4. BellOk'
    BY <1>0, <1>4 DEF CamInv, BellOk
  <2>5. WrittenOk'
    BY <1>0, <2>2 DEF WrittenOk, Written
  <2>6. HciOk' /\ PinsOk'
    BY <1>0, <1>2, PinsHeld DEF CamInv, HciOk, Jump
  <2> QED BY <2>1, <2>3, <2>4, <2>5, <2>6 DEF CamInv
<1> QED BY <1>2, <1>3, <1>4

\* The camera is probed; the pins are put back.
LEMMA CamStepProbe == ASSUME CamInv, NEW p \in Procs, Camera!Probe(p) PROVE CamInv'
<1>0. zdev_lock = p /\ zdev_lock' = p /\ camera_call[p].pc = "probe" /\ UNCHANGED <<route, left, hci, swap, pin_swap>>
  BY DEF Camera!Probe, Camera!Own, Camera!At, Camera!cameras
<1>1. camera_call[p] # Camera!None
  BY <1>0, Owner DEF CamInv
<1>2. ASSUME NEW e, NEW x, camera_call' = [camera_call EXCEPT ![p].pc = x, ![p].ret = e] PROVE Jump(p, x)
  BY <1>1, <1>2, FailJump DEF CamInv
<1>3. Jump(p, "probe_end") \/ Jump(p, "pfini1")
  <2>1. CASE camera_call[p].reprobe
    <3>1. \E e : camera_call' = [camera_call EXCEPT ![p].pc = "probe_end", ![p].ret = e]
      BY <2>1 DEF Camera!Probe
    <3> QED BY <1>2, <3>1
  <2>2. CASE ~camera_call[p].reprobe
    <3>1. \/ \E e : camera_call' = [camera_call EXCEPT ![p].pc = "probe_end", ![p].ret = e]
          \/ \E e : camera_call' = [camera_call EXCEPT ![p].pc = "pfini1", ![p].ret = e]
      BY <2>2 DEF Camera!Probe
    <3> QED BY <1>2, <3>1
  <2> QED BY <2>1, <2>2
<1>4. CASE Jump(p, "probe_end")
  BY <1>0, <1>4, JumpQuiet DEF Unlocked, Half, Clear
<1>5. CASE Jump(p, "pfini1")
  BY <1>0, <1>5, JumpQuiet DEF Unlocked, Half, Clear
<1> QED BY <1>3, <1>4, <1>5

\* What is known of the pins is how they are.
LEMMA PinsSet ==
    ASSUME PinsOk, NEW p \in Procs, NEW v, Camera!SetPins(p, v), ~Camera!At(p, "force"), \A q \in Procs : q # p => camera_call'[q] = camera_call[q]
    PROVE  PinsOk'
<1>1. swap' = [swap EXCEPT ![Camera!Cam(p)] = v] /\ pin_swap' = [pin_swap EXCEPT ![Camera!Cam(p)] = v]
  BY DEF Camera!SetPins
<1>2. swap = [d \in Cams |-> swap[d]] /\ pin_swap = [d \in Cams |-> pin_swap[d]]
  BY DEF PinsOk
<1>3. /\ swap' = [d \in Cams |-> swap'[d]] /\ pin_swap' = [d \in Cams |-> pin_swap'[d]]
      /\ \A d \in Cams : (swap'[d] = swap[d] /\ pin_swap'[d] = pin_swap[d]) \/ swap'[d] = pin_swap'[d]
  BY <1>1, <1>2
<1> QED BY <1>3, PinsKept

\* After a second failure the pins are put back.
LEMMA CamStepProbeEnd == ASSUME CamInv, NEW p \in Procs, Camera!ProbeEnd(p) PROVE CamInv'
<1>0. zdev_lock = p /\ zdev_lock' = p /\ camera_call[p].pc = "probe_end" /\ UNCHANGED <<route, left, hci>> /\ Camera!Goto(p, "pend1")
  BY DEF Camera!ProbeEnd, Camera!Own, Camera!At
<1>1. Jump(p, "pend1")
  BY <1>0, Owner, GotoJump DEF CamInv
<1>2. CamCallsOk' /\ LockOk'
  BY <1>0, <1>1, Held DEF CamInv, Unlocked
<1>3. camera_call'[p].cam = camera_call[p].cam /\ camera_call'[p].pc = "pend1"
  BY <1>1 DEF Jump
<1>4. RouteOk'
  BY <1>0, <1>3, RouteQuiet DEF CamInv, Half, Clear
<1>5. BellOk' /\ WrittenOk'
  BY <1>0, <1>3, BellQuiet DEF CamInv
<1>6. PinsOk'
  <2>1. Camera!SetPins(p, camera_call[p].orig) \/ UNCHANGED <<swap, pin_swap>>
    BY DEF Camera!ProbeEnd
  <2>2. CASE UNCHANGED <<swap, pin_swap>>
    BY <1>0, <1>1, <2>2, PinsHeld DEF Jump
  <2>3. ~Camera!At(p, "force") /\ \A q \in Procs : q # p => camera_call'[q] = camera_call[q]
    BY <1>0, <1>1 DEF Camera!At, Jump
  <2> QED BY <2>1, <2>2, <2>3, PinsSet DEF CamInv
<1>7. HciOk'
  BY <1>0 DEF CamInv, HciOk
<1> QED BY <1>2, <1>4, <1>5, <1>6, <1>7 DEF CamInv
-----------------------------------------------------------------------------
\* The steps that give the lock back.
LEMMA CamStepSleep == ASSUME CamInv, NEW p \in Procs, Camera!ProbeSleep(p) PROVE CamInv'
<1>0. zdev_lock = p /\ zdev_lock' = NoProc /\ camera_call[p].pc = "i2c_reset" /\ UNCHANGED <<route, left, hci, swap, pin_swap>>
  BY DEF Camera!ProbeSleep, Camera!Own, Camera!At, Camera!cameras
<1>1. CamCallOk(camera_call[p]) /\ camera_call[p] # Camera!None
  BY <1>0, Owner DEF CamInv
<1>2. Jump(p, "pin_swap")
  BY <1>0, <1>1, GotoJump DEF CamInv, Camera!ProbeSleep
<1>3. CamCallOk(camera_call'[p]) /\ camera_call'[p].pc = "pin_swap"
  BY <1>1, <1>2 DEF CamCallOk, Jump
<1>4. CamCallsOk' /\ LockOk'
  BY <1>0, <1>2, <1>3, Freed DEF CamInv, Unlocked, Jump
<1>5. RouteOk'
  BY <1>0, RouteFreed DEF CamInv, Clear
<1>6. BellOk' /\ WrittenOk'
  BY <1>0, BellFreed DEF CamInv
<1>7. HciOk' /\ PinsOk'
  BY <1>0, <1>2, PinsHeld DEF CamInv, HciOk, Jump
<1> QED BY <1>4, <1>5, <1>6, <1>7 DEF CamInv

\* A probe has ended: the call goes on without the lock, or not at all.
LEMMA CamStepProbeUnlock == ASSUME CamInv, NEW p \in Procs, Camera!ProbeUnlock(p) PROVE CamInv'
<1>0. zdev_lock = p /\ zdev_lock' = NoProc /\ camera_call[p].pc = "punlock" /\ UNCHANGED <<route, left, hci, swap, pin_swap>>
  BY DEF Camera!ProbeUnlock, Camera!Own, Camera!At, Camera!cameras
<1>1. CamCallOk(camera_call[p]) /\ camera_call[p] # Camera!None
  BY <1>0, Owner DEF CamInv
<1>2. /\ camera_call' = [q \in Procs |-> camera_call'[q]] /\ \A q \in Procs : q # p => camera_call'[q] = camera_call[q]
      /\ camera_call'[p] = Camera!None \/ (CamCallOk(camera_call'[p]) /\ camera_call'[p].pc \in Unlocked)
  <2>1. CASE camera_call[p].ret = "ok"
    <3> DEFINE k == camera_call[p]
               j == camera_call'[p]
               n == FALSE
               v(e) == [op |-> k.op, todo |-> k.todo, ioctl |-> k.ioctl, cam |-> k.cam, ret |-> k.ret, pc |-> "lock", left |-> k.left,
                        tries |-> k.tries, reprobe |-> n, orig |-> e, addr |-> k.addr, size |-> k.size]
    <3>1. /\ camera_call' = [q \in Procs |-> camera_call'[q]] /\ \A q \in Procs : q # p => camera_call'[q] = camera_call[q]
          /\ j = [k EXCEPT !.pc = "lock", !.reprobe = n, !.orig = n]
      BY <2>1 DEF Camera!ProbeUnlock, CamInv, CamCallsOk
    <3>2. CamCallOk(k) /\ CamCall(k)
      BY <1>1 DEF CamCallOk
    <3> HIDE DEF k, j, n
    <3>3. [k EXCEPT !.pc = "lock", !.reprobe = n, !.orig = n] = [[[k EXCEPT !.pc = "lock"] EXCEPT !.reprobe = n] EXCEPT !.orig = n]
      BY <3>2 DEF CamCall
    <3>4. [k EXCEPT !.pc = "lock"] = CamCallAt(k, "lock", k.ret)
      BY <3>2, CamCallExcept
    <3>5. [CamCallAt(k, "lock", k.ret) EXCEPT !.reprobe = n] = v(k.orig)
      BY DEF CamCallAt
    <3>6. [v(k.orig) EXCEPT !.orig = n] = v(n)
      OBVIOUS
    <3>7. j = v(n)
      BY <3>1, <3>3, <3>4, <3>5, <3>6
    <3>8. CamCallOk(j) /\ j.pc = "lock"
      BY <3>2, <3>7 DEF CamCallOk, CamCall
    <3> QED BY <3>1, <3>8 DEF j, Unlocked
  <2>2. CASE camera_call[p].ret # "ok"
    <3>1. camera_call' = [camera_call EXCEPT ![p] = Camera!None]
      BY <2>2 DEF Camera!ProbeUnlock
    <3> QED BY <3>1 DEF CamInv, CamCallsOk
  <2> QED BY <2>1, <2>2
<1>4. CamCallsOk' /\ LockOk'
  BY <1>0, <1>2, Freed DEF CamInv
<1>5. RouteOk'
  BY <1>0, RouteFreed DEF CamInv, Clear
<1>6. BellOk' /\ WrittenOk'
  BY <1>0, BellFreed DEF CamInv
<1>7. HciOk' /\ PinsOk'
  BY <1>0, <1>2, PinsHeld DEF CamInv, HciOk, Jump
<1> QED BY <1>4, <1>5, <1>6, <1>7 DEF CamInv

\* The fields of the next call of an ioctl.
CamCallOf(k, op, todo, x, e) ==
    [op |-> op, todo |-> todo, ioctl |-> k.ioctl, cam |-> k.cam, ret |-> e, pc |-> x, left |-> k.left,
     tries |-> k.tries, reprobe |-> k.reprobe, orig |-> k.orig, addr |-> k.addr, size |-> k.size]

\* The next call of an ioctl, if there is one, waits for the lock.
LEMMA NextOpIs ==
    ASSUME NEW p \in Procs, CamCallOk(camera_call[p])
    PROVE  Camera!NextOp(p) = Camera!None \/ (CamCallOk(Camera!NextOp(p)) /\ Camera!NextOp(p).pc = "lock")
<1> DEFINE k == camera_call[p]
           a == CamCallOf(k, Head(k.todo), Tail(k.todo), "lock", k.ret)
           b == CamCallOf(k, "release_lock", <<>>, "lock", "ok")
<1>1. CamCallOk(k)
  OBVIOUS
<1>2. \/ k.ret = "ok" /\ k.todo # <<>> /\ Camera!NextOp(p) = [k EXCEPT !.op = Head(k.todo), !.todo = Tail(k.todo), !.pc = "lock"]
      \/ Camera!NextOp(p) = [k EXCEPT !.op = "release_lock", !.todo = <<>>, !.pc = "lock", !.ret = "ok"]
      \/ Camera!NextOp(p) = Camera!None
  BY DEF Camera!NextOp
<1>s. CamCall(k)
  BY <1>1 DEF CamCallOk
<1> HIDE DEF k
<1>3. [k EXCEPT !.op = Head(k.todo), !.todo = Tail(k.todo), !.pc = "lock"] = a
  <2>1. [k EXCEPT !.op = Head(k.todo), !.todo = Tail(k.todo), !.pc = "lock"]
          = [[[k EXCEPT !.op = Head(k.todo)] EXCEPT !.todo = Tail(k.todo)] EXCEPT !.pc = "lock"]
    BY <1>s DEF CamCall
  <2> DEFINE h == Head(k.todo)
             t == Tail(k.todo)
  <2> HIDE DEF h, t
  <2>2. [k EXCEPT !.op = h] = CamCallOf(k, h, k.todo, k.pc, k.ret)
    BY <1>s DEF CamCall, CamCallOf
  <2>3. [CamCallOf(k, h, k.todo, k.pc, k.ret) EXCEPT !.todo = t] = CamCallOf(k, h, t, k.pc, k.ret)
    BY DEF CamCallOf
  <2>4. [CamCallOf(k, h, t, k.pc, k.ret) EXCEPT !.pc = "lock"] = CamCallOf(k, h, t, "lock", k.ret)
    BY DEF CamCallOf
  <2>5. [[[k EXCEPT !.op = h] EXCEPT !.todo = t] EXCEPT !.pc = "lock"] = CamCallOf(k, h, t, "lock", k.ret)
    BY <2>2, <2>3, <2>4
  <2> QED BY <2>1, <2>5 DEF h, t
<1>4. [k EXCEPT !.op = "release_lock", !.todo = <<>>, !.pc = "lock", !.ret = "ok"] = b
  <2>1. [k EXCEPT !.op = "release_lock", !.todo = <<>>, !.pc = "lock", !.ret = "ok"]
          = [[[[k EXCEPT !.op = "release_lock"] EXCEPT !.todo = <<>>] EXCEPT !.pc = "lock"] EXCEPT !.ret = "ok"]
    BY <1>s DEF CamCall
  <2>2. [k EXCEPT !.op = "release_lock"] = CamCallOf(k, "release_lock", k.todo, k.pc, k.ret)
    BY <1>s DEF CamCall, CamCallOf
  <2>3. [CamCallOf(k, "release_lock", k.todo, k.pc, k.ret) EXCEPT !.todo = <<>>] = CamCallOf(k, "release_lock", <<>>, k.pc, k.ret)
    BY DEF CamCallOf
  <2>4. [CamCallOf(k, "release_lock", <<>>, k.pc, k.ret) EXCEPT !.pc = "lock"] = CamCallOf(k, "release_lock", <<>>, "lock", k.ret)
    BY DEF CamCallOf
  <2>5. [CamCallOf(k, "release_lock", <<>>, "lock", k.ret) EXCEPT !.ret = "ok"] = b
    BY DEF CamCallOf
  <2> QED BY <2>1, <2>2, <2>3, <2>4, <2>5
<1>5. ASSUME k.todo # <<>> PROVE CamCallOk(a) /\ a.pc = "lock"
  <2>1. Head(k.todo) \in CamOps /\ Tail(k.todo) \in Seq(CamOps)
    BY <1>1, <1>5 DEF CamCallOk
  <2> QED BY <1>1, <2>1 DEF CamCallOk, CamCall, CamCallOf
<1>6. CamCallOk(b) /\ b.pc = "lock"
  <2>1. "release_lock" \in CamOps /\ <<>> \in Seq(CamOps)
    BY DEF CamOps
  <2> QED BY <1>1, <2>1 DEF CamCallOk, CamCall, CamCallOf
<1> QED BY <1>2, <1>3, <1>4, <1>5, <1>6

\* A call ends, or its ioctl goes on without the lock.
LEMMA CamStepUnlock == ASSUME CamInv, NEW p \in Procs, Camera!Unlock(p) PROVE CamInv'
<1>0. zdev_lock = p /\ zdev_lock' = NoProc /\ camera_call[p].pc = "unlock" /\ UNCHANGED <<route, left, swap, pin_swap>>
  BY DEF Camera!Unlock, Camera!Own, Camera!At
<1>1. CamCallOk(camera_call[p]) /\ camera_call[p] # Camera!None
  BY <1>0, Owner DEF CamInv
<1>2. /\ camera_call' = [q \in Procs |-> camera_call'[q]] /\ \A q \in Procs : q # p => camera_call'[q] = camera_call[q]
      /\ camera_call'[p] = Camera!NextOp(p)
  BY DEF Camera!Unlock, CamInv, CamCallsOk
<1>3. CamCallsOk' /\ LockOk'
  BY <1>0, <1>1, <1>2, NextOpIs, Freed DEF CamInv, Unlocked
<1>4. RouteOk'
  BY <1>0, RouteFreed DEF CamInv, Clear
<1>5. /\ hci' = [c \in Cams |-> hci'[c]]
      /\ \A c \in Cams : HciRec(hci'[c]) /\ hci'[c].late = hci[c].late /\ (hci'[c].bell => hci[c].bell)
  <2> DEFINE d == Camera!Cam(p)
             h == hci[d]
             g == IF h.bell THEN [h EXCEPT !.pool = NoProc] ELSE Camera!Idle(h)
  <2>1. d \in Cams /\ HciRec(h)
    BY <1>1 DEF Camera!Cam, CamCallOk, CamInv, HciOk
  <2>2. hci' = [hci EXCEPT ![d] = g]
    BY DEF Camera!Unlock
  <2>3. HciRec(g) /\ g.late = h.late /\ (g.bell => h.bell)
    <3> HIDE DEF h
    <3>1. CASE h.bell
      BY <2>1, <3>1 DEF HciRec
    <3>2. CASE ~h.bell
      BY <3>2 DEF Camera!Idle, HciRec
    <3> QED BY <3>1, <3>2
  <2>4. DOMAIN hci = Cams /\ \A c \in Cams : HciRec(hci[c])
    BY DEF CamInv, HciOk
  <2> HIDE DEF g, d
  <2>5. \A c \in Cams : hci'[c] = IF c = d THEN g ELSE hci[c]
    BY <2>1, <2>2, <2>4
  <2>6. hci' = [c \in Cams |-> hci'[c]]
    BY <2>2, <2>4
  <2> QED BY <2>3, <2>4, <2>5, <2>6
<1>6. BellOk' /\ WrittenOk'
  BY <1>0, <1>5, BellFreed DEF CamInv
<1>7. HciOk' /\ PinsOk'
  BY <1>0, <1>2, <1>5, PinsHeld DEF CamInv, HciOk
<1> QED BY <1>3, <1>4, <1>6, <1>7 DEF CamInv
-----------------------------------------------------------------------------
\* The steps that take it.
LEMMA TakenInv ==
    ASSUME CamInv, NEW p \in Procs, zdev_lock = NoProc, zdev_lock' = p, UNCHANGED <<route, left, hci>>, PinsOk',
           camera_call' = [q \in Procs |-> camera_call'[q]], \A q \in Procs : q # p => camera_call'[q] = camera_call[q],
           CamCallOk(camera_call'[p]), camera_call'[p].pc \in {"init1", "probe1"}
    PROVE  CamInv'
<1>1. camera_call'[p].pc \notin Unlocked \cup Half \cup Clear \cup {"check", "issue", "wait"}
  BY DEF Unlocked, Half, Clear
<1>2. CamCallsOk' /\ LockOk'
  BY <1>1, Taken DEF CamInv
<1>3. RouteOk'
  BY <1>1, RouteTaken DEF CamInv
<1>4. BellOk' /\ WrittenOk'
  BY <1>1, BellTaken DEF CamInv
<1>5. HciOk'
  BY DEF CamInv, HciOk
<1> QED BY <1>2, <1>3, <1>4, <1>5 DEF CamInv

\* A step of a call that does not hold the lock, forces nothing and leaves the pins alone.
LEMMA PinsFree ==
    ASSUME CamInv, NEW p \in Procs, camera_call[p].pc # "force", UNCHANGED <<swap, pin_swap>>, \A q \in Procs : q # p => camera_call'[q] = camera_call[q]
    PROVE  PinsOk'
<1>1. swap' = [d \in Cams |-> swap'[d]] /\ pin_swap' = [d \in Cams |-> pin_swap'[d]]
  BY DEF CamInv, PinsOk
<1> QED BY <1>1, PinsKept DEF CamInv, Camera!At

\* The next call of an ioctl begins.
LEMMA CamStepLock == ASSUME CamInv, NEW p \in Procs, Camera!Lock(p) PROVE CamInv'
<1>0. /\ zdev_lock = NoProc /\ zdev_lock' = p /\ camera_call[p] # Camera!None /\ camera_call[p].pc = "lock"
      /\ UNCHANGED <<route, left, hci, swap, pin_swap>>
  BY DEF Camera!Lock, Camera!At, Camera!cameras
<1>1. CamCallOk(camera_call[p])
  BY <1>0 DEF CamInv, CamCallsOk
<1> DEFINE b == Camera!Body(camera_call[p].op)
<1>3. camera_call' = [camera_call EXCEPT ![p].pc = "init1", ![p].left = b]
  BY DEF Camera!Lock
<1> HIDE DEF b
<1>4. /\ camera_call' = [q \in Procs |-> camera_call'[q]] /\ \A q \in Procs : q # p => camera_call'[q] = camera_call[q]
      /\ camera_call'[p] = [camera_call[p] EXCEPT !.pc = "init1", !.left = b]
  BY <1>3 DEF CamInv, CamCallsOk
<1>5. CamCallOk(camera_call'[p]) /\ camera_call'[p].pc = "init1"
  <2> DEFINE k == camera_call[p]
             j == camera_call'[p]
  <2>1. CamCallOk(k) /\ j = [k EXCEPT !.pc = "init1", !.left = b]
    BY <1>1, <1>4
  <2> HIDE DEF k, j
  <2>2. j = [op |-> k.op, todo |-> k.todo, ioctl |-> k.ioctl, cam |-> k.cam, ret |-> k.ret, pc |-> "init1", left |-> b,
             tries |-> k.tries, reprobe |-> k.reprobe, orig |-> k.orig, addr |-> k.addr, size |-> k.size]
    BY <2>1 DEF CamCallOk, CamCall
  <2>3. CamCallOk(j) /\ j.pc = "init1"
    BY <2>1, <2>2 DEF CamCallOk, CamCall
  <2> QED BY <2>3 DEF j
<1>6. PinsOk'
  BY <1>0, <1>4, PinsFree
<1> QED BY <1>0, <1>4, <1>5, <1>6, TakenInv

\* The camera is probed once more.
LEMMA CamStepReprobe == ASSUME CamInv, NEW p \in Procs, Camera!Reprobe(p) PROVE CamInv'
<1>0. /\ zdev_lock = NoProc /\ zdev_lock' = p /\ camera_call[p] # Camera!None /\ camera_call[p].pc = "reprobe"
      /\ UNCHANGED <<route, left, hci, swap, pin_swap>>
  BY DEF Camera!Reprobe, Camera!At, Camera!cameras
<1>1. CamCallOk(camera_call[p])
  BY <1>0 DEF CamInv, CamCallsOk
<1>3. Jump(p, "probe1")
  BY <1>0, GotoJump DEF CamInv, Camera!Reprobe
<1>2. PinsOk'
  BY <1>0, <1>3, PinsFree DEF Jump
<1>4. CamCallOk(camera_call'[p]) /\ camera_call'[p].pc = "probe1"
  BY <1>1, <1>3 DEF CamCallOk, Jump
<1> QED BY <1>0, <1>2, <1>3, <1>4, TakenInv DEF Jump

\* All ioctls and files make at least one call, of those there are.
LEMMA TodoOk == \A t \in Camera!zvideo_ioctl_default \cup Camera!sysfs_calls : Head(t) \in CamOps /\ Tail(t) \in Seq(CamOps)
<1>1. ASSUME NEW a \in CamOps PROVE Head(<<a>>) \in CamOps /\ Tail(<<a>>) \in Seq(CamOps)
  OBVIOUS
<1>2. ASSUME NEW a \in CamOps, NEW b \in CamOps PROVE Head(<<a, b>>) \in CamOps /\ Tail(<<a, b>>) \in Seq(CamOps)
  OBVIOUS
<1>3. ASSUME NEW a \in CamOps, NEW b \in CamOps, NEW c \in CamOps, NEW d \in CamOps, NEW e \in CamOps
      PROVE  Head(<<a, b, c, d, e>>) \in CamOps /\ Tail(<<a, b, c, d, e>>) \in Seq(CamOps)
  OBVIOUS
<1>4. /\ "reg" \in CamOps /\ "set_suspend" \in CamOps /\ "get_lock" \in CamOps /\ "lock_status" \in CamOps /\ "query" \in CamOps
      /\ "config" \in CamOps /\ "release_lock" \in CamOps /\ "read" \in CamOps /\ "write" \in CamOps /\ "check_caps" \in CamOps
      /\ "change_config" \in CamOps
  BY DEF CamOps
<1>5. \A t \in Camera!zvideo_ioctl_default \cup Camera!sysfs_calls :
         t \in {<<"reg">>, <<"set_suspend", "get_lock", "lock_status", "query", "config">>, <<"get_lock", "lock_status">>,
                <<"release_lock">>, <<"read">>, <<"write">>, <<"check_caps">>, <<"change_config">>}
  BY Zenon DEF Camera!zvideo_ioctl_default, Camera!sysfs_calls
<1> QED BY <1>1, <1>2, <1>3, <1>4, <1>5, Zenon

\* An ioctl or a file begins its first call.
LEMMA CamStepBegin ==
    ASSUME CamInv, NEW p \in Procs, NEW c \in Cams, NEW t \in Camera!zvideo_ioctl_default \cup Camera!sysfs_calls, NEW ioctl,
           Camera!Begin(p, c, t, ioctl)
    PROVE  CamInv'
<1> USE DEF Camera!NewCall, Camera!MayCall
<1> DEFINE k == [op |-> Head(t), todo |-> Tail(t), ioctl |-> ioctl, cam |-> c, ret |-> "ok", pc |-> "init1",
                 left |-> Camera!Body(Head(t)), tries |-> 0, reprobe |-> FALSE, orig |-> FALSE, addr |-> FlashStart, size |-> FlashSize]
<1>0. zdev_lock = NoProc /\ zdev_lock' = p /\ UNCHANGED <<route, left, hci, swap>>
  BY DEF Camera!Begin
<1>1. \/ camera_call' = [camera_call EXCEPT ![p] = k] /\ pin_swap' = pin_swap
      \/ camera_call' = [camera_call EXCEPT ![p] = [k EXCEPT !.pc = "probe1", !.orig = swap[c]]] /\ pin_swap' = [pin_swap EXCEPT ![c] = swap[c]]
  BY DEF Camera!Begin
<1>2. PinsOk'
  <2>1. camera_call[p] = Camera!None /\ \A q \in Procs : q # p => camera_call'[q] = camera_call[q]
    BY <1>1 DEF Camera!Begin, CamInv, CamCallsOk
  <2>2. swap = [d \in Cams |-> swap[d]] /\ pin_swap = [d \in Cams |-> pin_swap[d]]
    BY DEF CamInv, PinsOk
  <2>3. pin_swap' = pin_swap \/ pin_swap' = [pin_swap EXCEPT ![c] = swap[c]]
    BY <1>1
  <2>4. /\ swap' = [d \in Cams |-> swap'[d]] /\ pin_swap' = [d \in Cams |-> pin_swap'[d]]
        /\ \A d \in Cams : (swap'[d] = swap[d] /\ pin_swap'[d] = pin_swap[d]) \/ swap'[d] = pin_swap'[d]
    BY <1>0, <2>2, <2>3
  <2> QED BY <2>1, <2>4, PinsKept DEF CamInv, Camera!At
<1>3. CamCallOk(k) /\ k.pc = "init1"
  BY TodoOk, CameraAssumption DEF CamCallOk, CamCall
<1>4. CamCallOk([k EXCEPT !.pc = "probe1", !.orig = swap[c]]) /\ [k EXCEPT !.pc = "probe1", !.orig = swap[c]].pc = "probe1"
  <2> HIDE DEF k
  <2> DEFINE o == swap[c]
             j == [op |-> k.op, todo |-> k.todo, ioctl |-> k.ioctl, cam |-> k.cam, ret |-> k.ret, pc |-> "probe1", left |-> k.left,
                   tries |-> k.tries, reprobe |-> k.reprobe, orig |-> o, addr |-> k.addr, size |-> k.size]
  <2> HIDE DEF o
  <2>1. [k EXCEPT !.pc = "probe1", !.orig = o] = [[k EXCEPT !.pc = "probe1"] EXCEPT !.orig = o]
    BY <1>3 DEF CamCallOk, CamCall
  <2>2. [k EXCEPT !.pc = "probe1"] = CamCallAt(k, "probe1", k.ret)
    BY <1>3, CamCallExcept DEF CamCallOk
  <2>3. [CamCallAt(k, "probe1", k.ret) EXCEPT !.orig = o] = j
    BY DEF CamCallAt
  <2>4. CamCallOk(j) /\ j.pc = "probe1"
    BY <1>3 DEF CamCallOk, CamCall
  <2>5. [k EXCEPT !.pc = "probe1", !.orig = o] = j
    BY <2>1, <2>2, <2>3
  <2> HIDE DEF j
  <2> QED BY <2>4, <2>5 DEF o
<1>5. \E j : camera_call' = [camera_call EXCEPT ![p] = j] /\ CamCallOk(j) /\ j.pc \in {"init1", "probe1"}
  <2> HIDE DEF k
  <2> QED BY <1>1, <1>3, <1>4
<1>6. PICK j : camera_call' = [camera_call EXCEPT ![p] = j] /\ CamCallOk(j) /\ j.pc \in {"init1", "probe1"}
  BY <1>5
<1>7. /\ camera_call' = [q \in Procs |-> camera_call'[q]] /\ \A q \in Procs : q # p => camera_call'[q] = camera_call[q]
      /\ camera_call'[p] = j
  BY <1>6 DEF CamInv, CamCallsOk
<1> QED BY <1>0, <1>2, <1>6, <1>7, TakenInv
-----------------------------------------------------------------------------
\* The pins are swapped while nobody holds the lock.
LEMMA CamStepSwap == ASSUME CamInv, NEW p \in Procs, Camera!ProbeSwap(p) PROVE CamInv'
<1>0. /\ zdev_lock = NoProc /\ zdev_lock' = NoProc /\ camera_call[p] # Camera!None /\ UNCHANGED <<route, left, hci>>
      /\ camera_call[p].pc = "pin_swap"
      /\ camera_call' = [camera_call EXCEPT ![p].pc = "reprobe", ![p].reprobe = TRUE, ![p].ret = "ok"]
  BY DEF Camera!ProbeSwap, Camera!At
<1>1. CamCallOk(camera_call[p])
  BY <1>0 DEF CamInv, CamCallsOk
<1>2. /\ camera_call' = [q \in Procs |-> camera_call'[q]] /\ \A q \in Procs : q # p => camera_call'[q] = camera_call[q]
      /\ camera_call'[p] = [camera_call[p] EXCEPT !.pc = "reprobe", !.reprobe = TRUE, !.ret = "ok"]
  BY <1>0 DEF CamInv, CamCallsOk
<1>3. CamCallOk(camera_call'[p]) /\ camera_call'[p].pc = "reprobe"
  <2> DEFINE k == camera_call[p]
             j == camera_call'[p]
             t == TRUE
             r(e) == [op |-> k.op, todo |-> k.todo, ioctl |-> k.ioctl, cam |-> k.cam, ret |-> e, pc |-> "reprobe", left |-> k.left,
                      tries |-> k.tries, reprobe |-> t, orig |-> k.orig, addr |-> k.addr, size |-> k.size]
  <2>1. CamCallOk(k) /\ CamCall(k) /\ j = [k EXCEPT !.pc = "reprobe", !.reprobe = t, !.ret = "ok"]
    BY <1>1, <1>2 DEF CamCallOk
  <2> HIDE DEF k, j, t
  <2>2. [k EXCEPT !.pc = "reprobe", !.reprobe = t, !.ret = "ok"]
          = [[[k EXCEPT !.pc = "reprobe"] EXCEPT !.reprobe = t] EXCEPT !.ret = "ok"]
    BY <2>1 DEF CamCall
  <2>3. [k EXCEPT !.pc = "reprobe"] = CamCallAt(k, "reprobe", k.ret)
    BY <2>1, CamCallExcept
  <2>4. [CamCallAt(k, "reprobe", k.ret) EXCEPT !.reprobe = t] = r(k.ret)
    BY DEF CamCallAt
  <2>5. [r(k.ret) EXCEPT !.ret = "ok"] = r("ok")
    OBVIOUS
  <2>6. j = r("ok")
    BY <2>1, <2>2, <2>3, <2>4, <2>5
  <2>7. CamCallOk(j) /\ j.pc = "reprobe"
    BY <2>1, <2>6 DEF CamCallOk, CamCall
  <2> QED BY <2>7 DEF j
<1>4. CamCallsOk'
  BY <1>2, <1>3 DEF CamInv, CamCallsOk
<1>5. ~Holding(p)' /\ ~Holding(p) /\ \A q \in Procs : q # p => (Holding(q)' <=> Holding(q))
  BY <1>0, <1>2, <1>3 DEF Holding, Unlocked
<1>6. LockOk'
  BY <1>0, <1>5 DEF CamInv, LockOk
<1>7. RouteOk'
  BY <1>0, CameraAssumption DEF CamInv, RouteOk, Camera!Routed
<1>8. BellOk' /\ WrittenOk'
  BY <1>0, CameraAssumption DEF CamInv, BellOk, WrittenOk
<1>9. PinsOk'
  BY <1>0, <1>2, PinsSet DEF CamInv, Camera!ProbeSwap, Camera!At
<1>10. HciOk'
  BY <1>0 DEF CamInv, HciOk
<1> QED BY <1>4, <1>6, <1>7, <1>8, <1>9, <1>10 DEF CamInv

\* A call that does not hold the lock, before and after a step which only it makes.
LEMMA AsideInv ==
    ASSUME CamInv, NEW p \in Procs, ~Holding(p), UNCHANGED <<zdev_lock, route, left, hci>>, PinsOk',
           camera_call' = [q \in Procs |-> camera_call'[q]], \A q \in Procs : q # p => camera_call'[q] = camera_call[q],
           CamCallOk(camera_call'[p]), camera_call'[p].pc \in Unlocked
    PROVE  CamInv'
<1>1. zdev_lock # p /\ ~Holding(p)'
  BY DEF CamInv, LockOk, Holding
<1>2. CamCallsOk'
  BY DEF CamInv, CamCallsOk
<1>3. \A q \in Procs : q # p => (Holding(q)' <=> Holding(q))
  BY DEF Holding
<1>4. LockOk'
  BY <1>1, <1>3 DEF CamInv, LockOk
<1>5. zdev_lock = NoProc \/ (zdev_lock \in Procs /\ camera_call'[zdev_lock] = camera_call[zdev_lock])
  BY <1>1 DEF CamInv, LockOk
<1>6. RouteOk'
  BY <1>1, <1>5 DEF CamInv, RouteOk, Camera!Routed, Camera!Cam
<1>7. BellOk' /\ WrittenOk'
  BY <1>1, <1>5, CameraAssumption DEF CamInv, BellOk, WrittenOk, Written, Camera!Cam, Camera!Now
<1>8. HciOk'
  BY DEF CamInv, HciOk
<1> QED BY <1>2, <1>4, <1>6, <1>7, <1>8 DEF CamInv

\* A value that is to be forced is noted, whoever holds the lock.
LEMMA CamStepForceBegin ==
    ASSUME CamInv, NEW p \in Procs, NEW c \in Cams, NEW i, Camera!ForceBegin(p, c, i)
    PROVE  CamInv'
<1> DEFINE k == Camera!NewCall(c, <<"check_caps">>, i)
<1>0. camera_call[p] = Camera!None /\ UNCHANGED <<zdev_lock, route, left, hci, swap>> /\ ~Holding(p)
  BY DEF Camera!ForceBegin, Camera!MayCall, Holding
<1>1. /\ camera_call' = [q \in Procs |-> camera_call'[q]] /\ \A q \in Procs : q # p => camera_call'[q] = camera_call[q]
      /\ camera_call'[p] = [k EXCEPT !.pc = "force"]
  BY DEF Camera!ForceBegin, CamInv, CamCallsOk
<1>2. CamCallOk(k) /\ k.cam = c
  <2>1. "check_caps" \in CamOps
    BY DEF CamOps
  <2>2. Head(<<"check_caps">>) \in CamOps /\ Tail(<<"check_caps">>) \in Seq(CamOps)
    BY <2>1
  <2> QED BY <2>2, CameraAssumption DEF CamCallOk, CamCall, Camera!NewCall
<1> HIDE DEF k
<1>3. camera_call'[p] = CamCallAt(k, "force", k.ret)
  BY <1>1, <1>2, CamCallExcept DEF CamCallOk
<1>4. CamCallOk(camera_call'[p]) /\ camera_call'[p].pc = "force" /\ camera_call'[p].cam = c
  BY <1>2, <1>3 DEF CamCallOk, CamCall, CamCallAt
<1>5. PinsOk'
  <2>1. PICK v \in BOOLEAN : pin_swap' = [pin_swap EXCEPT ![c] = v]
    BY DEF Camera!ForceBegin
  <2>2. pin_swap' = [d \in Cams |-> pin_swap'[d]] /\ swap' = [d \in Cams |-> swap'[d]] /\ \A d \in Cams : d # c => pin_swap'[d] = pin_swap[d]
    BY <1>0, <2>1 DEF CamInv, PinsOk
  <2>3. Forcing(c)'
    BY <1>4, CallNotNone DEF Forcing, Camera!At, Camera!Cam
  <2>4. ASSUME NEW d \in Cams, Forcing(d) PROVE Forcing(d)'
    BY <1>0, <1>1, <2>4 DEF Forcing, Camera!At, Camera!Cam
  <2> QED BY <1>0, <2>2, <2>3, <2>4 DEF CamInv, PinsOk
<1> QED BY <1>0, <1>1, <1>4, <1>5, AsideInv DEF Unlocked

\* It is written, under the lock; the camera's pins are then what is noted.
LEMMA CamStepForce == ASSUME CamInv, NEW p \in Procs, Camera!ForcePins(p) PROVE CamInv'
<1>0. /\ camera_call[p] # Camera!None /\ camera_call[p].pc = "force" /\ UNCHANGED <<zdev_lock, route, left, hci, pin_swap>>
      /\ swap' = [swap EXCEPT ![Camera!Cam(p)] = pin_swap[Camera!Cam(p)]] /\ Camera!Goto(p, "lock")
  BY DEF Camera!ForcePins, Camera!At
<1>1. CamCallOk(camera_call[p]) /\ ~Holding(p)
  BY <1>0 DEF CamInv, CamCallsOk, Holding, Unlocked
<1>2. Jump(p, "lock")
  BY <1>0, GotoJump DEF CamInv
<1>3. CamCallOk(camera_call'[p]) /\ camera_call'[p].pc = "lock"
  BY <1>1, <1>2 DEF CamCallOk, Jump
<1>4. PinsOk'
  <2> DEFINE c == Camera!Cam(p)
  <2>1. c \in Cams
    BY <1>1 DEF CamCallOk, Camera!Cam
  <2>2. /\ pin_swap' = [d \in Cams |-> pin_swap'[d]] /\ swap' = [d \in Cams |-> swap'[d]]
        /\ swap'[c] = pin_swap'[c] /\ \A d \in Cams : d # c => swap'[d] = swap[d]
    BY <1>0, <2>1 DEF CamInv, PinsOk
  <2>3. ASSUME NEW d \in Cams, d # c, Forcing(d) PROVE Forcing(d)'
    BY <1>2, <2>3 DEF Forcing, Camera!At, Camera!Cam, Jump
  <2> QED BY <1>0, <2>2, <2>3 DEF CamInv, PinsOk
<1> QED BY <1>0, <1>1, <1>2, <1>3, <1>4, AsideInv DEF Jump, Unlocked
-----------------------------------------------------------------------------
\* The camera of a call gets h, the others stay as they are.
HciPut(p, h) ==
    /\ hci' = [c \in Cams |-> hci'[c]] /\ hci'[Camera!Cam(p)] = h
    /\ \A c \in Cams : c # Camera!Cam(p) => hci'[c] = hci[c]

\* An access that writes to the camera, whatever becomes of it.
LEMMA HciJump ==
    ASSUME CamCallsOk, HciOk, NEW p \in Procs, camera_call[p] # Camera!None, NEW h, NEW ok, NEW bad,
           Camera!zdev_i2c_write(p, Camera!SetHci(p, h), ok, bad)
    PROVE  /\ UNCHANGED <<route, left, swap, pin_swap>>
           /\ \/ Jump(p, ok) /\ HciPut(p, h)
              \/ Jump(p, bad) /\ (HciPut(p, h) \/ hci' = hci)
<1>1. Camera!Cam(p) \in Cams
  BY DEF CamCallsOk, CamCallOk, Camera!Cam
<1>2. Camera!SetHci(p, h) => HciPut(p, h) /\ UNCHANGED <<route, left, swap, pin_swap>>
  BY <1>1 DEF Camera!SetHci, HciPut, HciOk
<1>3. Camera!Goto(p, ok) => Jump(p, ok)
  BY GotoJump
<1>4. ASSUME NEW e, camera_call' = [camera_call EXCEPT ![p].pc = bad, ![p].ret = e] PROVE Jump(p, bad)
  BY <1>4, FailJump
<1>5. \/ Camera!SetHci(p, h) /\ Camera!Goto(p, ok)
      \/ \E e \in I2cErrors : /\ camera_call' = [camera_call EXCEPT ![p].pc = bad, ![p].ret = e]
                              /\ Camera!SetHci(p, h) \/ UNCHANGED Camera!cameras
  BY DEF Camera!zdev_i2c_write, Camera!I2c
<1>6. UNCHANGED Camera!cameras => UNCHANGED <<route, left, hci, swap, pin_swap>>
  BY DEF Camera!cameras
<1> QED BY <1>2, <1>3, <1>4, <1>5, <1>6

\* All but the doorbell and the parameters, when the lock is held and the route left alone.
LEMMA HeldInv ==
    ASSUME CamInv, NEW p \in Procs, zdev_lock = p, NEW x, Jump(p, x), x \notin Unlocked \cup Half \cup Clear,
           zdev_lock' = p, UNCHANGED <<route, left, swap, pin_swap>>, HciOk', BellOk', WrittenOk'
    PROVE  CamInv'
<1>1. CamCallsOk' /\ LockOk'
  BY Held DEF CamInv
<1>2. camera_call'[p].cam = camera_call[p].cam /\ camera_call'[p].pc = x
  BY DEF Jump
<1>3. RouteOk'
  BY <1>2, RouteQuiet DEF CamInv
<1>4. PinsOk'
  BY PinsHeld DEF Jump
<1> QED BY <1>1, <1>3, <1>4 DEF CamInv

\* Parameters are written (zcam_params_write).
LEMMA CamStepParams == ASSUME CamInv, NEW p \in Procs, Camera!zcam_params_write(p) PROVE CamInv'
<1> DEFINE d == Camera!Cam(p)
           h == [hci[d] EXCEPT !.pool = p]
<1>0. /\ zdev_lock = p /\ zdev_lock' = p /\ camera_call[p].pc = "params"
      /\ Camera!zdev_i2c_write(p, Camera!SetHci(p, h), "check", "failed")
  BY DEF Camera!zcam_params_write, Camera!Own, Camera!At
<1>1. camera_call[p] # Camera!None /\ CamCallOk(camera_call[p]) /\ CamCallsOk /\ HciOk
  BY <1>0, Owner DEF CamInv
<1>2. d \in Cams /\ HciRec(hci[d])
  BY <1>1 DEF CamCallOk, Camera!Cam, HciOk
<1>3. HciRec(h) /\ h.pool = p /\ h.bell = hci[d].bell /\ h.late = hci[d].late
  BY <1>2 DEF HciRec
<1> HIDE DEF h
<1>4. /\ UNCHANGED <<route, left, swap, pin_swap>>
      /\ \/ Jump(p, "check") /\ HciPut(p, h)
         \/ Jump(p, "failed") /\ (HciPut(p, h) \/ hci' = hci)
  BY <1>0, <1>1, HciJump
<1>5. HciOk' /\ \A c \in Cams : hci'[c].bell = hci[c].bell /\ hci'[c].late = hci[c].late
  BY <1>1, <1>3, <1>4 DEF HciOk, HciPut
<1>6. BellOk'
  BY <1>0, <1>5 DEF CamInv, BellOk
<1>7. CASE Jump(p, "check") /\ HciPut(p, h)
  <2>1. Camera!Cam(p)' = d /\ camera_call'[p].pc = "check"
    BY <1>7 DEF Jump, Camera!Cam
  <2>2. hci'[d].pool = p
    BY <1>3, <1>7 DEF HciPut
  <2>3. WrittenOk'
    BY <1>0, <2>1, <2>2 DEF WrittenOk, Written
  <2> QED BY <1>0, <1>4, <1>5, <1>6, <1>7, <2>3, HeldInv DEF Unlocked, Half, Clear
<1>8. CASE Jump(p, "failed")
  <2>1. camera_call'[p].pc = "failed"
    BY <1>8 DEF Jump
  <2>2. WrittenOk'
    BY <1>0, <2>1 DEF WrittenOk, Written
  <2> QED BY <1>0, <1>4, <1>5, <1>6, <1>8, <2>2, HeldInv DEF Unlocked, Half, Clear
<1> QED BY <1>4, <1>7, <1>8

\* The doorbell is rung.
LEMMA CamStepRing == ASSUME CamInv, NEW p \in Procs, Camera!DoorbellRing(p) PROVE CamInv'
<1> DEFINE d == Camera!Cam(p)
           y == Camera!Kind(Camera!Now(p).cmd)
           h == [hci[d] EXCEPT !.bell = TRUE, !.cmd = y]
<1>0. /\ zdev_lock = p /\ zdev_lock' = p /\ camera_call[p].pc = "issue"
      /\ Camera!zdev_i2c_write(p, Camera!SetHci(p, h), "wait", "failed")
  BY DEF Camera!DoorbellRing, Camera!Own, Camera!At
<1>1. camera_call[p] # Camera!None /\ CamCallOk(camera_call[p]) /\ CamCallsOk /\ HciOk
  BY <1>0, Owner DEF CamInv
<1>2. d \in Cams /\ HciRec(hci[d])
  BY <1>1 DEF CamCallOk, Camera!Cam, HciOk
<1>3. HciRec(h) /\ h.pool = hci[d].pool /\ h.bell = TRUE /\ h.late = hci[d].late /\ h.cmd = y
  <2> HIDE DEF y
  <2> DEFINE g == hci[d]
             t == TRUE
             r(z) == [bell |-> t, cmd |-> z, resp |-> g.resp, pool |-> g.pool, late |-> g.late]
  <2>1. HciRec(g) /\ h = [g EXCEPT !.bell = t, !.cmd = y]
    BY <1>2
  <2> HIDE DEF g, h, t
  <2>2. [g EXCEPT !.bell = t, !.cmd = y] = [[g EXCEPT !.bell = t] EXCEPT !.cmd = y]
    BY <2>1 DEF HciRec
  <2>3. [g EXCEPT !.bell = t] = r(g.cmd)
    BY <2>1 DEF HciRec
  <2>4. [r(g.cmd) EXCEPT !.cmd = y] = r(y)
    OBVIOUS
  <2>5. h = r(y)
    BY <2>1, <2>2, <2>3, <2>4
  <2>6. HciRec(r(y)) /\ r(y).pool = g.pool /\ r(y).bell = t /\ r(y).late = g.late /\ r(y).cmd = y
    BY DEF HciRec
  <2> HIDE DEF r
  <2> QED BY <2>5, <2>6 DEF g, t
<1> HIDE DEF h
<1>4. /\ UNCHANGED <<route, left, swap, pin_swap>>
      /\ \/ Jump(p, "wait") /\ HciPut(p, h)
         \/ Jump(p, "failed") /\ (HciPut(p, h) \/ hci' = hci)
  BY <1>0, <1>1, HciJump
<1>5. HciOk' /\ \A c \in Cams : hci'[c].late = hci[c].late /\ (c # d => hci'[c].bell = hci[c].bell)
  BY <1>1, <1>3, <1>4 DEF HciOk, HciPut
<1>6. camera_call'[p].pc \in {"wait", "failed"} /\ Camera!Cam(p)' = d /\ Camera!Now(p)' = Camera!Now(p)
  BY <1>4 DEF Jump, Camera!Cam, Camera!Now
<1>7. BellOk'
  BY <1>0, <1>5, <1>6 DEF CamInv, BellOk
<1>8. CASE Jump(p, "wait") /\ HciPut(p, h)
  <2>1. camera_call'[p].pc = "wait"
    BY <1>8 DEF Jump
  <2>2. hci'[d] = h
    BY <1>8 DEF HciPut
  <2>3. ASSUME ~hci'[d].late PROVE Written(p)'
    <3>1. Camera!Now(p).par => hci[d].pool = p
      BY <1>0, <1>2, <1>5, <2>3 DEF CamInv, WrittenOk, Written
    <3>2. hci'[d].cmd = y /\ (Camera!Now(p)'.par => hci'[d].pool = p)
      BY <1>3, <1>6, <2>2, <3>1
    <3> QED BY <1>6, <2>1, <3>2 DEF Written
  <2>4. WrittenOk'
    BY <1>0, <1>6, <2>3 DEF WrittenOk
  <2> QED BY <1>0, <1>4, <1>5, <1>7, <1>8, <2>4, HeldInv DEF Unlocked, Half, Clear
<1>9. CASE Jump(p, "failed")
  <2>1. camera_call'[p].pc = "failed"
    BY <1>9 DEF Jump
  <2>2. WrittenOk'
    BY <1>0, <2>1 DEF WrittenOk, Written
  <2> QED BY <1>0, <1>4, <1>5, <1>7, <1>9, <2>2, HeldInv DEF Unlocked, Half, Clear
<1> QED BY <1>4, <1>8, <1>9

\* A command has failed: it is repeated, ignored or ends the call; a doorbell that still rings is remembered.
LEMMA CamStepFailed == ASSUME CamInv, NEW p \in Procs, Camera!StageFailed(p) PROVE CamInv'
<1> DEFINE d == Camera!Cam(p)
           k == camera_call[p]
           x == Camera!Enter(k.left)
<1>0. zdev_lock = p /\ zdev_lock' = p /\ k.pc = "failed" /\ UNCHANGED <<route, left, swap, pin_swap>>
  BY DEF Camera!StageFailed, Camera!Own, Camera!At
<1>1. k # Camera!None /\ CamCallOk(k) /\ CamCall(k) /\ CamCallsOk /\ HciOk
  BY <1>0, Owner DEF CamInv, CamCallOk
<1>2. Jump(p, x) \/ Jump(p, "done") \/ Jump(p, "fini1")
  <2>1. \/ camera_call' = [camera_call EXCEPT ![p] = [k EXCEPT !.tries = k.tries + 1, !.pc = x, !.ret = "ok"]]
        \/ camera_call' = [camera_call EXCEPT ![p] = [k EXCEPT !.pc = "done", !.ret = "ok"]]
        \/ camera_call' = [camera_call EXCEPT ![p] = [k EXCEPT !.pc = "fini1"]]
    <3> DEFINE A == k.ret \in Camera!Now(p).again /\ k.tries + 1 < Retries
               B == Camera!Now(p).opt
               v1 == [k EXCEPT !.tries = k.tries + 1, !.pc = x, !.ret = "ok"]
               v2 == [k EXCEPT !.pc = "done", !.ret = "ok"]
               v3 == [k EXCEPT !.pc = "fini1"]
    <3>1. camera_call' = [camera_call EXCEPT ![p] = IF A THEN v1 ELSE IF B THEN v2 ELSE v3]
      BY Zenon DEF Camera!StageFailed
    <3> HIDE DEF A, B, v1, v2, v3
    <3>2. camera_call' = [camera_call EXCEPT ![p] = v1] \/ camera_call' = [camera_call EXCEPT ![p] = v2] \/ camera_call' = [camera_call EXCEPT ![p] = v3]
      BY <3>1
    <3> QED BY <3>2 DEF v1, v2, v3
  <2>2. CASE camera_call' = [camera_call EXCEPT ![p] = [k EXCEPT !.pc = "fini1"]]
    BY <1>1, <2>2, GotoJump DEF Camera!Goto
  <2>3. CASE camera_call' = [camera_call EXCEPT ![p] = [k EXCEPT !.pc = "done", !.ret = "ok"]]
    <3>1. [camera_call EXCEPT ![p].pc = "done", ![p].ret = "ok"] = [camera_call EXCEPT ![p] = [k EXCEPT !.pc = "done", !.ret = "ok"]]
      BY <1>1 DEF CamCallsOk
    <3> QED BY <1>1, <2>3, <3>1, FailJump
  <2>4. CASE camera_call' = [camera_call EXCEPT ![p] = [k EXCEPT !.tries = k.tries + 1, !.pc = x, !.ret = "ok"]]
    <3> DEFINE n == k.tries + 1
               j == camera_call'[p]
               r(y, e) == [op |-> k.op, todo |-> k.todo, ioctl |-> k.ioctl, cam |-> k.cam, ret |-> e, pc |-> y, left |-> k.left,
                           tries |-> n, reprobe |-> k.reprobe, orig |-> k.orig, addr |-> k.addr, size |-> k.size]
    <3>1. /\ camera_call' = [q \in Procs |-> camera_call'[q]] /\ \A q \in Procs : q # p => camera_call'[q] = camera_call[q]
          /\ j = [k EXCEPT !.tries = n, !.pc = x, !.ret = "ok"]
      BY <1>1, <2>4 DEF CamCallsOk
    <3>2. j = r(x, "ok")
      <4>1. CamCall(k)
        BY <1>1
      <4> HIDE DEF k, n, x, j
      <4>2. [k EXCEPT !.tries = n, !.pc = x, !.ret = "ok"] = [[[k EXCEPT !.tries = n] EXCEPT !.pc = x] EXCEPT !.ret = "ok"]
        BY <4>1 DEF CamCall
      <4>3. [k EXCEPT !.tries = n] = r(k.pc, k.ret)
        BY <4>1 DEF CamCall
      <4>4. [r(k.pc, k.ret) EXCEPT !.pc = x] = r(x, k.ret)
        OBVIOUS
      <4>5. [r(x, k.ret) EXCEPT !.ret = "ok"] = r(x, "ok")
        OBVIOUS
      <4> QED BY <3>1, <4>2, <4>3, <4>4, <4>5
    <3>3. CamCall(r(x, "ok")) /\ r(x, "ok").pc = x /\ r(x, "ok").op = k.op /\ r(x, "ok").todo = k.todo /\ r(x, "ok").cam = k.cam
          /\ r(x, "ok").left = k.left /\ r(x, "ok").addr = k.addr /\ r(x, "ok").size = k.size
      <4> HIDE DEF k, n, x
      <4> QED BY DEF CamCall
    <3>4. CamCall(j) /\ j.pc = x /\ j.op = k.op /\ j.todo = k.todo /\ j.cam = k.cam /\ j.left = k.left /\ j.addr = k.addr /\ j.size = k.size
      <4> HIDE DEF r, x, j, k
      <4> QED BY <3>2, <3>3
    <3>5. Jump(p, x)
      BY <3>1, <3>4 DEF Jump
    <3> QED BY <3>5
  <2> HIDE DEF k, x
  <2> QED BY <2>1, <2>2, <2>3, <2>4
<1>3. PICK y \in {x, "done", "fini1"} : Jump(p, y)
  BY <1>2
<1>4. y \in {"params", "check", "done", "fini1"} /\ (y = "check" => ~Head(k.left).par)
  BY <1>3, EnterStage
<1>5. camera_call'[p].pc = y /\ Camera!Cam(p)' = d /\ camera_call'[p].left = k.left
  BY <1>3 DEF Jump, Camera!Cam
<1>6. d \in Cams
  BY <1>1 DEF CamCallOk, Camera!Cam
<1>7. /\ HciOk' /\ \A c \in Cams : c # d => hci'[c] = hci[c]
      /\ hci'[d].late <=> hci[d].late \/ hci[d].bell
      /\ hci'[d].bell = hci[d].bell
  <2> DEFINE g == hci[d]
             b == g.late \/ g.bell
             h == [g EXCEPT !.late = b]
  <2>1. hci' = [hci EXCEPT ![d] = h]
    BY DEF Camera!StageFailed
  <2>2. b = TRUE \/ b = FALSE
    OBVIOUS
  <2>3. b <=> g.late \/ g.bell
    OBVIOUS
  <2>4. HciRec(g) /\ DOMAIN hci = Cams
    BY <1>1, <1>6 DEF HciOk
  <2> HIDE DEF b, g
  <2>5. HciRec(h) /\ h.late = b /\ h.bell = g.bell
    BY <2>4 DEF HciRec
  <2> HIDE DEF h
  <2>6. hci' = [c \in Cams |-> hci'[c]] /\ hci'[d] = h /\ \A c \in Cams : c # d => hci'[c] = hci[c]
    BY <1>6, <2>1, <2>4
  <2>7. HciOk'
    BY <1>1, <2>5, <2>6 DEF HciOk
  <2>8. hci'[d].late <=> g.late \/ g.bell
    BY <2>2, <2>3, <2>5, <2>6
  <2> QED BY <2>5, <2>6, <2>7, <2>8 DEF g
<1>8. BellOk'
  <2>1. ASSUME NEW c \in Cams, hci'[c].bell, ~hci'[c].late PROVE FALSE
    <3>1. c # d
      BY <1>7, <2>1
    <3>2. hci[c].bell /\ ~hci[c].late
      BY <1>7, <2>1, <3>1
    <3>3. \E q \in Procs : zdev_lock = q /\ Camera!Cam(q) = c
      BY <3>2 DEF CamInv, BellOk
    <3> QED BY <1>0, <3>1, <3>3
  <2> QED BY <2>1 DEF BellOk
<1>9. WrittenOk'
  BY <1>0, <1>4, <1>5 DEF WrittenOk, Written, Camera!Now
<1> QED BY <1>0, <1>3, <1>4, <1>7, <1>8, <1>9, HeldInv DEF Unlocked, Half, Clear

\* The camera carries out what its command register holds.
LEMMA CamStepDoes == ASSUME CamInv, NEW c \in Cams, Camera!CameraDoes(c) PROVE CamInv'
<1>0. hci[c].bell /\ UNCHANGED <<zdev_lock, camera_call, route, left, swap, pin_swap>>
  BY DEF Camera!CameraDoes
<1>1. HciOk /\ DOMAIN hci = Cams /\ HciRec(hci[c])
  BY DEF CamInv, HciOk
<1> DEFINE Waits == \E p \in Procs : Camera!At(p, "wait") /\ Camera!Cam(p) = c
           g == hci[c]
           o == IF g.cmd = "result" THEN NoProc ELSE g.pool
<1>2. PICK r : hci' = [hci EXCEPT ![c] = IF Waits THEN [g EXCEPT !.bell = FALSE, !.resp = r, !.pool = o] ELSE [Camera!Idle(g) EXCEPT !.pool = o]]
  BY Zenon DEF Camera!CameraDoes
<1> DEFINE h == IF Waits THEN [g EXCEPT !.bell = FALSE, !.resp = r, !.pool = o] ELSE [Camera!Idle(g) EXCEPT !.pool = o]
<1>3. hci' = [hci EXCEPT ![c] = h]
  BY <1>2
<1>4. HciRec(h) /\ h.bell = FALSE /\ h.late = g.late /\ (Waits => h.cmd = g.cmd)
  <2> DEFINE t == FALSE
             u(a, b) == [bell |-> t, cmd |-> g.cmd, resp |-> a, pool |-> b, late |-> g.late]
             v(b) == [bell |-> t, cmd |-> "plain", resp |-> "ok", pool |-> b, late |-> g.late]
  <2>1. HciRec(g) /\ Camera!Idle(g) = v(NoProc)
    BY <1>1 DEF Camera!Idle
  <2>2. h = IF Waits THEN [g EXCEPT !.bell = t, !.resp = r, !.pool = o] ELSE [Camera!Idle(g) EXCEPT !.pool = o]
    OBVIOUS
  <2> HIDE DEF h, g, t, o, Waits
  <2>3. [g EXCEPT !.bell = t, !.resp = r, !.pool = o] = [[[g EXCEPT !.bell = t] EXCEPT !.resp = r] EXCEPT !.pool = o]
    BY <2>1 DEF HciRec
  <2>4. [g EXCEPT !.bell = t] = u(g.resp, g.pool)
    BY <2>1 DEF HciRec
  <2>5. [u(g.resp, g.pool) EXCEPT !.resp = r] = u(r, g.pool)
    OBVIOUS
  <2>6. [u(r, g.pool) EXCEPT !.pool = o] = u(r, o)
    OBVIOUS
  <2>7. [v(NoProc) EXCEPT !.pool = o] = v(o)
    OBVIOUS
  <2>8. CASE Waits
    <3>1. h = u(r, o)
      BY <2>2, <2>3, <2>4, <2>5, <2>6, <2>8
    <3>2. HciRec(h) /\ h.bell = t /\ h.late = g.late /\ h.cmd = g.cmd
      BY <3>1 DEF HciRec
    <3> QED BY <3>2 DEF t
  <2>9. CASE ~Waits
    <3>1. h = v(o)
      BY <2>1, <2>2, <2>7, <2>9
    <3>2. HciRec(h) /\ h.bell = t /\ h.late = g.late
      BY <3>1 DEF HciRec
    <3> QED BY <2>9, <3>2 DEF t
  <2> QED BY <2>8, <2>9
<1> HIDE DEF h
<1>5. hci' = [e \in Cams |-> hci'[e]] /\ hci'[c] = h /\ \A e \in Cams : e # c => hci'[e] = hci[e]
  BY <1>1, <1>3
<1>6. HciOk'
  BY <1>1, <1>4, <1>5 DEF HciOk
<1>7. BellOk'
  BY <1>0, <1>4, <1>5 DEF CamInv, BellOk, Camera!Cam
<1>8. WrittenOk'
  <2> SUFFICES ASSUME NEW p \in Procs, zdev_lock = p, ~hci'[Camera!Cam(p)].late PROVE Written(p)'
    BY <1>0 DEF WrittenOk, Camera!Cam
  <2>1. Camera!Cam(p)' = Camera!Cam(p) /\ Camera!Now(p)' = Camera!Now(p)
    BY <1>0 DEF Camera!Cam, Camera!Now
  <2>2. camera_call[p] # Camera!None /\ Camera!Cam(p) \in Cams
    BY Owner DEF CamInv, CamCallOk, Camera!Cam
  <2>3. CASE Camera!Cam(p) # c
    <3>1. hci'[Camera!Cam(p)] = hci[Camera!Cam(p)]
      BY <1>5, <2>2, <2>3
    <3>2. Written(p)
      BY <3>1 DEF CamInv, WrittenOk
    <3> QED BY <1>0, <2>1, <3>1, <3>2 DEF Written
  <2>4. CASE Camera!Cam(p) = c
    <3>1. ~hci[c].late
      BY <1>4, <1>5, <2>4
    <3>2. camera_call[p].pc \in {"wait", "failed"}
      BY <1>0, <3>1 DEF CamInv, BellOk
    <3>3. camera_call[p].pc = "wait" => Waits
      BY <2>2, <2>4 DEF Camera!At
    <3>4. camera_call[p].pc = "wait" => hci[c].cmd = Camera!Kind(Camera!Now(p).cmd)
      BY <2>4, <3>1 DEF CamInv, WrittenOk, Written
    <3> HIDE DEF Waits
    <3>5. camera_call[p].pc = "wait" => hci'[c].cmd = Camera!Kind(Camera!Now(p).cmd) /\ ~hci'[c].bell
      BY <1>4, <1>5, <3>3, <3>4
    <3> QED BY <1>0, <2>1, <2>4, <3>2, <3>5 DEF Written
  <2> QED BY <2>3, <2>4
<1>9. CamCallsOk' /\ LockOk' /\ RouteOk' /\ PinsOk'
  BY <1>0 DEF CamInv, CamCallsOk, LockOk, Holding, RouteOk, Camera!Routed, Camera!Cam, PinsOk, Forcing, Camera!At
<1> QED BY <1>6, <1>7, <1>8, <1>9 DEF CamInv

\* A piece is not longer than what is left of the access.
LEMMA PieceOk == ASSUME NEW k, k.addr \in Nat, k.size \in Nat PROVE Camera!Piece(k) \in 0 .. k.size
<1>1. k.addr % FlashPage \in 0 .. FlashPage - 1
  BY CameraAssumption
<1>2. ReadLimit \in Nat /\ WriteLimit \in Nat /\ FlashPage \in Nat
  BY CameraAssumption
<1>3. Camera!ReadPiece(k.size) \in 0 .. k.size
  BY <1>2 DEF Camera!ReadPiece
<1>4. Camera!WritePiece(k.addr, k.size) \in 0 .. k.size
  <2> DEFINE o == k.addr % FlashPage
             n == k.size
             l == IF n > WriteLimit THEN WriteLimit ELSE n
  <2>1. o \in 0 .. FlashPage - 1 /\ n \in Nat
    BY <1>1
  <2>2. Camera!WritePiece(k.addr, k.size) = IF o + l > FlashPage THEN FlashPage - o ELSE l
    BY DEF Camera!WritePiece
  <2> HIDE DEF o, n
  <2>3. l \in 0 .. n
    BY <1>2, <2>1
  <2> HIDE DEF l
  <2>4. Camera!WritePiece(k.addr, k.size) \in 0 .. n
    BY <1>2, <2>1, <2>2, <2>3
  <2> QED BY <2>4 DEF n
<1> QED BY <1>3, <1>4 DEF Camera!Piece

\* The fields of a call between two commands.
CamCallDone(k, l, n, a, s, x) ==
    [op |-> k.op, todo |-> k.todo, ioctl |-> k.ioctl, cam |-> k.cam, ret |-> k.ret, pc |-> x, left |-> l,
     tries |-> n, reprobe |-> k.reprobe, orig |-> k.orig, addr |-> a, size |-> s]

\* A command is done: the next one, the next piece, or the end of the call.
LEMMA CamStepDone == ASSUME CamInv, NEW p \in Procs, Camera!StageDone(p) PROVE CamInv'
<1> DEFINE c == camera_call[p]
           k == [c EXCEPT !.left = Tail(c.left), !.tries = 0]
           len == Camera!Piece(k)
           b == Camera!Body(k.op)
           v1 == [k EXCEPT !.pc = Camera!Enter(k.left)]
           v2 == [k EXCEPT !.addr = k.addr + len, !.size = k.size - len, !.left = b, !.pc = Camera!Enter(b)]
           v3 == [k EXCEPT !.addr = k.addr + len, !.size = 0, !.pc = "fini1"]
           v4 == [k EXCEPT !.pc = "fini1"]
           A == k.left # <<>>
           L == Camera!Loops(p)
<1>0. zdev_lock = p /\ zdev_lock' = p /\ c.pc = "done" /\ UNCHANGED <<route, left, hci, swap, pin_swap>>
  BY DEF Camera!StageDone, Camera!Own, Camera!At, Camera!cameras
<1>1. c # Camera!None /\ CamCallOk(c) /\ CamCall(c) /\ CamCallsOk
  BY <1>0, Owner DEF CamInv, CamCallOk
<1>2. camera_call' = [camera_call EXCEPT ![p] = IF A THEN v1 ELSE IF L /\ k.size > len THEN v2 ELSE IF L THEN v3 ELSE v4]
  BY Zenon DEF Camera!StageDone
<1> DEFINE B == k.size > len
<1>3. camera_call' = [camera_call EXCEPT ![p] = IF A THEN v1 ELSE IF L /\ B THEN v2 ELSE IF L THEN v3 ELSE v4]
  BY <1>2
<1>4. k = CamCallDone(c, Tail(c.left), 0, c.addr, c.size, c.pc)
  <2> DEFINE t == Tail(c.left)
  <2> HIDE DEF t, c
  <2>1. [c EXCEPT !.left = t, !.tries = 0] = CamCallDone(c, t, 0, c.addr, c.size, c.pc)
    <3>1. [c EXCEPT !.left = t, !.tries = 0] = [[c EXCEPT !.left = t] EXCEPT !.tries = 0]
      BY <1>1 DEF CamCall
    <3>2. [c EXCEPT !.left = t] = CamCallDone(c, t, c.tries, c.addr, c.size, c.pc)
      BY <1>1 DEF CamCall, CamCallDone
    <3>3. [CamCallDone(c, t, c.tries, c.addr, c.size, c.pc) EXCEPT !.tries = 0] = CamCallDone(c, t, 0, c.addr, c.size, c.pc)
      BY DEF CamCallDone
    <3> QED BY <3>1, <3>2, <3>3
  <2> QED BY <2>1 DEF t
<1> HIDE DEF k, c
<1>5. CamCallOk(k) /\ CamCall(k) /\ k.cam = c.cam
  BY <1>1, <1>4 DEF CamCallOk, CamCall, CamCallDone
<1>6. len \in 0 .. k.size /\ k.size \in Nat /\ k.addr \in Nat
  BY <1>5, PieceOk DEF CamCallOk
<1> HIDE DEF len, b, A, B, L
<1> DEFINE Next1(j) == CamCallOk(j) /\ j.cam = c.cam /\ j.pc \in {"params", "check", "fini1"} /\ (j.pc = "check" => ~Head(j.left).par)
<1>7. Next1(v1)
  <2> DEFINE x == Camera!Enter(k.left)
  <2>1. x \in {"params", "check"} /\ (x = "check" => ~Head(k.left).par)
    BY EnterStage
  <2> HIDE DEF x
  <2>2. [k EXCEPT !.pc = x] = CamCallDone(k, k.left, k.tries, k.addr, k.size, x)
    BY <1>5 DEF CamCall, CamCallDone
  <2>3. Next1(CamCallDone(k, k.left, k.tries, k.addr, k.size, x))
    BY <1>5, <2>1 DEF CamCallOk, CamCall, CamCallDone
  <2> HIDE DEF Next1
  <2> QED BY <2>2, <2>3 DEF x
<1>8. B => Next1(v2)
  <2> DEFINE x == Camera!Enter(b)
             a == k.addr + len
             s == k.size - len
  <2>0. B => a \in Nat /\ s \in Nat /\ a + s = FlashStart + FlashSize
    <3>1. k.addr + k.size = FlashStart + FlashSize
      BY <1>5 DEF CamCallOk
    <3> QED BY <1>6, <3>1
  <2>1. x \in {"params", "check"} /\ (x = "check" => ~Head(b).par)
    BY EnterStage
  <2> HIDE DEF x, a, s
  <2>2. [k EXCEPT !.addr = a, !.size = s, !.left = b, !.pc = x] = CamCallDone(k, b, k.tries, a, s, x)
    <3>1. [k EXCEPT !.addr = a, !.size = s, !.left = b, !.pc = x] = [[[[k EXCEPT !.addr = a] EXCEPT !.size = s] EXCEPT !.left = b] EXCEPT !.pc = x]
      BY <1>5 DEF CamCall
    <3>2. [k EXCEPT !.addr = a] = CamCallDone(k, k.left, k.tries, a, k.size, k.pc)
      BY <1>5 DEF CamCall, CamCallDone
    <3>3. [CamCallDone(k, k.left, k.tries, a, k.size, k.pc) EXCEPT !.size = s] = CamCallDone(k, k.left, k.tries, a, s, k.pc)
      BY DEF CamCallDone
    <3>4. [CamCallDone(k, k.left, k.tries, a, s, k.pc) EXCEPT !.left = b] = CamCallDone(k, b, k.tries, a, s, k.pc)
      BY DEF CamCallDone
    <3>5. [CamCallDone(k, b, k.tries, a, s, k.pc) EXCEPT !.pc = x] = CamCallDone(k, b, k.tries, a, s, x)
      BY DEF CamCallDone
    <3> QED BY <3>1, <3>2, <3>3, <3>4, <3>5
  <2>3. B => Next1(CamCallDone(k, b, k.tries, a, s, x))
    BY <1>5, <2>0, <2>1 DEF CamCallOk, CamCall, CamCallDone
  <2> HIDE DEF Next1
  <2> QED BY <2>2, <2>3 DEF x, a, s
<1>9. ~B => Next1(v3)
  <2> DEFINE a == k.addr + len
  <2>0. ~B => a \in Nat /\ a + 0 = FlashStart + FlashSize
    <3>1. k.addr + k.size = FlashStart + FlashSize
      BY <1>5 DEF CamCallOk
    <3>2. ~B => len = k.size
      BY <1>6 DEF B
    <3> QED BY <1>6, <3>1, <3>2
  <2> HIDE DEF a
  <2>2. [k EXCEPT !.addr = a, !.size = 0, !.pc = "fini1"] = CamCallDone(k, k.left, k.tries, a, 0, "fini1")
    <3>1. [k EXCEPT !.addr = a, !.size = 0, !.pc = "fini1"] = [[[k EXCEPT !.addr = a] EXCEPT !.size = 0] EXCEPT !.pc = "fini1"]
      BY <1>5 DEF CamCall
    <3>2. [k EXCEPT !.addr = a] = CamCallDone(k, k.left, k.tries, a, k.size, k.pc)
      BY <1>5 DEF CamCall, CamCallDone
    <3>3. [CamCallDone(k, k.left, k.tries, a, k.size, k.pc) EXCEPT !.size = 0] = CamCallDone(k, k.left, k.tries, a, 0, k.pc)
      BY DEF CamCallDone
    <3>4. [CamCallDone(k, k.left, k.tries, a, 0, k.pc) EXCEPT !.pc = "fini1"] = CamCallDone(k, k.left, k.tries, a, 0, "fini1")
      BY DEF CamCallDone
    <3> QED BY <3>1, <3>2, <3>3, <3>4
  <2>3. ~B => Next1(CamCallDone(k, k.left, k.tries, a, 0, "fini1"))
    BY <1>5, <2>0 DEF CamCallOk, CamCall, CamCallDone
  <2> HIDE DEF Next1
  <2> QED BY <2>2, <2>3 DEF a
<1>10. Next1(v4)
  <2>2. [k EXCEPT !.pc = "fini1"] = CamCallDone(k, k.left, k.tries, k.addr, k.size, "fini1")
    BY <1>5 DEF CamCall, CamCallDone
  <2>3. Next1(CamCallDone(k, k.left, k.tries, k.addr, k.size, "fini1"))
    BY <1>5 DEF CamCallOk, CamCall, CamCallDone
  <2> HIDE DEF Next1
  <2> QED BY <2>2, <2>3
<1> HIDE DEF v1, v2, v3, v4, Next1
<1>11. \E j : camera_call' = [camera_call EXCEPT ![p] = j] /\ Next1(j)
  BY <1>3, <1>7, <1>8, <1>9, <1>10
<1>12. PICK j : camera_call' = [camera_call EXCEPT ![p] = j] /\ Next1(j)
  BY <1>11
<1>13. /\ camera_call' = [q \in Procs |-> camera_call'[q]] /\ \A q \in Procs : q # p => camera_call'[q] = camera_call[q]
       /\ camera_call'[p] = j
  BY <1>1, <1>12 DEF CamCallsOk
<1>14. /\ CamCallOk(camera_call'[p]) /\ camera_call'[p].cam = camera_call[p].cam /\ camera_call'[p].pc \in {"params", "check", "fini1"}
       /\ camera_call'[p].pc = "check" => ~Head(camera_call'[p].left).par
  BY <1>12, <1>13 DEF Next1, c
<1>15. CamCallsOk'
  BY <1>1, <1>13, <1>14 DEF CamCallsOk
<1>16. Holding(p)' /\ \A q \in Procs : q # p => (Holding(q)' <=> Holding(q))
  BY <1>13, <1>14, CallNotNone DEF Holding, Unlocked
<1>17. LockOk'
  BY <1>0, <1>16 DEF CamInv, LockOk
<1>18. RouteOk'
  BY <1>0, <1>14, RouteQuiet DEF CamInv, Half, Clear
<1>19. BellOk' /\ WrittenOk'
  BY <1>0, <1>14, BellQuiet DEF CamInv, c
<1>20. HciOk' /\ PinsOk'
  BY <1>0, <1>13, PinsHeld DEF CamInv, HciOk
<1> QED BY <1>15, <1>17, <1>18, <1>19, <1>20 DEF CamInv
-----------------------------------------------------------------------------
\* Each step of a call or a camera keeps the invariant.
LEMMA StepCam == CamInv /\ [Camera!Next]_cameraVars => CamInv'
<1> SUFFICES ASSUME CamInv, [Camera!Next]_cameraVars PROVE CamInv'
  OBVIOUS
<1>1. CASE UNCHANGED cameraVars
  BY <1>1 DEF cameraVars, CamInv, CamCallsOk, LockOk, Holding, RouteOk, Camera!Routed, Camera!Cam, HciOk, BellOk, WrittenOk, Written,
              Camera!Now, PinsOk, Forcing, Camera!At
<1>2. ASSUME NEW p \in Procs, Camera!Step(p) PROVE CamInv'
  BY <1>2, CamStepLock, CamStepInit, CamStepFini, CamStepUnlock, CamStepReg, CamStepParams, CamStepCheck, CamStepRing, CamStepWait,
     CamStepDone, CamStepFailed, CamStepProbe, CamStepSleep, CamStepSwap, CamStepReprobe, CamStepProbeEnd, CamStepProbeUnlock, CamStepForce
  DEF Camera!Step
<1>3. ASSUME NEW c \in Cams, Camera!CameraDoes(c) PROVE CamInv'
  BY <1>3, CamStepDoes
<1>4. ASSUME NEW p \in Procs, NEW c \in Cams, NEW t \in Camera!zvideo_ioctl_default \cup Camera!sysfs_calls, NEW i, Camera!Begin(p, c, t, i)
      PROVE  CamInv'
  BY <1>4, CamStepBegin
<1>5. ASSUME NEW p \in Procs, NEW c \in Cams, NEW i \in BOOLEAN, Camera!ForceBegin(p, c, i) PROVE CamInv'
  BY <1>5, CamStepForceBegin
<1>6. Camera!zvideo_get_camera_info \subseteq Camera!zvideo_ioctl_default
  BY Zenon DEF Camera!zvideo_get_camera_info, Camera!zvideo_ioctl_default
<1> QED BY <1>1, <1>2, <1>3, <1>4, <1>5, <1>6 DEF Camera!Next

\* At the start no camera is in use.
LEMMA InitCam == Camera!Init => CamInv
<1> SUFFICES ASSUME Camera!Init PROVE CamInv
  OBVIOUS
<1>1. CamCallsOk /\ LockOk
  BY CameraAssumption DEF Camera!Init, CamCallsOk, LockOk, Holding
<1>2. RouteOk
  BY CameraAssumption DEF Camera!Init, RouteOk, Camera!Routed
<1>3. HciOk /\ \A c \in Cams : ~hci[c].bell
  BY DEF Camera!Init, HciOk, HciRec, Camera!Idle
<1>4. BellOk /\ WrittenOk
  BY <1>3, CameraAssumption DEF Camera!Init, BellOk, WrittenOk
<1>5. PinsOk
  BY DEF Camera!Init, PinsOk
<1> QED BY <1>1, <1>2, <1>3, <1>4, <1>5 DEF CamInv

\* The invariant of the cameras implies what the run checks of them.
LEMMA InvCam == CamInv => CameraSafe
<1> SUFFICES ASSUME CamInv PROVE CameraSafe
  OBVIOUS
<1>1. Camera!Routed
  BY DEF CamInv, RouteOk
<1>2. ASSUME NEW p \in Procs, Camera!At(p, "wait"), ~hci[Camera!Cam(p)].late
      PROVE  /\ hci[Camera!Cam(p)].cmd = Camera!Kind(Camera!Now(p).cmd)
             /\ Camera!Now(p).par /\ hci[Camera!Cam(p)].bell => hci[Camera!Cam(p)].pool = p
  <2>1. camera_call[p].pc = "wait" /\ zdev_lock = p
    BY <1>2 DEF Camera!At, CamInv, LockOk, Holding, Unlocked
  <2>2. Written(p)
    BY <1>2, <2>1 DEF CamInv, WrittenOk
  <2> QED BY <2>1, <2>2 DEF Written
<1>3. Camera!CommandIntact
  BY <1>2 DEF Camera!CommandIntact
<1>4. Camera!InArea
  BY DEF Camera!InArea, CamInv, CamCallsOk, CamCallOk
<1>5. Camera!PinsKnown
  BY DEF Camera!PinsKnown, CamInv, PinsOk, Forcing
<1> QED BY <1>1, <1>3, <1>4, <1>5 DEF CameraSafe, Camera!CameraSafe
-----------------------------------------------------------------------------
(* The firmware: one step.                                                 *)

\* Opening a device that another program has open ends all promises.
LEMMA FwOpen == ASSUME FwInv, NEW p \in Procs, Firmware!zynq_fw_open(p) PROVE FwInv'
<1>1. FwTypes'
  BY DEF FwInv, FwTypes, Firmware!zynq_fw_open, Firmware!Goto, Firmware!ps, FwStages
<1>2. UNCHANGED <<tx_num, cfg, status, fifo, got, arm, flash, gone, sent, fine, lost, astray, late>>
  BY DEF Firmware!zynq_fw_open, Firmware!ps
<1>3. ASSUME ~raced', ~gone' PROVE FwAlone' /\ ~lost'
  <2>1. ~raced /\ ~gone
    <3>1. ~gone
      BY <1>2, <1>3
    <3>2. ~raced
      BY <1>3 DEF Firmware!zynq_fw_open
    <3> QED BY <3>1, <3>2
  <2>2. FwAlone /\ ~lost
    BY <2>1 DEF FwInv
  <2>3. \A q \in Procs : q # p => pc'[q] = pc[q]
    BY DEF FwInv, FwTypes, Firmware!zynq_fw_open, Firmware!Goto
  <2>4. pc[p] \in {"closed", "open"} /\ pc'[p] \in {"open", "idle"}
    BY DEF FwInv, FwTypes, Firmware!zynq_fw_open, Firmware!Goto
  <2>5. \A a, b \in Firmware!Holders' : a = b
    <3>1. CASE pc'[p] = "open"
      <4>1. Firmware!Holders' \subseteq Firmware!Holders
        BY <3>1, <2>3 DEF Firmware!Holders
      <4> QED BY <4>1, <2>2 DEF FwAlone
    <3>2. CASE pc'[p] = "idle"
      <4>1. Firmware!Holders = {}
        BY <1>3, <3>2 DEF Firmware!zynq_fw_open, Firmware!Goto, FwInv, FwTypes
      <4>2. Firmware!Holders' \subseteq {p}
        BY <4>1, <2>3 DEF Firmware!Holders
      <4> QED BY <4>2
    <3> QED BY <2>4, <3>1, <3>2
  <2>6. p \notin fine
    BY <2>2, <2>4 DEF FwAlone, FwHolderOk
  <2>7. \A q \in Procs : FwHolderOk(q)'
    BY <1>2, <2>2, <2>3, <2>4, <2>6 DEF FwAlone, FwHolderOk
  <2>8. FwOrdered' /\ FwWaited'
    BY <1>2, <2>2, <2>3, <2>4 DEF FwAlone, FwOrdered, FwWaited
  <2> QED BY <1>2, <2>2, <2>5, <2>7, <2>8 DEF FwAlone
<1> QED BY <1>1, <1>3 DEF FwInv

\* A step of the one program that has the device open: nobody else is inside.
LEMMA FwOnly ==
    ASSUME FwTypes, FwAlone, NEW p \in Procs, pc[p] \notin {"closed", "open"}, NEW l \in FwStages, pc' = [pc EXCEPT ![p] = l]
    PROVE  /\ \A q \in Procs : q # p => pc'[q] = pc[q] /\ pc[q] \in {"closed", "open"} /\ q \notin fine
           /\ pc'[p] = l
           /\ \A a, b \in Firmware!Holders' : a = b
<1>1. p \in Firmware!Holders
  BY DEF Firmware!Holders
<1>2. \A q \in Procs : q # p => pc'[q] = pc[q]
  BY DEF FwTypes
<1>3. \A q \in Procs : q # p => pc[q] \in {"closed", "open"}
  BY <1>1 DEF FwAlone, Firmware!Holders
<1>4. pc'[p] = l
  BY DEF FwTypes
<1>5. Firmware!Holders' \subseteq {p}
  BY <1>2, <1>3 DEF Firmware!Holders
<1>6. \A q \in Procs : q # p => q \notin fine
  BY <1>3 DEF FwAlone, FwHolderOk
<1> QED BY <1>2, <1>3, <1>4, <1>5, <1>6

\* The steps of a program between open and close.
FwStep(p) ==
    \/ Firmware!zynq_fw_release(p) \/ Firmware!UploadRequest(p) \/ Firmware!UploadMagic(p) \/ Firmware!UploadGrant(p)
    \/ \E n \in 1..ImageLen : Firmware!UploadData(p, n)
    \/ Firmware!zynq_fw_tx_user(p) \/ Firmware!TxWrite(p) \/ Firmware!UpdateDone(p)
    \/ \E type \in Firmware!Updates : Firmware!UpdateRequest(p, type)

\* The types, whoever has the device open; the program is inside, and goes to a stage.
LEMMA FwStepTypes ==
    ASSUME FwTypes, NEW p \in Procs, FwStep(p)
    PROVE  FwTypes' /\ UNCHANGED <<raced, gone>> /\ pc[p] \notin {"closed", "open"} /\ \E l \in FwStages : pc' = [pc EXCEPT ![p] = l]
<1> DEFINE Goal == FwTypes' /\ UNCHANGED <<raced, gone>> /\ pc[p] \notin {"closed", "open"} /\ \E l \in FwStages : pc' = [pc EXCEPT ![p] = l]
<1>0. pc = [pc EXCEPT ![p] = pc[p]] /\ pc[p] \in FwStages
  BY DEF FwTypes
<1> USE FirmwareAssumption DEF FwTypes, FwStages, Firmware!Goto, Firmware!ps
<1>1. CASE Firmware!zynq_fw_release(p)
  BY <1>1 DEF Firmware!zynq_fw_release
<1>2. CASE Firmware!UploadRequest(p)
  BY <1>0, <1>2 DEF Firmware!UploadRequest
<1>3. CASE Firmware!UploadMagic(p)
  BY <1>3 DEF Firmware!UploadMagic
<1>4. CASE Firmware!UploadGrant(p)
  BY <1>4 DEF Firmware!UploadGrant
<1>5. ASSUME NEW n \in 1..ImageLen, Firmware!UploadData(p, n) PROVE Goal
  BY <1>0, <1>5 DEF Firmware!UploadData
<1>6. CASE Firmware!zynq_fw_tx_user(p)
  BY <1>6 DEF Firmware!zynq_fw_tx_user, Firmware!zynq_fw_tx_one
<1>7. CASE Firmware!TxWrite(p)
  <2>1. UNCHANGED <<got, fine, raced, gone>> /\ pc[p] = "write"
    BY <1>7 DEF Firmware!TxWrite
  <2>2. fifo' = fifo \/ (fifo # FifoSize /\ fifo' = fifo + 1)
    BY <1>7 DEF Firmware!TxWrite, Firmware!Full
  <2>3. sent' = [sent EXCEPT ![p] = @ + 1] /\ (pc' = [pc EXCEPT ![p] = "send"] \/ pc' = [pc EXCEPT ![p] = "idle"])
    BY <1>7 DEF Firmware!TxWrite
  <2> QED BY <2>1, <2>2, <2>3
<1>8. CASE Firmware!UpdateDone(p)
  BY <1>8 DEF Firmware!UpdateDone
<1>9. ASSUME NEW type \in Firmware!Updates, Firmware!UpdateRequest(p, type) PROVE Goal
  BY <1>0, <1>9 DEF Firmware!UpdateRequest
<1> QED BY <1>1, <1>2, <1>3, <1>4, <1>5, <1>6, <1>7, <1>8, <1>9 DEF FwStep

\* The promises, for the one program that has it open.
LEMMA FwStepAlone == ASSUME FwTypes, FwAlone, ~lost, ~gone, NEW p \in Procs, FwStep(p) PROVE FwAlone' /\ ~lost'
<1>0. pc[p] \notin {"closed", "open"} /\ (\E l \in FwStages : pc' = [pc EXCEPT ![p] = l]) /\ sent[p] \in Nat /\ got \in Nat /\ fifo \in 0..FifoSize
  BY FwStepTypes DEF FwTypes
<1>1. PICK l \in FwStages : pc' = [pc EXCEPT ![p] = l]
  BY <1>0
<1>2. /\ \A q \in Procs : q # p => pc'[q] = pc[q] /\ pc[q] \in {"closed", "open"} /\ q \notin fine
      /\ pc'[p] = l
      /\ \A a, b \in Firmware!Holders' : a = b
  BY <1>0, <1>1, FwOnly
<1>3. FwHolderOk(p) /\ FwOrdered /\ FwWaited
  BY DEF FwAlone
<1>4. ~late /\ (arm = "writing" \/ (cfg # {} /\ "upload" \notin cfg)) => pc[p] = "wait_done"
  BY <1>2, <1>3 DEF FwWaited
<1>5. SUFFICES fine' \subseteq fine \cup {p} /\ FwHolderOk(p)' /\ FwOrdered' /\ FwWaited' /\ ~lost'
  <2>1. ASSUME fine' \subseteq fine \cup {p} PROVE \A q \in Procs : q # p => FwHolderOk(q)'
    BY <1>2, <2>1 DEF FwHolderOk
  <2> QED BY <1>2, <2>1 DEF FwAlone
<1> DEFINE Goal == fine' \subseteq fine \cup {p} /\ FwHolderOk(p)' /\ FwOrdered' /\ FwWaited' /\ ~lost'
<1>6. \A r : Firmware!Read(r) = r
  BY DEF Firmware!Read
<1>7. (\A v : Firmware!Write(v) <=> cfg' = v) /\ (Firmware!Clear <=> status' = {}) /\ (Firmware!Full <=> fifo = FifoSize)
  BY DEF Firmware!Write, Firmware!Clear, Firmware!Full
<1>8. CASE Firmware!zynq_fw_release(p)
  <2>1. pc[p] = "idle" /\ pc'[p] = "closed" /\ fine' = fine \ {p} /\ UNCHANGED <<cfg, status, fifo, got, arm, flash, lost, astray, late>>
    BY <1>8 DEF FwTypes, Firmware!zynq_fw_release, Firmware!Goto, Firmware!ps
  <2> QED BY <1>3, <1>4, <2>1 DEF FwHolderOk, FwOrdered, FwWaited
<1>9. CASE Firmware!UploadRequest(p)
  <2>1. /\ pc[p] = "idle" /\ sent'[p] = 0 /\ fine' = fine \ {p} /\ UNCHANGED <<fifo, got, arm, flash, lost, astray, late>>
        /\ \/ pc' = pc /\ UNCHANGED <<cfg, status>>
           \/ pc'[p] = "magic" /\ status' = {} /\ cfg' = {"upload"}
    BY <1>6, <1>7, <1>9 DEF FwTypes, Firmware!UploadRequest, Firmware!Goto, Firmware!ps
  <2> QED BY <1>3, <1>4, <2>1 DEF FwHolderOk, FwOrdered, FwWaited
<1>10. CASE Firmware!UploadMagic(p)
  <2>1. pc[p] = "magic" /\ pc'[p] = "wait_grant" /\ cfg' = Firmware!Magic /\ UNCHANGED <<status, fifo, sent, got, arm, flash, fine, lost, astray, late>>
    BY <1>7, <1>10 DEF FwTypes, Firmware!UploadMagic, Firmware!Goto, Firmware!ps
  <2>2. "upload" \in Firmware!Magic
    BY DEF Firmware!Magic
  <2> QED BY <1>3, <1>4, <2>1, <2>2 DEF FwHolderOk, FwOrdered, FwWaited
<1>11. CASE Firmware!UploadGrant(p)
  <2>1. /\ pc[p] = "wait_grant" /\ pc'[p] = "idle" /\ UNCHANGED <<status, fifo, sent, got, arm, flash, lost, astray, late>>
        /\ \/ "grant" \in status /\ cfg' = {} /\ fine' = fine \cup {p}
           \/ UNCHANGED <<cfg, fine>>
    BY <1>6, <1>7, <1>11 DEF FwTypes, Firmware!UploadGrant, Firmware!Goto, Firmware!ps
  <2> QED BY <1>0, <1>3, <1>4, <2>1 DEF FwHolderOk, FwOrdered, FwWaited
<1>12. ASSUME NEW n \in 1..ImageLen, Firmware!UploadData(p, n) PROVE Goal
  <2>1. /\ pc[p] = "idle" /\ UNCHANGED <<cfg, status, fifo, sent, got, arm, flash, lost, late>>
        /\ \/ pc'[p] = "send" /\ astray' = (astray \/ p \notin fine) /\ fine' = fine
           \/ pc'[p] = "idle" /\ fine' = fine \ {p} /\ UNCHANGED astray
    BY <1>12 DEF FwTypes, Firmware!UploadData, Firmware!Goto, Firmware!ps
  <2> QED BY <1>3, <1>4, <2>1 DEF FwHolderOk, FwOrdered, FwWaited
<1>13. CASE Firmware!zynq_fw_tx_user(p)
  <2>1. /\ pc[p] = "send" /\ UNCHANGED <<cfg, status, fifo, sent, got, arm, flash, lost, astray, late>>
        /\ \/ pc'[p] = "write" /\ fifo # FifoSize /\ fine' = fine
           \/ pc'[p] = "idle" /\ fine' = fine \ {p}
    BY <1>7, <1>13 DEF FwTypes, Firmware!zynq_fw_tx_user, Firmware!zynq_fw_tx_one, Firmware!Goto, Firmware!ps
  <2>2. fifo # FifoSize => fifo < FifoSize
    BY <1>0, FirmwareAssumption
  <2> QED BY <1>3, <1>4, <2>1, <2>2 DEF FwHolderOk, FwOrdered, FwWaited
<1>14. CASE Firmware!TxWrite(p)
  <2>1. /\ pc[p] = "write" /\ UNCHANGED <<cfg, status, got, arm, flash, fine, astray, late>>
        /\ pc'[p] \in {"send", "idle"} /\ sent'[p] = sent[p] + 1
        /\ fifo' = (IF fifo = FifoSize THEN fifo ELSE fifo + 1) /\ (lost' => lost \/ fifo = FifoSize)
    BY <1>7, <1>14 DEF FwTypes, Firmware!TxWrite, Firmware!Goto
  <2>2. fifo' = fifo + 1 /\ ~lost'
    BY <1>0, <1>3, <2>1, FirmwareAssumption DEF FwHolderOk
  <2>3. got + fifo = sent[p] => got' + fifo' = sent'[p]
    BY <1>0, <2>1, <2>2
  <2> QED BY <1>3, <1>4, <2>1, <2>2, <2>3 DEF FwHolderOk, FwOrdered, FwWaited
<1>15. CASE Firmware!UpdateDone(p)
  <2>1. /\ pc[p] = "wait_done" /\ pc'[p] = "idle" /\ UNCHANGED <<status, fifo, sent, got, arm, flash, fine, lost, astray>>
        /\ \/ "done" \in status /\ cfg' = {} /\ late' = late
           \/ cfg' = cfg /\ late' = TRUE
    BY <1>6, <1>7, <1>15 DEF FwTypes, Firmware!UpdateDone, Firmware!Goto, Firmware!ps
  <2>2. "done" \in status /\ ~late => arm # "writing"
    BY <1>3 DEF FwWaited
  <2> QED BY <1>3, <2>1, <2>2 DEF FwHolderOk, FwOrdered, FwWaited
<1>16. ASSUME NEW type \in Firmware!Updates, Firmware!UpdateRequest(p, type) PROVE Goal
  <2>1. /\ pc[p] = "idle" /\ fine' = fine \ {p} /\ UNCHANGED <<fifo, sent, got, arm, flash, lost, late>>
        /\ \/ pc'[p] = "idle" /\ UNCHANGED <<cfg, status, astray>>
           \/ /\ pc'[p] = "wait_done" /\ status' = {} /\ cfg' = {type}
              /\ astray' = (astray \/ p \notin fine \/ sent[p] # ImageLen)
    BY <1>6, <1>7, <1>16 DEF FwTypes, Firmware!UpdateRequest, Firmware!Goto, Firmware!ps
  <2>2. CASE pc'[p] = "idle" /\ UNCHANGED <<cfg, status, astray>>
    BY <1>3, <1>4, <2>1, <2>2 DEF FwHolderOk, FwOrdered, FwWaited
  <2>3. CASE /\ pc'[p] = "wait_done" /\ status' = {} /\ cfg' = {type}
             /\ astray' = (astray \/ p \notin fine \/ sent[p] # ImageLen)
    <3>1. FwHolderOk(p)' /\ FwWaited'
      BY <1>3, <1>4, <2>1, <2>3 DEF FwHolderOk, FwWaited
    <3>2. ASSUME ~astray' PROVE arm' = "granted" /\ got' + fifo' = ImageLen
      <4>1. p \in fine /\ sent[p] = ImageLen
        BY <2>3, <3>2
      <4> QED BY <1>3, <2>1, <4>1 DEF FwHolderOk
    <3>3. FwOrdered'
      BY <3>2 DEF FwOrdered
    <3> QED BY <2>1, <3>1, <3>3
  <2> QED BY <2>1, <2>2, <2>3
<1> QED BY <1>8, <1>9, <1>10, <1>11, <1>12, <1>13, <1>14, <1>15, <1>16 DEF FwStep

\* What the card does, between any two steps of the programs.
FwCard == Firmware!ArmAsked \/ Firmware!ArmGrant \/ Firmware!ArmTake \/ Firmware!ArmUpdate \/ Firmware!ArmDone \/ Firmware!CardGone

LEMMA FwArm == ASSUME FwInv, FwCard PROVE FwInv'
<1> USE DEF Firmware!driver
<1>0. UNCHANGED <<opened, pc, tx_num, cfg, sent, fine, lost, raced, astray, late>>
  BY DEF FwCard, Firmware!ArmAsked, Firmware!ArmGrant, Firmware!ArmTake, Firmware!ArmUpdate, Firmware!ArmDone, Firmware!CardGone
<1>1. FwTypes'
  BY <1>0, FirmwareAssumption DEF FwInv, FwTypes, FwCard, Firmware!ArmAsked, Firmware!ArmGrant, Firmware!ArmTake, Firmware!ArmUpdate, Firmware!ArmDone,
              Firmware!CardGone
<1>2. ASSUME ~raced', ~gone' PROVE FwAlone'/\ ~lost'
  <2>0. ~Firmware!CardGone /\ ~gone
    BY <1>2 DEF FwCard, Firmware!ArmAsked, Firmware!ArmGrant, Firmware!ArmTake, Firmware!ArmUpdate, Firmware!ArmDone, Firmware!CardGone
  <2>1. FwAlone /\ FwTypes /\ ~lost'
    BY <1>0, <1>2, <2>0 DEF FwInv
  <2>2. \A a, b \in Firmware!Holders' : a = b
    BY <1>0, <2>1 DEF FwAlone, Firmware!Holders
  <2>3. CASE Firmware!ArmAsked
    <3>1. cfg = {"upload"} /\ arm # "writing" /\ arm' = "asked" /\ UNCHANGED <<status, fifo, got, flash>>
      BY <2>3 DEF Firmware!ArmAsked
    <3>2. \A q \in Procs : FwHolderOk(q)'
      <4>1. fine = {}
        BY <2>1, <3>1 DEF FwAlone, FwHolderOk, FwTypes
      <4>2. {"upload"} # Firmware!Magic
        BY DEF Firmware!Magic
      <4> QED BY <1>0, <2>1, <3>1, <4>1, <4>2 DEF FwAlone, FwHolderOk
    <3>3. FwOrdered' /\ FwWaited'
      BY <1>0, <3>1 DEF FwOrdered, FwWaited
    <3> QED BY <2>1, <2>2, <3>2, <3>3 DEF FwAlone
  <2>4. CASE Firmware!ArmGrant
    <3>1. cfg = Firmware!Magic /\ arm' = "granted" /\ got' = 0 /\ fifo' = 0 /\ status' = status \cup {"grant"} /\ flash' = flash
      BY <2>4 DEF Firmware!ArmGrant
    <3>2. "upload" \in cfg /\ cfg # {"upload"} /\ cfg # {}
      BY <3>1 DEF Firmware!Magic
    <3>3. fine = {} /\ \A q \in Procs : pc[q] # "magic"
      BY <2>1, <3>2 DEF FwAlone, FwHolderOk, FwTypes
    <3>4. \A q \in Procs : pc[q] = "write" => fifo' < FifoSize
      BY <2>1, <3>1, FirmwareAssumption DEF FwAlone, FwHolderOk, FwTypes
    <3>5. \A q \in Procs : FwHolderOk(q)'
      BY <1>0, <2>1, <3>1, <3>3, <3>4 DEF FwAlone, FwHolderOk
    <3>6. FwOrdered' /\ FwWaited'
      BY <1>0, <3>1, <3>2 DEF FwOrdered, FwWaited
    <3> QED BY <2>1, <2>2, <3>5, <3>6 DEF FwAlone
  <2>5. CASE Firmware!ArmTake
    <3>1. arm = "granted" /\ fifo > 0 /\ fifo' = fifo - 1 /\ got' = got + 1 /\ UNCHANGED <<status, arm, flash>>
      BY <2>5 DEF Firmware!ArmTake
    <3>2. got' + fifo' = got + fifo /\ fifo # 0 /\ (fifo < FifoSize => fifo' < FifoSize)
      BY <2>1, <3>1, FirmwareAssumption DEF FwTypes
    <3>3. \A q \in Procs : FwHolderOk(q)'
      BY <1>0, <2>1, <3>1, <3>2 DEF FwAlone, FwHolderOk
    <3>4. FwOrdered' /\ FwWaited'
      BY <1>0, <2>1, <3>1, <3>2 DEF FwAlone, FwOrdered, FwWaited
    <3> QED BY <2>1, <2>2, <3>3, <3>4 DEF FwAlone
  <2>6. CASE Firmware!ArmUpdate
    <3>1. PICK type \in Firmware!Updates : cfg = {type} /\ flash' = type
      BY <2>6 DEF Firmware!ArmUpdate
    <3>2. arm = "granted" /\ fifo = 0 /\ arm' = "writing" /\ UNCHANGED <<status, fifo, got>>
      BY <2>6 DEF Firmware!ArmUpdate
    <3>3. cfg # {} /\ "upload" \notin cfg
      BY <3>1 DEF Firmware!Updates
    <3>4. fine = {} /\ \A q \in Procs : pc[q] \notin {"magic", "wait_grant"}
      BY <2>1, <3>3 DEF FwAlone, FwHolderOk, FwTypes, Firmware!Magic
    <3>5. \A q \in Procs : FwHolderOk(q)'
      BY <1>0, <2>1, <3>1, <3>2, <3>4 DEF FwAlone, FwHolderOk
    <3>6. FwOrdered'
      BY <1>0, <2>1, <3>2, <3>3 DEF FwAlone, FwOrdered, FwTypes
    <3>7. FwWaited'
      BY <1>0, <2>1, <3>1, <3>2, <3>3 DEF FwAlone, FwWaited
    <3> QED BY <2>1, <2>2, <3>5, <3>6, <3>7 DEF FwAlone
  <2>7. CASE Firmware!ArmDone
    <3>1. arm = "writing" /\ arm' = "idle" /\ status' = status \cup {"done"} /\ UNCHANGED <<fifo, flash>>
      BY <2>7 DEF Firmware!ArmDone
    <3>2. fine = {}
      BY <2>1, <3>1 DEF FwAlone, FwHolderOk, FwTypes
    <3>3. ~late => cfg = {flash}
      BY <2>1, <3>1 DEF FwAlone, FwWaited
    <3>4. \A q \in Procs : FwHolderOk(q)'
      BY <1>0, <2>1, <3>1, <3>2, <3>3 DEF FwAlone, FwHolderOk
    <3>5. FwOrdered' /\ FwWaited'
      BY <1>0, <2>1, <3>1 DEF FwAlone, FwOrdered, FwWaited
    <3> QED BY <2>1, <2>2, <3>4, <3>5 DEF FwAlone
  <2> QED BY <2>0, <2>3, <2>4, <2>5, <2>6, <2>7 DEF FwCard
<1> QED BY <1>1, <1>2 DEF FwInv

\* Each step of the update keeps its invariant.
LEMMA StepFw == FwInv /\ [Firmware!Next]_firmwareVars => FwInv'
<1> SUFFICES ASSUME FwInv, [Firmware!Next]_firmwareVars PROVE FwInv'
  OBVIOUS
<1>1. CASE UNCHANGED firmwareVars
  BY <1>1 DEF firmwareVars, FwInv, FwTypes, FwAlone, FwHolderOk, FwOrdered, FwWaited, Firmware!Holders
<1>2. CASE FwCard
  BY <1>2, FwArm
<1>3. ASSUME NEW p \in Procs, Firmware!zynq_fw_open(p) PROVE FwInv'
  BY <1>3, FwOpen
<1>4. ASSUME NEW p \in Procs, FwStep(p) PROVE FwInv'
  <2>1. FwTypes' /\ UNCHANGED <<raced, gone>>
    BY <1>4, FwStepTypes DEF FwInv
  <2> QED BY <1>4, <2>1, FwStepAlone DEF FwInv
<1> QED BY <1>1, <1>2, <1>3, <1>4 DEF Firmware!Next, FwStep, FwCard

\* At the start nobody has the device open.
LEMMA InitFw == Firmware!Init => FwInv
<1> SUFFICES ASSUME Firmware!Init PROVE FwInv
  OBVIOUS
<1>1. FwTypes
  BY FirmwareAssumption DEF Firmware!Init, FwTypes, FwStages
<1>2. FwAlone /\ ~lost
  BY DEF Firmware!Init, FwAlone, FwHolderOk, FwOrdered, FwWaited, Firmware!Holders
<1> QED BY <1>1, <1>2 DEF FwInv

\* The invariant of the update implies what the run checks of it.
LEMMA InvFw == FwInv => FirmwareSafe
<1> SUFFICES ASSUME FwInv, ~raced, ~gone PROVE Firmware!FirmwareSafe
  BY DEF FirmwareSafe, Firmware!FirmwareSafe
<1>1. FwAlone /\ ~lost /\ FwTypes
  BY DEF FwInv
<1> QED BY <1>1 DEF FwAlone, FwTypes, FwHolderOk, FwOrdered, Firmware!FirmwareSafe
-----------------------------------------------------------------------------
(* The time of the cards                                                   *)

\* Serial: while a card is probed or removed, no other is.
OneAtATime ==
    \A d \in Devs : dpc[d] \notin {"absent", "bound"} => \A o \in Devs \ {d} : dpc[o] \in {"absent", "bound"}

\* The stages of the master, and of a card that has been.
GpsStages ==
    /\ master # NoDev => dpc[master] \in {"thread", "bound"}
    /\ \A d \in Devs : /\ dpc[d] = "thread" => master = d
                       /\ dpc[d] \in {"complete", "stop", "join"} => master = NoDev

Ending(d) == dpc[d] \in {"complete", "stop", "join"}

\* While a thread runs there is a bound master, or one whose removal waits for the thread.
Served ==
    \A t \in Gps!Threads : Gps!Alive(t) =>
        \/ master # NoDev /\ dpc[master] = "bound"
        \/ \E d \in Devs : Ending(d)

\* A thread that has a card is at work, and the card is the master or waits for it.
GpsHeld ==
    \A t \in Gps!Threads : thr[t].zdev # NoDev =>
        /\ thr[t].pc \in {"sync", "wait", "smooth"}
        /\ thr[t].zdev = master \/ Ending(thr[t].zdev)

GpsInv == Gps!TypeOK /\ OneAtATime /\ GpsStages /\ Gps!OneSyncThread /\ Served /\ GpsHeld

-----------------------------------------------------------------------------
\* No card, no master and no thread: the invariant holds.
LEMMA InitGps == Gps!Init => GpsInv
<1> SUFFICES ASSUME Gps!Init PROVE GpsInv
  OBVIOUS
<1> USE GpsAssumption DEF Gps!Init
<1>1. Gps!FlagType
  BY Zenon DEF Gps!FlagType
<1>2. Gps!CardType /\ Gps!ClockType
  BY DEF Gps!CardType, Gps!ClockType, Gps!Threads, Gps!ThreadAt
<1>3. OneAtATime /\ GpsStages /\ Gps!OneSyncThread /\ Served /\ GpsHeld
  BY DEF OneAtATime, GpsStages, Gps!OneSyncThread, Served, GpsHeld, Gps!Alive, Gps!ThreadAt
<1> QED BY <1>1, <1>2, <1>3 DEF GpsInv, Gps!TypeOK

\* Boolean variables stay Boolean.
LEMMA StepFlag == Gps!FlagType /\ [Gps!Next]_gpsVars => Gps!FlagType'
<1> SUFFICES ASSUME Gps!FlagType, [Gps!Next]_gpsVars PROVE Gps!FlagType'
  OBVIOUS
<1> USE DEF Gps!FlagType, gpsVars, Gps!threadVars, Gps!fixVars, Gps!clockVars
<1>1. CASE Gps!Tick \/ Gps!GpsJump \/ Gps!SmoothingEnds
  BY <1>1, Zenon DEF Gps!Tick, Gps!GpsJump, Gps!SmoothingEnds
<1>2. ASSUME NEW t \in Gps!Threads, Gps!Thread(t) PROVE Gps!FlagType'
  <2>1. CASE Gps!ThreadSync(t)
    <3>1. Gps!ValidOnceAfter(thr[t].zdev) \in BOOLEAN
      BY Zenon DEF Gps!ValidOnceAfter
    <3> QED BY <2>1, <3>1, Zenon DEF Gps!ThreadSync, Gps!zynq_do_gps_sync
  <2> QED BY <1>2, <2>1, Zenon DEF Gps!Thread, Gps!ThreadLoop, Gps!ThreadWait, Gps!ThreadSmooth
<1>3. ASSUME NEW d \in Devs, Gps!FixChanges(d) PROVE Gps!FlagType'
  BY <1>3, Zenon DEF Gps!FixChanges
<1>4. ASSUME NEW d \in Devs, Gps!zynq_gps_init(d) \/ Gps!zynq_gps_fini(d) \/ Gps!Card(d) \/ Gps!zynq_gps_pps_changed(d) PROVE Gps!FlagType'
  BY <1>4, Zenon DEF Gps!zynq_gps_init, Gps!zynq_gps_fini, Gps!Card, Gps!zynq_gps_thread_init, Gps!FiniComplete, Gps!FiniStop, Gps!FiniJoin,
                     Gps!RemoveFree, Gps!zynq_gps_pps_changed
<1>5. ASSUME NEW d \in Devs, Gps!IoctlSync(d) \/ Gps!IoctlGet(d) \/ Gps!zynq_gps_init_fpga_time(d) PROVE Gps!FlagType'
  <2>1. Gps!ValidOnceAfter(d) \in BOOLEAN
    BY Zenon DEF Gps!ValidOnceAfter
  <2> QED BY <1>5, <2>1, Zenon DEF Gps!IoctlSync, Gps!zynq_do_gps_sync, Gps!IoctlGet, Gps!zynq_gps_init_fpga_time
<1>6. CASE UNCHANGED gpsVars
  BY <1>6, Zenon
<1> QED BY <1>1, <1>2, <1>3, <1>4, <1>5, <1>6 DEF Gps!Next

\* The two differences of the clocks, and the rounds of smoothing, stay in their bounds.
LEMMA StepClock == Gps!ClockType /\ [Gps!Next]_gpsVars => Gps!ClockType'
<1> SUFFICES ASSUME Gps!ClockType, [Gps!Next]_gpsVars PROVE Gps!ClockType'
  OBVIOUS
<1> USE GpsAssumption DEF Gps!ClockType, gpsVars, Gps!clockVars
<1>1. CASE Gps!Tick \/ Gps!GpsJump \/ Gps!SmoothingEnds
  BY <1>1 DEF Gps!Tick, Gps!GpsJump, Gps!SmoothingEnds
<1>2. ASSUME NEW t \in Gps!Threads, Gps!Thread(t) PROVE Gps!ClockType'
  <2>1. CASE Gps!ThreadSync(t)
    BY <2>1 DEF Gps!ThreadSync, Gps!zynq_do_gps_sync
  <2>2. CASE Gps!ThreadSmooth(t)
    BY <2>2 DEF Gps!ThreadSmooth, Gps!SmoothingLeft
  <2>3. CASE Gps!ThreadLoop(t) \/ Gps!ThreadWait(t)
    BY <2>3 DEF Gps!ThreadLoop, Gps!ThreadWait
  <2> QED BY <1>2, <2>1, <2>2, <2>3 DEF Gps!Thread
<1>3. ASSUME NEW d \in Devs, Gps!FixChanges(d) \/ Gps!zynq_gps_init(d) \/ Gps!zynq_gps_fini(d) \/ Gps!Card(d) PROVE Gps!ClockType'
  BY <1>3 DEF Gps!FixChanges, Gps!zynq_gps_init, Gps!zynq_gps_fini, Gps!Card, Gps!zynq_gps_thread_init, Gps!FiniComplete, Gps!FiniStop, Gps!FiniJoin,
              Gps!RemoveFree
<1>4. ASSUME NEW d \in Devs, Gps!zynq_gps_pps_changed(d) \/ Gps!IoctlSync(d) \/ Gps!IoctlGet(d) \/ Gps!zynq_gps_init_fpga_time(d)
      PROVE  Gps!ClockType'
  BY <1>4 DEF Gps!zynq_gps_pps_changed, Gps!IoctlSync, Gps!zynq_do_gps_sync, Gps!IoctlGet, Gps!zynq_gps_init_fpga_time
<1>5. CASE UNCHANGED gpsVars
  BY <1>5
<1> QED BY <1>1, <1>2, <1>3, <1>4, <1>5 DEF Gps!Next

-----------------------------------------------------------------------------
\* The part of the invariant that is about cards and threads.
CardInv == Gps!CardType /\ OneAtATime /\ GpsStages /\ Gps!OneSyncThread /\ Served /\ GpsHeld

\* It depends on nothing else.
LEMMA CardOther == CardInv /\ UNCHANGED <<dpc, master, taskp, thr>> => CardInv'
BY DEF CardInv, Gps!CardType, OneAtATime, GpsStages, Gps!OneSyncThread, Served, GpsHeld, Ending, Gps!Alive

\* A step of the thread: it takes the master as its card, or gives it back.
LEMMA CardThread == ASSUME NEW t \in Gps!Threads PROVE CardInv /\ Gps!FlagType /\ Gps!Thread(t) => CardInv'
<1> SUFFICES ASSUME CardInv, Gps!FlagType, Gps!Thread(t) PROVE CardInv'
  OBVIOUS
<1> USE GpsAssumption DEF CardInv
<1>1. UNCHANGED <<dpc, master, taskp>>
  BY DEF Gps!Thread, Gps!ThreadLoop, Gps!ThreadSync, Gps!ThreadWait, Gps!ThreadSmooth
<1>2. /\ \A u \in Gps!Threads \ {t} : thr'[u] = thr[u]
      /\ thr' \in [Gps!Threads -> [pc : {"none", "loop", "sync", "wait", "smooth", "ended", "oops"},
                            zdev : Devs \cup {NoDev}, woken : BOOLEAN, stop : BOOLEAN]]
      /\ Gps!Alive(t)
      /\ thr'[t].zdev # NoDev => thr'[t].pc \in {"sync", "wait", "smooth"}
      /\ thr'[t].zdev \in {NoDev, master, thr[t].zdev}
  <2>1. CASE Gps!ThreadLoop(t)
    BY ZenonT(60), <2>1 DEF Gps!ThreadLoop, Gps!CardType, GpsHeld, Gps!Alive, Gps!ThreadAt
  <2>2. CASE Gps!ThreadSync(t)
    BY <2>2 DEF Gps!ThreadSync, Gps!CardType, GpsHeld, Gps!Alive
  <2>3. CASE Gps!ThreadWait(t)
    BY ZenonT(60), <2>3 DEF Gps!ThreadWait, Gps!CardType, Gps!FlagType, GpsHeld, Gps!Alive
  <2>4. CASE Gps!ThreadSmooth(t)
    BY ZenonT(60), <2>4 DEF Gps!ThreadSmooth, Gps!CardType, GpsHeld, Gps!Alive
  <2> QED BY <2>1, <2>2, <2>3, <2>4 DEF Gps!Thread
<1>3. \A u \in Gps!Threads : Gps!Alive(u)' => Gps!Alive(u)
  BY <1>2 DEF Gps!Alive
<1>4. Gps!CardType' /\ OneAtATime' /\ GpsStages'
  BY <1>1, <1>2 DEF Gps!CardType, OneAtATime, GpsStages
<1>5. Gps!OneSyncThread' /\ Served'
  BY <1>1, <1>3 DEF Gps!OneSyncThread, Served, Ending
<1>6. GpsHeld'
  BY <1>1, <1>2 DEF GpsHeld, Ending
<1> QED BY <1>4, <1>5, <1>6

\* A card is probed: it becomes the master if there is none.
LEMMA CardInit == ASSUME Serial, NEW d \in Devs PROVE CardInv /\ Gps!zynq_gps_init(d) => CardInv'
<1> SUFFICES ASSUME CardInv, Gps!zynq_gps_init(d) PROVE CardInv'
  OBVIOUS
<1> USE GpsAssumption DEF CardInv
<1>1. /\ dpc[d] = "absent" /\ \A o \in Devs \ {d} : dpc[o] \in {"absent", "bound"}
      /\ UNCHANGED <<taskp, thr>>
      /\ \A u \in Gps!Threads : Gps!Alive(u)' <=> Gps!Alive(u)
  BY DEF Gps!zynq_gps_init, Gps!MayStart, Gps!threadVars, Gps!Alive
<1>2. Gps!CardType' /\ OneAtATime' /\ Gps!OneSyncThread'
  BY <1>1 DEF Gps!zynq_gps_init, Gps!CardType, OneAtATime, Gps!OneSyncThread
<1>3. \A o \in Devs : ~Ending(o)
  BY <1>1 DEF Ending
<1>4. GpsStages'
  BY <1>1 DEF Gps!zynq_gps_init, Gps!CardType, GpsStages
<1>5. Served' /\ GpsHeld'
  BY <1>1, <1>3 DEF Gps!zynq_gps_init, Gps!CardType, Served, GpsHeld, GpsStages
<1> QED BY <1>2, <1>4, <1>5

\* The thread of a new master is created.
LEMMA CardThreadInit == ASSUME Serial, NEW d \in Devs PROVE CardInv /\ Gps!zynq_gps_thread_init(d) => CardInv'
<1> SUFFICES ASSUME CardInv, Gps!zynq_gps_thread_init(d) PROVE CardInv'
  OBVIOUS
<1> USE GpsAssumption DEF CardInv
<1>1. /\ dpc[d] = "thread" /\ master = d /\ \A o \in Devs \ {d} : dpc[o] \in {"absent", "bound"}
      /\ taskp' = taskp + 1 /\ taskp' \in Gps!Threads
      /\ thr' = [thr EXCEPT ![taskp'] = Gps!ThreadAt("loop")]
      /\ dpc' = [dpc EXCEPT ![d] = "bound"] /\ UNCHANGED master
  BY DEF Gps!zynq_gps_thread_init, Gps!CardType, OneAtATime, GpsStages, Gps!Threads
<1>2. \A u \in Gps!Threads : ~Gps!Alive(u)
  BY <1>1 DEF Served, Ending
<1>3. Gps!CardType' /\ OneAtATime' /\ GpsStages'
  <2>1. taskp' \in 0..MaxThreads
    BY <1>1 DEF Gps!Threads
  <2>2. Gps!ThreadAt("loop") \in [pc : {"none", "loop", "sync", "wait", "smooth", "ended", "oops"},
                             zdev : Devs \cup {NoDev}, woken : BOOLEAN, stop : BOOLEAN]
    BY DEF Gps!ThreadAt
  <2>3. Gps!CardType'
    BY <1>1, <2>1, <2>2 DEF Gps!CardType
  <2> QED BY <1>1, <2>3 DEF Gps!CardType, OneAtATime, GpsStages
<1>4. \A u \in Gps!Threads : Gps!Alive(u)' => u = taskp'
  BY <1>1, <1>2 DEF Gps!Alive, Gps!CardType
<1>5. Gps!OneSyncThread' /\ Served'
  BY <1>1, <1>4 DEF Gps!OneSyncThread, Served, Gps!CardType
<1>6. \A u \in Gps!Threads : thr'[u].zdev = NoDev
  BY <1>1, <1>2 DEF GpsHeld, Gps!Alive, Gps!CardType, Gps!ThreadAt
<1> QED BY <1>3, <1>5, <1>6 DEF GpsHeld

\* A card is removed: if it is the master there is none from now on.
LEMMA CardFini == ASSUME Serial, NEW d \in Devs PROVE CardInv /\ Gps!zynq_gps_fini(d) => CardInv'
<1> SUFFICES ASSUME CardInv, Gps!zynq_gps_fini(d) PROVE CardInv'
  OBVIOUS
<1> USE GpsAssumption DEF CardInv
<1>1. /\ dpc[d] = "bound" /\ \A o \in Devs \ {d} : dpc[o] \in {"absent", "bound"}
      /\ UNCHANGED <<taskp, thr>>
      /\ \A u \in Gps!Threads : Gps!Alive(u)' <=> Gps!Alive(u)
      /\ master' = IF master = d THEN NoDev ELSE master
      /\ dpc' = [dpc EXCEPT ![d] = IF master = d THEN "complete" ELSE "free"]
  BY DEF Gps!zynq_gps_fini, Gps!MayStart, Gps!threadVars, Gps!Alive
<1>2. Gps!CardType' /\ OneAtATime' /\ Gps!OneSyncThread'
  BY <1>1 DEF Gps!CardType, OneAtATime, Gps!OneSyncThread
<1>3. \A o \in Devs : ~Ending(o)
  BY <1>1 DEF Ending
<1>4. GpsStages'
  BY <1>1 DEF Gps!CardType, GpsStages
<1>5. Served' /\ GpsHeld'
  BY <1>1, <1>3 DEF Gps!CardType, Served, GpsHeld, Ending
<1> QED BY <1>2, <1>4, <1>5

\* The removal goes on, and does not pass FiniJoin before the thread has ended.
LEMMA CardEnd ==
    ASSUME NEW d \in Devs PROVE CardInv /\ (Gps!FiniComplete(d) \/ Gps!FiniStop(d) \/ Gps!FiniJoin(d) \/ Gps!RemoveFree(d)) => CardInv'
<1> SUFFICES ASSUME CardInv, Gps!FiniComplete(d) \/ Gps!FiniStop(d) \/ Gps!FiniJoin(d) \/ Gps!RemoveFree(d) PROVE CardInv'
  OBVIOUS
<1> USE GpsAssumption DEF CardInv
<1>1. /\ UNCHANGED <<master, taskp>>
      /\ \/ dpc[d] = "complete" /\ dpc' = [dpc EXCEPT ![d] = "stop"]
         \/ dpc[d] = "stop" /\ dpc' = [dpc EXCEPT ![d] = "join"]
         \/ dpc[d] = "join" /\ dpc' = [dpc EXCEPT ![d] = "free"] /\ ~Gps!Alive(taskp)
         \/ dpc[d] = "free" /\ dpc' = [dpc EXCEPT ![d] = "absent"]
  BY DEF Gps!FiniComplete, Gps!FiniStop, Gps!FiniJoin, Gps!RemoveFree, Gps!threadVars
<1>2. /\ thr' \in [Gps!Threads -> [pc : {"none", "loop", "sync", "wait", "smooth", "ended", "oops"},
                            zdev : Devs \cup {NoDev}, woken : BOOLEAN, stop : BOOLEAN]]
      /\ \A u \in Gps!Threads : thr'[u].pc = thr[u].pc /\ thr'[u].zdev = thr[u].zdev
  <2>1. CASE Gps!FiniStop(d)
    BY ZenonT(60), <2>1 DEF Gps!FiniStop, Gps!CardType
  <2>2. CASE Gps!FiniComplete(d) \/ Gps!FiniJoin(d) \/ Gps!RemoveFree(d)
    BY <2>2 DEF Gps!FiniComplete, Gps!FiniJoin, Gps!RemoveFree, Gps!threadVars, Gps!CardType
  <2> QED BY <2>1, <2>2
<1>3. \A u \in Gps!Threads : Gps!Alive(u)' <=> Gps!Alive(u)
  BY <1>2 DEF Gps!Alive
<1>4. Gps!CardType' /\ OneAtATime' /\ GpsStages' /\ Gps!OneSyncThread'
  BY <1>1, <1>2, <1>3 DEF Gps!CardType, OneAtATime, GpsStages, Gps!OneSyncThread
<1>5. dpc[d] = "join" => \A u \in Gps!Threads : ~Gps!Alive(u) /\ thr[u].zdev = NoDev
  BY <1>1 DEF Gps!OneSyncThread, GpsHeld, Gps!Alive
<1>6. Served'
  BY <1>1, <1>3, <1>5 DEF Served, Ending, Gps!CardType, GpsStages
<1>7. GpsHeld'
  BY <1>1, <1>2, <1>5 DEF GpsHeld, Ending, Gps!CardType, GpsStages
<1> QED BY <1>4, <1>6, <1>7

\* Each step keeps it.
LEMMA StepGps == ASSUME Serial PROVE GpsInv /\ [Gps!Next]_gpsVars => GpsInv'
<1> SUFFICES ASSUME GpsInv, [Gps!Next]_gpsVars PROVE GpsInv'
  OBVIOUS
<1>1. CardInv
  BY DEF GpsInv, Gps!TypeOK, CardInv
<1>2. CardInv'
  <2>1. ASSUME NEW t \in Gps!Threads, Gps!Thread(t) PROVE CardInv'
    BY <1>1, <2>1, CardThread DEF GpsInv, Gps!TypeOK
  <2>2. ASSUME NEW d \in Devs, Gps!zynq_gps_init(d) \/ Gps!zynq_gps_fini(d) \/ Gps!Card(d) PROVE CardInv'
    BY <1>1, <2>2, CardInit, CardFini, CardThreadInit, CardEnd DEF Gps!Card
  <2>3. CASE UNCHANGED <<dpc, master, taskp, thr>>
    BY <1>1, <2>3, CardOther
  <2>4. ASSUME NEW d \in Devs,
               Gps!FixChanges(d) \/ Gps!zynq_gps_pps_changed(d) \/ Gps!IoctlSync(d) \/ Gps!IoctlGet(d) \/ Gps!zynq_gps_init_fpga_time(d)
        PROVE  UNCHANGED <<dpc, master, taskp, thr>>
    BY <2>4 DEF Gps!FixChanges, Gps!zynq_gps_pps_changed, Gps!IoctlSync, Gps!IoctlGet, Gps!zynq_gps_init_fpga_time, Gps!threadVars
  <2>5. Gps!Tick \/ Gps!GpsJump \/ Gps!SmoothingEnds \/ UNCHANGED gpsVars => UNCHANGED <<dpc, master, taskp, thr>>
    BY DEF Gps!Tick, Gps!GpsJump, Gps!SmoothingEnds, gpsVars, Gps!threadVars
  <2> QED BY <2>1, <2>2, <2>3, <2>4, <2>5 DEF Gps!Next
<1>3. Gps!FlagType' /\ Gps!ClockType'
  BY StepFlag, StepClock DEF GpsInv, Gps!TypeOK
<1> QED BY <1>2, <1>3 DEF GpsInv, Gps!TypeOK, CardInv

\* It implies what the run checks.
LEMMA InvGps == GpsInv => SyncSafe
BY DEF GpsInv, Gps!TypeOK, Gps!CardType, SyncSafe, Gps!SyncSafe, Gps!OneSyncThread, Gps!ThreadDevLive, GpsHeld, GpsStages, Ending
-----------------------------------------------------------------------------
(* Division.                                                               *)

\* Division leaves a remainder below the divisor.
LEMMA DivMod ==
    ASSUME NEW x \in Int, NEW d \in Nat \ {0}
    PROVE  x \div d \in Int /\ x % d \in 0 .. (d - 1) /\ x = d * (x \div d) + (x % d)
OBVIOUS

\* The quotient is the only number that does.
LEMMA DivUnique ==
    ASSUME NEW x \in Int, NEW d \in Nat \ {0}, NEW q \in Int, NEW r \in 0 .. (d - 1), x = q * d + r
    PROVE  x \div d = q
<1> DEFINE p == x \div d
           s == x % d
<1>1. p \in Int /\ s \in 0 .. (d - 1) /\ x = d * p + s
  BY DivMod
<1>2. (q - p) * d = s - r
  BY <1>1
<1> HIDE DEF p, s
<1>3. CASE q - p >= 1
  <2>1. (q - p) * d >= d
    <3>1. (q - p - 1) * d >= 0
      BY <1>1, <1>3
    <3> QED BY <3>1, <1>1
  <2> QED BY <2>1, <1>1, <1>2
<1>4. CASE q - p <= -1
  <2>1. (q - p) * d <= -d
    <3>1. (q - p + 1) * d <= 0
      BY <1>1, <1>4
    <3> QED BY <3>1, <1>1
  <2> QED BY <2>1, <1>1, <1>2
<1>5. q = p
  BY <1>1, <1>3, <1>4
<1> QED BY <1>5 DEF p
-----------------------------------------------------------------------------
(* Frames copied from the ring (BasaCopy).                                 *)

\* What a frame takes of the ring, and j frames.
FrameRoom == Copy!Align(SizeImage)
Dist(j) == j * FrameRoom

\* A position at the beginning of a page.
OnPage(off) == \E q \in Nat : off = q * PageSize

Ring == 0 .. (Copy!RxSize - 1)

\* Room for a frame is some pages, and enough.
LEMMA RoomFacts ==
    /\ FrameRoom \in Nat /\ FrameRoom >= SizeImage
    /\ \E a \in Nat : FrameRoom = a * PageSize
<1> DEFINE a == (SizeImage + PageSize - 1) \div PageSize
           r == (SizeImage + PageSize - 1) % PageSize
<1>1. PageSize \in Nat \ {0} /\ SizeImage \in Nat \ {0}
  BY CopyAssumption
<1>2. a \in Int /\ r \in 0 .. (PageSize - 1) /\ SizeImage + PageSize - 1 = PageSize * a + r
  BY <1>1
<1>3. FrameRoom = a * PageSize
  BY DEF FrameRoom, Copy!Align
<1> HIDE DEF a, r
<1>4. FrameRoom >= SizeImage
  BY <1>1, <1>2, <1>3
<1>5. a >= 0
  <2>1. CASE a <= -1
    <3>1. (-1 - a) * PageSize >= 0
      BY <2>1, <1>1, <1>2
    <3> QED BY <3>1, <1>1, <1>2, <1>3, <1>4
  <2> QED BY <2>1, <1>2
<1> QED BY <1>1, <1>2, <1>3, <1>4, <1>5

\* After a frame that begins with a page comes the page after its room.
LEMMA AlignAfter ==
    ASSUME NEW q \in Int
    PROVE  Copy!Align(q * PageSize + SizeImage) = q * PageSize + FrameRoom
<1> DEFINE a == (SizeImage + PageSize - 1) \div PageSize
           r == (SizeImage + PageSize - 1) % PageSize
           x == q * PageSize + SizeImage + PageSize - 1
<1>1. PageSize \in Nat \ {0} /\ SizeImage \in Nat \ {0}
  BY CopyAssumption
<1>2. a \in Int /\ r \in 0 .. (PageSize - 1) /\ SizeImage + PageSize - 1 = PageSize * a + r
  BY <1>1
<1>3. FrameRoom = a * PageSize
  BY DEF FrameRoom, Copy!Align
<1>4. Copy!Align(q * PageSize + SizeImage) = (x \div PageSize) * PageSize
  BY DEF Copy!Align
<1>5. x \in Int
  BY <1>1
<1> HIDE DEF a, r
<1>6. x = (q + a) * PageSize + r
  BY <1>1, <1>2
<1> HIDE DEF x
<1>7. x \div PageSize = q + a
  BY <1>1, <1>2, <1>5, <1>6, DivUnique
<1> QED BY <1>1, <1>2, <1>3, <1>4, <1>7

\* Distances of frames.
LEMMA DistFacts ==
    /\ Dist(0) = 0
    /\ \A j \in Nat : Dist(j) \in Nat /\ Dist(j + 1) = Dist(j) + FrameRoom
    /\ \A j \in Nat, m \in Nat : j < m => Dist(j) + FrameRoom <= Dist(m)
<1>1. FrameRoom \in Nat
  BY RoomFacts
<1>2. Dist(0) = 0
  BY <1>1 DEF Dist
<1>3. ASSUME NEW j \in Nat PROVE Dist(j) \in Nat /\ Dist(j + 1) = Dist(j) + FrameRoom
  BY <1>1 DEF Dist
<1>4. ASSUME NEW j \in Nat, NEW m \in Nat, j < m PROVE Dist(j) + FrameRoom <= Dist(m)
  <2>1. (m - j - 1) * FrameRoom >= 0
    BY <1>1, <1>4
  <2> QED BY <2>1, <1>1 DEF Dist
<1> QED BY <1>2, <1>3, <1>4

\* Both ways to the next frame, from the end of the copy and from the beginning of the frame, lead to the same page.
LEMMA NextPage ==
    ASSUME NEW h \in Ring, OnPage(h), FrameRoom < Copy!RxSize
    PROVE  /\ Copy!NextFrame(h + SizeImage) = Copy!Wrap(h + FrameRoom)
           /\ Copy!NextFrame(Copy!Wrap(h + SizeImage)) = Copy!Wrap(h + FrameRoom)
           /\ Copy!Wrap(h + FrameRoom) \in Ring /\ OnPage(Copy!Wrap(h + FrameRoom))
<1>1. PageSize \in Nat \ {0} /\ SizeImage \in Nat \ {0} /\ Pages \in Nat \ {0}
  BY CopyAssumption
<1>2. PICK q \in Nat : h = q * PageSize
  BY DEF OnPage
<1>3. PICK a \in Nat : FrameRoom = a * PageSize
  BY RoomFacts
<1>4. Copy!RxSize = Pages * PageSize /\ Copy!RxSize \in Nat
  BY <1>1 DEF Copy!RxSize
<1>5. FrameRoom \in Nat /\ FrameRoom >= SizeImage /\ h \in Nat /\ h < Copy!RxSize
  BY RoomFacts, <1>4 DEF Ring
<1>6. Copy!Align(h + SizeImage) = h + FrameRoom
  BY <1>2, AlignAfter
<1>7. Copy!Align(h + SizeImage - Copy!RxSize) = h + FrameRoom - Copy!RxSize
  <2> DEFINE z == q - Pages
  <2>0. z \in Int
    BY <1>1
  <2>1. Copy!Align(z * PageSize + SizeImage) = z * PageSize + FrameRoom
    <3> HIDE DEF z
    <3> QED BY <2>0, AlignAfter
  <2>2. (q - Pages) * PageSize = h - Copy!RxSize
    BY <1>1, <1>2, <1>4
  <2>3. (h - Copy!RxSize) + SizeImage = h + SizeImage - Copy!RxSize /\ (h - Copy!RxSize) + FrameRoom = h + FrameRoom - Copy!RxSize
    BY <1>1, <1>4, <1>5
  <2> QED BY <2>1, <2>2, <2>3
<1>8. Copy!NextFrame(h + SizeImage) = Copy!Wrap(h + FrameRoom)
  BY <1>6 DEF Copy!NextFrame
<1>9. Copy!NextFrame(Copy!Wrap(h + SizeImage)) = Copy!Wrap(h + FrameRoom)
  <2>1. CASE h + SizeImage >= Copy!RxSize
    BY <2>1, <1>1, <1>4, <1>5, <1>7 DEF Copy!NextFrame, Copy!Wrap
  <2>2. CASE h + SizeImage < Copy!RxSize
    BY <2>2, <1>1, <1>4, <1>5, <1>8 DEF Copy!Wrap
  <2> QED BY <2>1, <2>2, <1>1, <1>4, <1>5
<1>10. Copy!Wrap(h + FrameRoom) \in Ring
  BY <1>4, <1>5 DEF Copy!Wrap, Ring
<1>11. OnPage(Copy!Wrap(h + FrameRoom))
  <2>1. CASE h + FrameRoom >= Copy!RxSize
    <3>1. h + FrameRoom - Copy!RxSize = (q + a - Pages) * PageSize
      BY <1>1, <1>2, <1>3, <1>4
    <3>2. q + a - Pages >= 0
      <4>1. CASE q + a - Pages <= -1
        <5>1. (q + a - Pages + 1) * PageSize <= 0
          BY <4>1, <1>1
        <5> QED BY <5>1, <3>1, <2>1, <1>1, <1>4, <1>5
      <4> QED BY <4>1, <1>1
    <3>3. q + a - Pages \in Nat
      BY <3>2, <1>1
    <3>4. Copy!Wrap(h + FrameRoom) = (q + a - Pages) * PageSize
      BY <2>1, <3>1, <1>4, <1>5 DEF Copy!Wrap
    <3> QED BY <3>3, <3>4 DEF OnPage
  <2>2. CASE h + FrameRoom < Copy!RxSize
    <3>1. h + FrameRoom = (q + a) * PageSize
      BY <1>1, <1>2, <1>3
    <3>2. Copy!Wrap(h + FrameRoom) = (q + a) * PageSize
      BY <2>2, <3>1, <1>4, <1>5 DEF Copy!Wrap
    <3> QED BY <3>2 DEF OnPage
  <2> QED BY <2>1, <2>2, <1>4, <1>5
<1> QED BY <1>8, <1>9, <1>10, <1>11


\* The ring has a size.
LEMMA SizeType == Copy!RxSize \in Nat \ {0}
<1>1. PageSize \in Nat \ {0} /\ Pages \in Nat \ {0}
  BY CopyAssumption
<1>2. PageSize * Pages >= 1
  <2>1. (PageSize - 1) * Pages >= 0
    BY <1>1
  <2> QED BY <2>1, <1>1
<1> QED BY <1>1, <1>2 DEF Copy!RxSize

\* Places in the ring and distances between them.
LEMMA RingFacts ==
    ASSUME NEW h \in Ring, NEW t \in Ring
    PROVE  /\ Copy!USED_SIZE(h, t) \in Ring /\ Copy!FREE_SIZE(h, t) = Copy!RxSize - Copy!USED_SIZE(h, t)
           /\ t = Copy!Wrap(h + Copy!USED_SIZE(h, t))
           /\ Copy!USED_SIZE(h, t) = 0 <=> h = t
BY SizeType DEF Ring, Copy!USED_SIZE, Copy!FREE_SIZE, Copy!Wrap

LEMMA WrapFacts ==
    ASSUME NEW h \in Ring, NEW x \in Ring
    PROVE  Copy!Wrap(h + x) \in Ring /\ Copy!USED_SIZE(h, Copy!Wrap(h + x)) = x
BY SizeType DEF Ring, Copy!USED_SIZE, Copy!Wrap

LEMMA WrapTwice ==
    ASSUME NEW h \in Ring, NEW x \in Ring, NEW y \in Ring, x + y < Copy!RxSize
    PROVE  Copy!Wrap(Copy!Wrap(h + x) + y) = Copy!Wrap(h + (x + y))
BY SizeType DEF Ring, Copy!Wrap

\* How far it is from the tail, on both sides of it.
LEMMA FromTail ==
    ASSUME NEW h \in Ring, NEW t \in Ring, NEW x \in Ring
    PROVE  /\ x < Copy!USED_SIZE(h, t) => Copy!USED_SIZE(t, Copy!Wrap(h + x)) = Copy!RxSize - Copy!USED_SIZE(h, t) + x
           /\ x >= Copy!USED_SIZE(h, t) => Copy!USED_SIZE(t, Copy!Wrap(h + x)) = x - Copy!USED_SIZE(h, t)
BY SizeType DEF Ring, Copy!USED_SIZE, Copy!Wrap

-----------------------------------------------------------------------------
(* What is true of the copying mode at all times.                          *)

CopyTypes ==
    /\ dma \in [Ring -> Nat \X Nat]
    /\ rx \in [head : Ring, tail : Ring, n : 0 .. MaxFrames] /\ OnPage(rx.head)
    /\ vbuf \in [at : [Buffers -> {"user", "list", "rx", "done"}], mem : [Buffers -> Seq(Nat \X Nat)], out : Seq(Nat)]
    /\ bufs \in Seq(Buffers)
    /\ rpc \in {"idle", "take", "copy"}
    /\ rxp \in [off : Ring, tail : Ring, buf : Buffers \cup {NoBuffer}, dropped : SUBSET Nat]
    /\ good \in [1 .. MaxFrames -> BOOLEAN]

Listed == {b \in Buffers : vbuf.at[b] = "list"}

\* The list has each buffer that is said to be in it, once, and the tasklet has the one it fills.
ListOk ==
    /\ \A i, j \in 1 .. Len(bufs) : bufs[i] = bufs[j] => i = j
    /\ \A b \in Buffers : b \in Listed <=> \E i \in 1 .. Len(bufs) : bufs[i] = b
    /\ Len(bufs) = Cardinality(Listed)
    /\ rpc = "copy" => rxp.buf \in Buffers /\ vbuf.at[rxp.buf] = "rx"

\* The ring holds the newest m frames from the head on, each whole.
Holds(m) ==
    /\ m <= rx.n /\ Copy!USED_SIZE(rx.head, rx.tail) = Dist(m)
    /\ \A j \in 0 .. (m - 1), k \in 0 .. (SizeImage - 1) : dma[Copy!Wrap(rx.head + Dist(j) + k)] = <<rx.n - m + j + 1, k>>

\* The tasklet is at the head, with some of these frames before it.
AtWork(m) == rpc # "idle" => rxp.off = rx.head /\ \E t \in 1 .. m : Copy!USED_SIZE(rxp.off, rxp.tail) = Dist(t)

\* What was delivered or dropped is older than what the ring holds.
Gone(m) ==
    /\ \A i \in 1 .. Len(vbuf.out) : vbuf.out[i] <= rx.n - m
    /\ \A f \in rxp.dropped : f <= rx.n - m

\* Frames were delivered in order, and none that was dropped.
Delivered ==
    /\ \A i, j \in 1 .. Len(vbuf.out) : i < j => vbuf.out[i] < vbuf.out[j]
    /\ \A i \in 1 .. Len(vbuf.out) : vbuf.out[i] \notin rxp.dropped

CopyInv ==
    /\ CopyTypes /\ ListOk /\ Copy!CopiedWhole /\ Delivered
    /\ \E m \in Nat : Holds(m) /\ AtWork(m) /\ Gone(m)

\* The tasklet finds a whole frame at the head, the oldest.
LEMMA HeadFrame ==
    ASSUME CopyTypes, NEW m \in Nat, Holds(m), AtWork(m), rpc # "idle"
    PROVE  /\ m >= 1 /\ FrameRoom < Copy!RxSize
           /\ \E t \in 1 .. m : Copy!USED_SIZE(rx.head, rxp.tail) = Dist(t) /\ Dist(t) >= FrameRoom
           /\ \A k \in 0 .. (SizeImage - 1) : dma[Copy!Wrap(rx.head + k)] = <<rx.n - m + 1, k>>
           /\ Copy!FrameAt(rx.head) = rx.n - m + 1
<1>1. /\ SizeImage \in Nat \ {0} /\ FrameRoom \in Nat /\ rx.head \in Ring /\ rx.tail \in Ring /\ rxp.tail \in Ring
      /\ rx.n \in Nat /\ rxp.off = rx.head /\ Copy!RxSize \in Nat
  BY CopyAssumption, RoomFacts, SizeType DEF CopyTypes, AtWork
<1>2. PICK t \in 1 .. m : Copy!USED_SIZE(rx.head, rxp.tail) = Dist(t)
  BY <1>1 DEF AtWork
<1>3. m >= 1
  BY <1>2
<1>4. Dist(t) >= FrameRoom /\ Dist(m) >= FrameRoom /\ Dist(0) = 0
  <2>1. t \in Nat /\ 0 < t /\ 0 < m
    BY <1>2
  <2>2. Dist(0) = 0 /\ Dist(0) + FrameRoom <= Dist(t) /\ Dist(0) + FrameRoom <= Dist(m)
    BY <2>1, DistFacts
  <2> QED BY <2>2, <1>1
<1>5. Dist(m) < Copy!RxSize
  <2>1. Copy!USED_SIZE(rx.head, rx.tail) \in Ring
    BY <1>1, RingFacts
  <2> QED BY <2>1, <1>1 DEF Holds, Ring
<1>6. FrameRoom < Copy!RxSize
  BY <1>1, <1>4, <1>5, DistFacts DEF Ring
<1>7. ASSUME NEW k \in 0 .. (SizeImage - 1) PROVE dma[Copy!Wrap(rx.head + k)] = <<rx.n - m + 1, k>>
  <2>1. dma[Copy!Wrap(rx.head + Dist(0) + k)] = <<rx.n - m + 0 + 1, k>>
    BY <1>3 DEF Holds
  <2>2. rx.head + Dist(0) + k = rx.head + k /\ rx.n - m + 0 + 1 = rx.n - m + 1
    BY <1>1, <1>4 DEF Ring
  <2> QED BY <2>1, <2>2
<1>8. Copy!Wrap(rx.head + 0) = rx.head
  BY <1>1 DEF Copy!Wrap, Ring
<1>9. Copy!FrameAt(rx.head) = rx.n - m + 1
  <2>1. dma[Copy!Wrap(rx.head + 0)] = <<rx.n - m + 1, 0>>
    BY <1>1, <1>7
  <2> QED BY <2>1, <1>8 DEF Copy!FrameAt
<1> QED BY <1>2, <1>3, <1>4, <1>6, <1>7, <1>9

\* A frame that was handled: the ring holds one less.
LEMMA Released ==
    ASSUME CopyTypes, NEW m \in Nat, Holds(m), AtWork(m), rpc # "idle",
           NEW off, Copy!NextFrame(off) = Copy!Wrap(rx.head + FrameRoom), Copy!Advance(off),
           rxp'.off = Copy!NextFrame(off), rxp'.tail = rxp.tail
    PROVE  /\ Holds(m - 1)' /\ AtWork(m - 1)'
           /\ dma' \in [Ring -> Nat \X Nat] /\ rpc' \in {"idle", "take"}
           /\ rx' \in [head : Ring, tail : Ring, n : 0 .. MaxFrames] /\ OnPage(rx'.head) /\ rx'.n = rx.n
<1>1. /\ SizeImage \in Nat \ {0} /\ FrameRoom \in Nat /\ FrameRoom >= SizeImage
      /\ rx.head \in Ring /\ rx.tail \in Ring /\ rxp.tail \in Ring /\ rx.n \in Nat /\ OnPage(rx.head)
      /\ Copy!RxSize \in Nat
  BY CopyAssumption, RoomFacts, SizeType DEF CopyTypes
<1>2. m >= 1 /\ FrameRoom < Copy!RxSize /\ FrameRoom \in Ring
  <2>1. m >= 1 /\ FrameRoom < Copy!RxSize
    BY HeadFrame
  <2> QED BY <2>1, <1>1 DEF Ring
<1>3. PICK t \in 1 .. m : Copy!USED_SIZE(rx.head, rxp.tail) = Dist(t) /\ Dist(t) >= FrameRoom
  BY HeadFrame
<1> DEFINE h == Copy!Wrap(rx.head + FrameRoom)
           d == Copy!USED_SIZE(rx.head, rx.tail)
<1>4. h \in Ring /\ OnPage(h)
  BY <1>1, <1>2, NextPage
<1>5. /\ rx' = [rx EXCEPT !.head = h]
      /\ dma' = [dma EXCEPT ![Copy!Wrap(rx.head + SizeImage - 1)] = Copy!Nothing]
      /\ rpc' = IF h = rxp.tail THEN "idle" ELSE "take"
  BY DEF Copy!Advance, Copy!zvideo_reset_meta_data
<1>6. rx'.head = h /\ rx'.tail = rx.tail /\ rx'.n = rx.n /\ rx' \in [head : Ring, tail : Ring, n : 0 .. MaxFrames]
  BY <1>4, <1>5 DEF CopyTypes
<1>7. dma' \in [Ring -> Nat \X Nat]
  <2>1. Copy!Nothing \in Nat \X Nat
    BY DEF Copy!Nothing
  <2> QED BY <2>1, <1>5 DEF CopyTypes
\* How far it is from the new head.
<1>8. ASSUME NEW u \in Ring, Copy!USED_SIZE(rx.head, u) >= FrameRoom
      PROVE  Copy!USED_SIZE(h, u) = Copy!USED_SIZE(rx.head, u) - FrameRoom
  BY <1>1, <1>2, <1>8 DEF Copy!USED_SIZE, Copy!Wrap, Ring
<1>9. \A j \in Nat : Dist(j) \in Nat /\ Dist(j + 1) = Dist(j) + FrameRoom
  BY DistFacts
<1>10. /\ Copy!USED_SIZE(h, rx.tail) = Dist(m - 1) /\ Copy!USED_SIZE(h, rxp.tail) = Dist(t - 1)
       /\ d = Dist(m) /\ Dist(m) = Dist(m - 1) + FrameRoom /\ Dist(m) < Copy!RxSize
  <2>1. d = Dist(m)
    BY DEF Holds
  <2>2. m - 1 \in Nat /\ t - 1 \in Nat /\ (m - 1) + 1 = m /\ (t - 1) + 1 = t
    BY <1>2, <1>3
  <2>3. Dist(m) = Dist(m - 1) + FrameRoom /\ Dist(t) = Dist(t - 1) + FrameRoom /\ Dist(m - 1) \in Nat /\ Dist(t - 1) \in Nat
    BY <2>2, <1>9
  <2>4. Copy!USED_SIZE(h, rx.tail) = Dist(m) - FrameRoom
    BY <2>1, <2>3, <1>1, <1>8
  <2>5. Copy!USED_SIZE(h, rxp.tail) = Dist(t) - FrameRoom
    BY <1>1, <1>3, <1>8
  <2>6. d < Copy!RxSize
    <3>1. d \in Ring
      BY <1>1, RingFacts
    <3> QED BY <3>1, <1>1 DEF Ring
  <2> QED BY <2>1, <2>3, <2>4, <2>5, <2>6, <1>1
<1>11. ASSUME NEW j \in 0 .. (m - 2), NEW k \in 0 .. (SizeImage - 1)
       PROVE  dma'[Copy!Wrap(h + Dist(j) + k)] = <<rx.n - (m - 1) + j + 1, k>>
  <2> DEFINE x == Dist(j) + k
  <2>1. j \in Nat /\ j + 1 \in Nat /\ j + 1 < m /\ j + 1 \in 0 .. (m - 1)
    BY <1>2
  <2>2. Dist(j) \in Nat /\ Dist(j + 1) = Dist(j) + FrameRoom /\ Dist(j + 1) + FrameRoom <= Dist(m)
    BY <2>1, DistFacts
  <2>3. x \in Ring /\ FrameRoom + x \in Ring
    <3>1. Dist(m) < Copy!RxSize /\ Dist(m) \in Nat
      BY <1>9, <1>10
    <3> HIDE DEF h, d
    <3> QED BY <3>1, <2>2, <1>1 DEF Ring
  <2>4. Copy!Wrap(h + x) = Copy!Wrap(rx.head + FrameRoom + x)
    <3>1. FrameRoom + x < Copy!RxSize /\ rx.head + (FrameRoom + x) = rx.head + FrameRoom + x
      BY <2>3, <1>1 DEF Ring
    <3> HIDE DEF x
    <3>2. Copy!Wrap(Copy!Wrap(rx.head + FrameRoom) + x) = Copy!Wrap(rx.head + (FrameRoom + x))
      <4>1. rx.head \in Ring /\ FrameRoom \in Ring /\ x \in Ring /\ FrameRoom + x < Copy!RxSize
        BY <3>1, <2>3, <1>1, <1>2
      <4> QED BY <4>1, WrapTwice, Zenon
    <3> QED BY <3>1, <3>2, Zenon
  <2>5. Copy!Wrap(rx.head + FrameRoom + x) # Copy!Wrap(rx.head + SizeImage - 1)
    BY <2>3, <1>1 DEF Copy!Wrap, Ring
  <2>6. Copy!Wrap(rx.head + FrameRoom + x) \in Ring
    BY <2>3, <1>1 DEF Copy!Wrap, Ring
  <2>7. dma'[Copy!Wrap(rx.head + FrameRoom + x)] = dma[Copy!Wrap(rx.head + FrameRoom + x)]
    BY <2>5, <2>6, <1>5 DEF CopyTypes
  <2>8. h + Dist(j) + k = h + x /\ rx.head + FrameRoom + x = rx.head + Dist(j + 1) + k
    BY <2>2, <1>1, <1>4 DEF Ring
  <2>9. dma[Copy!Wrap(rx.head + Dist(j + 1) + k)] = <<rx.n - m + (j + 1) + 1, k>>
    BY <2>1 DEF Holds
  <2>10. rx.n - m + (j + 1) + 1 = rx.n - (m - 1) + j + 1
    BY <1>1
  <2> QED BY <2>4, <2>7, <2>8, <2>9, <2>10
<1>12. Holds(m - 1)'
  <2>1. (m - 1) - 1 = m - 2 /\ m - 1 <= rx.n
    BY DEF Holds, CopyTypes
  <2> QED BY <2>1, <1>6, <1>10, <1>11 DEF Holds
<1>13. AtWork(m - 1)'
  <2>1. ASSUME rpc' # "idle" PROVE \E s \in 1 .. (m - 1) : Copy!USED_SIZE(rxp'.off, rxp'.tail) = Dist(s)
    <3>1. h # rxp.tail
      BY <2>1, <1>5
    <3>2. Dist(t - 1) # 0
      BY <3>1, <1>1, <1>4, <1>10, RingFacts
    <3>3. t - 1 \in 1 .. (m - 1)
      BY <3>2, <1>3, DistFacts
    <3> QED BY <3>3, <1>10
  <2> QED BY <2>1, <1>6 DEF AtWork
<1>14. rpc' \in {"idle", "take"}
  BY <1>5
<1> QED BY <1>4, <1>6, <1>7, <1>12, <1>13, <1>14


\* The list of buffers stays in order when a buffer is added that was elsewhere.
LEMMA Listing ==
    ASSUME CopyTypes, ListOk, NEW b \in Buffers, b \notin Listed,
           bufs' = Append(bufs, b), Listed' = Listed \cup {b}
    PROVE  /\ bufs' \in Seq(Buffers)
           /\ \A i, j \in 1 .. Len(bufs') : bufs'[i] = bufs'[j] => i = j
           /\ \A c \in Buffers : c \in Listed' <=> \E i \in 1 .. Len(bufs') : bufs'[i] = c
           /\ Len(bufs') = Cardinality(Listed')
<1>1. bufs \in Seq(Buffers) /\ Len(bufs) \in Nat
  BY DEF CopyTypes
<1>2. /\ Len(bufs') = Len(bufs) + 1 /\ bufs'[Len(bufs) + 1] = b
      /\ \A i \in 1 .. Len(bufs) : bufs'[i] = bufs[i]
  BY <1>1
<1>3. \A i \in 1 .. Len(bufs) : bufs[i] \in Listed /\ bufs[i] # b
  BY <1>1 DEF ListOk
<1>4. \A i \in 1 .. Len(bufs') : i \in 1 .. Len(bufs) \/ i = Len(bufs) + 1
  BY <1>1, <1>2
<1>5. \A i, j \in 1 .. Len(bufs') : bufs'[i] = bufs'[j] => i = j
  BY <1>2, <1>3, <1>4 DEF ListOk
<1>6. ASSUME NEW c \in Buffers PROVE c \in Listed' <=> \E i \in 1 .. Len(bufs') : bufs'[i] = c
  <2>1. CASE c = b
    <3>1. Len(bufs) + 1 \in 1 .. Len(bufs')
      BY <1>1, <1>2
    <3> QED BY <2>1, <3>1, <1>2
  <2>2. CASE c # b
    <3>1. c \in Listed' <=> c \in Listed
      BY <2>2
    <3>2. ASSUME NEW i \in 1 .. Len(bufs'), bufs'[i] = c PROVE c \in Listed
      BY <3>2, <2>2, <1>2, <1>3, <1>4
    <3>3. ASSUME c \in Listed PROVE \E i \in 1 .. Len(bufs') : bufs'[i] = c
      <4>1. PICK i \in 1 .. Len(bufs) : bufs[i] = c
        BY <3>3 DEF ListOk
      <4>2. i \in 1 .. Len(bufs')
        BY <1>1, <1>2
      <4> QED BY <4>1, <4>2, <1>2
    <3> QED BY <3>1, <3>2, <3>3
  <2> QED BY <2>1, <2>2
<1>7. Len(bufs') = Cardinality(Listed')
  <2>1. Listed \subseteq Buffers
    BY DEF Listed
  <2>2. IsFiniteSet(Listed)
    BY <2>1, CopyAssumption, FS_Subset
  <2>3. Cardinality(Listed \cup {b}) = Cardinality(Listed) + 1
    BY <2>2, FS_AddElement
  <2> QED BY <2>3, <1>1, <1>2 DEF ListOk
<1>8. bufs' \in Seq(Buffers)
  BY <1>1
<1> QED BY <1>5, <1>6, <1>7, <1>8

\* The same when the first is taken.
LEMMA Taking ==
    ASSUME CopyTypes, ListOk, bufs # <<>>, bufs' = Tail(bufs), Listed' = Listed \ {Head(bufs)}
    PROVE  /\ bufs' \in Seq(Buffers) /\ Head(bufs) \in Buffers /\ Head(bufs) \in Listed
           /\ \A i, j \in 1 .. Len(bufs') : bufs'[i] = bufs'[j] => i = j
           /\ \A c \in Buffers : c \in Listed' <=> \E i \in 1 .. Len(bufs') : bufs'[i] = c
           /\ Len(bufs') = Cardinality(Listed')
<1>1. bufs \in Seq(Buffers) /\ Len(bufs) \in Nat \ {0} /\ 1 \in 1 .. Len(bufs)
  BY DEF CopyTypes
<1>2. /\ Len(bufs') = Len(bufs) - 1 /\ Head(bufs) = bufs[1] /\ bufs' \in Seq(Buffers) /\ Head(bufs) \in Buffers
      /\ \A i \in 1 .. Len(bufs') : bufs'[i] = bufs[i + 1] /\ i + 1 \in 1 .. Len(bufs)
  BY <1>1
<1>3. Head(bufs) \in Listed
  BY <1>1, <1>2 DEF ListOk
<1>4. \A i, j \in 1 .. Len(bufs') : bufs'[i] = bufs'[j] => i = j
  <2> SUFFICES ASSUME NEW i \in 1 .. Len(bufs'), NEW j \in 1 .. Len(bufs'), bufs'[i] = bufs'[j] PROVE i = j
    OBVIOUS
  <2>1. i + 1 = j + 1
    BY <1>2 DEF ListOk
  <2> QED BY <2>1
<1>5. ASSUME NEW c \in Buffers PROVE c \in Listed' <=> \E i \in 1 .. Len(bufs') : bufs'[i] = c
  <2>1. ASSUME NEW i \in 1 .. Len(bufs'), bufs'[i] = c PROVE c \in Listed'
    <3>1. bufs[i + 1] = c /\ i + 1 \in 1 .. Len(bufs) /\ i + 1 # 1
      BY <2>1, <1>2
    <3>2. c # bufs[1]
      BY <3>1, <1>1 DEF ListOk
    <3>3. c \in Listed
      BY <3>1 DEF ListOk
    <3> QED BY <3>2, <3>3, <1>2
  <2>2. ASSUME c \in Listed' PROVE \E i \in 1 .. Len(bufs') : bufs'[i] = c
    <3>1. c \in Listed /\ c # bufs[1]
      BY <2>2, <1>2
    <3>2. PICK i \in 1 .. Len(bufs) : bufs[i] = c
      BY <3>1 DEF ListOk
    <3>3. i - 1 \in 1 .. Len(bufs') /\ (i - 1) + 1 = i
      BY <3>1, <3>2, <1>1, <1>2
    <3> QED BY <3>2, <3>3, <1>2
  <2> QED BY <2>1, <2>2
<1>6. Len(bufs') = Cardinality(Listed')
  <2>1. Listed \subseteq Buffers
    BY DEF Listed
  <2>2. IsFiniteSet(Listed)
    BY <2>1, CopyAssumption, FS_Subset
  <2>3. Cardinality(Listed \ {Head(bufs)}) = Cardinality(Listed) - 1
    BY <2>2, <1>3, FS_RemoveElement
  <2> QED BY <2>3, <1>1, <1>2 DEF ListOk
<1> QED BY <1>2, <1>3, <1>4, <1>5, <1>6


\* The engine writes the next frame.
LEMMA HwKeeps == ASSUME CopyInv, Copy!HwFrame PROVE CopyInv'
<1>0. CopyTypes
  BY DEF CopyInv
<1>1. /\ SizeImage \in Nat \ {0} /\ FrameRoom \in Nat /\ FrameRoom >= SizeImage /\ MaxFrames \in Nat
      /\ rx.head \in Ring /\ rx.tail \in Ring /\ rx.n \in Nat /\ Copy!RxSize \in Nat
  BY <1>0, CopyAssumption, RoomFacts, SizeType DEF CopyTypes
<1>2. PICK m \in Nat : Holds(m) /\ AtWork(m) /\ Gone(m)
  BY DEF CopyInv
<1> DEFINE d == Copy!USED_SIZE(rx.head, rx.tail)
           t == Copy!Wrap(rx.tail + FrameRoom)
<1>3. /\ rx.n < MaxFrames /\ Copy!FREE_SIZE(rx.head, rx.tail) > FrameRoom
      /\ dma' = [i \in Ring |-> IF Copy!USED_SIZE(rx.tail, i) < SizeImage THEN <<rx.n + 1, Copy!USED_SIZE(rx.tail, i)>> ELSE dma[i]]
      /\ rx' = [rx EXCEPT !.tail = t, !.n = rx.n + 1]
      /\ \E ok \in BOOLEAN : good' = [good EXCEPT ![rx.n + 1] = ok]
      /\ UNCHANGED <<stream, vbuf, bufs, rpc, rxp>>
  BY DEF Copy!HwFrame, FrameRoom, Ring
<1>4. /\ d \in Ring /\ d = Dist(m) /\ d + FrameRoom < Copy!RxSize /\ rx.tail = Copy!Wrap(rx.head + d)
  <2>1. d \in Ring /\ Copy!FREE_SIZE(rx.head, rx.tail) = Copy!RxSize - d /\ rx.tail = Copy!Wrap(rx.head + d)
    BY <1>1, RingFacts
  <2>2. d = Dist(m)
    BY <1>2 DEF Holds
  <2> QED BY <2>1, <2>2, <1>1, <1>3 DEF Ring
<1>5. FrameRoom \in Ring /\ d + FrameRoom \in Ring
  BY <1>1, <1>4 DEF Ring
<1>6. t = Copy!Wrap(rx.head + (d + FrameRoom)) /\ t \in Ring /\ Copy!USED_SIZE(rx.head, t) = d + FrameRoom
  <2> HIDE DEF d
  <2>1. Copy!Wrap(Copy!Wrap(rx.head + d) + FrameRoom) = Copy!Wrap(rx.head + (d + FrameRoom))
    BY <1>1, <1>4, <1>5, WrapTwice, Zenon
  <2>2. t = Copy!Wrap(rx.head + (d + FrameRoom))
    BY <2>1, <1>4, Zenon
  <2>3. Copy!Wrap(rx.head + (d + FrameRoom)) \in Ring /\ Copy!USED_SIZE(rx.head, Copy!Wrap(rx.head + (d + FrameRoom))) = d + FrameRoom
    BY <1>1, <1>5, WrapFacts, Zenon
  <2> QED BY <2>2, <2>3, Zenon
<1> HIDE DEF d, t
<1>7. rx'.head = rx.head /\ rx'.tail = t /\ rx'.n = rx.n + 1 /\ rx' \in [head : Ring, tail : Ring, n : 0 .. MaxFrames]
  <2>1. rx.n + 1 \in 0 .. MaxFrames
    BY <1>1, <1>3
  <2> QED BY <2>1, <1>0, <1>3, <1>6 DEF CopyTypes
<1>8. \A i \in Ring : Copy!USED_SIZE(rx.tail, i) \in Nat
  <2>1. \A i \in Ring : Copy!USED_SIZE(rx.tail, i) \in Ring
    BY <1>1, RingFacts
  <2> QED BY <2>1, <1>1 DEF Ring
<1>9. CopyTypes'
  <2>1. dma' \in [Ring -> Nat \X Nat]
    <3>1. ASSUME NEW i \in Ring, NEW u \in Nat
          PROVE  (IF u < SizeImage THEN <<rx.n + 1, u>> ELSE dma[i]) \in Nat \X Nat
      <4>1. dma[i] \in Nat \X Nat
        BY <1>0 DEF CopyTypes
      <4>2. <<rx.n + 1, u>> \in Nat \X Nat
        BY <1>1
      <4> QED BY <4>1, <4>2
    <3> QED BY <3>1, <1>3, <1>8
  <2>2. good' \in [1 .. MaxFrames -> BOOLEAN]
    BY <1>0, <1>3 DEF CopyTypes
  <2> QED BY <2>1, <2>2, <1>0, <1>3, <1>7 DEF CopyTypes
<1>10. ListOk' /\ Copy!CopiedWhole' /\ Delivered'
  <2>1. ListOk /\ Copy!CopiedWhole /\ Delivered
    BY DEF CopyInv
  <2>2. ListOk'
    BY <2>1, <1>3 DEF ListOk, Listed
  <2>3. Copy!CopiedWhole'
    BY <2>1, <1>3 DEF Copy!CopiedWhole
  <2>4. Delivered'
    BY <2>1, <1>3 DEF Delivered
  <2> QED BY <2>2, <2>3, <2>4
<1>11. /\ Dist(m) \in Nat /\ Dist(m + 1) = Dist(m) + FrameRoom
       /\ \A j \in Nat : Dist(j) \in Nat /\ (j < m => Dist(j) + FrameRoom <= Dist(m))
  BY DistFacts
<1>12. ASSUME NEW j \in 0 .. m, NEW k \in 0 .. (SizeImage - 1)
       PROVE  dma'[Copy!Wrap(rx.head + Dist(j) + k)] = <<(rx.n + 1) - (m + 1) + j + 1, k>>
  <2> DEFINE x == Dist(j) + k
             i == Copy!Wrap(rx.head + x)
  <2>1. Dist(j) \in Nat /\ (j < m => Dist(j) + FrameRoom <= d) /\ (j = m => Dist(j) = d)
    BY <1>4, <1>11
  <2>2. x \in Ring /\ (j < m => x < d) /\ (j = m => x >= d /\ x - d = k)
    BY <2>1, <1>1, <1>4 DEF Ring
  <2>3. i \in Ring /\ (x < d => Copy!USED_SIZE(rx.tail, i) = Copy!RxSize - d + x) /\ (x >= d => Copy!USED_SIZE(rx.tail, i) = x - d)
    <3> HIDE DEF x
    <3> QED BY <2>2, <1>1, WrapFacts, FromTail DEF d
  <2>4. rx.head + Dist(j) + k = rx.head + x
    BY <2>1, <1>1 DEF Ring
  <2>5. CASE j < m
    <3>1. Copy!USED_SIZE(rx.tail, i) >= SizeImage
      <4> HIDE DEF i
      <4> QED BY <2>1, <2>2, <2>3, <2>5, <1>1, <1>4 DEF Ring
    <3>2. dma'[i] = dma[i]
      <4> HIDE DEF i
      <4> QED BY <3>1, <2>3, <1>1, <1>3, <1>8
    <3>3. dma[Copy!Wrap(rx.head + Dist(j) + k)] = <<rx.n - m + j + 1, k>>
      BY <2>5, <1>2 DEF Holds
    <3>4. rx.n - m + j + 1 = (rx.n + 1) - (m + 1) + j + 1
      BY <1>1
    <3> QED BY <3>2, <3>3, <3>4, <2>4
  <2>6. CASE j = m
    <3>1. Copy!USED_SIZE(rx.tail, i) = k
      BY <2>2, <2>3, <2>6
    <3>2. dma'[i] = <<rx.n + 1, k>>
      <4> HIDE DEF i
      <4> QED BY <3>1, <2>3, <1>1, <1>3
    <3>3. (rx.n + 1) - (m + 1) + j + 1 = rx.n + 1
      BY <2>6, <1>1
    <3> QED BY <3>2, <3>3, <2>4
  <2> QED BY <2>5, <2>6
<1>13. Holds(m + 1)'
  <2>1. (m + 1) - 1 = m /\ m + 1 <= rx.n + 1
    BY <1>1, <1>2 DEF Holds
  <2>2. Copy!USED_SIZE(rx'.head, rx'.tail) = Dist(m + 1)
    BY <1>4, <1>6, <1>7, <1>11
  <2>3. m + 1 <= rx'.n
    BY <2>1, <1>7
  <2>4. ASSUME NEW j \in 0 .. ((m + 1) - 1), NEW k \in 0 .. (SizeImage - 1)
        PROVE  dma'[Copy!Wrap(rx'.head + Dist(j) + k)] = <<rx'.n - (m + 1) + j + 1, k>>
    <3>1. j \in 0 .. m
      BY <2>1
    <3> QED BY <3>1, <1>7, <1>12
  <2> QED BY <2>2, <2>3, <2>4 DEF Holds
<1>14. AtWork(m + 1)'
  BY <1>2, <1>3, <1>7 DEF AtWork
<1>15. Gone(m + 1)'
  <2>1. rx'.n - (m + 1) = rx.n - m
    BY <1>1, <1>7
  <2> QED BY <2>1, <1>2, <1>3 DEF Gone
<1>16. m + 1 \in Nat
  OBVIOUS
<1> QED BY <1>9, <1>10, <1>13, <1>14, <1>15, <1>16 DEF CopyInv


\* A step that leaves the ring, the tasklet and what was delivered.
LEMMA RingStays ==
    ASSUME NEW m \in Nat, Holds(m), AtWork(m), Gone(m), UNCHANGED <<dma, rx, rpc, rxp>>, vbuf'.out = vbuf.out
    PROVE  Holds(m)' /\ AtWork(m)' /\ Gone(m)'
BY DEF Holds, AtWork, Gone

\* Buffers that stay done keep their frames.
LEMMA WholeStays ==
    ASSUME Copy!CopiedWhole, vbuf'.mem = vbuf.mem, \A c \in Buffers : vbuf'.at[c] = "done" => vbuf.at[c] = "done"
    PROVE  Copy!CopiedWhole'
BY DEF Copy!CopiedWhole

LEMMA DeliveredStays ==
    ASSUME Delivered, vbuf'.out = vbuf.out, rxp'.dropped = rxp.dropped
    PROVE  Delivered'
BY DEF Delivered

\* The process queues a buffer.
LEMMA QueueKeeps == ASSUME CopyInv, NEW b \in Buffers, Copy!zvideo_buffer_queue(b) PROVE CopyInv'
<1>0. CopyTypes /\ ListOk /\ Copy!CopiedWhole /\ Delivered
  BY DEF CopyInv
<1>1. /\ vbuf.at[b] = "user" /\ vbuf' = [vbuf EXCEPT !.at[b] = "list"] /\ bufs' = Append(bufs, b)
      /\ UNCHANGED <<dma, rx, stream, rpc, rxp, good>>
  BY DEF Copy!zvideo_buffer_queue
<1>2. /\ vbuf'.at = [vbuf.at EXCEPT ![b] = "list"] /\ vbuf'.mem = vbuf.mem /\ vbuf'.out = vbuf.out
      /\ vbuf' \in [at : [Buffers -> {"user", "list", "rx", "done"}], mem : [Buffers -> Seq(Nat \X Nat)], out : Seq(Nat)]
  BY <1>0, <1>1 DEF CopyTypes
<1>3. b \notin Listed /\ Listed' = Listed \cup {b}
  <2>1. \A c \in Buffers : vbuf'.at[c] = IF c = b THEN "list" ELSE vbuf.at[c]
    BY <1>0, <1>2 DEF CopyTypes
  <2> QED BY <2>1, <1>1 DEF Listed
<1>4. CopyTypes'
  BY <1>0, <1>1, <1>2, <1>3, Listing DEF CopyTypes
<1>5. ListOk'
  <2>1. rpc' = "copy" => rxp'.buf \in Buffers /\ vbuf'.at[rxp'.buf] = "rx"
    BY <1>0, <1>1, <1>2 DEF ListOk, CopyTypes
  <2> QED BY <2>1, <1>0, <1>1, <1>3, Listing DEF ListOk
<1>6. Copy!CopiedWhole' /\ Delivered'
  <2>1. \A c \in Buffers : vbuf'.at[c] = "done" => vbuf.at[c] = "done"
    BY <1>0, <1>2 DEF CopyTypes
  <2> QED BY <2>1, <1>0, <1>1, <1>2, WholeStays, DeliveredStays
<1>7. \E m \in Nat : Holds(m)' /\ AtWork(m)' /\ Gone(m)'
  BY <1>1, <1>2, RingStays DEF CopyInv
<1> QED BY <1>4, <1>5, <1>6, <1>7 DEF CopyInv

\* The process takes a buffer that is done.
LEMMA DqbufKeeps == ASSUME CopyInv, NEW b \in Buffers, Copy!Dqbuf(b) PROVE CopyInv'
<1>0. CopyTypes /\ ListOk /\ Copy!CopiedWhole /\ Delivered
  BY DEF CopyInv
<1>1. /\ vbuf.at[b] = "done" /\ vbuf' = [vbuf EXCEPT !.at[b] = "user"]
      /\ UNCHANGED <<dma, rx, stream, bufs, rpc, rxp, good>>
  BY DEF Copy!Dqbuf
<1>2. /\ vbuf'.at = [vbuf.at EXCEPT ![b] = "user"] /\ vbuf'.mem = vbuf.mem /\ vbuf'.out = vbuf.out
      /\ vbuf' \in [at : [Buffers -> {"user", "list", "rx", "done"}], mem : [Buffers -> Seq(Nat \X Nat)], out : Seq(Nat)]
  BY <1>0, <1>1 DEF CopyTypes
<1>3. Listed' = Listed
  BY <1>0, <1>1, <1>2 DEF Listed, CopyTypes
<1>4. CopyTypes'
  BY <1>0, <1>1, <1>2 DEF CopyTypes
<1>5. ListOk'
  <2>1. rpc' = "copy" => rxp'.buf \in Buffers /\ vbuf'.at[rxp'.buf] = "rx"
    BY <1>0, <1>1, <1>2 DEF ListOk, CopyTypes
  <2> QED BY <2>1, <1>0, <1>1, <1>3 DEF ListOk
<1>6. Copy!CopiedWhole' /\ Delivered'
  <2>1. \A c \in Buffers : vbuf'.at[c] = "done" => vbuf.at[c] = "done"
    BY <1>0, <1>2 DEF CopyTypes
  <2> QED BY <2>1, <1>0, <1>1, <1>2, WholeStays, DeliveredStays
<1>7. \E m \in Nat : Holds(m)' /\ AtWork(m)' /\ Gone(m)'
  BY <1>1, <1>2, RingStays DEF CopyInv
<1> QED BY <1>4, <1>5, <1>6, <1>7 DEF CopyInv

\* A start or a reset: the ring is empty and begins anew.
LEMMA StartKeeps == ASSUME CopyInv, NEW on, Copy!Start(on) PROVE CopyInv'
<1>0. CopyTypes /\ ListOk /\ Copy!CopiedWhole /\ Delivered
  BY DEF CopyInv
<1>1. /\ rpc = "idle" /\ rx' = [rx EXCEPT !.head = 0, !.tail = 0]
      /\ UNCHANGED <<dma, vbuf, bufs, rpc, rxp, good>>
  BY DEF Copy!Start, Copy!RxStart
<1>2. 0 \in Ring /\ OnPage(0)
  <2>1. 0 \in Ring
    BY SizeType DEF Ring
  <2>2. 0 = 0 * PageSize
    BY CopyAssumption
  <2> QED BY <2>1, <2>2 DEF OnPage
<1>3. /\ rx'.head = 0 /\ rx'.tail = 0 /\ rx'.n = rx.n /\ rx' \in [head : Ring, tail : Ring, n : 0 .. MaxFrames]
      /\ rx.n \in Nat
  <2>1. rx \in [head : Ring, tail : Ring, n : 0 .. MaxFrames]
    BY <1>0 DEF CopyTypes
  <2>2. rx.n \in Nat
    BY <2>1, CopyAssumption
  <2> QED BY <2>1, <2>2, <1>1, <1>2
<1>4. CopyTypes'
  BY <1>0, <1>1, <1>2, <1>3 DEF CopyTypes
<1>5. ListOk' /\ Copy!CopiedWhole' /\ Delivered'
  <2>1. ListOk'
    BY <1>0, <1>1 DEF ListOk, Listed
  <2> QED BY <2>1, <1>0, <1>1, WholeStays, DeliveredStays
<1>6. Holds(0)' /\ AtWork(0)'
  <2>1. Copy!USED_SIZE(0, 0) = 0
    BY <1>2, RingFacts
  <2> QED BY <2>1, <1>1, <1>3, DistFacts DEF Holds, AtWork
<1>7. Gone(0)'
  <2>1. PICK m \in Nat : Gone(m)
    BY DEF CopyInv
  <2>2. \A i \in 1 .. Len(vbuf.out) : vbuf.out[i] \in Nat
    <3>1. vbuf.out \in Seq(Nat)
      BY <1>0 DEF CopyTypes
    <3> QED BY <3>1
  <2>3. \A f \in rxp.dropped : f \in Nat
    BY <1>0 DEF CopyTypes
  <2>4. \A f \in Nat : f <= rx.n - m => f <= rx.n - 0
    BY <1>3
  <2> QED BY <2>1, <2>2, <2>3, <2>4, <1>1, <1>3 DEF Gone
<1> QED BY <1>4, <1>5, <1>6, <1>7 DEF CopyInv

\* A stop: the list is emptied.
LEMMA StopKeeps == ASSUME CopyInv, Copy!zvideo_stop_streaming PROVE CopyInv'
<1>0. CopyTypes /\ ListOk /\ Copy!CopiedWhole /\ Delivered
  BY DEF CopyInv
<1>1. /\ rpc = "idle" /\ bufs' = <<>>
      /\ vbuf' = [vbuf EXCEPT !.at = [b \in Buffers |-> IF vbuf.at[b] = "list" THEN "user" ELSE vbuf.at[b]]]
      /\ UNCHANGED <<dma, rx, rpc, rxp, good>>
  BY DEF Copy!zvideo_stop_streaming
<1>2. /\ vbuf'.at = [b \in Buffers |-> IF vbuf.at[b] = "list" THEN "user" ELSE vbuf.at[b]]
      /\ vbuf'.mem = vbuf.mem /\ vbuf'.out = vbuf.out
      /\ vbuf' \in [at : [Buffers -> {"user", "list", "rx", "done"}], mem : [Buffers -> Seq(Nat \X Nat)], out : Seq(Nat)]
  BY <1>0, <1>1 DEF CopyTypes
<1>3. Listed' = {}
  BY <1>2 DEF Listed
<1>4. CopyTypes'
  <2>1. bufs' \in Seq(Buffers)
    BY <1>1
  <2> QED BY <2>1, <1>0, <1>1, <1>2 DEF CopyTypes
<1>5. ListOk'
  <2>1. Len(bufs') = 0 /\ Cardinality({}) = 0
    BY <1>1, FS_EmptySet
  <2> QED BY <2>1, <1>1, <1>3 DEF ListOk
<1>6. Copy!CopiedWhole' /\ Delivered'
  <2>1. \A c \in Buffers : vbuf'.at[c] = "done" => vbuf.at[c] = "done"
    BY <1>2
  <2> QED BY <2>1, <1>0, <1>1, <1>2, WholeStays, DeliveredStays
<1>7. \E m \in Nat : Holds(m)' /\ AtWork(m)' /\ Gone(m)'
  BY <1>1, <1>2, RingStays DEF CopyInv
<1> QED BY <1>4, <1>5, <1>6, <1>7 DEF CopyInv

\* The tasklet begins: it sees the tail as it is now.
LEMMA BeginKeeps == ASSUME CopyInv, Copy!RxBegin PROVE CopyInv'
<1>0. CopyTypes /\ ListOk /\ Copy!CopiedWhole /\ Delivered
  BY DEF CopyInv
<1>1. /\ rx.head # rx.tail /\ rpc' = "take" /\ rxp' = [rxp EXCEPT !.off = rx.head, !.tail = rx.tail]
      /\ UNCHANGED <<dma, rx, stream, vbuf, bufs, good>>
  BY DEF Copy!RxBegin
<1>2. /\ rx.head \in Ring /\ rx.tail \in Ring
      /\ rxp'.off = rx.head /\ rxp'.tail = rx.tail /\ rxp'.buf = rxp.buf /\ rxp'.dropped = rxp.dropped
      /\ rxp' \in [off : Ring, tail : Ring, buf : Buffers \cup {NoBuffer}, dropped : SUBSET Nat]
  BY <1>0, <1>1 DEF CopyTypes
<1>3. CopyTypes'
  BY <1>0, <1>1, <1>2 DEF CopyTypes
<1>4. ListOk' /\ Copy!CopiedWhole' /\ Delivered'
  <2>1. ListOk'
    BY <1>0, <1>1 DEF ListOk, Listed
  <2> QED BY <2>1, <1>0, <1>1, <1>2, WholeStays, DeliveredStays
<1>5. PICK m \in Nat : Holds(m) /\ AtWork(m) /\ Gone(m)
  BY DEF CopyInv
<1>6. Holds(m)' /\ Gone(m)'
  BY <1>1, <1>2, <1>5 DEF Holds, Gone
<1>7. AtWork(m)'
  <2>1. Dist(m) # 0
    BY <1>1, <1>2, <1>5, RingFacts DEF Holds
  <2>2. m \in 1 .. m
    BY <2>1, DistFacts
  <2> QED BY <2>2, <1>1, <1>2, <1>5 DEF AtWork, Holds
<1> QED BY <1>3, <1>4, <1>6, <1>7 DEF CopyInv

\* It takes the first buffer of the list.
LEMMA TakeKeeps == ASSUME CopyInv, Copy!RxTake PROVE CopyInv'
<1>0. CopyTypes /\ ListOk /\ Copy!CopiedWhole /\ Delivered
  BY DEF CopyInv
<1> DEFINE b == Head(bufs)
<1>1. /\ rpc = "take" /\ bufs # <<>> /\ rxp' = [rxp EXCEPT !.buf = b] /\ vbuf' = [vbuf EXCEPT !.at[b] = "rx"]
      /\ bufs' = Tail(bufs) /\ rpc' = "copy" /\ UNCHANGED <<dma, rx, stream, good>>
  BY DEF Copy!RxTake
<1>2. b \in Buffers
  BY <1>0, <1>1 DEF CopyTypes
<1> HIDE DEF b
<1>3. /\ vbuf'.at = [vbuf.at EXCEPT ![b] = "rx"] /\ vbuf'.mem = vbuf.mem /\ vbuf'.out = vbuf.out
      /\ vbuf' \in [at : [Buffers -> {"user", "list", "rx", "done"}], mem : [Buffers -> Seq(Nat \X Nat)], out : Seq(Nat)]
  BY <1>0, <1>1, <1>2 DEF CopyTypes
<1>4. /\ rxp'.off = rxp.off /\ rxp'.tail = rxp.tail /\ rxp'.buf = b /\ rxp'.dropped = rxp.dropped
      /\ rxp' \in [off : Ring, tail : Ring, buf : Buffers \cup {NoBuffer}, dropped : SUBSET Nat]
  BY <1>0, <1>1, <1>2 DEF CopyTypes
<1>5. Listed' = Listed \ {b}
  BY <1>0, <1>2, <1>3 DEF Listed, CopyTypes
<1>6. CopyTypes'
  BY <1>0, <1>1, <1>3, <1>4, <1>5, Taking DEF CopyTypes, b
<1>7. ListOk'
  <2>1. rxp'.buf \in Buffers /\ vbuf'.at[rxp'.buf] = "rx"
    BY <1>0, <1>2, <1>3, <1>4 DEF CopyTypes
  <2> QED BY <2>1, <1>0, <1>1, <1>5, Taking DEF ListOk, b
<1>8. Copy!CopiedWhole' /\ Delivered'
  <2>1. \A c \in Buffers : vbuf'.at[c] = "done" => vbuf.at[c] = "done"
    BY <1>0, <1>2, <1>3 DEF CopyTypes
  <2> QED BY <2>1, <1>0, <1>3, <1>4, WholeStays, DeliveredStays
<1>9. PICK m \in Nat : Holds(m) /\ AtWork(m) /\ Gone(m)
  BY DEF CopyInv
<1>10. Holds(m)' /\ AtWork(m)' /\ Gone(m)'
  <2>1. Holds(m)'
    BY <1>1, <1>9 DEF Holds
  <2>2. AtWork(m)'
    BY <1>1, <1>4, <1>9 DEF AtWork
  <2>3. Gone(m)'
    BY <1>1, <1>3, <1>4, <1>9 DEF Gone
  <2> QED BY <2>1, <2>2, <2>3
<1> QED BY <1>6, <1>7, <1>8, <1>10 DEF CopyInv

\* It leaves the data in the ring.
LEMMA LeaveKeeps == ASSUME CopyInv, Copy!RxLeave PROVE CopyInv'
<1>1. rpc' = "idle" /\ UNCHANGED <<dma, rx, stream, vbuf, bufs, rxp, good>>
  BY DEF Copy!RxLeave
<1>2. PICK m \in Nat : Holds(m) /\ AtWork(m) /\ Gone(m)
  BY DEF CopyInv
<1>3. Holds(m)' /\ AtWork(m)' /\ Gone(m)'
  BY <1>1, <1>2 DEF Holds, AtWork, Gone
<1>4. CopyTypes' /\ ListOk' /\ Copy!CopiedWhole' /\ Delivered'
  <2>0. CopyTypes /\ ListOk /\ Copy!CopiedWhole /\ Delivered
    BY DEF CopyInv
  <2>1. CopyTypes'
    BY <2>0, <1>1 DEF CopyTypes
  <2>2. ListOk'
    BY <2>0, <1>1 DEF ListOk, Listed
  <2> QED BY <2>0, <2>1, <2>2, <1>1, WholeStays, DeliveredStays
<1> QED BY <1>3, <1>4 DEF CopyInv


\* It discards the frame at the head, for there is neither a buffer nor room.
LEMMA DiscardKeeps == ASSUME CopyInv, Copy!RxDiscard PROVE CopyInv'
<1>0. CopyTypes /\ ListOk /\ Copy!CopiedWhole /\ Delivered
  BY DEF CopyInv
<1> DEFINE f == Copy!FrameAt(rxp.off)
           off == rxp.off + SizeImage
<1>1. /\ rpc = "take" /\ Copy!Advance(off)
      /\ rxp' = [rxp EXCEPT !.off = Copy!NextFrame(off), !.dropped = rxp.dropped \cup {f}]
      /\ UNCHANGED <<stream, vbuf, bufs, good>>
  BY DEF Copy!RxDiscard
<1>2. PICK m \in Nat : Holds(m) /\ AtWork(m) /\ Gone(m)
  BY DEF CopyInv
<1>3. /\ rxp.off = rx.head /\ rx.head \in Ring /\ OnPage(rx.head) /\ rx.n \in Nat
  <2>1. rx.head \in Ring /\ OnPage(rx.head) /\ rx.n \in Nat
    BY <1>0, CopyAssumption DEF CopyTypes
  <2> QED BY <2>1, <1>1, <1>2 DEF AtWork
<1>4. m >= 1 /\ FrameRoom < Copy!RxSize /\ f = rx.n - m + 1
  BY <1>0, <1>1, <1>2, <1>3, HeadFrame
<1>5. m <= rx.n /\ f \in Nat /\ m - 1 \in Nat
  BY <1>2, <1>3, <1>4 DEF Holds
<1>6. Copy!NextFrame(off) = Copy!Wrap(rx.head + FrameRoom) /\ Copy!NextFrame(off) \in Ring
  BY <1>3, <1>4, NextPage
<1> HIDE DEF f, off
<1>7. /\ rxp'.off = Copy!NextFrame(off) /\ rxp'.tail = rxp.tail /\ rxp'.buf = rxp.buf /\ rxp'.dropped = rxp.dropped \cup {f}
      /\ rxp' \in [off : Ring, tail : Ring, buf : Buffers \cup {NoBuffer}, dropped : SUBSET Nat]
  BY <1>0, <1>1, <1>5, <1>6 DEF CopyTypes
<1>8. /\ Holds(m - 1)' /\ AtWork(m - 1)'
      /\ dma' \in [Ring -> Nat \X Nat] /\ rpc' \in {"idle", "take"}
      /\ rx' \in [head : Ring, tail : Ring, n : 0 .. MaxFrames] /\ OnPage(rx'.head) /\ rx'.n = rx.n
  <2>1. rpc # "idle"
    BY <1>1
  <2> QED BY <2>1, <1>0, <1>1, <1>2, <1>6, <1>7, Released
<1>9. CopyTypes'
  <2>1. rpc' \in {"idle", "take", "copy"}
    BY <1>8
  <2> QED BY <2>1, <1>0, <1>1, <1>7, <1>8 DEF CopyTypes
<1>10. ListOk'
  <2>1. rpc' # "copy"
    BY <1>8
  <2> QED BY <2>1, <1>0, <1>1 DEF ListOk, Listed
<1>11. Copy!CopiedWhole'
  BY <1>0, <1>1, WholeStays
<1>12. \A i \in 1 .. Len(vbuf.out) : vbuf.out[i] \in Nat /\ vbuf.out[i] <= rx.n - m
  <2>1. vbuf.out \in Seq(Nat)
    BY <1>0 DEF CopyTypes
  <2> QED BY <2>1, <1>2 DEF Gone
<1>13. Delivered'
  <2>1. \A i \in 1 .. Len(vbuf.out) : vbuf.out[i] # f
    BY <1>3, <1>4, <1>12
  <2> QED BY <2>1, <1>0, <1>1, <1>7 DEF Delivered
<1>14. Gone(m - 1)'
  <2>1. \A i \in Nat : i <= rx.n - m => i <= rx.n - (m - 1)
    BY <1>3
  <2>2. f <= rx.n - (m - 1)
    BY <1>3, <1>4
  <2>3. \A i \in rxp.dropped : i \in Nat /\ i <= rx.n - m
    BY <1>0, <1>2 DEF CopyTypes, Gone
  <2>4. \A i \in 1 .. Len(vbuf'.out) : vbuf'.out[i] <= rx'.n - (m - 1)
    BY <2>1, <1>1, <1>8, <1>12
  <2>5. \A i \in rxp'.dropped : i <= rx'.n - (m - 1)
    BY <2>1, <2>2, <2>3, <1>7, <1>8
  <2> QED BY <2>4, <2>5 DEF Gone
<1> QED BY <1>5, <1>8, <1>9, <1>10, <1>11, <1>13, <1>14 DEF CopyInv

\* It copies the frame at the head, and the frame is good or not.
LEMMA CopyKeeps == ASSUME CopyInv, Copy!RxCopy PROVE CopyInv'
<1>0. CopyTypes /\ ListOk /\ Copy!CopiedWhole /\ Delivered
  BY DEF CopyInv
<1> DEFINE b == rxp.buf
           mem == Copy!Copied(rxp.off, rxp.tail)
           f == Copy!FrameAt(rxp.off)
           ok == f # 0 /\ good[f]
           off == Copy!Wrap(rxp.off + Len(mem))
<1>1. /\ rpc = "copy" /\ Copy!Advance(off)
      /\ rxp' = [rxp EXCEPT !.off = Copy!NextFrame(off), !.buf = NoBuffer]
      /\ vbuf' = [at |-> [vbuf.at EXCEPT ![b] = IF ok THEN "done" ELSE "list"],
                  mem |-> [vbuf.mem EXCEPT ![b] = mem],
                  out |-> IF ok THEN Append(vbuf.out, f) ELSE vbuf.out]
      /\ bufs' = IF ok THEN bufs ELSE Append(bufs, b)
      /\ UNCHANGED <<stream, good>>
  BY DEF Copy!RxCopy
<1>2. PICK m \in Nat : Holds(m) /\ AtWork(m) /\ Gone(m)
  BY DEF CopyInv
<1>3. /\ rxp.off = rx.head /\ rx.head \in Ring /\ OnPage(rx.head) /\ rx.n \in Nat /\ SizeImage \in Nat \ {0}
      /\ b \in Buffers /\ vbuf.at[b] = "rx"
  <2>1. rx.head \in Ring /\ OnPage(rx.head) /\ rx.n \in Nat /\ SizeImage \in Nat \ {0}
    BY <1>0, CopyAssumption DEF CopyTypes
  <2>2. b \in Buffers /\ vbuf.at[b] = "rx"
    BY <1>0, <1>1 DEF ListOk
  <2> QED BY <2>1, <2>2, <1>1, <1>2 DEF AtWork
<1>4. /\ m >= 1 /\ FrameRoom < Copy!RxSize /\ f = rx.n - m + 1
      /\ \E t \in 1 .. m : Copy!USED_SIZE(rx.head, rxp.tail) = Dist(t) /\ Dist(t) >= FrameRoom
      /\ \A k \in 0 .. (SizeImage - 1) : dma[Copy!Wrap(rx.head + k)] = <<f, k>>
  BY <1>0, <1>1, <1>2, <1>3, HeadFrame
<1>5. m <= rx.n /\ f \in Nat /\ m - 1 \in Nat
  BY <1>2, <1>3, <1>4 DEF Holds
<1>6. mem = [k \in 1 .. SizeImage |-> dma[Copy!Wrap(rx.head + k - 1)]]
  <2>1. PICK t \in 1 .. m : Copy!USED_SIZE(rx.head, rxp.tail) = Dist(t) /\ Dist(t) >= FrameRoom
    BY <1>4
  <2>2. Dist(t) \in Nat /\ Dist(t) >= SizeImage
    BY <2>1, <1>3, DistFacts, RoomFacts
  <2>3. (IF Dist(t) < SizeImage THEN Dist(t) ELSE SizeImage) = SizeImage
    BY <2>2, <1>3
  <2> QED BY <2>1, <2>3, <1>3 DEF Copy!Copied
<1>7. \A k \in 1 .. SizeImage : mem[k] = <<f, k - 1>>
  <2> SUFFICES ASSUME NEW k \in 1 .. SizeImage PROVE mem[k] = <<f, k - 1>>
    OBVIOUS
  <2>1. k - 1 \in 0 .. (SizeImage - 1) /\ rx.head + k - 1 = rx.head + (k - 1)
    BY <1>3 DEF Ring
  <2>2. dma[Copy!Wrap(rx.head + (k - 1))] = <<f, k - 1>>
    BY <2>1, <1>4
  <2> QED BY <2>1, <2>2, <1>6
<1> HIDE DEF mem, f
<1>8. mem \in Seq(Nat \X Nat) /\ Len(mem) = SizeImage
  <2>1. \A k \in 1 .. SizeImage : mem[k] \in Nat \X Nat
    BY <1>3, <1>5, <1>7
  <2>2. mem \in [1 .. SizeImage -> Nat \X Nat]
    BY <2>1, <1>6
  <2> QED BY <2>2, <1>3
<1>9. Copy!NextFrame(off) = Copy!Wrap(rx.head + FrameRoom) /\ Copy!NextFrame(off) \in Ring
  BY <1>3, <1>4, <1>8, NextPage
<1> HIDE DEF off
<1>10. /\ rxp'.off = Copy!NextFrame(off) /\ rxp'.tail = rxp.tail /\ rxp'.dropped = rxp.dropped
       /\ rxp' \in [off : Ring, tail : Ring, buf : Buffers \cup {NoBuffer}, dropped : SUBSET Nat]
  BY <1>0, <1>1, <1>9 DEF CopyTypes
<1>11. /\ Holds(m - 1)' /\ AtWork(m - 1)'
       /\ dma' \in [Ring -> Nat \X Nat] /\ rpc' \in {"idle", "take"}
       /\ rx' \in [head : Ring, tail : Ring, n : 0 .. MaxFrames] /\ OnPage(rx'.head) /\ rx'.n = rx.n
  <2>1. rpc # "idle"
    BY <1>1
  <2> QED BY <2>1, <1>0, <1>1, <1>2, <1>9, <1>10, Released
<1>12. /\ vbuf'.at = [vbuf.at EXCEPT ![b] = IF ok THEN "done" ELSE "list"] /\ vbuf'.mem = [vbuf.mem EXCEPT ![b] = mem]
       /\ vbuf'.out = IF ok THEN Append(vbuf.out, f) ELSE vbuf.out
  BY <1>1
<1> HIDE DEF ok
<1>13. ok \in BOOLEAN
  BY DEF ok
<1>14. vbuf' \in [at : [Buffers -> {"user", "list", "rx", "done"}], mem : [Buffers -> Seq(Nat \X Nat)], out : Seq(Nat)]
  <2>1. vbuf'.at \in [Buffers -> {"user", "list", "rx", "done"}]
    BY <1>0, <1>12, <1>13 DEF CopyTypes
  <2>2. vbuf'.mem \in [Buffers -> Seq(Nat \X Nat)]
    BY <1>0, <1>8, <1>12 DEF CopyTypes
  <2>3. vbuf'.out \in Seq(Nat)
    BY <1>0, <1>5, <1>12 DEF CopyTypes
  <2> QED BY <2>1, <2>2, <2>3, <1>1
<1>15. Listed' = (IF ok THEN Listed ELSE Listed \cup {b}) /\ b \notin Listed
  BY <1>0, <1>3, <1>12, <1>13 DEF Listed, CopyTypes
<1>16. bufs' \in Seq(Buffers)
  BY <1>0, <1>1, <1>3, <1>13 DEF CopyTypes
<1>17. CopyTypes'
  <2>1. rpc' \in {"idle", "take", "copy"}
    BY <1>11
  <2> QED BY <2>1, <1>0, <1>1, <1>10, <1>11, <1>14, <1>16 DEF CopyTypes
<1>18. ListOk'
  <2>1. rpc' # "copy"
    BY <1>11
  <2>2. CASE ok
    BY <2>1, <2>2, <1>0, <1>1, <1>15 DEF ListOk
  <2>3. CASE ~ok
    <3>1. bufs' = Append(bufs, b) /\ Listed' = Listed \cup {b} /\ b \notin Listed
      BY <2>3, <1>1, <1>15
    <3> QED BY <3>1, <2>1, <1>0, <1>3, Listing DEF ListOk
  <2> QED BY <2>2, <2>3, <1>13
<1>19. Copy!CopiedWhole'
  <2> SUFFICES ASSUME NEW c \in Buffers, vbuf'.at[c] = "done"
               PROVE  /\ Len(vbuf'.mem[c]) = SizeImage
                      /\ \A k \in 1 .. SizeImage : vbuf'.mem[c][k] = <<vbuf'.mem[c][1][1], k - 1>>
    BY DEF Copy!CopiedWhole
  <2>1. CASE c = b
    <3>1. vbuf'.mem[c] = mem
      BY <2>1, <1>0, <1>3, <1>12 DEF CopyTypes
    <3>2. mem[1] = <<f, 0>>
      BY <1>3, <1>7
    <3>3. mem[1][1] = f
      BY <3>2
    <3> QED BY <3>1, <3>3, <1>7, <1>8
  <2>2. CASE c # b
    <3>1. vbuf'.mem[c] = vbuf.mem[c] /\ vbuf.at[c] = "done"
      BY <2>2, <1>0, <1>3, <1>12 DEF CopyTypes
    <3> QED BY <3>1, <1>0 DEF Copy!CopiedWhole
  <2> QED BY <2>1, <2>2
<1>20. /\ \A i \in 1 .. Len(vbuf.out) : vbuf.out[i] \in Nat /\ vbuf.out[i] <= rx.n - m
       /\ \A i \in rxp.dropped : i \in Nat /\ i <= rx.n - m
       /\ \A i \in Nat : i <= rx.n - m => i < f /\ i <= rx.n - (m - 1)
       /\ f <= rx.n - (m - 1)
  <2>1. \A i \in 1 .. Len(vbuf.out) : vbuf.out[i] \in Nat /\ vbuf.out[i] <= rx.n - m
    <3>1. vbuf.out \in Seq(Nat)
      BY <1>0 DEF CopyTypes
    <3> QED BY <3>1, <1>2 DEF Gone
  <2>2. \A i \in rxp.dropped : i \in Nat /\ i <= rx.n - m
    BY <1>0, <1>2 DEF CopyTypes, Gone
  <2> QED BY <2>1, <2>2, <1>3, <1>4
<1>21. /\ vbuf.out \in Seq(Nat) /\ Len(vbuf.out) \in Nat
       /\ ok => /\ Len(vbuf'.out) = Len(vbuf.out) + 1 /\ vbuf'.out[Len(vbuf.out) + 1] = f
                /\ \A i \in 1 .. Len(vbuf.out) : vbuf'.out[i] = vbuf.out[i]
  <2>1. vbuf.out \in Seq(Nat)
    BY <1>0 DEF CopyTypes
  <2> QED BY <2>1, <1>5, <1>12
<1>22. Delivered' /\ Gone(m - 1)'
  <2>1. CASE ~ok
    <3>1. vbuf'.out = vbuf.out
      BY <2>1, <1>12
    <3>2. Delivered'
      BY <3>1, <1>0, <1>10, DeliveredStays
    <3>3. Gone(m - 1)'
      BY <3>1, <1>10, <1>11, <1>20 DEF Gone
    <3> QED BY <3>2, <3>3
  <2>2. CASE ok
    <3>1. \A i \in 1 .. Len(vbuf'.out) : i \in 1 .. Len(vbuf.out) \/ i = Len(vbuf.out) + 1
      BY <2>2, <1>21
    <3>2. Delivered'
      <4>1. ASSUME NEW i \in 1 .. Len(vbuf'.out), NEW j \in 1 .. Len(vbuf'.out), i < j PROVE vbuf'.out[i] < vbuf'.out[j]
        <5>1. i \in 1 .. Len(vbuf.out)
          BY <4>1, <2>2, <1>21
        <5>2. CASE j \in 1 .. Len(vbuf.out)
          BY <5>1, <5>2, <4>1, <2>2, <1>0, <1>21 DEF Delivered
        <5>3. CASE j = Len(vbuf.out) + 1
          BY <5>1, <5>3, <2>2, <1>20, <1>21
        <5> QED BY <5>2, <5>3, <3>1
      <4>2. ASSUME NEW i \in 1 .. Len(vbuf'.out) PROVE vbuf'.out[i] \notin rxp'.dropped
        <5>1. CASE i \in 1 .. Len(vbuf.out)
          BY <5>1, <2>2, <1>0, <1>10, <1>21 DEF Delivered
        <5>2. CASE i = Len(vbuf.out) + 1
          <6>1. f \notin rxp.dropped
            BY <1>5, <1>20
          <6> QED BY <6>1, <5>2, <2>2, <1>10, <1>21
        <5> QED BY <5>1, <5>2, <3>1
      <4> QED BY <4>1, <4>2 DEF Delivered
    <3>3. Gone(m - 1)'
      <4>1. \A i \in 1 .. Len(vbuf'.out) : vbuf'.out[i] <= rx'.n - (m - 1)
        BY <3>1, <2>2, <1>11, <1>20, <1>21
      <4>2. \A i \in rxp'.dropped : i <= rx'.n - (m - 1)
        BY <1>10, <1>11, <1>20
      <4> QED BY <4>1, <4>2 DEF Gone
    <3> QED BY <3>2, <3>3
  <2> QED BY <2>1, <2>2, <1>13
<1> QED BY <1>5, <1>11, <1>17, <1>18, <1>19, <1>22 DEF CopyInv


\* Every step of engine, process and tasklet keeps the invariant of the copying mode.
LEMMA StepCopy == CopyInv /\ [Copy!Next]_copyVars => CopyInv'
<1> SUFFICES ASSUME CopyInv, [Copy!Next]_copyVars PROVE CopyInv'
  OBVIOUS
<1>1. CASE UNCHANGED copyVars
  <2>0. UNCHANGED <<dma, rx, stream, vbuf, bufs, rpc, rxp, good>>
    BY <1>1 DEF copyVars
  <2>1. CopyTypes' /\ ListOk'
    <3>1. CopyTypes'
      BY <2>0 DEF CopyInv, CopyTypes
    <3>2. ListOk'
      BY <2>0 DEF CopyInv, ListOk, Listed
    <3> QED BY <3>1, <3>2
  <2>2. Copy!CopiedWhole' /\ Delivered'
    BY <2>0, WholeStays, DeliveredStays DEF CopyInv
  <2>3. \E m \in Nat : Holds(m)' /\ AtWork(m)' /\ Gone(m)'
    BY <2>0, RingStays DEF CopyInv
  <2> QED BY <2>1, <2>2, <2>3 DEF CopyInv
<1>2. CASE Copy!zvideo_start_streaming \/ Copy!zvideo_reset
  BY <1>2, StartKeeps DEF Copy!zvideo_start_streaming, Copy!zvideo_reset
<1>3. CASE \E b \in Buffers : Copy!zvideo_buffer_queue(b) \/ Copy!Dqbuf(b)
  BY <1>3, QueueKeeps, DqbufKeeps
<1> QED BY <1>1, <1>2, <1>3, HwKeeps, StopKeeps, BeginKeeps, TakeKeeps, LeaveKeeps, DiscardKeeps, CopyKeeps DEF Copy!Next

\* At the start the ring is empty.
LEMMA InitCopy == Copy!Init => CopyInv
<1> SUFFICES ASSUME Copy!Init PROVE CopyInv
  OBVIOUS
<1>1. /\ dma = [i \in Ring |-> Copy!Nothing] /\ rx = [head |-> 0, tail |-> 0, n |-> 0]
      /\ vbuf = [at |-> [b \in Buffers |-> "user"], mem |-> [b \in Buffers |-> <<>>], out |-> <<>>]
      /\ bufs = <<>> /\ rpc = "idle" /\ rxp = [off |-> 0, tail |-> 0, buf |-> NoBuffer, dropped |-> {}]
      /\ good = [f \in 1 .. MaxFrames |-> TRUE]
  BY DEF Copy!Init, Ring
<1>2. 0 \in Ring /\ OnPage(0) /\ MaxFrames \in Nat
  <2>1. 0 \in Ring
    BY SizeType DEF Ring
  <2>2. 0 = 0 * PageSize /\ MaxFrames \in Nat
    BY CopyAssumption
  <2> QED BY <2>1, <2>2 DEF OnPage
<1>3. CopyTypes
  <2>1. dma \in [Ring -> Nat \X Nat]
    BY <1>1 DEF Copy!Nothing
  <2>2. vbuf \in [at : [Buffers -> {"user", "list", "rx", "done"}], mem : [Buffers -> Seq(Nat \X Nat)], out : Seq(Nat)]
    BY <1>1
  <2>3. rx \in [head : Ring, tail : Ring, n : 0 .. MaxFrames] /\ OnPage(rx.head)
    BY <1>1, <1>2
  <2> QED BY <2>1, <2>2, <2>3, <1>1, <1>2 DEF CopyTypes
<1>4. ListOk
  <2>1. Listed = {}
    BY <1>1 DEF Listed
  <2>2. Len(bufs) = 0 /\ Cardinality({}) = 0
    BY <1>1, FS_EmptySet
  <2> QED BY <2>1, <2>2, <1>1 DEF ListOk
<1>5. Copy!CopiedWhole /\ Delivered
  BY <1>1 DEF Copy!CopiedWhole, Delivered
<1>6. Holds(0) /\ AtWork(0) /\ Gone(0)
  <2>1. Copy!USED_SIZE(0, 0) = 0
    BY <1>2, RingFacts
  <2> QED BY <2>1, <1>1, DistFacts DEF Holds, AtWork, Gone
<1> QED BY <1>3, <1>4, <1>5, <1>6 DEF CopyInv

\* The invariant of the copying mode implies what the run checks of it.
LEMMA InvCopy == CopyInv => Copy!CopySafe
<1> SUFFICES ASSUME CopyInv PROVE Copy!CopySafe
  OBVIOUS
<1>1. CopyTypes /\ ListOk /\ Copy!CopiedWhole /\ Delivered
  BY DEF CopyInv
<1>2. Copy!TypeOK
  BY <1>1 DEF CopyTypes, Copy!TypeOK, Ring
<1>3. Copy!InOrder
  <2>1. Copy!Cardinality(Listed) = Cardinality(Listed)
    BY DEF Copy!Cardinality, Cardinality
  <2>2. Len(bufs) = Copy!Cardinality({b \in Buffers : vbuf.at[b] = "list"})
    BY <2>1, <1>1 DEF ListOk, Listed
  <2> QED BY <2>2, <1>1 DEF Delivered, Copy!InOrder
<1> QED BY <1>1, <1>2, <1>3 DEF Copy!CopySafe
-----------------------------------------------------------------------------
(* The stamps of frames (BasaStamp).                                       *)

\* The same for the remainder.
LEMMA ModUnique ==
    ASSUME NEW x \in Int, NEW d \in Nat \ {0}, NEW q \in Int, NEW r \in 0 .. (d - 1), x = q * d + r
    PROVE  x % d = r
<1>1. x \div d = q
  BY DivUnique
<1>2. x = d * (x \div d) + (x % d) /\ x % d \in 0 .. (d - 1)
  BY DivMod
<1>3. x = d * q + (x % d)
  BY <1>1, <1>2
<1> QED BY <1>2, <1>3

\* A time of whole seconds and a rest.
LEMMA TvOf ==
    ASSUME NEW B \in Int, NEW u \in 0 .. (UsecPerSec - 1)
    PROVE  Stamp!Tv(B * UsecPerSec + u) = [sec |-> B, usec |-> u]
<1>1. UsecPerSec \in Nat \ {0}
  BY StampAssumption
<1>2. B * UsecPerSec + u \in Int
  BY <1>1
<1>3. (B * UsecPerSec + u) \div UsecPerSec = B
  BY <1>1, <1>2, DivUnique
<1>4. (B * UsecPerSec + u) % UsecPerSec = u
  BY <1>1, <1>2, ModUnique
<1> QED BY <1>3, <1>4 DEF Stamp!Tv

\* Every time is one.
LEMMA TvParts ==
    ASSUME NEW x \in Int
    PROVE  \E B \in Int, u \in 0 .. (UsecPerSec - 1) : x = B * UsecPerSec + u
<1>1. UsecPerSec \in Nat \ {0}
  BY StampAssumption
<1>2. x = UsecPerSec * (x \div UsecPerSec) + (x % UsecPerSec) /\ x \div UsecPerSec \in Int /\ x % UsecPerSec \in 0 .. (UsecPerSec - 1)
  BY <1>1, DivMod
<1> QED BY <1>1, <1>2

\* tv_sub and tv_add compute the time, across a second too.
LEMMA SubTime ==
    ASSUME NEW x \in Int, NEW s \in 0 .. UsecPerSec
    PROVE  Stamp!tv_sub(Stamp!Tv(x), s) = Stamp!Tv(x - s)
<1>1. UsecPerSec \in Nat \ {0}
  BY StampAssumption
<1>2. PICK B \in Int, u \in 0 .. (UsecPerSec - 1) : x = B * UsecPerSec + u
  BY TvParts
<1>3. Stamp!Tv(x) = [sec |-> B, usec |-> u]
  BY <1>2, TvOf
<1>4. CASE u < s
  <2>1. u + UsecPerSec - s \in 0 .. (UsecPerSec - 1) /\ x - s = (B - 1) * UsecPerSec + (u + UsecPerSec - s) /\ B - 1 \in Int
    BY <1>1, <1>2, <1>4
  <2>2. Stamp!Tv(x - s) = [sec |-> B - 1, usec |-> u + UsecPerSec - s]
    BY <2>1, TvOf
  <2> QED BY <2>2, <1>3, <1>4 DEF Stamp!tv_sub
<1>5. CASE ~(u < s)
  <2>1. u - s \in 0 .. (UsecPerSec - 1) /\ x - s = B * UsecPerSec + (u - s)
    BY <1>1, <1>2, <1>5
  <2>2. Stamp!Tv(x - s) = [sec |-> B, usec |-> u - s]
    BY <2>1, TvOf
  <2> QED BY <2>2, <1>3, <1>5 DEF Stamp!tv_sub
<1> QED BY <1>4, <1>5

LEMMA AddTime ==
    ASSUME NEW x \in Int, NEW s \in 0 .. UsecPerSec
    PROVE  Stamp!tv_add(Stamp!Tv(x), s) = Stamp!Tv(x + s)
<1>1. UsecPerSec \in Nat \ {0}
  BY StampAssumption
<1>2. PICK B \in Int, u \in 0 .. (UsecPerSec - 1) : x = B * UsecPerSec + u
  BY TvParts
<1>3. Stamp!Tv(x) = [sec |-> B, usec |-> u]
  BY <1>2, TvOf
<1>4. CASE u + s >= UsecPerSec
  <2>1. u + s - UsecPerSec \in 0 .. (UsecPerSec - 1) /\ x + s = (B + 1) * UsecPerSec + (u + s - UsecPerSec) /\ B + 1 \in Int
    BY <1>1, <1>2, <1>4
  <2>2. Stamp!Tv(x + s) = [sec |-> B + 1, usec |-> u + s - UsecPerSec]
    BY <2>1, TvOf
  <2> QED BY <2>2, <1>3, <1>4 DEF Stamp!tv_add
<1>5. CASE ~(u + s >= UsecPerSec)
  <2>1. u + s \in 0 .. (UsecPerSec - 1) /\ x + s = B * UsecPerSec + (u + s)
    BY <1>1, <1>2, <1>5
  <2>2. Stamp!Tv(x + s) = [sec |-> B, usec |-> u + s]
    BY <2>1, TvOf
  <2> QED BY <2>2, <1>3, <1>5 DEF Stamp!tv_add
<1> QED BY <1>4, <1>5

\* The c-th frame interval of second B begins here.
FrameBegin(B, c) == B * UsecPerSec + c * Stamp!frame_interval

TsOk == ts \in [type : StampTypes, delay : TriggerDelays, rate : Rates]

\* A stamp that is late by less than a frame interval is set back to the beginning of its interval.
LEMMA AlignTime ==
    ASSUME TsOk, NEW B \in Int, NEW c \in 0 .. (ts.rate - 1), NEW j \in Jitters
    PROVE  /\ Stamp!Aligned(Stamp!Tv(FrameBegin(B, c) + j)) = Stamp!Tv(FrameBegin(B, c))
           /\ FrameBegin(B, c) \in Int
<1> DEFINE I == Stamp!frame_interval
           r == ts.rate
           u == c * I + j
<1>1. UsecPerSec \in Nat \ {0} /\ r \in Nat \ {0} /\ Margin \in Nat /\ j \in Nat /\ Margin < UsecPerSec \div r /\ j < UsecPerSec \div r
  BY StampAssumption DEF TsOk
<1>2. I \in Int /\ I * r <= UsecPerSec /\ Margin < I /\ j < I
  <2>1. UsecPerSec = r * (UsecPerSec \div r) + (UsecPerSec % r) /\ UsecPerSec \div r \in Int /\ UsecPerSec % r \in 0 .. (r - 1)
    <3>1. UsecPerSec \in Int
      BY <1>1
    <3> HIDE DEF r
    <3> QED BY <3>1, <1>1, DivMod
  <2> QED BY <2>1, <1>1 DEF Stamp!frame_interval
<1>3. I \in Nat \ {0}
  BY <1>1, <1>2
<1>4. Stamp!frame_usec_max = I * r
  BY DEF Stamp!frame_usec_max
<1> HIDE DEF I
<1>5. c * I >= 0 /\ c * I + I <= I * r
  <2>1. c \in Nat /\ r - 1 - c \in Nat
    BY <1>1
  <2>2. c * I >= 0 /\ (r - 1 - c) * I >= 0
    BY <2>1, <1>3
  <2>3. (r - 1 - c) * I = I * r - I - c * I
    BY <2>1, <1>1, <1>3
  <2> QED BY <2>1, <2>2, <2>3, <1>1, <1>3
<1>6. u \in 0 .. (UsecPerSec - 1) /\ c * I \in 0 .. (UsecPerSec - 1) /\ u \in Int
  <2>1. c * I \in Int /\ I * r \in Int
    BY <1>1, <1>3
  <2> QED BY <2>1, <1>1, <1>2, <1>3, <1>5
<1>7. u % I = j
  <2>1. j \in 0 .. (I - 1) /\ c \in Int
    BY <1>1, <1>2, <1>3
  <2> QED BY <2>1, <1>3, <1>6, ModUnique
<1>8. FrameBegin(B, c) = B * UsecPerSec + c * I /\ FrameBegin(B, c) + j = B * UsecPerSec + u
  BY <1>1, <1>3 DEF FrameBegin, I
<1>9. Stamp!Tv(B * UsecPerSec + u) = [sec |-> B, usec |-> u] /\ Stamp!Tv(B * UsecPerSec + c * I) = [sec |-> B, usec |-> c * I]
  BY <1>6, TvOf
<1>10. u - (u % I) = c * I /\ ~(c * I >= I * r - Margin)
  <2>1. c * I \in Int /\ I * r \in Int
    BY <1>1, <1>3
  <2>2. u - j = c * I
    BY <2>1, <1>1
  <2> HIDE DEF u
  <2> QED BY <2>1, <2>2, <1>1, <1>2, <1>3, <1>5, <1>7
<1>11. Stamp!Aligned([sec |-> B, usec |-> u]) = [sec |-> B, usec |-> c * I]
  <2> HIDE DEF u
  <2> QED BY <1>4, <1>10 DEF Stamp!Aligned, I
<1>12. FrameBegin(B, c) \in Int
  BY <1>1, <1>3, <1>8
<1> QED BY <1>8, <1>9, <1>11, <1>12


LEMMA TriggerParts ==
    ASSUME TsOk, NEW n \in Nat
    PROVE  \E B \in Int, c \in 0 .. (ts.rate - 1) : Stamp!TriggerTime(n) = FrameBegin(B, c) + ts.delay
<1> DEFINE k == n + ts.rate - 1
           B == 9 + (k \div ts.rate)
           c == k % ts.rate
<1>1. ts.rate \in Nat \ {0}
  BY StampAssumption DEF TsOk
<1>2. k \in Int
  BY <1>1
<1>3. Stamp!TriggerTime(n) = FrameBegin(B, c) + ts.delay
  BY DEF Stamp!TriggerTime, FrameBegin
<1> HIDE DEF k
<1>4. B \in Int /\ c \in 0 .. (ts.rate - 1)
  <2>1. k \div ts.rate \in Int /\ k % ts.rate \in 0 .. (ts.rate - 1)
    BY <1>1, <1>2, DivMod
  <2> QED BY <2>1
<1> HIDE DEF B, c
<1> QED BY <1>3, <1>4

\* Either way from a stamp back to the trigger, whatever lines and jitter are between.
LEMMA BackToTrigger ==
    ASSUME TsOk, NEW n \in Nat, NEW j \in Jitters, NEW line \in Nat, line + ts.delay <= UsecPerSec
    PROVE  /\ Stamp!TriggerTime(n) \in Int
           /\ Stamp!tv_add(Stamp!Aligned(Stamp!tv_sub(Stamp!Tv(Stamp!TriggerTime(n) + line + j), line + ts.delay)), ts.delay)
                = Stamp!Tv(Stamp!TriggerTime(n))
<1> DEFINE T == Stamp!TriggerTime(n)
<1>1. PICK B \in Int, c \in 0 .. (ts.rate - 1) : T = FrameBegin(B, c) + ts.delay
  BY TriggerParts
<1>2. UsecPerSec \in Nat /\ ts.delay \in Nat /\ j \in Nat
  BY StampAssumption DEF TsOk
<1>3. FrameBegin(B, c) \in Int /\ Stamp!Aligned(Stamp!Tv(FrameBegin(B, c) + j)) = Stamp!Tv(FrameBegin(B, c))
  BY AlignTime
<1> HIDE DEF T
<1>4. T \in Int /\ T + line + j \in Int /\ line + ts.delay \in 0 .. UsecPerSec /\ ts.delay \in 0 .. UsecPerSec
  BY <1>1, <1>2, <1>3
<1>5. Stamp!tv_sub(Stamp!Tv(T + line + j), line + ts.delay) = Stamp!Tv((T + line + j) - (line + ts.delay))
  BY <1>4, SubTime
<1>6. (T + line + j) - (line + ts.delay) = FrameBegin(B, c) + j
  BY <1>1, <1>2, <1>3
<1>7. Stamp!tv_add(Stamp!Tv(FrameBegin(B, c)), ts.delay) = Stamp!Tv(T)
  BY <1>1, <1>3, <1>4, AddTime
<1>8. Stamp!tv_add(Stamp!Aligned(Stamp!tv_sub(Stamp!Tv(T + line + j), line + ts.delay)), ts.delay) = Stamp!Tv(T)
  BY <1>3, <1>5, <1>6, <1>7
<1> QED BY <1>4, <1>8 DEF T

\* The stamp is the trigger's time or that of the middle of the exposure.
LEMMA StampDue ==
    ASSUME TsOk, NEW n \in Nat, NEW jf \in Jitters, NEW jh \in Jitters, NEW exp \in Exposures \cup {0}, NEW corrupted \in BOOLEAN
    PROVE  LET fpga == Stamp!Tv(Stamp!TriggerTime(n) + FirstLine + jf)
               host == Stamp!Tv(Stamp!TriggerTime(n) + LastLine + jh)
               foreign == Stamp!Tv(Stamp!TriggerTime(n) + LastLine + jh + clock)
           IN /\ Stamp!Due(n, exp) \in {Stamp!Zero, Stamp!Stamp(corrupted, fpga, host, exp)}
              /\ ~corrupted => Stamp!Due(n, exp) \in {Stamp!Zero, Stamp!Stamp(corrupted, fpga, foreign, exp)}
<1> DEFINE T == Stamp!TriggerTime(n)
           fpga == Stamp!Tv(T + FirstLine + jf)
           host == Stamp!Tv(T + LastLine + jh)
           foreign == Stamp!Tv(T + LastLine + jh + clock)
           mid == MidLine - (exp \div 2)
<1>1. /\ UsecPerSec \in Nat /\ FirstLine \in Nat /\ LastLine \in Nat
      /\ FirstLine + ts.delay <= UsecPerSec /\ LastLine + ts.delay <= UsecPerSec
  BY StampAssumption DEF TsOk
<1>2. T \in Int /\ Stamp!fpga_to_trigger(fpga) = Stamp!Tv(T) /\ Stamp!host_to_trigger(host) = Stamp!Tv(T)
  BY <1>1, BackToTrigger DEF Stamp!fpga_to_trigger, Stamp!host_to_trigger
<1>3. mid \in 0 .. UsecPerSec
  <2>1. MidLine \in Nat /\ MidLine <= UsecPerSec /\ exp \in Nat /\ exp \div 2 <= MidLine
    BY StampAssumption
  <2>2. exp \div 2 \in Nat
    BY <2>1
  <2> QED BY <2>1, <2>2, <1>1
<1>4. Stamp!tv_add(Stamp!Tv(T), mid) = Stamp!Tv(T + mid)
  BY <1>2, <1>3, AddTime
<1>5. T + mid = T + MidLine - (exp \div 2)
  <2>1. MidLine \in Nat /\ exp \in Nat
    BY StampAssumption
  <2>2. exp \div 2 \in Nat
    BY <2>1
  <2> QED BY <2>1, <2>2, <1>2
<1>6. Stamp!fpga_to_formation(fpga, exp) = Stamp!Tv(T + MidLine - (exp \div 2)) /\ Stamp!host_to_formation(host, exp) = Stamp!Tv(T + MidLine - (exp \div 2))
  BY <1>2, <1>4, <1>5 DEF Stamp!fpga_to_formation, Stamp!host_to_formation
<1> HIDE DEF T, fpga, host, foreign
<1>7. CASE ts.type = "trigger"
  <2>1. Stamp!Due(n, exp) = Stamp!Tv(T)
    BY <1>7 DEF Stamp!Due, T
  <2>2. Stamp!Stamp(corrupted, fpga, host, exp) = Stamp!Tv(T) /\ (~corrupted => Stamp!Stamp(corrupted, fpga, foreign, exp) = Stamp!Tv(T))
    BY <1>2, <1>7 DEF Stamp!Stamp
  <2> QED BY <2>1, <2>2 DEF fpga, host, foreign, T
<1>8. CASE ts.type = "formation" /\ exp # 0
  <2>1. Stamp!Due(n, exp) = Stamp!Tv(T + MidLine - (exp \div 2))
    BY <1>8 DEF Stamp!Due, T
  <2>2. /\ Stamp!Stamp(corrupted, fpga, host, exp) = Stamp!Tv(T + MidLine - (exp \div 2))
        /\ ~corrupted => Stamp!Stamp(corrupted, fpga, foreign, exp) = Stamp!Tv(T + MidLine - (exp \div 2))
    BY <1>6, <1>8 DEF Stamp!Stamp
  <2> QED BY <2>1, <2>2 DEF fpga, host, foreign, T
<1>9. CASE ts.type # "trigger" /\ ~(ts.type = "formation" /\ exp # 0)
  <2>1. Stamp!Due(n, exp) = Stamp!Zero
    BY <1>9 DEF Stamp!Due
  <2> QED BY <2>1
<1> QED BY <1>7, <1>8, <1>9

-----------------------------------------------------------------------------
FrameType ==
    [cnt : Nat, base : Nat, seen : Nat, lost : Nat, waiting : Nat, blind : BOOLEAN, forgot : BOOLEAN,
     corrupt : BOOLEAN, jumped : BOOLEAN]

\* The host's clock is that of the FPGA as long as nobody has set it; a stamp is exact.
StampInv ==
    /\ TsOk /\ clock \in Int
    /\ frame \in FrameType
    /\ last.exp \in Exposures \cup {0}
    /\ last = [meta |-> last.meta, trig |-> last.trig, tv |-> last.tv, exp |-> last.exp]
    /\ ~frame.jumped => clock = 0
    /\ Stamp!StampExact

\* A frame arrives.
LEMMA ReceiveKeeps ==
    ASSUME StampInv, NEW jf \in Jitters, NEW jh \in Jitters, NEW corrupted \in BOOLEAN, NEW header \in BOOLEAN,
           NEW exp \in Exposures, Stamp!Receive(jf, jh, corrupted, header, exp)
    PROVE  StampInv'
<1> DEFINE n == frame.cnt
           T == Stamp!TriggerTime(n)
           fpga == Stamp!Tv(T + FirstLine + jf)
           host == Stamp!Tv(T + LastLine + jh + clock)
           em == IF header THEN Stamp!read_em_data(n, exp) ELSE last
           trig == IF corrupted THEN last.trig + 1 ELSE n + 1
<1>1. /\ frame' = [frame EXCEPT !.cnt = n + 1, !.seen = frame.seen + 1, !.lost = frame.lost + frame.waiting, !.waiting = 0,
                                !.blind = frame.blind \/ ~header, !.corrupt = frame.corrupt \/ corrupted]
      /\ last' = [em EXCEPT !.trig = trig, !.tv = host]
      /\ stamp' = [is |-> Stamp!Stamp(corrupted, fpga, host, em.exp), should |-> Stamp!Due(n, em.exp)]
      /\ UNCHANGED <<ts, clock>>
  BY DEF Stamp!Receive
<1>2. /\ frame \in FrameType
      /\ TsOk /\ clock \in Int /\ last.exp \in Exposures \cup {0} /\ (~frame.jumped => clock = 0)
      /\ last = [meta |-> last.meta, trig |-> last.trig, tv |-> last.tv, exp |-> last.exp]
  BY DEF StampInv
<1>3. n \in Nat
  BY <1>2 DEF FrameType
<1>4. em.exp \in Exposures \cup {0} /\ em = [meta |-> em.meta, trig |-> em.trig, tv |-> em.tv, exp |-> em.exp]
  BY <1>2 DEF Stamp!read_em_data
<1> HIDE DEF em, host, fpga, trig
<1>5. last'.exp \in Exposures \cup {0} /\ last' = [meta |-> last'.meta, trig |-> last'.trig, tv |-> last'.tv, exp |-> last'.exp]
  BY <1>1, <1>4
<1>6. frame'.jumped = frame.jumped /\ frame'.corrupt = (frame.corrupt \/ corrupted)
  BY <1>1, <1>2 DEF FrameType
<1>7. frame' \in FrameType
  <2> DEFINE bl == frame.blind \/ ~header
             co == frame.corrupt \/ corrupted
             cn == n + 1
             se == frame.seen + 1
             lo == frame.lost + frame.waiting
  <2>1. bl \in BOOLEAN /\ co \in BOOLEAN /\ cn \in Nat /\ se \in Nat /\ lo \in Nat
    BY <1>2 DEF FrameType
  <2>2. frame' = [frame EXCEPT !.cnt = cn, !.seen = se, !.lost = lo, !.waiting = 0, !.blind = bl, !.corrupt = co]
    BY <1>1
  <2> HIDE DEF bl, co, cn, se, lo
  <2> QED BY <2>1, <2>2, <1>2 DEF FrameType
<1>8. Stamp!StampExact'
  <2> SUFFICES ASSUME ~(frame'.corrupt /\ frame'.jumped) PROVE stamp'.should \in {Stamp!Zero, stamp'.is}
    BY DEF Stamp!StampExact
  <2>1. CASE ~corrupted
    <3>1. Stamp!Due(n, em.exp) \in {Stamp!Zero, Stamp!Stamp(corrupted, fpga, host, em.exp)}
      BY <2>1, <1>2, <1>3, <1>4, StampDue DEF fpga, host
    <3> QED BY <3>1, <1>1
  <2>2. CASE corrupted
    <3>1. clock = 0
      BY <2>2, <1>2, <1>6
    <3>2. T \in Int
      <4>1. FirstLine \in Nat /\ FirstLine + ts.delay <= UsecPerSec
        BY <1>2, StampAssumption DEF TsOk
      <4> QED BY <4>1, <1>2, <1>3, BackToTrigger
    <3>3. host = Stamp!Tv(T + LastLine + jh)
      <4> HIDE DEF T
      <4>1. LastLine \in Nat /\ jh \in Nat
        BY StampAssumption
      <4>2. T + LastLine + jh + clock = T + LastLine + jh
        BY <3>1, <3>2, <4>1
      <4> QED BY <4>2 DEF host
    <3>4. Stamp!Due(n, em.exp) \in {Stamp!Zero, Stamp!Stamp(corrupted, fpga, host, em.exp)}
      BY <3>3, <1>2, <1>3, <1>4, StampDue DEF fpga
    <3> QED BY <3>4, <1>1
  <2> QED BY <2>1, <2>2
<1>9. TsOk' /\ clock' \in Int /\ (~frame'.jumped => clock' = 0)
  BY <1>1, <1>2, <1>6 DEF TsOk
<1> QED BY <1>5, <1>7, <1>8, <1>9 DEF StampInv

\* The other steps leave the stamp or clear it.
LEMMA StepStamp == StampInv /\ [Stamp!Next]_stampVars => StampInv'
<1> SUFFICES ASSUME StampInv, [Stamp!Next]_stampVars PROVE StampInv'
  OBVIOUS
<1>0. /\ frame \in FrameType
      /\ TsOk /\ clock \in Int /\ last.exp \in Exposures \cup {0} /\ (~frame.jumped => clock = 0)
      /\ last = [meta |-> last.meta, trig |-> last.trig, tv |-> last.tv, exp |-> last.exp]
      /\ ((frame.corrupt /\ frame.jumped) \/ stamp.should \in {Stamp!Zero, stamp.is})
  BY DEF StampInv, Stamp!StampExact
<1>1. CASE \E jf, jh \in Jitters, corrupted, header \in BOOLEAN, exp \in Exposures : Stamp!Receive(jf, jh, corrupted, header, exp)
  BY <1>1, ReceiveKeeps
<1>2. CASE Stamp!Lose
  <2>1. UNCHANGED <<ts, last, clock, stamp>> /\ frame' = [frame EXCEPT !.cnt = frame.cnt + 1, !.waiting = IF frame.seen = 0 THEN 0 ELSE frame.waiting + 1]
    BY <1>2 DEF Stamp!Lose
  <2> DEFINE cn == frame.cnt + 1
             wa == IF frame.seen = 0 THEN 0 ELSE frame.waiting + 1
  <2>2. cn \in Nat /\ wa \in Nat /\ frame' = [frame EXCEPT !.cnt = cn, !.waiting = wa]
    BY <2>1, <1>0 DEF FrameType
  <2> HIDE DEF cn, wa
  <2>3. /\ frame'.jumped = frame.jumped /\ frame'.corrupt = frame.corrupt
        /\ frame' \in FrameType
    BY <2>2, <1>0 DEF FrameType
  <2> QED BY <2>1, <2>3, <1>0 DEF StampInv, Stamp!StampExact, TsOk
<1>3. CASE Stamp!zvideo_cam_reset
  <2>1. UNCHANGED <<ts, clock, stamp>> /\ last' = [last EXCEPT !.meta = Stamp!None] /\ frame' = [frame EXCEPT !.base = frame.cnt, !.forgot = TRUE]
    BY <1>3 DEF Stamp!zvideo_cam_reset
  <2>2. /\ frame'.jumped = frame.jumped /\ frame'.corrupt = frame.corrupt
        /\ frame' \in FrameType
    BY <2>1, <1>0 DEF FrameType
  <2>3. last'.exp = last.exp /\ last' = [meta |-> last'.meta, trig |-> last'.trig, tv |-> last'.tv, exp |-> last'.exp]
    BY <2>1, <1>0
  <2> QED BY <2>1, <2>2, <2>3, <1>0 DEF StampInv, Stamp!StampExact, TsOk
<1>4. CASE Stamp!zvideo_init_params
  <2>1. /\ UNCHANGED <<ts, clock>> /\ last' = [meta |-> Stamp!None, trig |-> 0, tv |-> Stamp!Zero, exp |-> 0]
        /\ stamp' = [is |-> Stamp!Zero, should |-> Stamp!Zero]
        /\ frame' = [frame EXCEPT !.seen = 0, !.lost = 0, !.waiting = 0, !.blind = FALSE, !.forgot = FALSE,
                                  !.corrupt = FALSE, !.jumped = clock # 0]
    BY <1>4 DEF Stamp!zvideo_init_params
  <2>2. /\ frame'.jumped = (clock # 0)
        /\ frame' \in FrameType
    <3> DEFINE ju == clock # 0
    <3>1. ju \in BOOLEAN
      OBVIOUS
    <3>2. frame' = [frame EXCEPT !.seen = 0, !.lost = 0, !.waiting = 0, !.blind = FALSE, !.forgot = FALSE,
                                 !.corrupt = FALSE, !.jumped = ju]
      BY <2>1
    <3> HIDE DEF ju
    <3>3. /\ frame'.jumped = ju
          /\ frame' \in FrameType
      BY <3>1, <3>2, <1>0 DEF FrameType
    <3> QED BY <3>3 DEF ju
  <2>3. last'.exp = 0 /\ last' = [meta |-> last'.meta, trig |-> last'.trig, tv |-> last'.tv, exp |-> last'.exp]
    BY <2>1
  <2>4. stamp'.should = Stamp!Zero
    BY <2>1
  <2>5. Stamp!StampExact'
    BY <2>4 DEF Stamp!StampExact
  <2>6. TsOk'
    BY <2>1, <1>0 DEF TsOk
  <2> QED BY <2>1, <2>2, <2>3, <2>5, <2>6, <1>0 DEF StampInv
<1>5. CASE \E j \in MCJumps : Stamp!SetClock(j)
  <2>1. PICK j \in MCJumps : clock' = j /\ frame' = [frame EXCEPT !.jumped = TRUE] /\ UNCHANGED <<ts, last, stamp>> /\ clock = 0
    BY <1>5 DEF Stamp!SetClock
  <2>2. j \in Int
    BY StampAssumption DEF MCJumps
  <2>3. /\ frame'.jumped = TRUE /\ frame'.corrupt = frame.corrupt
        /\ frame' \in FrameType
    BY <2>1, <1>0 DEF FrameType
  <2>4. Stamp!StampExact'
    BY <2>1, <2>3, <1>0 DEF Stamp!StampExact
  <2>5. TsOk'
    BY <2>1, <1>0 DEF TsOk
  <2> QED BY <2>1, <2>2, <2>3, <2>4, <2>5, <1>0 DEF StampInv
<1>6. CASE UNCHANGED stampVars
  BY <1>6, <1>0 DEF stampVars, StampInv, Stamp!StampExact, TsOk
<1> QED BY <1>1, <1>2, <1>3, <1>4, <1>5, <1>6 DEF Stamp!Next

\* At the start there is no frame and no stamp.
LEMMA InitStamp == Stamp!Init => StampInv
<1> SUFFICES ASSUME Stamp!Init PROVE StampInv
  OBVIOUS
<1>1. /\ TsOk /\ clock = 0 /\ last = [meta |-> Stamp!None, trig |-> 0, tv |-> Stamp!Zero, exp |-> 0]
      /\ frame = [cnt |-> 0, base |-> 0, seen |-> 0, lost |-> 0, waiting |-> 0, blind |-> FALSE, forgot |-> FALSE,
                  corrupt |-> FALSE, jumped |-> FALSE]
      /\ stamp = [is |-> Stamp!Zero, should |-> Stamp!Zero]
  BY DEF Stamp!Init, TsOk
<1>2. stamp.should = Stamp!Zero
  BY <1>1
<1>3. Stamp!StampExact
  BY <1>2 DEF Stamp!StampExact
<1>4. frame \in FrameType
  BY <1>1 DEF FrameType
<1>5. last.exp = 0 /\ last = [meta |-> last.meta, trig |-> last.trig, tv |-> last.tv, exp |-> last.exp]
  BY <1>1
<1> QED BY <1>1, <1>3, <1>4, <1>5 DEF StampInv
-----------------------------------------------------------------------------
(* All parts.                                                              *)

IInv == SysfsInv /\ DeviceInv /\ CamInv /\ FwInv /\ CopyInv /\ StampInv /\ (Serial => GpsInv)

\* Each step of one of the parts keeps the invariants of all.
LEMMA StepInv == IInv /\ [Next]_vars => IInv'
<1> SUFFICES ASSUME IInv, [Next]_vars PROVE IInv'
  OBVIOUS
<1>1. [Device!Next]_deviceVars
  BY DEF Next, vars, deviceVars
<1>2. [Sysfs!Next]_sysfsVars
  BY DEF Next, vars, sysfsVars
<1>3. [Camera!Next]_cameraVars
  BY DEF Next, vars, cameraVars
<1>4. [Firmware!Next]_firmwareVars
  BY DEF Next, vars, firmwareVars
<1>5. [Copy!Next]_copyVars
  BY DEF Next, vars, frameVars, copyVars
<1>6. [Stamp!Next]_stampVars
  BY DEF Next, vars, frameVars, stampVars
<1>7. [Gps!Next]_gpsVars
  BY DEF Next, vars, gpsVars
<1>8. Serial => GpsInv'
  BY <1>7, StepGps DEF IInv
<1> QED BY <1>1, <1>2, <1>3, <1>4, <1>5, <1>6, <1>8, StepDevice, StepSysfs, StepCam, StepFw, StepCopy, StepStamp DEF IInv

\* The inductive invariant of the card and its module, the files, the cameras, the update, the ring and the stamps holds at all times, and that of the time when cards come and go one after the other.
THEOREM Invariance == Spec => []IInv
<1>1. Init => IInv
  BY InitDevice, InitSysfs, InitCam, InitFw, InitCopy, InitStamp, InitGps DEF Init, IInv
<1> QED BY <1>1, StepInv, PTL DEF Spec

\* Whatever fails during a probe, and whatever interrupts come: a card that is not bound holds nothing, one that is bound holds everything, and no tasklet meets a channel or a register space that is not there (basa_main.c, basa_intr.c).
THEOREM DeviceKept == Spec => []DeviceSafe
BY Invariance, InvDevice, PTL DEF IInv

\* However the files of two processes interleave, every access goes to an object and an offset of the card, but for the one show that reads its shared offset again after the test; and nobody is told of more GPS or PPS events than there were (basa_sysfs.c, basa_reg.c).
THEOREM FilesKept == Spec => []SysfsSafe
BY Invariance, InvSysfs, PTL DEF IInv

\* However the calls of any number of processes interleave with each other and with their cameras, whatever access fails or wait times out: the address of the ISP is routed to one camera at a time, the camera of the call that holds zdev_lock, unless a clean-up failed; a call that waits finds its own command and parameters, until some call has gone on under a ringing doorbell; a flash access stays in its area; and caps->pin_swap tells how the pins are, except of a camera for which the value of the module parameter has been noted and is still to be tried (basa_cam_hci.c, basa_i2c.c).
THEOREM CamerasKept == Spec => []CameraSafe
BY Invariance, InvCam, PTL DEF IInv

\* Whatever requests programs make in whatever order, as long as the two steps of an open have let in one program only and the card answers: no message is written to a full FIFO; a program whose upload was granted and whose data was accepted since has a grant that stands and all its messages on the way; a flash is written with the whole image if the documented order was kept; and a completion is that of the flash which was asked for if no wait was given up (basa_fwupdate.c; what is assumed of the ARM OS is told in BasaFirmware).
THEOREM ImageKept == Spec => []FirmwareSafe
BY Invariance, InvFw, PTL DEF IInv

\* Whatever the number and the size of frames and buffers, and wherever the end of the ring cuts a frame: a finished buffer holds one frame, whole; frames reach the process in the order the engine wrote them, each once, and none of those counted as dropped. And for all rates, delays and exposures with which the readout ends within a second: a stamp made from the FPGA's clock, or for a corrupted frame from the host's, is the very time of the trigger or of the middle of the exposure, on both sides of a full second, unless the clock of the host was set and a frame corrupted (basa_video.c).
THEOREM FramesKept == Spec => []FramesSafe
<1>1. IInv => FramesSafe
  BY InvCopy DEF IInv, StampInv, FramesSafe
<1> QED BY <1>1, Invariance, PTL

\* When zynq_probe and zynq_remove run one at a time, there is one zynq_gps_sync_thread at most, the one that zynq_gps_fini stops, and the card it reads the time from is not freed under it (basa_gps.c).
THEOREM SyncKept == ASSUME Serial PROVE Spec => []SyncSafe
<1>1. IInv => SyncSafe
  BY InvGps DEF IInv
<1> QED BY <1>1, Invariance, PTL
=============================================================================
