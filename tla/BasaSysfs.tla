------------------------------ MODULE BasaSysfs ------------------------------
(***************************************************************************)
(* The debugging files of a basa card: the attributes of basa_sysfs.c and  *)
(* the ioctls of /dev/zynq_reg (basa_reg.c).                               *)
(*                                                                         *)
(* An attribute works on the channel, CAN controller, camera or register   *)
(* that an earlier write has selected.  The selections are static          *)
(* variables without a lock: processes that use the files at the same time *)
(* change them between two loads of a call.  A call is therefore two       *)
(* steps, the first of which makes its tests and loads its object, the     *)
(* second of which loads the register number and accesses it.              *)
(*                                                                         *)
(* A number that sscanf() cannot read leaves an uninitialised variable,    *)
(* that is any number.  Offsets are units of a register.                   *)
(***************************************************************************)
EXTENDS Integers, FiniteSets

CONSTANTS
    Procs,        \* processes
    CanCnt,       \* CAN controllers of a card: channels 0 .. CanCnt - 1
    VideoCnt,     \* cameras: the channels after them
    TxNum,        \* zchan_tx_num of a CAN channel in DMA mode
    Bar0Max,      \* the last register of BAR 0
    ChanRegMax,   \* ZYNQ_CHAN_REG_MAX: the last register of a channel
    I2cBuses,     \* ZYNQ_I2C_BUS_NUM
    I2cRegs,      \* the I2C devices and their registers
    IpRegs,       \* registers of a CAN controller in BAR 2 (ZCAN_IP_OFFSET)
    MaxNumber,    \* bound: the largest number that is written to a file
    MaxEvents     \* bound: changes of GPS/PPS that are reported

VARIABLES
    sel,      \* the static selections
    call,     \* the call of each process: [at, obj, off, go (it accesses), race]
    gpspps,   \* zdev_gpspps_event_comp: events not yet waited for
    posted,   \* events reported so far
    told      \* events that a process was told of

vars == <<sel, call, gpspps, posted, told>>

Numbers == 0 .. MaxNumber
ChanCnt == CanCnt + VideoCnt
Bar2Max == CanCnt * IpRegs - 1
Quiet == [at |-> "idle", obj |-> 0, off |-> 0, go |-> FALSE, race |-> FALSE]

At(p, step) == call[p].at = step
Start(p, at, obj) == call' = [call EXCEPT ![p] = [at |-> at, obj |-> obj, off |-> 0, go |-> FALSE, race |-> FALSE]]
Use(p, at, obj, off) == call' = [call EXCEPT ![p] = [at |-> at, obj |-> obj, off |-> off, go |-> TRUE, race |-> FALSE]]
Access(p, off) == ~call[p].go /\ Use(p, call[p].at, call[p].obj, off)
Select(name, v) == sel' = [sel EXCEPT ![name] = v]
events == <<gpspps, posted, told>>

\* The call of a process is over.
Return(p) ==
    /\ call[p].go
    /\ call' = [call EXCEPT ![p] = Quiet]
    /\ UNCHANGED <<sel, events>>
-----------------------------------------------------------------------------
\* The selections.  Each is tested before it is taken.
zynq_sysfs_can_ip_set(v) == v < CanCnt /\ Select("can_ip", v)

\* Mutant: off by one.
zynq_sysfs_chan_set_OffByOne(v) == v <= ChanCnt /\ Select("chan", v)

zynq_sysfs_chan_set(v) == v < ChanCnt /\ Select("chan", v)

zynq_sysfs_cam_set(v) == v < VideoCnt /\ Select("cam", v)
\* The descriptor is tested against the ring of the selected channel, which must have one.
zynq_sysfs_tx_desc_set(v) == sel.chan < CanCnt /\ v < TxNum /\ Select("tx_desc", v)

zynq_sysfs_i2c_bus_set(v) == v < I2cBuses /\ Select("i2c_bus", v)

SetSelection(p, v) ==
    /\ At(p, "idle")
    /\ \/ zynq_sysfs_can_ip_set(v)
       \/ zynq_sysfs_chan_set(v)
       \/ zynq_sysfs_cam_set(v)
       \/ zynq_sysfs_tx_desc_set(v)
       \/ zynq_sysfs_i2c_bus_set(v)
    /\ UNCHANGED <<call, events>>

\* g_reg_value: a store of an offset, with or without a value, and a show.
zynq_sysfs_g_reg_set(p, v) ==
    /\ At(p, "idle") /\ v <= Bar0Max
    /\ Select("g_off", v)
    /\ \/ UNCHANGED call
       \/ Use(p, "g_reg", 0, v)
    /\ UNCHANGED events

zynq_sysfs_g_reg_read(p) ==
    /\ At(p, "idle") /\ Use(p, "g_reg", 0, sel.g_off)
    /\ UNCHANGED <<sel, events>>

\* chan_reg_value.  The channel is loaded first, the offset afterwards.
zynq_sysfs_chan_reg_set(p, v) ==
    /\ At(p, "idle") /\ v <= ChanRegMax
    /\ \/ Select("ch_off", v) /\ UNCHANGED call
       \/ Select("ch_off", v) /\ Use(p, "chan_reg", sel.chan, v)
    /\ UNCHANGED events

zynq_sysfs_chan_reg_read(p) ==
    /\ \/ At(p, "idle") /\ Start(p, "chan_reg", sel.chan)
       \/ At(p, "chan_reg") /\ Access(p, sel.ch_off)
    /\ UNCHANGED <<sel, events>>

\* can_ip_reg_value: a small offset means the selected CAN controller, a larger one BAR 2.
InIp(off) == off <= IpRegs - 1
zynq_sysfs_can_ip_reg_set(p, v) ==
    /\ At(p, "idle") /\ v <= Bar2Max
    /\ Select("can_off", v)
    /\ \/ UNCHANGED call
       \/ Use(p, IF InIp(v) THEN "can_ip_reg" ELSE "bar2", IF InIp(v) THEN sel.can_ip ELSE 0, v)
    /\ UNCHANGED events

\* The offset is tested, then loaded again.
zynq_sysfs_can_ip_reg_read(p) ==
    /\ \/ At(p, "idle") /\ Start(p, IF InIp(sel.can_off) THEN "can_ip_reg" ELSE "bar2", IF InIp(sel.can_off) THEN sel.can_ip ELSE 0)
       \/ /\ At(p, "can_ip_reg") \/ At(p, "bar2")
          /\ ~call[p].go
          /\ call' = [call EXCEPT ![p] = [at |-> call[p].at, obj |-> call[p].obj, off |-> sel.can_off, go |-> TRUE,
                                          race |-> At(p, "can_ip_reg") /\ ~InIp(sel.can_off)]]
    /\ UNCHANGED <<sel, events>>

\* chan_tx_info, chan_rx_info and chan_stats: the channel, and for the transmit ring the descriptor, which may have been tested for another channel.
zynq_sysfs_chan_tx_info_show(p) ==
    /\ \/ At(p, "idle") /\ sel.chan < CanCnt /\ Start(p, "tx_desc", sel.chan)
       \/ At(p, "tx_desc") /\ Access(p, sel.tx_desc)
    /\ UNCHANGED <<sel, events>>

ShowChan(p) ==
    /\ At(p, "idle") /\ Use(p, "chan_reg", sel.chan, 0)
    /\ UNCHANGED <<sel, events>>
zynq_sysfs_chan_rx_info_show(p) == ShowChan(p)
zynq_sysfs_chan_stats_show(p) == ShowChan(p)

\* can_ip_test, can_ip_hi_test, can_test and chan_pio_info: the selected CAN controller.
UseCan(p) ==
    /\ At(p, "idle") /\ Use(p, "can", sel.can_ip, 0)
    /\ UNCHANGED <<sel, events>>
zynq_sysfs_can_ip_test(p) == UseCan(p)
zynq_sysfs_chan_pio_info_show(p) == UseCan(p)

\* cam_reg8, cam_reg16, cam_change_config: the selected camera.
zynq_sysfs_cam_reg(p) ==
    /\ At(p, "idle") /\ Use(p, "cam", sel.cam, 0)
    /\ UNCHANGED <<sel, events>>
\* i2c_reg and i2c_reg16.  A write keeps device and register and takes them back from where it has put them.
zynq_sysfs_i2c_write(p, v) ==
    /\ At(p, "idle") /\ v \in I2cRegs /\ Select("i2c", v)
    /\ UNCHANGED call \/ Start(p, "i2c", 0)
    /\ UNCHANGED events

\* The access: zdev_i2c_validate tests the bus.
zynq_sysfs_i2c_read(p) ==
    /\ \/ At(p, "idle") /\ Use(p, "i2c", sel.i2c_bus, sel.i2c)
       \/ At(p, "i2c") /\ ~call[p].go /\ Use(p, "i2c", sel.i2c_bus, sel.i2c)
    /\ UNCHANGED <<sel, events>>
-----------------------------------------------------------------------------
\* zynq_gps_pps_changed, in the tasklet: complete().
zynq_gps_pps_changed ==
    /\ posted < MaxEvents
    /\ posted' = posted + 1 /\ gpspps' = gpspps + 1
    /\ UNCHANGED <<sel, call, told>>

\* ZYNQ_IOC_REG_GPSPPS_EVENT_WAIT: the wait takes an event or is interrupted ...
EventTake(p) ==
    /\ At(p, "wait")
    /\ \/ gpspps > 0 /\ gpspps' = gpspps - 1 /\ told' = told + 1
       \/ UNCHANGED <<gpspps, told>>
    /\ Start(p, "reinit", 0)
    /\ UNCHANGED <<sel, posted>>

\* ... and reinit_completion() forgets those that came since.
EventReinit(p) ==
    /\ At(p, "reinit")
    /\ gpspps' = 0 /\ call' = [call EXCEPT ![p] = Quiet]
    /\ UNCHANGED <<sel, posted, told>>

EventWait(p) ==
    /\ At(p, "idle") /\ told < MaxEvents /\ Start(p, "wait", 0)
    /\ UNCHANGED <<sel, events>>
-----------------------------------------------------------------------------
Init ==
    /\ sel = [can_ip |-> 0, chan |-> 0, cam |-> 0, tx_desc |-> 0, g_off |-> 0, ch_off |-> 0, can_off |-> 0, i2c |-> 0, i2c_bus |-> 0]
    /\ call = [p \in Procs |-> Quiet]
    /\ gpspps = 0 /\ posted = 0 /\ told = 0

Next ==
    \/ zynq_gps_pps_changed
    \/ \E p \in Procs :
         \/ Return(p) \/ EventWait(p) \/ EventTake(p) \/ EventReinit(p)
         \/ zynq_sysfs_g_reg_read(p) \/ zynq_sysfs_chan_reg_read(p) \/ zynq_sysfs_can_ip_reg_read(p)
         \/ zynq_sysfs_chan_tx_info_show(p) \/ zynq_sysfs_chan_rx_info_show(p) \/ zynq_sysfs_chan_stats_show(p)
         \/ zynq_sysfs_can_ip_test(p) \/ zynq_sysfs_chan_pio_info_show(p) \/ zynq_sysfs_cam_reg(p) \/ zynq_sysfs_i2c_read(p)
         \/ \E v \in Numbers :
              \/ SetSelection(p, v) \/ zynq_sysfs_g_reg_set(p, v) \/ zynq_sysfs_chan_reg_set(p, v) \/ zynq_sysfs_can_ip_reg_set(p, v) \/ zynq_sysfs_i2c_write(p, v)

Spec == Init /\ [][Next]_vars
-----------------------------------------------------------------------------
\* Where an access of a call goes.
InRange(c) ==
    /\ c.at = "g_reg" => c.off <= Bar0Max
    /\ c.at = "chan_reg" => c.obj < ChanCnt /\ c.off <= ChanRegMax
    /\ c.at = "can_ip_reg" => c.obj < CanCnt /\ (InIp(c.off) \/ c.race)
    /\ c.at = "bar2" => c.off <= Bar2Max
    /\ c.at = "tx_desc" => c.obj < CanCnt /\ c.off < TxNum
    /\ c.at = "can" => c.obj < CanCnt
    /\ c.at = "i2c" => c.obj < I2cBuses /\ c.off \in I2cRegs
    /\ c.at = "cam" => c.obj < VideoCnt

\* However the calls of several processes interleave, an attribute accesses a channel, controller, camera, descriptor and register that the card has (the one exception is a show of can_ip_reg_value whose offset changes between its test and its use); and nobody is told of more GPS/PPS events than were reported.
SysfsSafe == (\A p \in Procs : call[p].go => InRange(call[p])) /\ told + gpspps <= posted
=============================================================================
