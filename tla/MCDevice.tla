------------------------------ MODULE MCDevice ------------------------------
(***************************************************************************)
(* A basa card and its cameras for TLC: the life of the card (BasaDevice), *)
(* its debugging files (BasaSysfs), the host interface of its cameras      *)
(* (BasaCamera), the update of its FPGA (BasaFirmware), the triggers of    *)
(* the cameras (BasaTrigger), the stamps of their frames (BasaStamp), the  *)
(* copying of frames (BasaCopy) and the time of the card (BasaGps).  Each  *)
(* behaviour runs one of them.                                             *)
(***************************************************************************)
EXTENDS Integers, FiniteSets, TLC

CONSTANTS Parts, Procs, NoProc,
          Cards, PdtEntries, PtEntries, TxEntries,
          CanCnt, VideoCnt, TxNum, Bar0Max, ChanRegMax, I2cBuses, I2cRegs, IpRegs, MaxNumber, MaxEvents,
          Cams, Retries, ReadLimit, WriteLimit, FlashPage, FlashStart, FlashSize, I2cErrors, MaxErrors,
          FifoSize, ImageLen, TypesAsked, MaxTries,
          TriggerCards, Nodes, CamCnt, FpsMax, FpsDefault, DelayMask, Delays, FpsAsked,
          UsecPerSec, Rates, Margin, FirstLine, MidLine, LastLine, Exposures, TriggerDelays, Jitters, StampTypes, LastFrame,
          Buffers, NoBuffer, MinBuffers, PageSize, Pages, SizeImage, MaxFrames, MaxOps,
          Devs, NoDev, SmoothDevs, Serial, HighFactor, MaxGap, MaxSince, NotSet, MaxThreads

ASSUME SysfsAssumption ==
    /\ {CanCnt, VideoCnt, TxNum, I2cBuses, IpRegs} \subseteq Nat \ {0}
    /\ {Bar0Max, ChanRegMax, MaxNumber, MaxEvents} \subseteq Nat /\ 0 \in I2cRegs /\ I2cRegs \subseteq Nat

\* Pieces of the flash have a length, and nobody is no process.
ASSUME CameraAssumption ==
    /\ NoProc \notin Procs
    /\ {ReadLimit, WriteLimit, FlashPage} \subseteq Nat \ {0} /\ {FlashStart, FlashSize} \subseteq Nat

ASSUME FirmwareAssumption == FifoSize \in Nat /\ ImageLen \in Nat

\* Readout and delay of the trigger together stay within a second, and stamps are late by less than a frame.
ASSUME StampAssumption ==
    /\ UsecPerSec \in Nat \ {0} /\ Rates \subseteq Nat \ {0} /\ {Margin, FirstLine, MidLine, LastLine} \subseteq Nat
    /\ UNION {Exposures, TriggerDelays, Jitters} \subseteq Nat
    /\ \A r \in Rates : Margin < UsecPerSec \div r /\ \A j \in Jitters : j < UsecPerSec \div r
    /\ \A d \in TriggerDelays : FirstLine + d <= UsecPerSec /\ LastLine + d <= UsecPerSec
    /\ MidLine <= UsecPerSec /\ \A e \in Exposures : e \div 2 <= MidLine

ASSUME CopyAssumption == IsFiniteSet(Buffers) /\ {PageSize, Pages, SizeImage} \subseteq Nat \ {0} /\ MaxFrames \in Nat

ASSUME GpsAssumption ==
    /\ NoDev \notin Devs /\ SmoothDevs \subseteq Devs
    /\ {HighFactor, MaxGap, MaxSince, MaxThreads} \subseteq Nat /\ NotSet \notin Int /\ Serial \in BOOLEAN

VARIABLES part,
          par, mod, card, list, unbound,
          sel, call, gpspps, posted, told,
          zdev_lock, camera_call, route, left, hci, swap, pin_swap, errors,
          opened, pc, tx_num, cfg, status, fifo, got, arm, flash, gone, sent, fine, lost, raced, astray, late, tries,
          glob, reg, zvideo, link, trigger_lock, rlock, trigger_call, mixed,
          ts, frame, last, clock, stats, stamp,
          dma, rx, stream, vbuf, bufs, rpc, rxp, good,
          dpc, master, taskp, comp, thr, valid, lastValid, validOnce, inProgress, smoothing, gap, since

\* The host's clock is set forward or back by a little more than a second, or by far.
MCJumps == {UsecPerSec + 6, -(UsecPerSec + 6), 10 * UsecPerSec + 10}

Device == INSTANCE BasaDevice
Sysfs == INSTANCE BasaSysfs
Camera == INSTANCE BasaCamera WITH call <- camera_call
Firmware == INSTANCE BasaFirmware
Trigger == INSTANCE BasaTrigger WITH Cards <- TriggerCards, zdev_lock <- trigger_lock, call <- trigger_call
Stamp == INSTANCE BasaStamp WITH Jumps <- MCJumps
Copy == INSTANCE BasaCopy
Gps == INSTANCE BasaGps

deviceVars == <<par, mod, card, list, unbound>>
sysfsVars == <<sel, call, gpspps, posted, told>>
cameraVars == <<zdev_lock, camera_call, route, left, hci, swap, pin_swap, errors>>
firmwareVars == <<opened, pc, tx_num, cfg, status, fifo, got, arm, flash, gone, sent, fine, lost, raced, astray, late, tries>>
triggerVars == <<glob, reg, zvideo, link, trigger_lock, rlock, trigger_call, mixed>>
stampVars == <<ts, frame, last, clock, stats, stamp>>
copyVars == <<dma, rx, stream, vbuf, bufs, rpc, rxp, good>>
frameVars == <<triggerVars, stampVars, copyVars>>
gpsVars == <<dpc, master, taskp, comp, thr, valid, lastValid, validOnce, inProgress, smoothing, gap, since>>
vars == <<part, deviceVars, sysfsVars, cameraVars, firmwareVars, frameVars, gpsVars>>

NoParams == [fw |-> FALSE, rxdma |-> FALSE, txdma |-> FALSE, zerocopy |-> FALSE]

Init ==
    /\ part \in Parts
    /\ Device!Init /\ (part # "device" => par = NoParams)
    /\ Sysfs!Init
    /\ Camera!Init /\ (part # "camera" => swap = [c \in Cams |-> FALSE])
    /\ Firmware!Init /\ Trigger!Init /\ Copy!Init
    /\ Stamp!Init /\ (part # "stamp" => ts = CHOOSE t \in [type : StampTypes, delay : TriggerDelays, rate : Rates] : TRUE)
    /\ Gps!Init /\ (part # "gps" => valid = [d \in Devs |-> FALSE])

Next ==
    \/ part = "device" /\ Device!Next /\ UNCHANGED <<part, sysfsVars, cameraVars, firmwareVars, frameVars, gpsVars>>
    \/ part = "sysfs" /\ Sysfs!Next /\ UNCHANGED <<part, deviceVars, cameraVars, firmwareVars, frameVars, gpsVars>>
    \/ part = "camera" /\ Camera!Next /\ UNCHANGED <<part, deviceVars, sysfsVars, firmwareVars, frameVars, gpsVars>>
    \/ part = "firmware" /\ Firmware!Next /\ UNCHANGED <<part, deviceVars, sysfsVars, cameraVars, frameVars, gpsVars>>
    \/ part = "trigger" /\ Trigger!Next /\ UNCHANGED <<part, deviceVars, sysfsVars, cameraVars, firmwareVars, stampVars, copyVars, gpsVars>>
    \/ part = "stamp" /\ Stamp!Next /\ UNCHANGED <<part, deviceVars, sysfsVars, cameraVars, firmwareVars, triggerVars, copyVars, gpsVars>>
    \/ part = "copy" /\ Copy!Next /\ UNCHANGED <<part, deviceVars, sysfsVars, cameraVars, firmwareVars, triggerVars, stampVars, gpsVars>>
    \/ part = "gps" /\ Gps!Next /\ UNCHANGED <<part, deviceVars, sysfsVars, cameraVars, firmwareVars, frameVars>>

\* Nothing that is fair can happen in a part that is not run.
Spec == Init /\ [][Next]_vars /\ Device!Fairness

\* Processes are alike, and so are cameras.
Alike == Permutations(Procs) \union Permutations(Cams)

\* A card holds nothing or everything, and no tasklet meets a channel that is not there (BasaDevice).
DeviceSafe == Device!DeviceSafe /\ Device!ListSafe
\* A removal ends (BasaDevice).
RemovalEnds == Device!RemovalEnds
\* The debugging files stay inside the card (BasaSysfs).
SysfsSafe == Sysfs!SysfsSafe
\* Camera calls reach their camera only, a command keeps its parameters, and the pins are as noted but for a forced value that is still to be written (BasaCamera).
CameraSafe == part = "camera" => Camera!CameraSafe
\* No message is lost, a granted upload stands, and of programs that keep the documented order a flash gets the whole image (BasaFirmware).
FirmwareSafe == part = "firmware" => Firmware!FirmwareSafe
\* What the driver remembers is so: of a trigger what the registers say (BasaTrigger), of lost frames how many there were (BasaStamp).
RecordsTrue == (part = "trigger" => Trigger!TriggerSafe) /\ (part = "stamp" => Stamp!TypeOK /\ Stamp!DropsCounted)
\* Stamps are the true times of their frames (BasaStamp); copied frames are whole and in order (BasaCopy).
FramesSafe == (part = "stamp" => Stamp!StampExact) /\ (part = "copy" => Copy!CopySafe)
\* One thread sets the system time, from a card that is there (BasaGps).
SyncSafe == part = "gps" => Gps!SyncSafe
\* ASSERT(zvideo->last_trig_delay == delay->trigger_delay) in zvideo_trigger_delay_get (BasaTrigger).
DelayAssert == Trigger!DelayAssert
=============================================================================
