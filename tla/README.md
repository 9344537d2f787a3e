# TLA+ models of apollo-contrib

`apollo-contrib` holds the drivers and services that third parties contribute
to the Apollo autonomous driving platform: the Linux driver `basa` of the Baidu
sensor FPGA with its user libraries, an OBU (vehicle to road) service, lidar
drivers, the esd CAN driver and a stereo camera demo. The parts share no code
and meet only in Apollo itself. This directory models the parts of them that
are concurrent, stateful or easy to get wrong, checks the models with TLC on
small instances, and proves with TLAPS the safety of the sensor driver, of the
esd driver, of most of the OBU and of the lidar drivers for every size.

- [Inventory](#inventory)
- [Plan](#plan)
- [Modules and the code](#modules-and-the-code)
- [Runs](#runs)
- [Fairness](#fairness)
- [Proofs](#proofs)
- [Findings](#findings)
- [Observations](#observations)
- [Assumptions and limits](#assumptions-and-limits)
- [Not modelled](#not-modelled)

To repeat a run: `tlc -config CanRxPaced.cfg MCBasaCanRx` (module and cfg of
every run are in `PROJECT.json`); to repeat the proofs:
`for m in *Proofs.tla; do tlapm $m; done`.

## Inventory

`PROJECT.json` lists every component with its sources, modules and status, and
the hazards of the code, each at its line with the properties that would catch
it. In short:

### Baidu sensor FPGA: kernel driver `basa` and its libraries

One PCIe card carries CAN controllers, camera channels, a GPS clock and
triggers. `zynq_probe` builds a `zynq_dev_t` with its channels; every channel
has DMA rings, a tasklet and a watchdog thread; a CAN or video object and a
character device or V4L2 device sit on top.

| Component | State | Operations | Hard behaviour | What makes it correct |
|---|---|---|---|---|
| CAN receive (`basa_can.c`) | ring of frames, head, tail, claim `zcan_usr_buf`, completion | tasklet in PIO and DMA mode, `zcan_rx_user`, flush | tail published without the lock, receiver gives up the lock while asleep, full ring | FIFO order, no frame twice or garbled, one receiver, no lost wake-up |
| CAN control and transmit (`basa_can.c`, `bcan_lib.c`) | driver state, core registers, handle flags, Tx FIFO | open, close, start, stop, baud rate, loopback, send, high priority send | three locks in different combinations, flags of the library beside the state of the driver | library, driver and core agree; one owner; no frame after a stop; FIFO not overrun; calls return |
| DMA channel (`basa_chan.c`) | Tx and Rx descriptor rings, error masks with times, watchdog | send one message, retire descriptors, mask and unmask errors, reset | descriptors retired without the sender's lock, completion that is taken for another | ring holds what was accepted; masks are lifted; watchdog ends |
| Interrupts (`basa_main.c`, `basa_intr.c`) | interrupt status, vectors, tasklets | read, process, acknowledge; MSI-X, MSI, shared line | acknowledge after processing, interrupts during probe and removal | no error is left unattended; no tasklet without its channel |
| GPS sync (`basa_gps.c`) | master card, thread, completion, clocks, smoothing | thread rounds, probe, removal, ioctls, PPS change | thread and card end together, two cards share one thread | one thread; never on a freed card; removal returns |
| Video (`basa_video.c`) | buffer lists and counts, DMA table or page ring, positions, faults, stamps | V4L2 queue, start, stop, receive with and without copying, reset, trigger | process, tasklet, watchdog and DMA engine share buffers; time and counts that wrap | the engine owns what it writes; every frame is found, whole and stamped right; drops are counted; stop and reset leave things in order |
| Device life cycle (`basa_main.c`, `basa_driver.c`, sysfs) | devices, irq vectors, cdevs, channels | load, probe with its error paths, remove, unload | what was set up before a failure; unbinding at any time | everything acquired is released once; nothing used before or after |
| Debugging files (`basa_sysfs.c`, `basa_reg.c`) | the selected channel, camera, register | attributes, register and I2C ioctls, event wait | selections are shared without a lock | an access stays inside the card; no event is told twice |
| Camera host interface (`basa_cam_hci.c`, `basa_i2c.c`) | I2C routing, command register, parameter pool, flash | command, parameters, flash read and write, probing of the pins | all cameras share one address; late answers, retries | a call reaches its own camera; a command keeps its parameters |
| Trigger (`basa_trigger.c`, `adv_trigger_ctl.c`) | registers and what the driver remembers of them | enable, disable, delay, for one camera and for all | two locks for the same registers | memory and registers agree |
| Firmware update (`basa_fwupdate.c`) | hand-shake registers, FIFO | open, request, grant, data, update | time-outs against late grants, two programs | no flash is written from an incomplete image |

Calls go from library to ioctl to channel; interrupts go from the FPGA through
the tasklet of the channel to the CAN, video or GPS part; the watchdog calls
the video reset; probe and remove call `init` and `fini` of every part.

### esd CAN driver

Handles with their reads, writes, aborts and closes around a nucleus that is
shipped as an object file and calls back (`esdcan_common.c`); a thread for deferred
procedure calls with timers (`osif.c`); attach and detach of cards (`esdcan.c`,
`esdcan_pci.c`). Hard: waits that only a call-back ends, signals, a close while
other threads are inside, attach errors at every step. Correct when a handle has
one reader and one writer whose job the nucleus really has, when a close returns
and leaves nothing, when no triggered call is forgotten, and when a failed attach
gives back all it took, but for what the code is known to leak.

### OBU service

Two adapters put messages into a data base of bounded tables; a traffic light
thread and a sensor thread take, decode and combine them with the car status
from a bounded queue, and send results over gRPC; a thread keeps the device
authenticated at the platform. Hard: tables read by scenario threads while
adapters write, objects of libraries to be given back on every error path, stop
of a thread that waits, renewal of credentials that expire meanwhile, lights of
the wrong lane.

### Lidars and their cameras

Pandora (pictures assembled from fragments over TCP with a heart beat and
reconnection, receive and process threads with a packet list, calibrations over a
command connection), Velodyne, RoboSense and LeiShen (a polling thread in a
nodelet; packets to scans, sweeps, clouds and files), and the compensation of
the car's motion. Hard: lost packets and fragments, reconnection while a picture
is incomplete, angles, hours and seconds that wrap around, a stop while a thread
waits for a device, poses that come late.

### SmarterEye

A demo over a library that is shipped as binaries.

## Plan

Done, in this order: CAN receive with its abstract specification and proofs, CAN
control, DMA channel, GPS, video; then life cycle and debugging files, camera
host interface, trigger, firmware, stamps and the copying mode; the esd driver;
the OBU; the lidars with their point clouds and motion compensation.

Proved: the invariants of CAN receive, its refinement of `CanRxFifo`, CAN control,
DMA channel, GPS, video, life cycle, debugging files, camera host interface,
firmware update, copying mode and stamps, the esd driver, of the OBU all but
the policy of the traffic light, and of the lidars the pictures, the driver
nodelets and the motion compensation (see [Proofs](#proofs), which also says why
the rest is model-checked only).

## Modules and the code

Each module models one component. Definitions keep the name of the function that
they model; a function that others may interrupt is cut into named steps at the
points where it takes or gives up a lock, writes a variable that others read
without one, or sleeps. The exact lines are in the map of `PROJECT.json`.

The runs `chan`, `gps` and `video` check a component's module as it is. A module
`MC...` gives constants their values for TLC (`MCBasaCanRx`, `MCBasaCanCtl`), or
joins components that share no state in the code (`MCDevice`, `MCEsd`, `MCObu`,
`MCLidar`): a variable `part` selects one of them at the start, and a behaviour
runs that one. One run then covers several components without multiplying their
states. `MCDevice` has all parts of a basa card beside its channels; its runs
take two and six of them (`Parts`).

The properties of such a run are conjunctions: `UnitSafe` of `MCObu`, for
example, is `AuthSafe` of `ObuAuth` and `ThreadsSafe` of `ObuThreads`, which
are in turn made of smaller ones. `PROJECT.json` lists one mutation of the code
for each property of a run; the modules have more of them, so that every
conjunct has a mutation that breaks it (`NextFrame_Packed` for `CopySafe`,
`DestroyEnd_Hasty` for `DpcSafe`, `Unload_NoJoin` for `ThreadOver` ...).

### Sensor driver

**BasaCanRx**, `CanRxFifo`. State: what the controller holds (`arrived`,
`taken`), the ring, the claim of a receiver and its counters, and the local
variables of every `bcan_recv` in progress. The tasklet is `zcan_rx_proc`,
`RxLoop`, `zcan_buf_inc_rx_head` (dropping), `RxWrite`, `RxAdvance` (the tail,
without a lock) and `zcan_usr_rx_complete`. A receiver goes through the library
(first call flushes), the entry of `zcan_rx_user`, one step per frame of
`zcan_copy_to_user`, sleep, and the second lock section. A frame is its number;
a slot also has the layout of its bytes, because `zcan_to_bcan` converts in
place and must not do so twice. `CanRxFifo` is what the user is promised: frames in
order, each at most once, and none lost but in the step that does a flush which a
caller has asked for (`asked`, the `clr` of the receiver's ioctl), one flush to a
request.

**BasaCanCtl**. Every lifecycle call takes the library's check of its flags, the
ioctl with its locks, the change of the core, and the update of the flags as
separate steps; a send takes a lock, a state check, a status check and a write
per frame, and may wait for room until its deadline. The registers of the
controller (`cen`, `msr`, `brpr`) are state of their own next to the
driver's idea of them. `overlap` is a history variable: the library takes no
lock, so two threads in lifecycle calls of one handle may corrupt its flags,
and `ViewsAgree` speaks of handles where that did not happen.

**BasaChan**. Senders fill a descriptor and move the tail in two steps under the
lock; the hardware fetches; the tasklet reads the status, retires descriptors
(read head, clear, publish), reads, masks and clears the errors, and acknowledges
last. The watchdog waits, unmasks what is due and re-arms its completion.
`Fini` is the two halves of `zchan_watchdog_fini` and what follows.

**BasaGps**. The sync thread as loop head, synchronisation, wait and the
re-arming of the wait while a jump is smoothed; probe and removal of cards in
the order of `zynq_gps_init`, `zynq_gps_fini`, `zynq_gps_thread_fini` and
the release of the card; ioctls and the PPS interrupt as single steps. Times
are the two differences the code compares.

**BasaVideo**. The vb2 queue as far as the driver sees it (external code, modelled
from its callbacks), the lists and counts of the driver, the DMA table and the
three positions in it (`head` of the driver, `off` of the tasklet, `tail` of
the engine), `zvideo_rx_proc_zero_copy` in four steps and `zvideo_reset`
with its waits.

**BasaCopy** is the other mode of the same channel: a ring of pages that the
engine fills and the tasklet copies from, byte by byte, so that frames that end
within a page or run over the end of the ring are seen. **BasaStamp** has the
arithmetic of `zvideo_check_meta_data` on seconds and microseconds and the
counting of lost frames, against the moments at which the camera was triggered.

**BasaDevice**. What a card or channel holds is a set of names; a function that
can fail is the set of its outcomes, and an error leaves through the operator
named like the label of the code. Interrupts and tasklets come at any time from
the moment a vector is requested.

**BasaSysfs**. A call of an attribute is two steps, between which other processes
change the static selections. A number that `sscanf` cannot read is any number.

**BasaCamera**. One step is one I2C access; what the cameras do comes between any
two. A call is a program of accesses under `zdev_lock`: routing, command with
its doorbell, answer or retries, and the end of the routing. With the module
parameter `videopinswap` set (`ForceBegin`, `ForcePins`), the value is noted before the lock is
taken and the register is written; `PinsKnown` says that the noted and the real
value agree but for a camera whose forced value is still to be written.

**BasaTrigger**. The ioctls as lists of loads and stores of the registers, under
`zdev_lock` or under `rlock`, and the calls of the library as ioctls of the cards
it could open. `mixed` is a history variable: it notes cameras for which calls of
both kinds have overlapped. For the others `TriggerSafe` (in `RecordsTrue`) holds; for these see
the finding `trigger_delay`.

**BasaFirmware**. The two registers of the hand-shake bit by bit, because the
magic number has the bits of other requests set; two programs, whose `open` is
not atomic (`raced`) and who may make every request at any time, as
`zynq_fw_ioctl` lets them (`astray` notes one out of the order that the comment of the file
gives, `late` a wait that was given up); the test for room and the write of a
message as two steps without a lock; and a card that goes away, after which its
registers read as ones. The ARM OS is not in the repository (`Arm...`, external): see
[Assumptions](#assumptions-and-limits).

### esd driver

**EsdCan**. Everything under `node->lock` is one action. A thread that waits in a
read, a write, an abort, an ioctl or the close has a control state of its own.
The nucleus is external and modelled by its call-backs. **EsdOsif**: the queue
under its lock, the functions, the counter `trig` and the flag `destroy` outside.
**EsdCard**: load with its four error labels, attach with every error label, detach,
unload. What the code never gives back is there too (`Leaks`): the enabled PCI device
(`esdcan_pci.c:288`) and the `lock_irq` of a board layer that failed
(`esdcan.c:1157`); `CardsSafe` says that nothing else is.

### OBU

**ObuData**: tables changed and searched under their mutex, entries copied later
without it, frames and their release, and the queue of the car status with
its two consumers. An entry that is deleted before it is copied gives any
content; `DataSafe` says that the thread is then woken again for a newer one.
**ObuSecurity**: a call is a list of steps that take an object or
fail, and its label `end`. Results of the library are good, bad or an error, and
`Accepts` has the test that the code makes of each; what it uses untested
may end the process (`Crash`). **ObuLight**: the policy as operators on maps, signals
and a car, against `LightRight`, which says what the light ahead is.
**ObuAuth**: the seconds left of token and key, requests, sleeps and the two
threads that use them; an answer may also end the thread, or the process
(`DeviceAuthEnds`). **ObuThreads**: `main`, `OsThread` and the proxy.

### Lidars

**PandoraCamera**, **PandoraCalib**, **PandoraLidar**: the threads of the three
connections of a Pandora, with one caller that starts, stops and sets the start
angle, which is any number of 16 bits. A device without a command client, and
a calibration that the YAML library throws at, are in `PandoraCalib`.
**LidarNodes**: one loop over the calls of four drivers, with their time stamps; a
file may not open, the first time or when it is begun again.
**LidarSweep** (LeiShen), **RslidarCloud**, **VelodyneCloud**: firings to sweeps and
clouds, and the export of clouds with their poses, under each of the exporter's
parameters. In `LidarSweep` any number of packets up to `MaxLost` is lost in a row, more
than a turn of them; `SweepWhole` exempts the sweeps in which half a turn or more was. **LidarCompensator**: three
copies of one file; the plane is that of the Eisenstein integers, in which rotations
by 60 degrees, the interpolation between two headings and all products are exact,
so that a corrected cloud can be compared with what one look would have seen.

## Runs

Passing runs:

| Run | Instance | Shows |
|---|---|---|
| `can_rx_paced` | 2 threads on one handle, ring of 3, requests of up to 2, PIO, 3 frames, the ring is not overrun | the path implements `CanRxFifo`, so that frames are lost only in a flush that was asked for; frames arrive converted exactly once (`DeliveredIntact`); calls progress, and a sleeper whose frames are there is woken without its timeout (`ReceiversProgress`) |
| `can_rx_overload` | the same in DMA mode, ring may overflow, user copies fail, the card is lost, one re-open | the claim is exclusive and no wake-up is lost |
| `can_ctl` | 2 threads of one process and 1 of another, FIFO of 1, sends of up to 2 frames, 5 lifecycle calls | library, driver and core agree and the device has one owner (`ViewsAgree`), FIFO not overrun, no frame after a stop, all calls return |
| `chan` | 2 senders, 3 descriptors, 4 messages, one maskable error and the link change, throttle time of 1 tick | ring intact and free descriptors cleared (`RingSafe`), masks accounted for and lifted, errors handled, watchdog stops |
| `gps` | 2 cards, one with smoothing, 2 threads created one after the other, gap and time since sync of at most 1 | removal returns, smoothing ends; `SyncSafe` is checked with the parts of the card in `camera` |
| `video` | 3 buffers, 2 bad frames to a fault, 1 wait of a reset | engine owns what it writes and frames are found (`DmaSafe`), stop and reset leave things in order, no deadlock |
| `device` | 1 card with 2 channels, every choice of the module parameters, page tables of 2 entries; 2 processes on the debugging files | probe and removal leave everything or nothing (`DeviceSafe`), removal ends, accesses stay inside the card (`SysfsSafe`) |
| `camera` | 2 processes and 2 cameras, 1 I2C error, 2 retries; 1 card with 1 triggered camera and 2 programs; a FIFO of 1 and an image of 2, 3 requests for an upload or an update of one of 2 flashes and any for data; a second of 25 units with 3 or 5 frames, 4 kinds of stamps; 2 buffers, frames of 3 bytes in 7 pages of 2, 4 frames; 2 GPS cards, 2 threads | routes and commands of cameras are not mixed up (`CameraSafe`), no message to a full FIFO, data that was accepted after a grant is on its way, and no flash before the whole image in the documented order (`FirmwareSafe`), driver and registers agree on a trigger and losses are counted (`RecordsTrue`), stamps are the true times and copied frames are whole and in order (`FramesSafe`), one GPS thread, never on a freed card (`SyncSafe`) |
| `esd` | 3 threads on a handle, a transmit queue of 2, 2 ids; 2 DPCs; 2 cards of 2 nodes | `HandleSafe`, `CardsSafe` (with `DpcSafe`), a close and an interrupted call return, a triggered DPC runs |
| `obu` | 3 messages for tables of 2 entries; every failure of the libraries; 79 maps of one or two intersections, 5 signal messages; credentials of 6 ticks renewed 4 before their end; 1 sender and 1 call | `MessagesSafe`, `LightRight`, `UnitSafe`, `AuthRecovers` |
| `lidar` | 1 camera with pictures of 2 and 3 fragments and 2 starts; rounds of 6 packets of 2 blocks from 2 start angles, and angles set to 0, half a turn and the largest number of 16 bits; 4 drivers over an hour of 4 and a second of 2 ticks; sweeps of 14 firings in packets of 4, up to 4 of them lost in a row; scans of 2 packets, the exporter with all parameters, calibrations of 4 lasers; clouds of 2 points, poses remembered for 2 ticks | pictures and scans are whole and have their time, corrected clouds stand where one look would see them (`CapturesWhole`); rounds, sweeps, clouds and files hold what belongs to them (`CloudsSafe`); `StopReturns` |

The bounds are the smallest at which the cases of interest happen.

- A ring of 3 holds 2 frames and wraps within 3; requests of 2 make a partial
  copy, then sleep, then a completion; two threads are enough for a claim, a
  refused second call and a lock that changes hands while the first sleeps.
- A FIFO of 1 and sends of 2 make a send wait; 5 lifecycle calls reach open, set,
  start, and two that collide with sends or with the other process.
- 4 messages wrap the ring of 3 descriptors, and one error with the link change
  has masked and unmaskable bits pending together.
- With 2 GPS cards the second can be probed while, before or after the first
  goes, and the gap is below, at and above the high mark.
- 3 buffers give one with the process, one with the tasklet and one with the
  engine; 2 bad frames of `ErrThresh` distinguish discard from fault.
- Frames of 3 bytes take 2 pages, the second of them half used; 7 pages are no
  multiple of 2, so that a frame runs over the end of the ring.
- A second of 25 units is no multiple of 3 frames, as 1000000 is not; stamps of
  the last frame of a second fall into the next one; clocks are set forward
  and back by more than a second.
- 3 requests of the firmware are an upload that times out, the update that takes its request
  away, and an upload after it. Programs ask for 2 of the 3 flashes (`TypesAsked`), one that the magic
  number names and one that it does not.
- Page tables of 2 entries fail at the first, at a later one and not at all.
- Cards and cameras behind one address are two, so that one can be mistaken for the
  other; an I2C error at any access has the attempts after it.
- A transmit queue of 2 lets a write wait behind another; the third thread
  closes or aborts meanwhile.
- Tables of 2 are full with the third message. The maps have lanes before and
  behind, without points and unreadable; the signals have phases of any order.
- 1, 2, 3 and 4 packets of 4 firings lost in a row are less than half a turn of 14, more
  than half, almost a turn and more than one.
- Turns that are no multiple of a packet, and azimuths through 0, occur in each
  decoder; time runs over the hour and over the second.

All counters with a bound (`MaxMsgs`, `MaxOpens`, `MaxCalls`, `MaxThreads`,
`MaxGap`, `MaxSince`, `MaxFails`, `MaxErrors`, `MaxTries`, `MaxFrames`, `MaxOps`,
`MaxEvents`, `MaxTrig`, `MaxStarts`, `MaxScans`, `MaxTime`, `MaxPose`, `MaxMessages`,
`MaxLost`, `MaxSweep`, `LastFrame`) appear in guards of the environment or of new calls, never in a step of
a call that has begun. Where the code has a queue without a limit, `MaxQueue`,
`MaxPics`, `MaxPackets` and `MaxWait` hold back what would enter it.

Deadlock is checked in `video`. In the other runs the system may rightly stop:
the frames, messages or calls are used up, or the channel was torn down.

The run `trigger_delay` is expected to find a violation, see
[Findings](#findings).

## Fairness

- `BasaCanRx`: strong fairness of the tasklet and of each receiver inside its
  call. Scheduled softirqs run and threads are scheduled; strong, because
  the spinlock is queued and serves a waiter even if it is taken again and again.
  Time-outs, signals, frames and new calls are not fair, so that
  `ReceiversProgress` holds without them.
- `BasaCanCtl`: strong fairness of each thread's steps for the same reason, weak
  fairness of the deadline of a send. The bus need not ever accept a frame.
- `BasaChan`: weak fairness of tasklet, time, watchdog thread and of a tear-down
  that has begun. Senders and hardware owe nothing.
- `BasaGps`: weak fairness of the thread (its waits have time-outs) and of a
  probe or removal that has begun.
- `BasaVideo`: weak fairness of the tasklet and of a stream-off that has begun;
  neither frames nor the watchdog are counted on.
- `BasaDevice`: weak fairness of a probe or removal that has begun and of
  scheduled tasklets. Interrupts may come for ever.
- `EsdCan`: weak fairness of each thread's own steps and of the call-backs of the
  nucleus for jobs it was asked to abort or to close. `EsdOsif`: of the thread and
  of the wake-up that a trigger has begun.
- `ObuAuth`: weak fairness of the thread and of time. `AuthRecovers` assumes that
  requests fail only finitely often and that no answer has ended the thread, which
  counts as a failure for good; it then says that the device has a valid token and a
  valid key again and again, not only once.
- `PandoraCamera`, `PandoraCalib`, `PandoraLidar`, `LidarNodes`: weak fairness of
  threads and of a stop that has begun. A device owes nothing; where a wait for it
  has no timeout, the property says so (`silent`).

The run of several parts states the fairness of each for that part alone: in the
others the fair actions are never enabled.

## Proofs

Eight modules hold proofs: `BasaCanRxProofs`, `BasaCanCtlProofs`,
`BasaChanProofs`, `BasaVideoProofs`, `DeviceProofs`, `EsdProofs`, `ObuProofs`
and `LidarProofs`. Each proves `Invariance`, that an inductive invariant holds in every
reachable state, and draws the properties of the runs from it. TLC checked each
of these invariants first, on the instances of the runs or larger ones. The proof of a step is
split by conjunct, and each by the actions that can disturb it.

| Theorem | States | For every |
|---|---|---|
| `TypeCorrect`, `OneReceiver`, `WakeupKept` | `TypeOK`, `ExclusiveReceiver`, `NoLostWakeup` of `BasaCanRx` | ring above 1, request size, set of threads; PIO and DMA, paced or not, with or without copy faults and loss of the card |
| `IntactKept`, `RefinesFifo` | `DeliveredIntact`, `ImplementsFifo` of `BasaCanRx` | the same, under `Quiet` |
| `ViewsKept`, `NoOverrun`, `StopIsFinal` | `ViewsAgree`, `FifoNotOverrun`, `NoTxAfterStop` of `BasaCanCtl` | set of threads and processes, set of rates, FIFO, size of a send, number of calls |
| `RingKept`, `MasksKept` | `RingSafe`, `MaskAccounted` of `BasaChan` | ring above 1, set of senders and of errors, throttle time, either tasklet |
| `DmaKept`, `CameraKept`, `ResetKept` | `DmaSafe`, `CameraNotLeftOff`, `ResetOwnsAll` of `BasaVideo` | number of buffers, error threshold, number of retries, under `AllQueued` |
| `DeviceKept` | `DeviceSafe` of `MCDevice` | set of cards, size of page tables and rings, module parameters |
| `FilesKept` | `SysfsSafe` of `MCDevice` | set of processes, numbers of channels, cameras, buses and descriptors, sizes of the register spaces, range of numbers and of events |
| `CamerasKept` | `CameraSafe` of `MCDevice` | set of processes and cameras, limits of an access, page, flash area, number of retries, I2C errors |
| `ImageKept` | `FirmwareSafe` of `MCDevice` | set of programs, FIFO, length of the image |
| `FramesKept` | `FramesSafe` of `MCDevice` | set of buffers, page, frame and ring size, number of frames; rates, readout times, exposures, trigger delays and jitter, under `StampAssumption` |
| `SyncKept` | `SyncSafe` of `MCDevice` | set of cards and threads, clocks, under `Serial` |
| `HandleKept`, `CardsKept` | `HandleSafe`, `CardsSafe` of `MCEsd` | set of threads, DPCs and cards, nodes per card, queues and identifiers |
| `MessagesKept`, `UnitKept` | `MessagesSafe`, `UnitSafe` of `MCObu` | set of messages, table size, number of calls, life of credentials, under `ObuAssumption` |
| `CapturesKept` | `CapturesWhole` of `MCLidar` | set of cameras, sizes of pictures, packets of a scan, length of an hour, a second and a file, number of starts; velocity, heading, turn rate under `MotionAssumption`, landmarks, layouts of clouds, queue, memory of tf |

The named assumptions on constants (`RingAssumption`, `SizeAssumption`,
`BufAssumption`, `CardAssumption` ...) say that sizes are positive numbers, that the model value for
"none" is none of the things it stands beside, and that buffers and cards are
finitely many. TLC evaluates them in the runs. Three say more:

- `StampAssumption`: readout and trigger delay together take at most a second,
  which is what `tv_sub` and `tv_add` are written for (`basa_video.c:309`); a stamp
  is late by less than a frame interval; and half of an exposure is no longer than
  the readout to the middle line. The registers allow longer delays and exposures;
  the stamp is then wrong (see [Observations](#observations)).
- `ObuAssumption`: a request takes at least 3 ticks less than
  `VALID_TIME_INTERVAL`, which is 30 seconds (`auth_manager.h:355`), and
  credentials live at least that long. The model counts it in ticks of which the
  thread may round two away.
- `MotionAssumption`: places are integer in the plane of the model, headings
  multiples of 60 degrees, and within one scan the car turns by less than half a
  turn (a half turn one way is allowed): of a larger turn `slerp` would take
  the short way round, which the car did not.

Three results have a hypothesis on the environment, the one under which
the property is promised; it is a constant of the module that the runs set as well:

- `Quiet` (`Paced /\ ~CopyFaults /\ ~Surprise`): the bus does not outrun the
  receivers, `copy_to_user` succeeds and the card is there. Without the first
  the driver drops frames on purpose; without the others it loses them or
  converts them twice (see [Observations](#observations)).
- `Serial`: cards are probed and removed one after the other, as on one PCI bus;
  `UnloadEndsThread` under [Findings](#findings) shows how little the thread
  has to rely on.
- `AllQueued`: a stream starts with all its buffers queued; `BoundToOffset` shows
  that `DmaSafe` cannot be had otherwise.

**Receiving.** `IInv == TypeOK /\ RunCounted /\ ExclusiveReceiver /\ SleeperWants
/\ NoLostWakeup`. `NoLostWakeup` is not inductive alone. That the counters the
tasklet compares with are those of the sleeper needs `ExclusiveReceiver`; that an
emptied ring never counts as enough for a sleeper needs `SleeperWants` (one that
sleeps for frames has some left to want). Type correctness in DMA mode needs
`RunCounted`: the tasklet copies a frame, and counts it off, only while frames of
its run are left.

**Receiving in order.** `FifoInv` adds to it that the tasklet fetches only frames
that arrived and never finds the ring full (`Fetching`), that what has to be held
fits in the ring (`Fits`), and that the slots from the front, the position of the
receiver at work or else the head, to the tail hold the newest frames in the order
of their arrival and in the layout of the hardware (`InOrder`). A slot is named by its
distance from the tail, so that a tail or a head that moves changes all
distances by one (`TailMoves`, `FrontMoves`). The abstract queue of the refinement
mapping is a run of consecutive numbers; each step appends to the run, takes
from its front, or leaves it, and only the step that takes down a receiver's request
for a flush shortens it otherwise (`StepRefines`).

**Control.** The invariant says which call a thread is in and which of the three
locks it holds at each control point (`Control`, `Locks`); that the registers of
the core agree with the driver's state whenever `zcan_pio_lock` is free, and what was
saved is what they were while it is held (`Core`); that a thread which opens or
closes is alone with its handle (`Handles`, `OneOwner`, `Configured`); how far flags
and driver may differ while one lifecycle call goes on (`Tracked`); that room
found under a lock is still there (`Room`); and that while a sender has the FIFO's
lock the channel is started or about to be again (`Started`). Without `Core` the
restart at the end of a mode change could not be known to restore what there
was; `StopIsFinal`, an action property, is `Started` and the locks.

**Channel.** The ring of descriptors is shared without a common lock. The
invariant orders the positions in it by their distance from the head: the head the
tasklet has read, the hardware's, the tail, and behind it room for a sender at work
(`Ordered`); it says that a filled descriptor holds the next message
(`FilledNext`), and that everything from the tail on, and everything the tasklet
is about to publish, is cleared (`Cleared`). `FreeIsCleared` alone speaks only of the
descriptor that a sender looks at. `MaskAccounted` is inductive with the types.

**GPS.** `Served`: while a thread runs there is a bound master, or a card whose
removal waits for the thread; `Held`: a thread that has a card is at work, and the
card is the master or waits for it; `Stages` and `OneAtATime`: where the master and
other cards are in their probe or removal.

**Video.** `Bound`: the DMA table and the offsets of the buffers are inverse to
each other; `Layout`: from the head on, the table has the places that are lent, then
the frames that the tasklet has not come to, then what the engine may fill, and a
buffer is on the driver's list exactly if its place is in the second or third
part. `Phases` says what lists and counts are when no stream runs, which
the assertions of start and stop rely on. That all of `N` different places
are taken by `N` buffers is a counting argument by least counterexample
(`LeastNumber`).

**Life cycle.** The parts of `MCDevice` share no state; the invariant is `SysfsInv
/\ DeviceInv /\ CamInv /\ FwInv /\ CopyInv /\ StampInv /\ GpsInv` (the last
under `Serial`). For a card, `CardOk` says what it has at each stage of
its probe and removal: its resources (`ResOk`), where a stage that both use goes
on (`BackOk`), that the first `n` channels are whole and the others empty
(`ChansOk`), and which vectors and tasklets there are (`VectorsOk`). `DeviceSafe`
speaks of the tasklets only while they are scheduled or run; that they find whole
channels follows because tasklets exist only between the setting up of the last
channel and the ending of the first. `ModuleOk` adds what all cards have in
common while the module is loaded or unloaded, and that a listed card has its driver data
or was unbound. Before the steps come lemmas about the functions that can fail:
whichever allocation of a table or ring fails, what is left is what there was
(`RxFailed`, `TxFailed`), and so on up to the channel (`ChanInit`, `ChanFini`).
A step of a thread gives its card a new value that is in order (`Moves`), an
interrupt, a tasklet or the watchdog leaves the card at its stage (`Stays`), and
`MovesKeep` and `StaysKeep` conclude for the module.

**Debugging files.** `SysfsInv` bounds the shared selections and says that the
object a call has loaded is one of the card before it is used: the selections may
change in between, what was loaded does not.

**Cameras.** `LockOk`: a call holds `zdev_lock` exactly between its first access
and its end, but for the wait with swapped pins. `RouteOk`: which registers may
still hold the common address between the two writes that clear a route;
`CameraSafe` says only that one camera has it. `BellOk`: a doorbell rings for the
holder of the lock, which waits or gives up, unless some call has gone on under it
before (`late`). From this follows `WrittenOk`, that a call which waits finds its own
command and parameters. `PinsOk`: noted and real swap agree at every step, not only
when the lock is free, but for a camera with a call that forces one. The flash position stays in its area because position and
rest add up to the end of it (`CamCallOk`).

**Firmware.** `FwInv`: unless two opens have raced or the card is gone, one program at
a time has the device; the bits of the two registers are those of its own request,
room that it found is still there when it writes, and once its upload was granted
and as long as its data is accepted, the messages received and in the FIFO are those it
has sent, whatever was asked for or half sent before (`FwHolderOk`). That the whole
image is there when a flash is asked for in the documented order is carried over to
the ARM OS, which acts later (`FwOrdered`), and that it writes the flash which is waited for
holds until a wait is given up (`FwWaited`).

**Copying.** `CopyInv`: for some `m` the ring holds the newest `m` frames from the
head on, each whole and at the distance of so many frames' room (`Holds`); the
tasklet is at the head and has some of these before the tail it has read, which may
be stale (`AtWork`); all that was delivered or dropped is older (`Gone`); a buffer
said to be on the list is there once (`ListOk`). The engine adds a frame where
there is room, so that `m` grows by one; the tasklet moves the head by one frame. That
rounding up to a page is the same at every position at the beginning of a page,
and that the ring's end cuts no distance short, are lemmas on division
(`DivUnique`, `AlignAfter`).

**Stamps.** `StampInv` says that the host's clock is the FPGA's until it is set, and that
the exposure is one of the camera's. The work is in lemmas on operators: on times
of less than a second apart `tv_sub` and `tv_add` are subtraction and addition
(`DivUnique` with the borrow as the quotient), and the time of the trigger is the
only multiple of the frame interval that a stamp's rounding can give.

**esd driver.** The parts of `MCEsd` share no state, so that its invariant is
the conjunction of three, and a step of one leaves the others. For a handle:
`OneReader`, `OneWriter` (the pending flag stands for exactly one thread),
`ReaderServed`, `WriterServed` (what a sleeper waits for is in the nucleus, or
the sleeper was told), `Closing` and `FileHeld` (a close marks what is inside, and
stays until the marks are gone). For the DPCs: the queue is exactly what is linked
and not destroyed, once, and what is linked or runs has its memory. For the cards:
what a card holds at each step of its attach, and of what may leak, nothing else when it has
none (`Holds`), a number for each card
which gives its nodes their places (`Numbered`), no entry of `nodes[]` at or above the
next number (`FreeAbove`), and the order of load and unload with what is registered
at each step, error paths included (`Loading`, `Registered`).
`CardsSafe` compares the number of entries of `nodes[]` with the number of nodes;
this takes `Numbered`, which gives a bijection between them.

**OBU.** The invariant is `DataInv /\ SecurityInv /\ AuthInv /\ ThreadsInv`, for
four parts that share no state. Data: the newest message of a kind stands in its table
first, a thread that has not taken it will be woken (`NewestFirst`, `Woken`), an entry
that a thread is about to copy is in its table or a newer one wakes the thread
(`CopyLive`), and the frames a thread holds at each of its steps are allocated
(`FramesLive`). Security: each object a call has taken is given back by
one of the steps that are left or is to be kept (`Taken`, with `Closed` for lists of
steps); every result a call went on with is one that the code accepts, and what is not
yet checked is checked later (`ChecksLeft`).
Authentication: at each step the credentials last longer than what the thread may
still wait (`InTime`), which `AuthSafe` alone does not say. Threads: what `main`
has still to do determines which objects and threads there are (`Installed`,
`StartedOnce`), and a stop is seen by each loop (`ServerStops`, `ClientStops`).

**Pictures.** `CameraInv`: every buffer that is not left over from a lost
connection or a misplaced fragment (`stale`) is as long as the picture that the device
is sending (`Fitting`); up to the position reached, every buffer holds fragments
of one picture in their order, of the one being sent unless a new connection has
begun another (`Begun`); a position other than 0 has a buffer, and without a
connection every buffer is stale (`Buffered`). The code gives a stale buffer to the
next picture, for which it may be too short; that this picture is nevertheless whole
when it is passed on follows from `Begun`, which speaks of stale buffers too.

**Scans.** `NodesInv`: the packets of a scan are in the order of their times and not
after the clock, unless they come from a file (`Times`), the second last told by the device is not after the
clock's, and where the poll thread and the nodelet are in their ending (`Ending`).
The stamp of a Velodyne is the mean of two times within the hour of the clock;
`DivOrder` and `WithinHour` say that as long as the hour is the same, cutting off the
hour keeps the order.

**Motion.** The geometry comes first: rotations of the plane compose
(`RotateTwice`), and commute with sums and multiples (`RotatePlus`,
`RotateTimes`), and the share of the way that belongs to a point is a whole
number of steps (`Shared`, `WayBack`), so that `Corrected` holds: a point measured at
any time of the scan is moved to where it would have been measured at the last.
`MotionInv` then says what the callback may rely on: a cloud that waits
was seen as the car moved, within `ScanLen`, and is later than the one at work
and those before it (`Waiting`, from which the stamps ascend although a full queue
loses clouds); the times of the cloud at work are its first and last, and the poses
taken so far are those of these times, whatever tf has forgotten since (`AtWork`).

Only model-checked:

- liveness (`ReceiversProgress`, `CallsReturn`, `DpcRuns`, `StopReturns` and the
  others), which under fairness is out of the prover's reach;
- `LightRight` of `MCObu` and `CloudsSafe` of `MCLidar`, which compare what folds
  over a message, a packet or a list compute with a reference, or rank lasers by
  counting; this would take an induction over data, which the prover does not have;
- `RecordsTrue` of `MCDevice`. Its `TriggerSafe`: a call is a list of loads and
  stores put together by folds over the cameras of a card, so that what is left of it
  after each store is again a matter of induction. Its `DropsCounted`: it depends
  on the length of the stream. Where the
  header is missing the gap is found from the host's time, which is right as long
  as gaps stay within the 8 seconds that the code believes, and what is left over
  at the end of each second adds up to less than half a frame interval.

## Findings

Places where the code does not do what its comments, assertions or documents
say; `PROJECT.json` quotes them. Each is a definition of its module that TLC
refutes with the instance given here.

- `DelayAssert` (run `trigger_delay`): a delay set for one camera between the load
  and the store of the trigger register by `zynq_trigger_enable_all` is lost,
  and the assertion of `zvideo_trigger_delay_get` fails (`basa_video.c:1501`).
- `DropFreesBuffer` of `BasaCanRx` (1 thread, `N = 4`, `DropNum = 1`, `MaxReq = 3`,
  PIO, not `Paced`): `zcan_buf_rx_full` is tested without the lock; a flush or
  receiver that empties the ring before the drop makes the head overtake the
  tail, and the ring is full of frames already delivered (`basa_can.c:1324`).
- `CountIsReal` of `BasaCanRx` (`Surprise = TRUE`): when the card is lost, the ioctl
  copies back a count that nobody has set, and `bcan_recv` returns it
  (`basa_can.c:1702`).
- `HighGapFailsSync` of `BasaGps`: a gap above the high mark does not fail the
  synchronisation, contrary to the comment (`basa_gps.c:249`).
- `UnloadEndsThread` of `BasaGps` (2 cards): between the two halves of
  `zynq_gps_fini` the thread can start a round without a master
  (`basa_gps.c:545`).
- `StartAssert` of `BasaVideo` (`MaxFails = 1`): after a start that fails, buffers
  stay listed and counted, and the assertion of the next start does not hold
  (`basa_video.c:1186`).
- `BoundToOffset` of `BasaVideo` (3 buffers, `BufNum = 2`, `AllQueued = FALSE`): a
  buffer that was not queued at the start of the stream has the offset 0 and can
  be taken for the buffer that is there (`basa_video.c:1111`).

## Observations

Behaviour met while modelling that no comment or document contradicts. Where a
module has it, the model does what the code does and the properties are stated
so as to allow for it.

Sensor driver:

- CAN: `stop` does not take `zcan_pio_tx_hi_lock` (`basa_can.c:365`); a request
  of `BCAN_MAX_RX_MSG` frames is one more than the ring holds (`:977`); a mode
  change discards what waits in the transmit FIFO (`:426`); a failed
  `copy_to_user` leaves its slot converted (`:1043`); threads update the flags of
  a handle without a lock (`bcan_lib.c:258`).
- GPS: `zynq_gps_valid_once` is one flag for all cards (`basa_gps.c:91`), and
  the gap in microseconds is an `int` (`:196`).
- Life cycle: `zdev_gpspps_event_comp` is initialised after the interrupt is
  registered (`basa_main.c:599`); `kthread_run` may return an error pointer that
  is passed to `kthread_stop` (`basa_chan.c:966`); the kobject is put before it is
  deleted (`basa_sysfs.c:1235`); a removed card stays in `zynq_dev_list`
  (`basa_main.c:635`); a process that has the device open when the card is unbound
  uses memory that is gone (`:670`).
- Video: after a trigger was disabled `frame_interval` is 0 and a late frame
  divides by it (`basa_video.c:337`, `:365`), although line 571 provides for 0; a
  frame with invalid header metadata makes the gap of the next one 2, so that a
  drop is counted that did not happen (`:432`, `:585`); `tv_sub` and `tv_add` assume
  less than a second, while the delay has 20 bits; a long exposure underflows
  `t_middle`; in the copying mode a frame that was left for the next interrupt
  waits for it even when the ring is full; a link change sets the format while
  buffers of the old size may be queued; `zcam_read_embedded_data_231` divides by
  `t1_row` unchecked (`basa_cam_hci.c:414`); `rlock` is taken in an ioctl without
  disabling bottom halves (`basa_video.c:1444`).
- Cameras: a pin swap forced by the module parameter is noted before the lock is taken
  and the register written (`basa_cam_hci.c:559`); for that while the note is wrong.
- Debugging files: `can_ip_reg_value` uses its offset a second time after it was
  tested, and another process may have changed it (`basa_sysfs.c:428`). `SysfsSafe`
  bounds every other access and leaves this one out.
- Triggers: calls under `zdev_lock` and calls under `rlock` change one register
  (`basa_trigger.c:62`). `TriggerSafe` leaves out cameras for which both have overlapped;
  `DelayAssert` under [Findings](#findings) shows what happens to them.
- Firmware: the driver takes data and updates in any order (`basa_fwupdate.c:248`), so
  that a flash may be written with less than an image. The request bit for the QSPI
  flash is not in the magic number, so that a QSPI update is accepted while an abandoned
  upload request stands. After a wait that timed out another flash may be asked for, and a
  late completion of the first is taken for it. When the card is gone a start or an
  update that waits reads ones and reports success; only the upload of data looks whether the card
  answers (`:279`). Two threads of one program, or two that share the file, are as two
  programs that have opened it.

esd driver: the ioctls `SET_RX_TIMEOUT` and `SET_TX_TIMEOUT` do not check the
bound that `SET_TIMEOUT` checks; `my_nuc_ioctl` (`esdcan_common.c:1354`) and the
destruction of the DPC thread (`osif.c:1490`) can miss their wake-up; a failing
`ID_RANGE_ADD` disables all ids it has passed (`:1733`); the number of a card is
the number of cards attached before it (`esdcan_pci.c:285`); no
`pci_disable_device` answers `pci_enable_device` (`:288`), and a card for which that
fails is reported as attached, after which `esdcan_show_card_info` is called with a null
pointer (`esdcan.c:1351`; the model stops there, `oops`); a board layer that fails leaves
`crd->lock_irq` (`:1157`); the file in `/proc` is there until the cards are gone
(`esdcan_pci.c:589`), so that a reader may use a node that is being freed: `CardsSafe`
speaks of the character device only, and such a reader is not modelled.

OBU: a negative result of `SM2Verify` passes for a verified payload (`security.cc:159`),
though not for a certificate (`common.c:295`), and an encoding that failed with -1 is
hashed (`common.c:288`); a message without signer information or verification key ends the process
(`security.cc:150`); an answer of the platform without a brace ends the thread
of the authentication for good (`auth_manager.cc:135`, `os_thread.cc:109`), and one
without the expected members the process, while `UuSend` goes on with what expires;
an entry may be deleted between its search and its copy (`v2x_db.cc:105`), so that
its content may be anything; late time stamps are never refused (`v2x_traffic_light.cc:152`); with no
intersection ahead the first of the map is taken (`:82`); the authentication is
looked at only until it was granted once (`adapter_uu.cc:115`, `uu_send.cc:228`);
`INVALID_ALL` is overwritten (`auth_manager.cc:338`); token and key are read while
they are assigned (`:298`), and `AuthSafe` leaves out the messages for which that
happened (`mixed`), but that they were never made of nothing; a content that cannot be decrypted is returned as it is
(`encrypt_utils.cc:113`); a thread that uses the proxy is started before the proxy is
created (`main.cc:123`); frames that fail to decode are leaked
(`traffic_light_thread.cc:87`, `:114`), and so is `secured_msg` (`security.cc:144`); a
full table gives up its newest entry (`v2x_table.cc:87`).

Pandora: the loop for the calibrations ends once one of the two is there
(`&&`); a command has no timeout; a picture that is cut off keeps the size of its
buffer, which a longer one then overruns (`pandora_client.c:301`); the heart beat uses
a socket that another thread closes (`:182`); `packetIndex` is static and outlives
a stop (`pandar40p_internal.cc:256`); a picture that fails to decompress is passed
on uninitialised; the elevations are replaced by the calibration thread while points are
computed; `ResetStartAngle` takes numbers above a turn, with which every azimuth is
near the start and every round is cut at five sixths of its packets (`LidarSafe` speaks of start
angles within a turn); without a command client the calibrations end without one
(`pandora.cc:195`), and a calibration that the YAML library throws at ends the process
(`:272`).

Other lidars:

- the destructors of the nodelets set `running_` to false, but the thread looks
  only at `ros::ok()` and writes `running_` again, so that an unload waits until
  ROS is shut down; the poll of a silent Velodyne or LeiShen never returns;
- the stamp of a Velodyne is wrong by up to an hour when the hour changes
  (`driver.cc:185`); that of a LeiShen goes back by a second until the device
  packet comes; its first two sweeps are incomplete, where a comment has the first
  discarded (`lslidar_decoder.cpp:386`), and its table index is negative for the
  last firing (`:302`);
- an RS16 at 300 rpm sends more packets than `RS16_DATA_NUMBER_PER_SCAN` holds; the
  RS32 uses the packet rate 840; its clouds have no time stamps, so that the
  compensator rejects them all; `skip_static_frames` still writes the file
  (`pcd_exporter.cpp:121`), and the exporter's queue has no bound while no pose
  comes;
- when half a turn of packets or more is lost in a row, the test for a jump of more than
  half a turn misses the end of the turn or sees one too many
  (`lslidar_decoder.cpp:375`), and the sweep has azimuths twice; the sweeps after it
  are in order again;
- a capture file that cannot be opened, at first or when it is begun again, leaves a null pointer that
  is used (`velodyne_driver/src/lib/input.cc:277`, `:322`);
- with `use_seq_as_index` the numbers of the files have gaps, where clouds were dropped;
- a view through azimuth 0 lets every point pass (`rawdata.cc:308`); two lasers of
  equal angle share ring 0 (`calibration.cc:163`);
- the compensator keeps the offsets of the cloud before, accepts `FLOAT64` and
  computes in `float`, and fills a cloud whose points have one time with NaN
  (`compensator.cc:236`).

## Assumptions and limits

- The FPGA is modelled from how the driver uses it. An Rx interrupt is raised
  as long as frames are pending (`BasaCanRx`); for errors both behaviours are
  allowed (`level` in `BasaChan`), and only `ErrorHandled` assumes the first.
- `jiffies` has 64 bits and does not wrap.
- `BasaGps` is checked with `Serial`: cards are probed and removed one after the
  other, as the PCI core does on one bus.
- `video` has `AllQueued`: the process queues all its buffers before it starts
  the stream, as usual V4L2 programs do; `BoundToOffset` shows what happens
  otherwise. The engine moves its tail a frame at a time and leaves one place
  free; a frame may still arrive shortly after the trigger was switched off.
- `BasaStamp`: stamps are late by some jitter. For `StampExact` less than a frame
  interval is enough; counting by time (`DropsCounted`) takes less than half of one.
- `BasaFirmware`: the ARM OS grants an upload when the request is followed by the magic
  number, and then begins with an empty FIFO; it writes a flash when that is asked
  for after a grant and the FIFO is empty, with what has come; and it looks at no new request
  while it writes. It may be late, or never do any of it.
- `EsdOsif`: the thread for the DPCs could be created; the failure at `osif.c:1465` is
  an outcome of `OsifAttach` in `EsdCard` only.
- The esd nucleus calls back for every job it was asked to abort.
- `ObuAuth`: a request takes less time than is left before the renewal
  (there is no timeout on it in the code).
- `PandoraCamera`: after each connection the device sends pictures from their first
  fragment on.
- `LidarCompensator`: the car turns by multiples of 60 degrees between two poses.

## Not modelled

- Within modelled components: queries and formatted reports that change nothing,
  register layouts, the CAN self test and the timeout ioctls, V4L2 format ioctls and
  the registration of the V4L2 device at a link change, the thread for receiving
  that `PIO_RX_THREAD` would compile in; of the esd driver the ioctls that only
  read, the timeout ioctls, the build without `OSIF_USE_PREEMPT_RT_IMPLEMENTATION`,
  and other buses than PCI; coordinates of points, intensities and their
  calibration, which are floating point; the text of YAML and JSON.
- OBU utilities: the projection of coordinates is floating point; AES, MD5 and
  Base64 are calls of OpenSSL. Message encodings and signatures are done by
  libraries; the models have what the code makes of their results.
- The CAN test tools and the esd example are command line programs that keep no
  state others see; the SmarterEye library and the esd nucleus are shipped as
  binaries.
