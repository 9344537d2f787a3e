------------------------------ MODULE BasaVideo ------------------------------
(***************************************************************************)
(* A video channel in zero-copy mode (basa_video.c).  The buffers of a     *)
(* V4L2 queue are mapped, one after the other, into a circular table that  *)
(* the DMA engine of the FPGA fills with frames.  The driver lends a       *)
(* buffer to the process with each frame, and gives its place back to the  *)
(* engine, by moving the head, once the buffers up to it are back.         *)
(*                                                                         *)
(* The process (serialised by the lock of the queue), the tasklet that     *)
(* receives, the watchdog that resets a faulty channel and the engine run  *)
(* concurrently.  rlock is held by the tasklet while rpc # "idle"; what is *)
(* done under qlock is one step.  Offsets count buffers, not bytes.        *)
(***************************************************************************)
EXTENDS Integers, FiniteSets

CONSTANTS
    Bufs,           \* buffers allocated by VIDIOC_REQBUFS
    NoBuf,          \* NULL
    BufNum,         \* zynq_video_buf_num: buffers needed to start
    ErrThresh,      \* zynq_video_err_thresh
    MaxRetry,       \* waits of zvideo_reset before it gives up (5)
    AllQueued,      \* environment: the process queues all buffers before it starts
    MaxFails        \* bound on the failures of zvideo_init_rx

N == Cardinality(Bufs)

ASSUME BufAssumption == IsFiniteSet(Bufs) /\ NoBuf \notin Bufs /\ BufNum \in 1..N
ASSUME LimitAssumption ==
    ErrThresh \in Nat \ {0} /\ MaxRetry \in Nat /\ AllQueued \in BOOLEAN /\ MaxFails \in Nat

VARIABLES
    vb,             \* vb2's state of each buffer
    upc,            \* where the process is: VIDIOC_STREAMON, VIDIOC_STREAMOFF
    streaming,      \* ZVIDEO_STATE_STREAMING
    camFault,       \* ZVIDEO_STATE_CAM_FAULT
    chanFault,      \* ZVIDEO_STATE_CHAN_FAULT
    list, pending,  \* buf_list, pending_list
    avail, total,   \* buf_avail, buf_total
    offset,         \* zynq_video_buffer_t.offset
    slots,          \* buffers in the DMA table, 0 if there is no table
    mapped,         \* the buffer whose memory each entry of the table points to
    head, off,      \* zchan_rx_head, zchan_rx_off
    tail,           \* ZYNQ_CH_RX_TAIL, moved by the engine
    meta,           \* the extended metadata in the memory of each buffer
    trig,           \* ZYNQ_CAM_EN
    want,           \* the process has enabled the trigger of the stream
    errCnt,         \* frame_err_cnt
    rpc, rxTail, work, bad,     \* zvideo_rx_proc_zero_copy: step, rx_tail, buf, ret
    wpc, retry,     \* zvideo_reset: step, retry
    fails           \* failures of zvideo_init_rx so far

userVars == <<vb, upc, want, fails>>
bufVars  == <<list, pending, avail, total>>
mapVars  == <<offset, slots, mapped>>
ringVars == <<head, off, tail>>
rxVars   == <<rpc, rxTail, work, bad, errCnt>>
wdVars   == <<wpc, retry>>
vars == <<userVars, streaming, camFault, chanFault, bufVars, mapVars, ringVars,
          meta, trig, rxVars, wdVars>>

Init ==
    /\ vb = [b \in Bufs |-> "dequeued"]
    /\ upc = "idle" /\ want = FALSE /\ fails = 0
    /\ streaming = FALSE /\ camFault = FALSE /\ chanFault = FALSE
    /\ list = {} /\ pending = {} /\ avail = 0 /\ total = 0
    /\ offset = [b \in Bufs |-> 0]
    /\ slots = 0 /\ mapped = [s \in 0..(N - 1) |-> NoBuf]
    /\ head = 0 /\ off = 0 /\ tail = 0
    /\ meta = [b \in Bufs |-> "invalid"]
    /\ trig = FALSE
    /\ errCnt = 0 /\ rpc = "idle" /\ rxTail = 0 /\ work = NoBuf /\ bad = FALSE
    /\ wpc = "idle" /\ retry = 0

Slot(i) == i % slots
rlockFree == rpc = "idle"

-----------------------------------------------------------------------------
(* Buffers go back to the engine: zvideo_check_pending. *)

\* How many places from the head on have their buffer in p.
Returned(p) ==
    CHOOSE k \in 0..slots :
        /\ \A i \in 0..(k - 1) : \E b \in p : offset[b] = Slot(head + i)
        /\ k < slots => \A b \in p : offset[b] # Slot(head + k)

\* The buffer in p for the place s.
At(p, s) == CHOOSE b \in p : offset[b] = s

\* zvideo_reset_meta_data: in the memory that the table has at these places.
zvideo_reset_meta_data(places) ==
    meta' = [b \in Bufs |-> IF \E s \in places : mapped[s] = b THEN "invalid" ELSE meta[b]]

\* Mutant: a buffer that is back moves the head, whatever its place.
zvideo_check_pending_InOrder(p, a) ==
    /\ list' = list \cup p
    /\ pending' = {}
    /\ avail' = a + Cardinality(p)
    /\ UNCHANGED meta
    /\ head' = Slot(head + Cardinality(p))

\* Move the buffers at the head from the pending ones p to the list; a is the
\* number of available buffers so far.
zvideo_check_pending(p, a) ==
    LET k == Returned(p)
        moved == {At(p, Slot(head + i)) : i \in 0..(k - 1)}
    IN /\ list' = list \cup moved
       /\ pending' = p \ moved
       /\ avail' = a + k
       /\ zvideo_reset_meta_data({Slot(head + i) : i \in 0..(k - 1)})
       /\ head' = Slot(head + k)

-----------------------------------------------------------------------------
(* The process. *)

\* VIDIOC_QBUF before the stream starts: vb2 keeps the buffer.
QbufEarly(b) ==
    /\ upc = "idle"
    /\ vb[b] = "dequeued"
    /\ vb' = [vb EXCEPT ![b] = "queued"]
    /\ UNCHANGED <<upc, want, fails, streaming, camFault, chanFault, bufVars, mapVars, ringVars,
                   meta, trig, rxVars, wdVars>>

\* Mutant: a buffer counts as available before it is in its place.
zvideo_buffer_queue_CountsPending(b) ==
    /\ upc = "streaming"
    /\ vb[b] = "dequeued"
    /\ vb' = [vb EXCEPT ![b] = "active"]
    /\ zvideo_check_pending(pending \cup {b}, avail + 1)
    /\ UNCHANGED <<upc, want, fails, streaming, camFault, chanFault, total, mapVars, off, tail,
                   trig, rxVars, wdVars>>

\* VIDIOC_QBUF of a stream: zvideo_buffer_queue.
zvideo_buffer_queue(b) ==
    /\ upc = "streaming"
    /\ vb[b] = "dequeued"
    /\ vb' = [vb EXCEPT ![b] = "active"]
    /\ zvideo_check_pending(pending \cup {b}, avail)
    /\ UNCHANGED <<upc, want, fails, streaming, camFault, chanFault, total, mapVars, off, tail,
                   trig, rxVars, wdVars>>

\* VIDIOC_DQBUF.
Dqbuf(b) ==
    /\ upc = "streaming"
    /\ vb[b] = "done"
    /\ vb' = [vb EXCEPT ![b] = "dequeued"]
    /\ UNCHANGED <<upc, want, fails, streaming, camFault, chanFault, bufVars, mapVars, ringVars,
                   meta, trig, rxVars, wdVars>>

\* VIDIOC_STREAMON: vb2 passes all queued buffers to zvideo_buffer_queue, and calls
\* zvideo_start_streaming with their number.
StreamOn ==
    /\ upc = "idle"
    /\ LET queued == {b \in Bufs : vb[b] = "queued"}
       IN /\ Cardinality(queued) >= BufNum
          /\ AllQueued => queued = Bufs
          /\ vb' = [b \in Bufs |-> IF b \in queued THEN "active" ELSE vb[b]]
          /\ list' = list \cup queued
          /\ avail' = avail + Cardinality(queued)
          /\ total' = Cardinality(queued)
    /\ upc' = "starting"
    /\ errCnt' = 0
    /\ UNCHANGED <<want, fails, streaming, camFault, chanFault, pending, mapVars, ringVars,
                   meta, trig, rpc, rxTail, work, bad, wdVars>>

\* zchan_rx_start: the table and the engine start anew.
zchan_rx_start == head' = 0 /\ off' = 0 /\ tail' = 0

\* zvideo_init_rx: a table for count buffers, mapped in the order of the list, which
\* is the order the process has queued them in.
zvideo_init_rx(count) ==
    /\ \E f \in [list -> 0..(count - 1)] :
         /\ \A b, c \in list : f[b] = f[c] => b = c
         /\ offset' = [b \in Bufs |-> IF b \in list THEN f[b] ELSE offset[b]]
         /\ mapped' = [s \in 0..(N - 1) |->
                         IF s < count THEN CHOOSE b \in list : f[b] = s ELSE NoBuf]
    /\ slots' = count

\* zvideo_start_streaming under its locks.
StartStreaming ==
    /\ upc = "starting"
    /\ rlockFree
    /\ zvideo_init_rx(total)
    /\ zchan_rx_start
    /\ streaming' = TRUE
    /\ upc' = "streaming"
    /\ UNCHANGED <<vb, want, fails, camFault, chanFault, bufVars, meta, trig, rxVars, wdVars>>

\* zvideo_init_rx fails, and zvideo_start_streaming returns -ENOSR: vb2 takes back
\* its buffers, as it warns.
StartFails ==
    /\ upc = "starting"
    /\ rlockFree
    /\ fails < MaxFails
    /\ fails' = fails + 1
    /\ vb' = [b \in Bufs |-> IF vb[b] = "active" THEN "queued" ELSE vb[b]]
    /\ upc' = "idle"
    /\ UNCHANGED <<want, streaming, camFault, chanFault, bufVars, mapVars, ringVars,
                   meta, trig, rxVars, wdVars>>

\* zvideo_fini_rx: the table goes, the buffers keep their offsets.
zvideo_fini_rx ==
    /\ slots' = 0
    /\ mapped' = [s \in 0..(N - 1) |-> NoBuf]
    /\ UNCHANGED offset

\* zchan_rx_stop: the registers are cleared, the driver's own head and offset are not.
zchan_rx_stop == tail' = 0 /\ UNCHANGED <<head, off>>

\* VIDIOC_STREAMOFF: zvideo_stop_streaming under its locks.
StopStreaming ==
    /\ upc = "streaming"
    /\ rlockFree
    /\ upc' = "stopping"
    /\ streaming' = FALSE
    /\ trig' = FALSE /\ want' = FALSE
    /\ zchan_rx_stop
    /\ zvideo_fini_rx
    /\ UNCHANGED <<vb, fails, camFault, chanFault, bufVars, meta, rxVars, wdVars>>

\* Mutant: the buffers that wait for their turn are forgotten.
zvideo_return_all_buffers_NotPending ==
    /\ upc = "stopping"
    /\ upc' = "waiting"
    /\ vb' = [b \in Bufs |-> IF b \in list THEN "done" ELSE vb[b]]
    /\ list' = {} /\ pending' = pending
    /\ avail' = avail - Cardinality(list)
    /\ UNCHANGED <<want, fails, streaming, camFault, chanFault, total, mapVars, ringVars,
                   meta, trig, rxVars, wdVars>>

zvideo_return_all_buffers ==
    /\ upc = "stopping"
    /\ upc' = "waiting"
    /\ vb' = [b \in Bufs |-> IF b \in list \cup pending THEN "done" ELSE vb[b]]
    /\ list' = {} /\ pending' = {}
    /\ avail' = avail - Cardinality(list)
    /\ UNCHANGED <<want, fails, streaming, camFault, chanFault, total, mapVars, ringVars,
                   meta, trig, rxVars, wdVars>>

\* vb2_wait_for_all_buffers() returns, the stop is done, and vb2 hands all buffers
\* to the process.
StopDone ==
    /\ upc = "waiting"
    /\ \A b \in Bufs : vb[b] # "active"
    /\ upc' = "idle"
    /\ total' = 0
    /\ vb' = [b \in Bufs |-> "dequeued"]
    /\ UNCHANGED <<want, fails, streaming, camFault, chanFault, list, pending, avail, mapVars,
                   ringVars, meta, trig, rxVars, wdVars>>

\* ZYNQ_IOC_TRIGGER_ENABLE_ONE and ZYNQ_IOC_TRIGGER_DISABLE_ONE.
zvideo_trigger(on) ==
    /\ rlockFree
    /\ trig' = on /\ want' = on
    /\ UNCHANGED <<vb, upc, fails, streaming, camFault, chanFault, bufVars, mapVars, ringVars,
                   meta, rxVars, wdVars>>

\* ZYNQ_IOC_CAM_RESET.
IoctlCamReset ==
    /\ ~camFault
    /\ camFault' = TRUE
    /\ UNCHANGED <<userVars, streaming, chanFault, bufVars, mapVars, ringVars,
                   meta, trig, rxVars, wdVars>>

-----------------------------------------------------------------------------
(* The engine fills the table as long as there is one: a frame that was triggered *)
(* may come late.  One place stays free, to tell a full table from an empty one.  *)

HwFrame ==
    /\ slots > 0
    /\ Slot(tail + 1) # head
    /\ tail' = Slot(tail + 1)
    /\ meta' \in {[meta EXCEPT ![mapped[tail]] = m] : m \in {"good", "bad", meta[mapped[tail]]}}
    /\ UNCHANGED <<userVars, streaming, camFault, chanFault, bufVars, mapVars, head, off,
                   trig, rxVars, wdVars>>

-----------------------------------------------------------------------------
(* The tasklet: zvideo_rx_proc_zero_copy. *)

RxBegin ==
    /\ rpc = "idle"
    /\ slots > 0
    /\ off # tail
    /\ rxTail' = tail
    /\ rpc' = "take"
    /\ UNCHANGED <<userVars, streaming, camFault, chanFault, bufVars, mapVars, ringVars,
                   meta, trig, work, bad, errCnt, wdVars>>

\* Mutant: a buffer that is taken still counts as available.
RxTake_StillCounted ==
    /\ rpc = "take"
    /\ streaming
    /\ \E b \in list : /\ offset[b] = off
                       /\ list' = list \ {b}
                       /\ work' = b
    /\ rpc' = "check"
    /\ UNCHANGED <<userVars, streaming, camFault, chanFault, pending, avail, total, mapVars,
                   ringVars, meta, trig, rxTail, bad, errCnt, wdVars>>

\* Find the buffer of the current offset, or give up.
RxTake ==
    /\ rpc = "take"
    /\ \/ /\ streaming
          /\ \E b \in list : /\ offset[b] = off
                             /\ list' = list \ {b}
                             /\ work' = b
          /\ avail' = avail - 1
          /\ rpc' = "check"
       \/ /\ ~(streaming /\ \E b \in list : offset[b] = off)
          /\ rpc' = "idle"
          /\ UNCHANGED <<list, avail, work>>
    /\ UNCHANGED <<userVars, streaming, camFault, chanFault, pending, total, mapVars, ringVars,
                   meta, trig, rxTail, bad, errCnt, wdVars>>

\* Mutant: the count of bad frames goes on after the threshold.
zvideo_check_meta_data_CountKept ==
    /\ rpc = "check"
    /\ bad' = (meta[work] # "good")
    /\ errCnt' = IF bad' THEN errCnt + 1 ELSE 0
    /\ chanFault' = (chanFault \/ errCnt' >= ErrThresh)
    /\ rpc' = "return"
    /\ UNCHANGED <<userVars, streaming, camFault, bufVars, mapVars, ringVars,
                   meta, trig, rxTail, work, wdVars>>

\* zvideo_check_meta_data: too many bad frames in a row make the channel faulty.
zvideo_check_meta_data ==
    /\ rpc = "check"
    /\ bad' = (meta[work] # "good")
    /\ LET e == IF bad' THEN errCnt + 1 ELSE 0
       IN /\ errCnt' = IF e >= ErrThresh THEN 0 ELSE e
          /\ chanFault' = (chanFault \/ e >= ErrThresh)
    /\ rpc' = "return"
    /\ UNCHANGED <<userVars, streaming, camFault, bufVars, mapVars, ringVars,
                   meta, trig, rxTail, work, wdVars>>

\* A bad frame's buffer waits for its turn, as one from the process does; a good one
\* goes to the process.
ReturnBuf ==
    \/ /\ bad
       /\ zvideo_check_pending(pending \cup {work}, avail)
       /\ UNCHANGED vb
    \/ /\ ~bad
       /\ vb' = [vb EXCEPT ![work] = "done"]
       /\ UNCHANGED <<list, pending, avail, meta, head>>

\* Mutant: a discarded frame does not move the offset.
RxReturn_OffsetKept ==
    /\ rpc = "return"
    /\ ReturnBuf
    /\ off' = IF bad THEN off ELSE Slot(off + 1)
    /\ work' = NoBuf
    /\ bad' = FALSE
    /\ rpc' = IF off' = rxTail THEN "idle" ELSE "take"
    /\ UNCHANGED <<upc, want, fails, streaming, camFault, chanFault, total, mapVars, tail,
                   trig, rxTail, errCnt, wdVars>>

\* Return the buffer, then go on with the next frame.
RxReturn ==
    /\ rpc = "return"
    /\ ReturnBuf
    /\ off' = Slot(off + 1)
    /\ work' = NoBuf
    /\ bad' = FALSE
    /\ rpc' = IF off' = rxTail THEN "idle" ELSE "take"
    /\ UNCHANGED <<upc, want, fails, streaming, camFault, chanFault, total, mapVars, tail,
                   trig, rxTail, errCnt, wdVars>>

-----------------------------------------------------------------------------
(* The watchdog: zvideo_reset. *)

\* The second half of zvideo_reset; t is the trigger so far.
ResetChannel(t) ==
    /\ chanFault' = FALSE /\ camFault' = FALSE
    /\ \/ streaming /\ zchan_rx_start /\ trig' = TRUE
       \/ ~streaming /\ UNCHANGED ringVars /\ trig' = t
    /\ wpc' = "idle" /\ retry' = 0

\* The loop's wait: sleep and retry, both locks released.
ResetSleep(t) ==
    /\ trig' = t
    /\ wpc' = "sleep"
    /\ retry' = retry + 1
    /\ UNCHANGED <<camFault, chanFault, ringVars>>

\* Mutant: the trigger stays off when the reset gives up.
ResetGiveUp_TriggerOff ==
    /\ trig' = trig
    /\ wpc' = "idle" /\ retry' = 0
    /\ UNCHANGED <<camFault, chanFault, ringVars>>

\* The loop gives up; the faults remain for the next turn of the watchdog.
ResetGiveUp ==
    /\ trig' = TRUE
    /\ wpc' = "idle" /\ retry' = 0
    /\ UNCHANGED <<camFault, chanFault, ringVars>>

\* zvideo_watchdog finds a fault.
ResetBegin ==
    /\ wpc = "idle"
    /\ chanFault \/ camFault
    /\ rlockFree
    /\ \/ ~streaming /\ ResetChannel(trig)
       \/ streaming /\ avail = total /\ ResetChannel(FALSE)
       \/ streaming /\ avail # total /\ MaxRetry > 0 /\ ResetSleep(FALSE)
       \/ streaming /\ avail # total /\ MaxRetry = 0 /\ ResetGiveUp
    /\ UNCHANGED <<userVars, streaming, bufVars, mapVars, meta, rxVars>>

\* The loop of zvideo_reset, after a wait: whether there is a stream is not asked again.
ResetRetry ==
    /\ wpc = "sleep"
    /\ rlockFree
    /\ \/ avail = total /\ ResetChannel(trig)
       \/ avail # total /\ retry < MaxRetry /\ ResetSleep(trig)
       \/ avail # total /\ retry >= MaxRetry /\ ResetGiveUp
    /\ UNCHANGED <<userVars, streaming, bufVars, mapVars, meta, rxVars>>

-----------------------------------------------------------------------------

User ==
    \/ \E b \in Bufs : QbufEarly(b) \/ zvideo_buffer_queue(b) \/ Dqbuf(b)
    \/ StreamOn \/ StartStreaming
    \/ StopStreaming \/ zvideo_return_all_buffers \/ StopDone
    \/ \E on \in BOOLEAN : zvideo_trigger(on)
    \/ IoctlCamReset

Tasklet == RxBegin \/ RxTake \/ zvideo_check_meta_data \/ RxReturn

Watchdog == ResetBegin \/ ResetRetry

Next == User \/ HwFrame \/ Tasklet \/ Watchdog

Spec == Init /\ [][Next]_vars

\* The same, when the start of a stream may fail.
FailSpec == Init /\ [][Next \/ StartFails]_vars

\* A tasklet that runs ends, and so does an ioctl.
FairSpec ==
    /\ Spec
    /\ WF_vars(Tasklet)
    /\ WF_vars(zvideo_return_all_buffers \/ StopDone)

-----------------------------------------------------------------------------
(* Properties. *)

BufType ==
    /\ vb \in [Bufs -> {"dequeued", "queued", "active", "done"}]
    /\ list \subseteq Bufs /\ pending \subseteq Bufs /\ work \in Bufs \cup {NoBuf}
    /\ avail \in 0..N /\ total \in 0..N
    /\ meta \in [Bufs -> {"invalid", "good", "bad"}]

TableType ==
    /\ offset \in [Bufs -> 0..(N - 1)]
    /\ slots \in 0..N /\ mapped \in [0..(N - 1) -> Bufs \cup {NoBuf}]
    /\ head \in 0..(N - 1) /\ off \in 0..(N - 1) /\ tail \in 0..(N - 1) /\ rxTail \in 0..(N - 1)

FlagType ==
    /\ streaming \in BOOLEAN /\ camFault \in BOOLEAN /\ chanFault \in BOOLEAN
    /\ trig \in BOOLEAN /\ want \in BOOLEAN /\ bad \in BOOLEAN

StepType ==
    /\ upc \in {"idle", "starting", "streaming", "stopping", "waiting"}
    /\ rpc \in {"idle", "take", "check", "return"}
    /\ wpc \in {"idle", "sleep"} /\ retry \in 0..MaxRetry
    /\ errCnt \in 0..(ErrThresh - 1)
    /\ fails \in 0..MaxFails

TypeOK == BufType /\ TableType /\ FlagType /\ StepType

\* The process may give buffers back in any order, the tasklet discards some, and a
\* reset starts the table anew: the engine never gets a place whose buffer is with
\* the process, with the tasklet or still waiting for its turn.
DmaOwned ==
    slots > 0 =>
        \A i \in 0..(slots - 1) :
            i < Slot(head + slots - tail - 1 + slots) => mapped[Slot(tail + i)] \in list

\* A frame that the engine has written and the tasklet has not come to yet is found:
\* its buffer is in the list, under its offset.
FrameFound ==
    slots > 0 /\ rpc \in {"idle", "take"} =>
        \A i \in 0..(slots - 1) :
            i < Slot(tail + slots - off) =>
                \E b \in list : offset[b] = Slot(off + i) /\ mapped[Slot(off + i)] = b

\* zvideo_reset trusts buf_avail: it restarts the engine only when each buffer of the
\* table is in the list, though it gives up its locks while it waits for them.
ResetOwnsAll ==
    [][Watchdog /\ streaming /\ wpc' = "idle" /\ ~chanFault' /\ ~camFault'
        => \A s \in 0..(slots - 1) : mapped[s] \in list]_vars

\* The assertion at the end of zvideo_stop_streaming, and what it stands for.
StopAssert == upc = "idle" /\ total = 0 => avail = 0 /\ list = {} /\ pending = {}

\* The buffers of a stream as process, tasklet and engine share them.
DmaSafe == TypeOK /\ DmaOwned /\ FrameFound /\ StopAssert

\* A reset takes the trigger away from a stream for the time it needs; however it
\* ends, and whatever the process does meanwhile, the camera is not left off.
CameraNotLeftOff == streaming /\ want /\ wpc = "idle" => trig

\* vb2 waits for the buffers that the driver still has: a stop comes to its end.
StopReturns == upc = "stopping" ~> upc = "idle"

-----------------------------------------------------------------------------
(* What assertions and comments say, and the code does not ensure. *)

\* The assertion in zvideo_start_streaming: "ASSERT(zvideo->buf_total ==
\* zvideo->buf_avail)".
StartAssert == upc = "starting" => total = avail

\* The comment in zvideo_rx_proc_zero_copy: "Find the video buffer bound to the
\* current offset".  The buffer that the tasklet takes is the one whose memory the
\* engine has written.
BoundToOffset == rpc = "check" => work = mapped[off]
=============================================================================
