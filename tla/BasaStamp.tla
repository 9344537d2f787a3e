------------------------------ MODULE BasaStamp ------------------------------
(***************************************************************************)
(* What a frame's buffer says of its time, and how lost frames are         *)
(* counted: the second half of zvideo_check_meta_data (basa_video.c) with  *)
(* its arithmetic on seconds and microseconds, and the embedded data of a  *)
(* frame (basa_cam_hci.c).                                                 *)
(*                                                                         *)
(* A camera is triggered at multiples of the frame interval after each     *)
(* full second, delayed by the delay of its trigger.  The FPGA stamps a    *)
(* frame when its first line arrives, the host when the interrupt of its   *)
(* end does; both are late by some jitter.  Time is a number of            *)
(* microseconds; the code splits it in tv_sec and tv_usec.                 *)
(***************************************************************************)
EXTENDS Integers

CONSTANTS
    UsecPerSec,         \* USEC_PER_SEC
    Rates,              \* frames in a second
    Margin,             \* the 100 microseconds of fpga_to_trigger
    FirstLine, MidLine, LastLine,   \* t_first, t_middle, t_last
    Exposures,          \* exposure times that the embedded data may tell
    TriggerDelays,      \* last_trig_delay
    Jitters,            \* how late a stamp may be, all below half a frame interval
    Jumps,              \* by how much the host's clock may be set
    StampTypes,         \* zynq_video_ts_type
    LastFrame           \* bound on the triggers of a stream

None == -1              \* UINT_MAX in last_meta_cnt

VARIABLES
    ts,                 \* zynq_video_ts_type, the delay of the trigger and its rate
    frame,              \* the number of triggers so far, and what became of them
    last,               \* last_meta_cnt, last_trig_cnt, last_tv_intr, last_exp_time
    clock,              \* by how much the host's clock differs from that of the FPGA
    stats,              \* drops counted, and mismatches of the counts
    stamp               \* the stamp of the last frame, and the one it should have

vars == <<ts, frame, last, clock, stats, stamp>>

-----------------------------------------------------------------------------
(* Times. *)

Tv(t) == [sec |-> t \div UsecPerSec, usec |-> t % UsecPerSec]

Zero == [sec |-> 0, usec |-> 0]

tv_diff(tv1, tv2) == (tv2.sec - tv1.sec) * UsecPerSec + tv2.usec - tv1.usec

div_round(val, round) ==
    LET result == val \div round
    IN IF val - result * round > (result + 1) * round - val THEN result + 1 ELSE result

\* Mutant: no borrow from the seconds.
tv_sub_NoBorrow(tv, usec) == [tv EXCEPT !.usec = (@ - usec) % UsecPerSec]

tv_sub(tv, usec) ==
    IF tv.usec < usec THEN [sec |-> tv.sec - 1, usec |-> tv.usec + UsecPerSec - usec]
                      ELSE [tv EXCEPT !.usec = @ - usec]

tv_add(tv, usec) ==
    IF tv.usec + usec >= UsecPerSec THEN [sec |-> tv.sec + 1, usec |-> tv.usec + usec - UsecPerSec]
                                    ELSE [tv EXCEPT !.usec = @ + usec]

\* frame_interval, and frame_usec_max: the interval is rounded down, so that the
\* frames of a second may not fill it.
frame_interval == UsecPerSec \div ts.rate
frame_usec_max == frame_interval * ts.rate

\* The rest of a second that is not a whole frame belongs to the next one.
Aligned(tv) ==
    LET usec == tv.usec - (tv.usec % frame_interval)
    IN IF usec >= frame_usec_max - Margin THEN [sec |-> tv.sec + 1, usec |-> 0]
                                          ELSE [tv EXCEPT !.usec = usec]

fpga_to_trigger(tv) == tv_add(Aligned(tv_sub(tv, FirstLine + ts.delay)), ts.delay)
host_to_trigger(tv) == tv_add(Aligned(tv_sub(tv, LastLine + ts.delay)), ts.delay)
fpga_to_formation(tv, exp) == tv_add(fpga_to_trigger(tv), MidLine - exp \div 2)
host_to_formation(tv, exp) == tv_add(host_to_trigger(tv), MidLine - exp \div 2)

\* The switch on zynq_video_ts_type.
Stamp(corrupted, fpga, host, exp) ==
    CASE ts.type = "host" -> host
      [] ts.type = "trigger" -> IF corrupted THEN host_to_trigger(host) ELSE fpga_to_trigger(fpga)
      [] ts.type = "formation" /\ exp # 0 ->
            IF corrupted THEN host_to_formation(host, exp) ELSE fpga_to_formation(fpga, exp)
      [] OTHER -> IF corrupted THEN Zero ELSE fpga

-----------------------------------------------------------------------------
(* Lost frames. *)

\* The gap to the last frame by the host's clock, or None when the clock was set.
TimeGap(host) ==
    LET ts_gap == IF last.tv.sec = 0 THEN frame_interval ELSE tv_diff(last.tv, host)
    IN IF ts_gap < 0 \/ ts_gap > 8 * UsecPerSec THEN None ELSE div_round(ts_gap, frame_interval)

\* Mutant: the host's clock is always believed.
cnt_gap_Time(meta_gap, time_gap) == IF time_gap > 0 THEN time_gap ELSE meta_gap

\* The frame count of the embedded data comes first.
cnt_gap(meta_gap, time_gap) == IF meta_gap > 0 THEN meta_gap ELSE time_gap

-----------------------------------------------------------------------------

Init ==
    /\ ts \in [type : StampTypes, delay : TriggerDelays, rate : Rates]
    /\ frame = [cnt |-> 0, base |-> 0, seen |-> 0, lost |-> 0, waiting |-> 0, blind |-> FALSE, forgot |-> FALSE,
                corrupt |-> FALSE, jumped |-> FALSE]
    /\ last = [meta |-> None, trig |-> 0, tv |-> Zero, exp |-> 0]
    /\ clock = 0
    /\ stats = [drop |-> 0, mismatch |-> 0]
    /\ stamp = [is |-> Zero, should |-> Zero]

\* The time of the n-th trigger, some seconds after the clocks' zero; the first one is
\* the last of its second.
TriggerTime(n) ==
    LET k == n + ts.rate - 1
    IN (9 + (k \div ts.rate)) * UsecPerSec + (k % ts.rate) * frame_interval + ts.delay

\* What the stamp of its frame should be, if it is computed at all.
Due(n, exp) ==
    CASE ts.type = "trigger" -> Tv(TriggerTime(n))
      [] ts.type = "formation" /\ exp # 0 -> Tv(TriggerTime(n) + MidLine - exp \div 2)
      [] OTHER -> Zero

\* A trigger whose frame does not arrive.
Lose ==
    /\ frame.cnt < LastFrame
    /\ frame' = [frame EXCEPT !.cnt = @ + 1, !.waiting = IF frame.seen = 0 THEN 0 ELSE @ + 1]
    /\ UNCHANGED <<ts, last, clock, stats, stamp>>

\* EM_DATA_VALID and the reading of the embedded data: the frame count of the camera
\* and the exposure time.
read_em_data(n, exp) ==
    [last EXCEPT !.meta = n - frame.base, !.exp = exp]

\* A frame arrives: zvideo_check_meta_data.  jf and jh are the jitter of the stamps.
\* The count of errors in a row and what follows from it are in BasaVideo.
Receive(jf, jh, corrupted, header, exp) ==
    LET n == frame.cnt
        fpga == Tv(TriggerTime(n) + FirstLine + jf)
        host == Tv(TriggerTime(n) + LastLine + jh + clock)
        em == IF header THEN read_em_data(n, exp) ELSE last
        meta_gap == IF header /\ last.meta # None THEN em.meta - last.meta ELSE None
        trig_cnt == IF corrupted THEN last.trig + 1 ELSE n + 1
        trig_gap == IF last.trig # 0 THEN trig_cnt - last.trig ELSE None
        gap == cnt_gap(meta_gap, TimeGap(host))
        time_gap == TimeGap(host)
    IN /\ frame.cnt < LastFrame
       /\ frame' = [frame EXCEPT !.cnt = n + 1, !.seen = @ + 1,
                                 !.lost = @ + frame.waiting, !.waiting = 0,
                                 !.blind = @ \/ ~header, !.corrupt = @ \/ corrupted]
       /\ last' = [em EXCEPT !.trig = trig_cnt, !.tv = host]
       /\ stats' = [drop |-> stats.drop + (IF gap > 1 THEN gap - 1 ELSE 0),
                    mismatch |-> stats.mismatch
                        + (IF trig_gap > 0 /\ gap > 0 /\ gap # trig_gap THEN 1 ELSE 0)
                        + (IF meta_gap > 0 /\ time_gap > 0 /\ time_gap # meta_gap THEN 1 ELSE 0)]
       /\ stamp' = [is |-> Stamp(corrupted, fpga, host, em.exp),
                    should |-> Due(n, em.exp)]
       /\ UNCHANGED <<ts, clock>>

\* zvideo_cam_reset: the camera counts its frames anew.
zvideo_cam_reset ==
    /\ last.meta # None
    /\ last' = [last EXCEPT !.meta = None]
    /\ frame' = [frame EXCEPT !.base = frame.cnt, !.forgot = TRUE]
    /\ UNCHANGED <<ts, clock, stats, stamp>>

\* zvideo_init_params: the next stream.
zvideo_init_params ==
    /\ frame.seen > 0
    /\ last' = [meta |-> None, trig |-> 0, tv |-> Zero, exp |-> 0]
    /\ frame' = [frame EXCEPT !.seen = 0, !.lost = 0, !.waiting = 0, !.blind = FALSE, !.forgot = FALSE,
                              !.corrupt = FALSE, !.jumped = clock # 0]
    /\ stats' = [drop |-> 0, mismatch |-> 0]
    /\ stamp' = [is |-> Zero, should |-> Zero]
    /\ UNCHANGED <<ts, clock>>

\* The host's clock is set (BasaGps).
SetClock(j) ==
    /\ clock = 0
    /\ clock' = j
    /\ frame' = [frame EXCEPT !.jumped = TRUE]
    /\ UNCHANGED <<ts, last, stats, stamp>>

Next ==
    \/ Lose
    \/ \E jf, jh \in Jitters, corrupted, header \in BOOLEAN, exp \in Exposures :
            Receive(jf, jh, corrupted, header, exp)
    \/ zvideo_cam_reset
    \/ zvideo_init_params
    \/ \E j \in Jumps : SetClock(j)

Spec == Init /\ [][Next]_vars

-----------------------------------------------------------------------------
(* Properties. *)

TypeOK ==
    /\ frame.cnt \in 0..LastFrame /\ frame.seen \in 0..LastFrame
    /\ last.meta \in None..LastFrame /\ last.trig \in 0..(2 * LastFrame)
    /\ stamp.is.usec \in 0..(UsecPerSec - 1)

\* Whichever way the stamp is computed, from the FPGA's or, for a corrupted frame, the
\* host's clock, and on whichever side of a full second its parts lie, it is the very
\* time of the trigger or of the middle of the exposure.
StampExact == (frame.corrupt /\ frame.jumped) \/ stamp.should \in {Zero, stamp.is}

\* Lost frames are counted, whichever of frame count and host time is at hand: none is
\* missed, and none is counted that was not lost as long as all frames had a header.
DropsCounted ==
    /\ ~(frame.jumped /\ (frame.blind \/ frame.forgot)) => stats.drop >= frame.lost
    /\ ~frame.blind /\ ~(frame.jumped /\ frame.forgot) => stats.drop = frame.lost
    /\ ~(frame.blind \/ frame.corrupt \/ frame.jumped) => stats.mismatch = 0
=============================================================================
