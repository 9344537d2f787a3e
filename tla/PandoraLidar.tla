----------------------------- MODULE PandoraLidar -----------------------------
(***************************************************************************)
(* The lidar of a Pandora (pandar40p_internal.cc, input.cc): a thread that *)
(* receives packets, one that cuts their blocks into rounds, and a caller  *)
(* that starts and stops both.                                             *)
(*                                                                         *)
(* Azimuths are counted in blocks, Full of them to a turn.  A block is its *)
(* azimuth; how points are computed from it is left out.  UDP may lose     *)
(* packets.                                                                *)
(***************************************************************************)
EXTENDS Integers, Sequences, FiniteSets, SequencesExt

CONSTANTS
    BlocksPerPacket, PacketsPerRound,   \* BLOCKS_PER_PACKET, PACKETS_PER_ROUND
    LimitDegree,                        \* limit_degree: half a packet
    MaxPackets, MaxStarts, StartAngles  \* bounds: packets in the queue, starts, and where the device is then

VARIABLES
    user, starts,              \* where the caller is; how often it has started
    enable,                    \* enable_lidar_recv_thr_ and enable_lidar_process_thr_, which change together
    recv, proc,                \* the threads
    angle, start_angle,        \* where the device is; start_angle_
    lost,                      \* history: packets were missed while nothing was running
    lidar_packets, lidar_sem,  \* the queue and its semaphore
    packetIndex,               \* static in ProcessLiarPacket; counted as far as it makes a difference
    outMsg,                    \* the present round: its number of blocks, and their azimuths while it is clean
    clean, aligned,            \* history: no packet was lost since the last cut, and that cut was near start_angle_
    round                      \* history: the round passed on in this step, if any, and whether it was clean and between two cuts near start_angle_

vars == <<user, starts, enable, recv, proc, angle, lost, start_angle, lidar_packets, lidar_sem, packetIndex, outMsg, clean, aligned, round>>
control == <<user, starts, enable>>
stream == <<angle, lost, lidar_packets, lidar_sem>>
cloud == <<packetIndex, outMsg, clean, aligned, round>>
Empty == [n |-> 0, seen |-> {}]
None == [n |-> 0, azimuths |-> 0, whole |-> FALSE]

Full == BlocksPerPacket * PacketsPerRound
-----------------------------------------------------------------------------
\* getPacket and PushLiDARData; a packet may come after one that was lost (one without points breaks a round anyway).
Arrive(kind, gap) == [kind |-> kind, azimuth |-> IF gap THEN (angle + BlocksPerPacket) % Full ELSE angle, gap |-> gap]
RecvTask ==
    /\ recv = "run" /\ enable /\ Len(lidar_packets) < MaxPackets
    /\ \E k \in {"points", "no_points", "wrong_size"} : \E gap \in IF lost THEN {TRUE} ELSE {k = "points", FALSE} :
         /\ lidar_packets' = Append(lidar_packets, Arrive(k, gap))
         /\ angle' = (Arrive(k, gap).azimuth + BlocksPerPacket) % Full
    /\ lidar_sem' = lidar_sem + 1 /\ lost' = FALSE /\ round' = None
    /\ UNCHANGED <<control, recv, proc, start_angle, packetIndex, outMsg, clean, aligned>>

RecvEnds ==
    /\ recv = "run" /\ ~enable /\ recv' = "ended"
    /\ UNCHANGED <<control, proc, stream, start_angle, cloud>>

\* The distance of an azimuth from start_angle_, either way round.
Gap(a) == LET d == IF a >= start_angle THEN a - start_angle ELSE start_angle - a IN
          IF d < Full - d THEN d ELSE Full - d

\* Mutant: a round may be of any length.
Ready_NoMinimum(c, a) == (Gap(a) <= LimitDegree \/ c.index > PacketsPerRound + 1) /\ c.out.n > 0

\* ready a round ?
Ready(c, a) == ((c.index > (PacketsPerRound * 5) \div 6 /\ Gap(a) <= LimitDegree) \/ c.index > PacketsPerRound + 1) /\ c.out.n > 0

\* A cut: the round is passed on, and a new one begun.
Cut(c, a) ==
    IF ~Ready(c, a) THEN c
    ELSE [index |-> 0, out |-> Empty, clean |-> TRUE, aligned |-> Gap(a) <= LimitDegree,
          round |-> [n |-> c.out.n, azimuths |-> Cardinality(c.out.seen), whole |-> c.clean /\ c.aligned /\ Gap(a) <= LimitDegree]]

\* The blocks of a packet, one by one; those with points are added.
Process(p) ==
    FoldLeft(LAMBDA c, b : LET a == (p.azimuth + b - 1) % Full
                               d == Cut(c, a)
                           IN IF p.kind = "points" THEN [d EXCEPT !.out = [n |-> @.n + 1, seen |-> IF d.clean THEN @.seen \union {a} ELSE {}]]
                              ELSE [d EXCEPT !.clean = FALSE, !.out.seen = {}],
             [index |-> IF packetIndex > PacketsPerRound + 1 THEN packetIndex ELSE packetIndex + 1,
              out |-> IF p.gap THEN [outMsg EXCEPT !.seen = {}] ELSE outMsg, clean |-> clean /\ ~p.gap, aligned |-> aligned, round |-> None],
             [b \in 1..BlocksPerPacket |-> b])

\* A packet of the wrong size is dropped.
ProcessLiarPacket ==
    /\ proc = "run" /\ enable /\ lidar_sem > 0
    /\ lidar_sem' = lidar_sem - 1 /\ lidar_packets' = Tail(lidar_packets)
    /\ IF Head(lidar_packets).kind = "wrong_size" THEN clean' = FALSE /\ aligned' = FALSE /\ outMsg' = [outMsg EXCEPT !.seen = {}] /\ round' = None /\ UNCHANGED packetIndex
       ELSE LET c == Process(Head(lidar_packets)) IN
            /\ packetIndex' = c.index /\ outMsg' = c.out
            /\ clean' = c.clean /\ aligned' = (c.clean /\ c.aligned) /\ round' = c.round
    /\ UNCHANGED <<control, recv, proc, angle, lost, start_angle>>

ProcessEnds ==
    /\ proc = "run" /\ ~enable /\ proc' = "ended"
    /\ UNCHANGED <<control, recv, stream, start_angle, cloud>>

\* ResetStartAngle at any time: every number of 16 bits is taken, also beyond a whole turn of 36000.
MaxAngle == (65535 * Full) \div 36000
ResetStartAngle ==
    /\ \E a \in {0, Full \div 2, MaxAngle} \ {start_angle} : start_angle' = a
    /\ clean' = FALSE /\ aligned' = FALSE /\ outMsg' = [outMsg EXCEPT !.seen = {}] /\ round' = None
    /\ UNCHANGED <<control, recv, proc, stream, packetIndex>>
-----------------------------------------------------------------------------
\* Start: what was queued before a stop is still there, and so is packetIndex; the round is a new one.  The device is then at one of StartAngles.
Start ==
    /\ user = "stopped" /\ starts < MaxStarts /\ user' = "running" /\ starts' = starts + 1 /\ enable' = TRUE
    /\ recv' = "run" /\ proc' = "run"
    /\ angle' \in StartAngles /\ lost' = TRUE
    /\ outMsg' = Empty /\ clean' = FALSE /\ aligned' = FALSE /\ round' = None
    /\ UNCHANGED <<lidar_packets, lidar_sem, start_angle, packetIndex>>

\* Stop: the threads are told to end, and waited for one after the other.
Stop ==
    \/ /\ user = "running" /\ user' = "proc" /\ enable' = FALSE
       /\ UNCHANGED <<starts, recv, proc, stream, start_angle, cloud>>
    \/ /\ user = "proc" /\ proc = "ended" /\ user' = "recv" /\ proc' = "none"
       /\ UNCHANGED <<starts, enable, recv, stream, start_angle, cloud>>
    \/ /\ user = "recv" /\ recv = "ended" /\ user' = "stopped" /\ recv' = "none"
       /\ UNCHANGED <<starts, enable, proc, stream, start_angle, cloud>>

Init ==
    /\ user = "stopped" /\ starts = 0 /\ enable = FALSE
    /\ recv = "none" /\ proc = "none"
    /\ angle = 0 /\ lost = FALSE /\ start_angle = 0 /\ lidar_packets = <<>> /\ lidar_sem = 0
    /\ packetIndex = 0 /\ outMsg = Empty /\ clean = FALSE /\ aligned = FALSE
    /\ round = None

Next ==
    \/ RecvTask \/ RecvEnds \/ ProcessLiarPacket \/ ProcessEnds \/ ResetStartAngle
    \/ Start \/ Stop

Spec == Init /\ [][Next]_vars

\* Both threads run, and a stop is not given up.
Threads == RecvEnds \/ ProcessEnds
StopGoesOn == user # "running" /\ Stop
Fairness == WF_vars(Threads) /\ WF_vars(StopGoesOn)
FairSpec == Spec /\ Fairness
-----------------------------------------------------------------------------
\* A round between two cuts near a start angle of no more than a turn, without a loss in between, has no azimuth twice and lacks no more than what lies around the start angle; no round is longer than the two packets that are allowed beyond a turn; and there is a packet for every count of the semaphore, after a new start either.
LidarSafe ==
    /\ round.whole /\ start_angle <= Full => round.azimuths = round.n /\ round.n >= Full - 2 * LimitDegree
    /\ round.n <= (PacketsPerRound + 2) * BlocksPerPacket
    /\ lidar_sem = Len(lidar_packets)

\* A stop returns, also when no packet comes any more.
StopReturns == user = "proc" ~> user = "stopped"
=============================================================================
