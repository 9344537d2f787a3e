---------------------------- MODULE VelodyneCloud ----------------------------
(***************************************************************************)
(* From the scans of a Velodyne lidar to a cloud (rawdata.cc,              *)
(* calibration.cc, convert.cc, transform.cc): the calibration gives each   *)
(* laser its ring, a reconfiguration sets the view, and the packets of a   *)
(* scan are unpacked one by one, by the model of the device.               *)
(*                                                                         *)
(* Azimuths run from 0 to Full - 1.  A packet has the azimuth and the bank *)
(* of each of its blocks; a block has two channels here.  A point is the   *)
(* azimuth and the ring that it is given, its coordinates are left out.    *)
(***************************************************************************)
EXTENDS Integers, Sequences, FiniteSets, SequencesExt

CONSTANTS
    NumLasers,           \* num_lasers: those of two banks
    Calibrations,        \* the vertical angles a file may give them, natural numbers
    Full,                \* azimuths to a turn, a multiple of 4
    Blocks, Step,        \* NUM_BLOCKS_PER_PACKET; azimuths from one block to the next
    MaxPackets           \* packets of a scan

VARIABLES
    vert, laser_ring, ring, next_angle,   \* the lasers; their rings so far; the next ring, and the angle of the one before
    view,                                 \* view_direction and view_width as configured
    min_angle, max_angle,                 \* what is made of them
    cloud                                 \* history: the scan that was published last, and its points

vars == <<vert, laser_ring, ring, next_angle, view, min_angle, max_angle, cloud>>
calibration == <<vert, laser_ring, ring, next_angle>>
config == <<view, min_angle, max_angle>>

Lasers == 0..NumLasers - 1
Channels == <<0, 1>>
Devices == {"vlp16", "vlp32", "hdl32", "vls128", "hdl64"}
Read == ring = NumLasers
Nothing == [model |-> "none", packets |-> <<>>, points |-> <<>>]
-----------------------------------------------------------------------------
\* Mutant: an angle may be taken again.
NextLaser_Again == {j \in Lasers : next_angle <= vert[j] /\ \A k \in Lasers : next_angle <= vert[k] => vert[j] <= vert[k]}

\* The lasers with the smallest angle above that of the last ring.
NextLaser == {j \in Lasers : next_angle < vert[j] /\ \A k \in Lasers : next_angle < vert[k] => vert[j] <= vert[k]}

\* For each laser ring, find the next-smallest vertical angle: the first laser that has it gets the ring, the others keep ring 0.
AssignRing ==
    /\ ~Read /\ ring' = ring + 1
    /\ IF NextLaser = {} THEN UNCHANGED <<laser_ring, next_angle>>
       ELSE LET j == CHOOSE j \in NextLaser : \A k \in NextLaser : j <= k IN
            laser_ring' = [laser_ring EXCEPT ![j] = ring] /\ next_angle' = vert[j]
    /\ UNCHANGED <<vert, config, cloud>>

\* setParameters: the view, given counterclockwise, becomes a range of azimuths; an empty range becomes a whole turn.
Azimuth(a) == Full - ((a + 2 * Full) % Full)
setParameters(direction, width) ==
    LET lo == Azimuth(direction + width \div 2)  hi == Azimuth(direction - width \div 2) IN
    /\ min_angle' = IF lo = hi THEN 0 ELSE lo
    /\ max_angle' = IF lo = hi THEN Full ELSE hi

\* reconfigure_callback, between two scans.
reconfigure_callback ==
    /\ Read /\ cloud = Nothing
    /\ \E d \in 0..Full - 1, w \in {x \in 0..Full : x % 4 = 0} : view' = [direction |-> d, width |-> w] /\ setParameters(d, w)
    /\ UNCHANGED <<calibration, cloud>>
-----------------------------------------------------------------------------
\* Whether the points of an azimuth are wanted: of a range that goes through 0, all of them.
InArea(a) == \/ min_angle < max_angle /\ a >= min_angle /\ a <= max_angle
             \/ min_angle > max_angle

\* The step to the next block; the last block goes on as the one before it did.
azimuth_diff(p, b) == (Full + (IF b < Len(p) THEN p[b + 1].rotation - p[b].rotation ELSE p[b].rotation - p[b - 1].rotation)) % Full
\* The azimuth at part k of n of that step, rounded.
azimuth_corrected(p, b, k, n) == (p[b].rotation + (2 * azimuth_diff(p, b) * k + n) \div (2 * n)) % Full
Point(azimuth, laser) == [azimuth |-> azimuth, ring |-> laser_ring[laser]]

\* The points of the blocks in view, up to the block n.
InView(p, points) == FlattenSeq([b \in DOMAIN points |-> IF InArea(p[b].rotation) THEN points[b] ELSE <<>>])
\* A block without the header of the upper bank ends the packet.
Upper(p) == LET lower == {b \in DOMAIN p : p[b].bank = "lower"} IN
            IF lower = {} THEN Len(p) ELSE (CHOOSE b \in lower : \A c \in lower : b <= c) - 1

\* Two sequences of firings to a block, ...
unpack_vlp16(p) == InView(p, [b \in 1..Upper(p) |-> [k \in 1..4 |-> Point(azimuth_corrected(p, b, k - 1, 4), (k - 1) % 2)]])
\* ... pairs of channels that fire together, here the first and the last one, ...
unpack_vlp32(p) == InView(p, [b \in 1..Upper(p) |-> [k \in 1..2 |-> Point(azimuth_corrected(p, b, 15 * (k - 1), 24), k - 1)]])
\* ... or channels that fire one by one.
unpack_hdl32(p) == InView(p, [b \in 1..Upper(p) |-> [k \in 1..2 |-> Point(azimuth_corrected(p, b, 31 * (k - 1), 40), k - 1)]])
\* Groups of channels that follow each other from block to block; the azimuth is not corrected, nor the header looked at.
unpack_vls128(p) == InView(p, [b \in 1..Len(p) |-> [k \in 1..2 |-> Point(azimuth_corrected(p, b, 0, 1), (k - 1) + 2 * ((b - 1) % 2))]])
\* The header tells the bank.
unpack_hdl64(p) == InView(p, [b \in 1..Len(p) |-> [k \in 1..2 |-> Point(p[b].rotation, (k - 1) + IF p[b].bank = "lower" THEN 2 ELSE 0)]])

\* unpack, by the model that the packet names.
unpack(model, p) ==
    CASE model = "vlp16" -> unpack_vlp16(p)
      [] model = "vlp32" -> unpack_vlp32(p)
      [] model = "hdl32" -> unpack_hdl32(p)
      [] model = "vls128" -> unpack_vls128(p)
      [] model = "hdl64" -> unpack_hdl64(p)

Scans(n) ==
    {[i \in 1..n |-> [b \in 1..Blocks |-> [rotation |-> (first + Step * (Blocks * (i - 1) + b - 1)) % Full, bank |-> banks[b]]]] :
        first \in 0..Full - 1, banks \in [1..Blocks -> {"upper", "lower"}]}

\* processScan of Convert: the points of every packet ...
Convert ==
    /\ Read /\ cloud = Nothing
    /\ \E model \in Devices, n \in 1..MaxPackets : \E packets \in Scans(n) :
         cloud' = [model |-> model, packets |-> packets, points |-> FlattenSeq([i \in 1..n |-> unpack(model, packets[i])])]
    /\ UNCHANGED <<calibration, config>>

\* ... and of Transform: only those of the packets that can be transformed at their own time.
Transform ==
    /\ Read /\ cloud = Nothing
    /\ \E model \in Devices, n \in 1..MaxPackets : \E packets \in Scans(n), skipped \in 1..n :
         LET kept == RemoveAt(packets, skipped) IN
         cloud' = [model |-> model, packets |-> kept, points |-> FlattenSeq([i \in DOMAIN kept |-> unpack(model, kept[i])])]
    /\ UNCHANGED <<calibration, config>>

\* External: the cloud is taken, and the history forgets it.
Taken == cloud # Nothing /\ cloud' = Nothing /\ UNCHANGED <<calibration, config>>

\* setup: the file is read; a first reconfiguration comes before the first scan.
Init ==
    /\ vert \in Calibrations /\ laser_ring = [j \in Lasers |-> 0] /\ ring = 0 /\ next_angle = -1
    /\ view = [direction |-> 0, width |-> Full] /\ min_angle = 0 /\ max_angle = Full
    /\ cloud = Nothing

Next == AssignRing \/ reconfigure_callback \/ Convert \/ Transform \/ Taken

Spec == Init /\ [][Next]_vars
-----------------------------------------------------------------------------
\* The rank of a laser's angle.
Rank(j) == Cardinality({vert[k] : k \in {l \in Lasers : vert[l] < vert[j]}})

\* With different angles the rings are the ranks of the angles; of lasers with the same angle only the first has a ring of its own.
RingsRanked ==
    Read => \A j \in Lasers : laser_ring[j] = IF \A k \in Lasers : vert[k] = vert[j] => j <= k THEN Rank(j) ELSE 0

\* How far an azimuth lies behind the left edge of the view, clockwise; how far b lies behind a.
Behind(a) == (a + view.direction + view.width \div 2) % Full
Ahead(a, b) == (b - a + Full) % Full

\* The lasers of a block.
LasersOf(model, p, b) ==
    CASE model = "hdl64" /\ p[b].bank = "lower" -> {2, 3}
      [] model = "vls128" /\ b % 2 = 0 -> {2, 3}
      [] OTHER -> {0, 1}

\* Every laser of a block inside the view has its point between this block and the next one, if no block before it has a wrong header; and no point is outside of the view by more than a step, unless the view goes through azimuth 0.
CloudInView ==
    /\ \A i \in DOMAIN cloud.packets :
         LET p == cloud.packets[i] IN
         \A b \in DOMAIN p :
           /\ Behind(p[b].rotation) > 0 /\ Behind(p[b].rotation) < view.width
           /\ cloud.model \in {"vls128", "hdl64"} \/ \A c \in 1..b : p[c].bank = "upper"
           => \A j \in LasersOf(cloud.model, p, b) : \E k \in DOMAIN cloud.points :
                cloud.points[k].ring = laser_ring[j] /\ Ahead(p[b].rotation, cloud.points[k].azimuth) <= Step
    /\ min_angle < max_angle /\ view.width > 0 =>
         \A k \in DOMAIN cloud.points : Behind(cloud.points[k].azimuth) <= view.width + Step

VelodyneSafe == RingsRanked /\ CloudInView
=============================================================================
