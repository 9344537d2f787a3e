------------------------------ MODULE LidarSweep ------------------------------
(***************************************************************************)
(* The decoder of the LeiShen lidar (lslidar_decoder.cpp): the firings of  *)
(* each packet are given their azimuths and collected into sweeps, which   *)
(* are published when the azimuth jumps back.                              *)
(*                                                                         *)
(* Azimuths are counted in steps between two firings, Full of them to a    *)
(* turn, which need not be whole packets.  A packet is the azimuth of its  *)
(* first block; every other firing has one that is interpolated.  The      *)
(* points of a firing, and which of them are in range, are left out.       *)
(*                                                                         *)
(* Any number of packets in a row may be lost, by the network or a full    *)
(* queue of the subscriber.  When their firings are half a turn or more,   *)
(* the test for a jump misses the end of a turn, or sees one too many.     *)
(***************************************************************************)
EXTENDS Integers, Sequences, FiniteSets, SequencesExt

CONSTANTS
    Firings,    \* FIRINGS_PER_PACKET, two to a block
    Full,       \* steps to a turn
    Layers,     \* channels of the device, 0..15 in the code
    MaxLost,    \* bound: packets lost in a row
    MaxSweep    \* bound: firings of a sweep beyond which no packet is lost

VARIABLES
    angle,            \* of the next packet
    is_first_sweep, last_azimuth,
    sweep_data,       \* the firings of this sweep
    layer_num,        \* the channel that is published as a scan
    gap,              \* packets lost before this one
    clean, wide,      \* history: no packet was lost during this sweep; half a turn or more was, in a row
    count,            \* history: sweeps published, up to 3
    published, wild   \* history: the sweep published by this packet, and its firings with an index outside the tables

vars == <<angle, is_first_sweep, last_azimuth, sweep_data, layer_num, gap, clean, wide, count, published, wild>>
Nothing == [firings |-> <<>>, clean |-> FALSE, wide |-> FALSE]
-----------------------------------------------------------------------------
\* The azimuth of a block.
Rotation(a, blk) == (a + 2 * blk) % Full

\* Between two blocks half of their difference is added, after the last one half of the difference before it; beyond a whole turn a turn is taken off.
Interpolate(a, fir) ==
    LET l == IF fir = Firings - 1 THEN (fir - 3) \div 2 ELSE (fir - 1) \div 2
        d == Rotation(a, l + 1) - Rotation(a, l)
        azimuth == Rotation(a, (fir - 1) \div 2) + (IF d < 0 THEN d + Full ELSE d) \div 2
    IN IF azimuth > Full THEN azimuth - Full ELSE azimuth

\* decodePacket: the azimuths of the firings of a packet.
decodePacket(a) == [f \in 1..Firings |-> IF f % 2 = 1 THEN Rotation(a, (f - 1) \div 2) ELSE Interpolate(a, f - 1)]

\* The lowest index of a firing into the tables of sines, in parts of DSR_TOFFSET / FIRING_TOFFSET: its channels are spread over the difference to the next firing; the last firing has the difference to the one before.
TableIndex(firings, f) ==
    LET d == IF f < Firings THEN firings[f + 1] - firings[f] ELSE firings[f] - firings[f - 1] IN
    24 * firings[f] + (IF d < 0 THEN 15 * d ELSE 0)

Distance(a, b) == IF a > b THEN a - b ELSE b - a

\* The azimuth jumps by more than half a turn.
Jump(firings, last, f) == 2 * Distance(firings[f], IF f = 1 THEN last ELSE firings[f - 1]) > Full

\* new_sweep_start: the first firing of a new sweep; all of them when there is none.
NewSweepStart(firings, last) ==
    LET jumps == {f \in 1..Firings : Jump(firings, last, f)} IN
    IF jumps = {} THEN Firings ELSE (CHOOSE f \in jumps : \A g \in jumps : f <= g) - 1

\* last_azimuth after the search for it: of the firing before the jump.
Searched(firings, start) == IF start = 0 THEN last_azimuth ELSE firings[start]

\* From the last firing before the loss to the first one after it is half a turn or more.
HalfLost == gap > 0 /\ 2 * (gap * Firings + 1) >= Full
-----------------------------------------------------------------------------
\* The first sweep is waited for; its firings are dropped.
WaitForSweep(firings, start) ==
    /\ is_first_sweep /\ start = Firings
    /\ last_azimuth' = Searched(firings, start) /\ published' = Nothing
    /\ UNCHANGED <<is_first_sweep, sweep_data, clean, wide, count>>

\* It ends: the rest of the packet is kept, and last_azimuth stays before the jump.
FirstSweep(firings, start) ==
    /\ is_first_sweep /\ start < Firings
    /\ is_first_sweep' = FALSE
    /\ sweep_data' = sweep_data \o SubSeq(firings, start + 1, Firings)
    /\ last_azimuth' = Searched(firings, start) /\ published' = Nothing /\ clean' = (gap = 0) /\ wide' = HalfLost
    /\ UNCHANGED count

\* The packet goes on with the sweep ...
Collect(firings, start) ==
    /\ ~is_first_sweep /\ start = Firings
    /\ sweep_data' = sweep_data \o firings
    /\ last_azimuth' = Searched(firings, start) /\ published' = Nothing /\ clean' = (clean /\ gap = 0) /\ wide' = (wide \/ HalfLost)
    /\ UNCHANGED <<is_first_sweep, count>>

\* Mutant: the azimuth before the jump is kept.
Publish_KeepLast(firings, start) ==
    /\ ~is_first_sweep /\ start < Firings
    /\ published' = [firings |-> sweep_data \o SubSeq(firings, 1, start), clean |-> clean /\ gap = 0, wide |-> wide \/ HalfLost]
    /\ clean' = (gap = 0) /\ wide' = HalfLost
    /\ sweep_data' = SubSeq(firings, start + 1, Firings)
    /\ last_azimuth' = Searched(firings, start)
    /\ count' = IF count < 3 THEN count + 1 ELSE count
    /\ UNCHANGED is_first_sweep

\* ... or ends it: the sweep, the cloud and the scans are published and a new sweep is begun with the rest.
Publish(firings, start) ==
    /\ ~is_first_sweep /\ start < Firings
    /\ published' = [firings |-> sweep_data \o SubSeq(firings, 1, start), clean |-> clean /\ gap = 0, wide |-> wide \/ HalfLost]
    /\ clean' = (gap = 0) /\ wide' = HalfLost
    /\ sweep_data' = SubSeq(firings, start + 1, Firings)
    /\ last_azimuth' = firings[Firings]
    /\ count' = IF count < 3 THEN count + 1 ELSE count
    /\ UNCHANGED is_first_sweep

\* A packet of firings; another one is dropped by checkPacketValidity.
packetCallback ==
    /\ LET firings == decodePacket(angle)
           start == NewSweepStart(firings, last_azimuth)
       IN /\ WaitForSweep(firings, start) \/ FirstSweep(firings, start) \/ Collect(firings, start) \/ Publish(firings, start)
          /\ wild' = {f \in 1..Firings : TableIndex(firings, f) < 0}
    /\ angle' = (angle + Firings) % Full /\ gap' = 0
    /\ UNCHANGED layer_num

\* A packet is lost on its way.
LosePacket ==
    /\ gap < MaxLost /\ Len(sweep_data) <= MaxSweep
    /\ gap' = gap + 1 /\ published' = Nothing /\ wild' = {}
    /\ angle' = (angle + Firings) % Full
    /\ UNCHANGED <<is_first_sweep, last_azimuth, sweep_data, layer_num, clean, wide, count>>

\* A channel is chosen; numbers outside are taken for the nearest one.
layerCallback ==
    /\ \E num \in -1..Layers : layer_num' = IF num < 0 THEN 0 ELSE IF num > Layers - 1 THEN Layers - 1 ELSE num
    /\ published' = Nothing /\ wild' = {}
    /\ UNCHANGED <<angle, is_first_sweep, last_azimuth, sweep_data, gap, clean, wide, count>>

Init ==
    /\ angle \in 0..Full - 1 /\ is_first_sweep = TRUE /\ last_azimuth = 0 /\ sweep_data = <<>>
    /\ layer_num = Layers \div 2
    /\ gap = 0 /\ clean = FALSE /\ wide = FALSE /\ count = 0 /\ published = Nothing /\ wild = {}

Next == packetCallback \/ LosePacket \/ layerCallback

Spec == Init /\ [][Next]_vars
-----------------------------------------------------------------------------
\* After the first two, a sweep has no azimuth twice, unless half a turn or more was lost in a row while it was collected, and every azimuth of a turn when no packet was lost, also after such a loss; the channel that is published exists; and an index leaves the tables only for the last firing of a packet.
SweepWhole ==
    /\ LET seen == {published.firings[i] % Full : i \in DOMAIN published.firings} IN
       count > 2 => /\ ~published.wide => Cardinality(seen) = Len(published.firings)
                    /\ published.clean => seen = 0..Full - 1
    /\ layer_num \in 0..Layers - 1
    /\ wild \subseteq {Firings}
=============================================================================
