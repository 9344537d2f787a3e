------------------------------- MODULE ObuLight -------------------------------
(***************************************************************************)
(* The traffic light policy of the on-board unit (v2x_traffic_light.cc):   *)
(* from a map, a signal message and the status of the car, the lights of   *)
(* the lane the car is on.                                                 *)
(*                                                                         *)
(* Geometry is left out: an intersection comes with its distance and       *)
(* whether it lies ahead, a lane with the distance of its stop line.  What *)
(* could not be converted is bad.  A phase lists its states in the order   *)
(* of the message.                                                         *)
(***************************************************************************)
EXTENDS Integers, Sequences, SequencesExt, FiniteSets

CONSTANTS
    Maps,        \* nonempty sequences of [id, ahead, dist, roads], a road a sequence of lanes [ok, points, connections]
    Spats,       \* sequences of [id, stamp, phases], a phase being [id, states], a state [now, light]
    Reference,   \* kReferenceValue: beyond this distance nothing is looked for
    NoLane,      \* no lane
    MaxCalls     \* bound: messages of one behaviour

VARIABLES
    sequence_num, previous,   \* sequence_num_; previous_moy_ and previous_dsecond_
    input,    \* the map, the signals and whether the car has a position
    output    \* what was returned, the lane it is for and its lights

vars == <<sequence_num, previous, input, output>>
-----------------------------------------------------------------------------
\* ReadMap: one bad connection or point spoils the whole map.
ReadMap(map) == \A i \in DOMAIN map : \A r \in DOMAIN map[i].roads : \A l \in DOMAIN map[i].roads[r] : map[i].roads[r][l].ok

\* ReadSpat: the colour of a phase is that of the last of its states that has begun; a light that is not known spoils the message.
Color(light) ==
    CASE light = 0 -> "unknown" [] light = 1 -> "black" [] light = 3 -> "red" [] light = 7 -> "yellow"
      [] light \in {5, 6} -> "green" [] light = 8 -> "flash_green"
Known == {0, 1, 3, 5, 6, 7, 8}
ReadSpat(spat) ==
    \A m \in DOMAIN spat : \A n \in DOMAIN spat[m].phases : \A k \in DOMAIN spat[m].phases[n].states :
        LET s == spat[m].phases[n].states[k] IN s.now => s.light \in Known

\* Mutant: the first state counts, begun or not.
PhaseColor_First(phase) == IF phase.states = <<>> \/ Head(phase.states).light \notin Known THEN "unknown" ELSE Color(Head(phase.states).light)

PhaseColor(phase) == FoldLeft(LAMBDA c, s : IF s.now THEN Color(s.light) ELSE c, "unknown", phase.states)

\* The nearest intersection ahead; the first one of the map when none is.
Intersection(map) ==
    FoldLeft(LAMBDA best, i : IF map[i].ahead /\ map[i].dist < best[1] THEN <<map[i].dist, i>> ELSE best,
             <<Reference, 1>>, [i \in DOMAIN map |-> i])[2]

\* The lane whose stop line is nearest.
Lanes(x) == FlattenSeq([r \in DOMAIN x.roads |-> [l \in DOMAIN x.roads[r] |-> <<r, l>>]])
StopLine(x, rl) == Last(x.roads[rl[1]][rl[2]].points)
CurrentLane(x) ==
    FoldLeft(LAMBDA best, rl : IF StopLine(x, rl) < best[1] THEN <<StopLine(x, rl), rl>> ELSE best,
             <<Reference, <<1, 1>>>>, Lanes(x))[2]

\* A map without roads, a road without lanes and a lane without points are refused.
Complete(x) ==
    /\ x.roads # <<>>
    /\ \A r \in DOMAIN x.roads : x.roads[r] # <<>> /\ \A l \in DOMAIN x.roads[r] : x.roads[r][l].points # <<>>

\* The signals of this intersection: the first ones with its id.
Match(spat, id) == SelectInSeq(spat, LAMBDA s : s.id = id)

\* A light for each pair of a phase and a connection of the lane with the same phase id.
Lights(state, lane) ==
    FlattenSeq([n \in DOMAIN state.phases |->
        FlattenSeq([p \in DOMAIN lane.connections |->
            IF state.phases[n].id = lane.connections[p] THEN <<PhaseColor(state.phases[n])>> ELSE <<>>])])

\* The timestamp test: what it compares with is only kept when it fails.
Late(stamp) == stamp # <<>> /\ ~(stamp[1] >= previous[1] /\ stamp[2] >= previous[2])

Return(ret, lane, lights) == output' = [ret |-> ret, lane |-> lane, lights |-> lights]
Refuse(ret) == Return(ret, NoLane, <<>>) /\ UNCHANGED <<sequence_num, previous>>

TrafficLightPolicy(map, spat) ==
    LET i == Intersection(map)
        x == map[i]
        m == Match(spat, x.id)
        rl == CurrentLane(x)
        lane == x.roads[rl[1]][rl[2]]
    IN
    IF ~Complete(x) \/ m = 0 THEN Refuse("PolicyFailed")
    ELSE IF Late(spat[m].stamp)
      THEN Return("PolicyFailed", NoLane, <<>>) /\ previous' = spat[m].stamp /\ UNCHANGED sequence_num
    ELSE /\ Return("Successful", <<i, rl>>, Lights(spat[m], lane))
         /\ sequence_num' = sequence_num + 1 /\ UNCHANGED previous

TrafficLightApp ==
    /\ sequence_num < MaxCalls
    /\ \E map \in Maps, spat \in Spats, position \in BOOLEAN :
         /\ input' = [map |-> map, spat |-> spat]
         /\ IF ~ReadMap(map) THEN Refuse("ReadMapFailed")
            ELSE IF ~ReadSpat(spat) THEN Refuse("ReadSpatFailed")
            ELSE IF ~position THEN Refuse("PolicyFailed")
            ELSE TrafficLightPolicy(map, spat)

Init ==
    /\ sequence_num = 0 /\ previous = <<0, 0>>
    /\ input = [map |-> <<>>, spat |-> <<>>]
    /\ output = [ret |-> "none", lane |-> NoLane, lights |-> <<>>]

Next == TrafficLightApp
Spec == Init /\ [][Next]_vars
-----------------------------------------------------------------------------
\* The colour that a phase has now, whatever else its message says of it.
HasColor(phase, c) ==
    LET begun == {k \in DOMAIN phase.states : phase.states[k].now} IN
    IF begun = {} THEN c = "unknown"
    ELSE \E k \in begun : Color(phase.states[k].light) = c /\ \A j \in begun : j <= k

\* When lights are returned, the lane is one of the nearest of an intersection that lies ahead and is the nearest such one, if any is within reach; there is one light for every connection of that lane that the signals have a phase for, and each has the colour of its phase at present.
LightRight ==
    output.ret = "Successful" =>
      LET map == input.map
          i == output.lane[1]
          rl == output.lane[2]
          x == map[i]
          lane == x.roads[rl[1]][rl[2]]
          ahead == {j \in DOMAIN map : map[j].ahead /\ map[j].dist < Reference}
          state == input.spat[Match(input.spat, x.id)]
          pairs == {q \in (DOMAIN state.phases) \X (DOMAIN lane.connections) : state.phases[q[1]].id = lane.connections[q[2]]}
      IN
      /\ ahead # {} => i \in ahead /\ \A j \in ahead : map[i].dist <= map[j].dist
      /\ \A r \in DOMAIN x.roads : \A l \in DOMAIN x.roads[r] : StopLine(x, <<r, l>>) < Reference => StopLine(x, rl) <= StopLine(x, <<r, l>>)
      /\ Len(output.lights) = Cardinality(pairs)
      /\ \A q \in pairs : \E k \in DOMAIN output.lights : HasColor(state.phases[q[1]], output.lights[k])
      /\ \A k \in DOMAIN output.lights : \E q \in pairs : HasColor(state.phases[q[1]], output.lights[k])
=============================================================================
