--------------------------- MODULE LidarCompensator ---------------------------
(***************************************************************************)
(* The motion compensation of clouds (compensator.cc of Pandora, and its   *)
(* copies for RoboSense and LeiShen): the points of a cloud were measured  *)
(* one after the other from a moving car; each is moved to where it would  *)
(* have been measured at the time of the last one.  The poses of the first *)
(* and the last point come from tf, whose buffer is filled by a thread of  *)
(* its own and forgets old poses.                                          *)
(*                                                                         *)
(* The plane is that of the Eisenstein integers: <<a, b>> is a + b*w for w *)
(* the rotation by 60 degrees, so that rotations, products and slerp are   *)
(* exact.  A heading is a number of such rotations.                        *)
(***************************************************************************)
EXTENDS Integers, Sequences, FiniteSets

CONSTANTS
    Velocities, TurnRates, Headings,    \* how the car moves, and its heading at time 0
    Landmarks,          \* what the lidar measures, in the world
    ScanLen,            \* bound on the time from the first to the last point; |turn rate| * ScanLen < 3
    Layouts,            \* fields of the clouds that the driver publishes
    TfSpan,             \* how long tf keeps poses
    QueueSize,          \* queue_size
    MaxTime             \* bound on the times of poses and points

VARIABLES
    motion,             \* velocity, turn rate, heading at time 0; the fields of the clouds
    made,               \* the time of the last point that was measured
    tf,                 \* the times of the oldest and the newest pose in the buffer of tf
    offsets,            \* the fields whose offsets are known: x_offset_ ... timestamp_offset_
    queue,              \* clouds waiting for the callback
    call,               \* the callback: step, cloud, timestamp_min, timestamp_max and their poses
    out                 \* the last cloud that was published, and the stamp of the one before

vars == <<motion, made, tf, offsets, queue, call, out>>

-----------------------------------------------------------------------------
(* Geometry. *)

NaN == <<>>

Plus(p, q) == <<p[1] + q[1], p[2] + q[2]>>
Minus(p, q) == <<p[1] - q[1], p[2] - q[2]>>
Scale(p, n, d) == <<(p[1] * n) \div d, (p[2] * n) \div d>>

\* p rotated by k times 60 degrees.
Rotate(k, p) ==
    CASE k % 6 = 0 -> p
      [] k % 6 = 1 -> <<-p[2], p[1] + p[2]>>
      [] k % 6 = 2 -> <<-(p[1] + p[2]), p[1]>>
      [] k % 6 = 3 -> <<-p[1], -p[2]>>
      [] k % 6 = 4 -> <<p[2], -(p[1] + p[2])>>
      [] OTHER -> <<p[1] + p[2], -p[1]>>

\* Where the car is at time t.
PoseAt(t) == [x |-> Scale(motion.v, t, 1), h |-> motion.h + motion.r * t]

\* What the lidar measures at time t of something at w in the world.
Measured(w, t) == Rotate(-PoseAt(t).h, Minus(w, PoseAt(t).x))

-----------------------------------------------------------------------------

NoCall == [pc |-> "idle", msg |-> {}, min |-> 0, max |-> 0, pose_min |-> 0, pose_max |-> 0]

Init ==
    /\ motion \in [v : Velocities, r : TurnRates, h : Headings, fields : Layouts]
    /\ made = 0
    /\ tf = [from |-> 0, to |-> 0]
    /\ offsets = {}
    /\ queue = <<>>
    /\ call = NoCall
    /\ out = [msg |-> {}, stamp |-> 0, before |-> -1]

\* tf gets the pose of one more unit of time, and forgets the oldest.
Pose ==
    /\ tf.to < MaxTime
    /\ tf' = [from |-> IF tf.to + 1 - TfSpan > tf.from THEN tf.to + 1 - TfSpan ELSE tf.from,
              to |-> tf.to + 1]
    /\ UNCHANGED <<motion, made, offsets, queue, call, out>>

\* The driver publishes a cloud of the points of n + 1 units of time, or one without
\* points; what it could not measure is NaN.  A full queue loses its oldest cloud.
Cloud(n, hidden, empty) ==
    LET times == (made + 1)..(made + 1 + n)
        msg == IF empty THEN {}
               ELSE {[t |-> t, w |-> w, hidden |-> <<w, t>> = hidden,
                      p |-> IF <<w, t>> = hidden THEN NaN ELSE Measured(w, t)] :
                        w \in Landmarks, t \in times}
    IN /\ made + 1 + n <= MaxTime
       /\ made' = made + 1 + n
       /\ queue' = Append(IF Len(queue) = QueueSize THEN Tail(queue) ELSE queue, msg)
       /\ UNCHANGED <<motion, tf, offsets, call, out>>

-----------------------------------------------------------------------------
(* The callback. *)

\* The offsets of fields that a cloud has replace those of clouds before it.
KnownOffsets == offsets \cup motion.fields

check_message(msg) == msg # {} /\ {"x", "y", "z", "timestamp"} \subseteq KnownOffsets

TimestampMin(msg) == CHOOSE t \in {q.t : q \in msg} : \A q \in msg : t <= q.t
TimestampMax(msg) == CHOOSE t \in {q.t : q \in msg} : \A q \in msg : t >= q.t

\* pointcloud_callback up to the first query.
pointcloud_callback ==
    LET msg == Head(queue)
    IN /\ call.pc = "idle"
       /\ queue # <<>>
       /\ queue' = Tail(queue)
       /\ offsets' = IF msg = {} THEN offsets ELSE KnownOffsets
       /\ call' = IF check_message(msg)
                  THEN [call EXCEPT !.pc = "can_min", !.msg = msg,
                                    !.min = TimestampMin(msg), !.max = TimestampMax(msg)]
                  ELSE call
       /\ UNCHANGED <<motion, made, tf, out>>

InBuffer(t) == t \in tf.from..tf.to

\* canTransform waits until tf knows the pose, or for tf_timeout_.
canTransform ==
    \/ /\ call.pc = "can_min" /\ InBuffer(call.min)
       /\ call' = [call EXCEPT !.pc = "look_min"]
       /\ UNCHANGED <<motion, made, tf, offsets, queue, out>>
    \/ /\ call.pc = "can_max" /\ InBuffer(call.max)
       /\ call' = [call EXCEPT !.pc = "look_max"]
       /\ UNCHANGED <<motion, made, tf, offsets, queue, out>>

\* lookupTransform, and transformMsgToEigen.
lookupTransform ==
    \/ /\ call.pc = "look_min" /\ InBuffer(call.min)
       /\ call' = [call EXCEPT !.pc = "can_max", !.pose_min = PoseAt(call.min)]
       /\ UNCHANGED <<motion, made, tf, offsets, queue, out>>
    \/ /\ call.pc = "look_max" /\ InBuffer(call.max)
       /\ call' = [call EXCEPT !.pc = "compensate", !.pose_max = PoseAt(call.max)]
       /\ UNCHANGED <<motion, made, tf, offsets, queue, out>>

\* query_pose_affine_from_tf2 fails: the wait was too long, or the pose was forgotten
\* before it was looked up.  The cloud is not published.
QueryFails ==
    /\ \/ call.pc \in {"can_min", "look_min"} /\ ~InBuffer(call.min)
       \/ call.pc \in {"can_max", "look_max"} /\ ~InBuffer(call.max)
    /\ call' = NoCall
    /\ UNCHANGED <<motion, made, tf, offsets, queue, out>>

\* Mutant: the translation is left in the world's axes.
Translation_InWorld(pose_min, pose_max) == Minus(pose_min.x, pose_max.x)

\* The way back from the last pose to the first, in the axes of the last.
Translation(pose_min, pose_max) == Rotate(-pose_max.h, Minus(pose_min.x, pose_max.x))

\* The rotation of q_max.conjugate() * q_min, the short way round.
Rotation(pose_min, pose_max) == ((pose_min.h - pose_max.h + 2) % 6) - 2

\* Rotation is not significant: translation only.
Moved(p, ti) == Plus(p, ti)

\* The rotation is interpolated by slerp, then the translation.
Turned(p, ti, qi) == Plus(Rotate(qi, p), ti)

\* A point at its share t = (timestamp_max - tp) / (timestamp_max - timestamp_min) of
\* the way back.  When all points have one time, f is infinite and t not a number.
Compensated(q) ==
    LET span == call.max - call.min
        share == call.max - q.t
        ti == Scale(Translation(call.pose_min, call.pose_max), share, span)
        turn == Rotation(call.pose_min, call.pose_max)
    IN IF q.p = NaN \/ span = 0 THEN NaN
       ELSE IF turn = 0 THEN Moved(q.p, ti)
       ELSE Turned(q.p, ti, (turn * share) \div span)

\* motion_compensation, and the publication with the time of the last point.
motion_compensation ==
    /\ call.pc = "compensate"
    /\ out' = [msg |-> {[q EXCEPT !.p = Compensated(q)] : q \in call.msg},
               stamp |-> call.max, before |-> out.stamp]
    /\ call' = NoCall
    /\ UNCHANGED <<motion, made, tf, offsets, queue>>

Next ==
    \/ Pose
    \/ \E n \in 0..ScanLen, empty \in BOOLEAN :
         \E hidden \in (Landmarks \X {made + 1}) \cup {<<>>} : Cloud(n, hidden, empty)
    \/ pointcloud_callback
    \/ canTransform \/ lookupTransform \/ QueryFails
    \/ motion_compensation

Spec == Init /\ [][Next]_vars

-----------------------------------------------------------------------------
(* Properties. *)

TypeOK ==
    /\ offsets \subseteq {"x", "y", "z", "intensity", "timestamp"}
    /\ Len(queue) <= QueueSize
    /\ call.pc \in {"idle", "can_min", "look_min", "can_max", "look_max", "compensate"}

\* Whatever poses came and went while the callback waited, all points of a published
\* cloud are where the lidar would have measured them at its stamp, all from one place
\* and in one direction.  Only points that were NaN are NaN, and those of a cloud whose
\* points all have one time.
OneTime(msg) == \A q, r \in msg : q.t = r.t

Placed ==
    \A q \in out.msg :
        q.p = IF q.hidden \/ OneTime(out.msg) THEN NaN ELSE Measured(q.w, out.stamp)

\* Stamps of published clouds ascend, and clouds without times are not published.
Ascending == out.before < out.stamp \/ out.msg = {}

CompensatorSafe ==
    /\ TypeOK /\ Placed /\ Ascending
    /\ out.msg # {} => "timestamp" \in motion.fields
=============================================================================
