----------------------------- MODULE RslidarCloud -----------------------------
(***************************************************************************)
(* From the scans of a RoboSense lidar to files: the converter collects    *)
(* the blocks of a scan in a picture (rslidar16Parser.cpp,                 *)
(* rslidar32Parser.cpp, convert.cpp), and the exporter writes a cloud once *)
(* its pose is known (pcd_exporter.cpp).                                   *)
(*                                                                         *)
(* A scan is a sequence of packets, a packet the azimuths of its blocks;   *)
(* a block of -1 has the header of a device packet.  The coordinates of    *)
(* the points, their temperature and their intensity are left out.  The    *)
(* time of a cloud is the number of its scan, and time_offset_ the time    *)
(* between two scans.                                                      *)
(***************************************************************************)
EXTENDS Integers, Sequences, SequencesExt

CONSTANTS
    Packets,              \* the packets a device can send
    Npackets,             \* packets of a scan
    Full, MaxStep,        \* steps of a turn; the widest step between two blocks
    Capacity,             \* DATA_NUMBER_PER_SCAN, in blocks: there is room for Npackets
    Window,               \* how long poses are kept
    QueueSize,            \* queue_size of the subscribers: beyond it ROS drops the oldest message
    MaxScans, MaxWait     \* bounds: scans; clouds that wait for their pose

VARIABLES
    time,                 \* scans so far
    scans, clouds,        \* messages to the converter and to the exporter
    pic,                  \* the picture: pic.col blocks, each with its scan
    tf, static,           \* the last time with a pose; the times at which the vehicle stood still
    seq,                  \* clouds published so far, which is header.seq of the last one
    use_seq_as_index_, skip_static_frames_,
    queue_, pc_msg_count_,
    iter,                 \* of the callback at work: the cloud of queue_ that it tries (0: none)
    poses, files          \* lines of the pose file; clouds written, with their numbers

vars == <<time, scans, clouds, pic, tf, static, seq, use_seq_as_index_, skip_static_frames_, queue_, pc_msg_count_, iter, poses, files>>
export == <<use_seq_as_index_, skip_static_frames_, queue_, pc_msg_count_, iter, poses, files>>

\* External: a publisher puts a message into the queue of a subscriber.
Enqueue(q, m) == IF Len(q) < QueueSize THEN Append(q, m) ELSE Append(Tail(q), m)
-----------------------------------------------------------------------------
\* The driver publishes a scan.
Scan ==
    /\ time < MaxScans /\ time' = time + 1
    /\ \E p \in [1..Npackets -> Packets] : scans' = Enqueue(scans, [time |-> time + 1, packets |-> p])
    /\ UNCHANGED <<clouds, pic, tf, static, seq, export>>

\* The step from a block to the next one; for the last block, from the one before.
azimuth_diff(p, b) == (Full + (IF b < Len(p) THEN p[b + 1] - p[b] ELSE p[b] - p[b - 1])) % Full

\* The blocks of a packet that are kept: those before a header of another kind, with a step that is not abnormal.
Kept(p) ==
    LET n == IF \E b \in DOMAIN p : p[b] = -1 THEN (CHOOSE b \in DOMAIN p : p[b] = -1 /\ \A c \in 1..b - 1 : p[c] # -1) - 1 ELSE Len(p)
    IN SelectSeq([b \in 1..n |-> b], LAMBDA b : azimuth_diff(p, b) > 0 /\ azimuth_diff(p, b) <= MaxStep)

\* unpack of a packet: its blocks go to the end of the picture.
unpack(pc, t, p) == pc \o [i \in DOMAIN Kept(p) |-> t]

\* Mutant: the picture is not set up again.
init_setup_Keep(pc) == pc

\* The picture after a scan.
init_setup(pc) == <<>>

\* convert_packets_to_pointcloud: with the last packet the picture becomes a cloud; an empty one is not published.
convert_packets_to_pointcloud ==
    /\ scans # <<>> /\ scans' = Tail(scans)
    /\ LET s == Head(scans)
           full == FoldLeft(LAMBDA pc, p : unpack(pc, s.time, p), pic, s.packets)
       IN /\ IF full = <<>> THEN UNCHANGED <<clouds, seq>>
             ELSE seq' = seq + 1 /\ clouds' = Enqueue(clouds, [time |-> s.time, seq |-> seq', blocks |-> full])
          /\ pic' = init_setup(full)
    /\ UNCHANGED <<time, tf, static, export>>

\* External: the pose of one more time becomes known.
Pose ==
    /\ tf < time /\ tf' = tf + 1
    /\ static' \in {static, static \union {tf + 1}}
    /\ UNCHANGED <<time, scans, clouds, pic, seq, export>>

\* get_pose, which waits no longer than a moment: poses are forgotten, too.
get_pose(t) == t <= tf /\ t > tf - Window

\* write_pcd_pose_file answers 0: the pose is known and, to skip the frames of a vehicle that stands still, the one before it.
Posed(c) == get_pose(c.time) /\ (skip_static_frames_ => get_pose(c.time - 1))

\* With a cloud written, those before it are discarded.
Discard(q, i) == SubSeq(q, i + 1, Len(q))

\* pcd_writer_callback: one cloud more is waiting, and each that waits is tried in turn, the oldest first; ...
pcd_writer_callback ==
    /\ iter = 0 /\ clouds # <<>> /\ Len(queue_) < MaxWait
    /\ clouds' = Tail(clouds) /\ queue_' = Append(queue_, Head(clouds)) /\ iter' = 1
    /\ UNCHANGED <<time, scans, pic, tf, static, seq, use_seq_as_index_, skip_static_frames_, pc_msg_count_, poses, files>>

\* ... with its pose it is written, and with a line of the pose file unless the vehicle stood still; ...
WriteCloud ==
    /\ iter > 0 /\ Posed(queue_[iter])
    /\ LET c == queue_[iter]
           index == IF use_seq_as_index_ THEN c.seq ELSE pc_msg_count_
       IN /\ files' = Append(files, [index |-> index, cloud |-> c])
          /\ poses' = IF skip_static_frames_ /\ c.time \in static THEN poses ELSE Append(poses, [index |-> index, time |-> c.time])
    /\ pc_msg_count_' = pc_msg_count_ + 1
    /\ queue_' = Discard(queue_, iter) /\ iter' = IF queue_' = <<>> THEN 0 ELSE 1
    /\ UNCHANGED <<time, scans, clouds, pic, tf, static, seq, use_seq_as_index_, skip_static_frames_>>

\* ... without one it is tried again with the next message.
KeepCloud ==
    /\ iter > 0 /\ ~Posed(queue_[iter])
    /\ iter' = IF iter = Len(queue_) THEN 0 ELSE iter + 1
    /\ UNCHANGED <<time, scans, clouds, pic, tf, static, seq, use_seq_as_index_, skip_static_frames_, queue_, pc_msg_count_, poses, files>>

Init ==
    /\ time = 0 /\ scans = <<>> /\ clouds = <<>> /\ pic = <<>>
    /\ tf = 0 /\ static = {} /\ seq = 0
    /\ use_seq_as_index_ \in BOOLEAN /\ skip_static_frames_ \in BOOLEAN
    /\ queue_ = <<>> /\ pc_msg_count_ = 1 /\ iter = 0 /\ poses = <<>> /\ files = <<>>

Next == Scan \/ convert_packets_to_pointcloud \/ Pose \/ pcd_writer_callback \/ WriteCloud \/ KeepCloud

Spec == Init /\ [][Next]_vars
-----------------------------------------------------------------------------
\* A file has the blocks of one scan and no other, and a name that no other file has: the files are numbered in the order of their clouds, without a gap when they are counted, and with the numbers of ROS when these are used; no cloud waits that is older than a file; every cloud of a vehicle that moved has its pose under the same number, and a pose is that of the file with its number.
FilesSafe ==
    /\ \A k \in DOMAIN files :
         LET c == files[k].cloud IN
         /\ \A b \in DOMAIN c.blocks : c.blocks[b] = c.time
         /\ Len(c.blocks) <= Capacity
         /\ IF use_seq_as_index_ THEN files[k].index = c.seq ELSE files[k].index = k
         /\ k > 1 => files[k - 1].cloud.time < c.time /\ files[k - 1].index < files[k].index
         /\ (skip_static_frames_ /\ c.time \in static) \/ \E l \in DOMAIN poses : poses[l] = [index |-> files[k].index, time |-> c.time]
    /\ \A l \in DOMAIN poses : \E k \in DOMAIN files : poses[l] = [index |-> files[k].index, time |-> files[k].cloud.time]
    /\ \A i \in DOMAIN queue_, k \in DOMAIN files : files[k].cloud.time < queue_[i].time
=============================================================================
