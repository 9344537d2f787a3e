------------------------------- MODULE MCLidar -------------------------------
(***************************************************************************)
(* The lidars for TLC: the three parts of the Pandora driver               *)
(* (PandoraCamera, PandoraCalib, PandoraLidar), the driver nodelets of     *)
(* Velodyne, RoboSense and LeiShen (LidarNodes), and what makes clouds of  *)
(* their packets (LidarSweep, RslidarCloud, VelodyneCloud) and corrects    *)
(* them for the motion of the car (LidarCompensator).  Each behaviour runs *)
(* one of them.                                                            *)
(***************************************************************************)
EXTENDS Integers, Sequences, FiniteSets

CONSTANTS Units, Sizes, MaxPics, MaxStarts,
          EnableCamera,
          BlocksPerPacket, PacketsPerRound, LimitDegree, MaxPackets, StartAngles,
          Models, Npackets, Hour, Second, MaxTime, FileLength,
          Firings, Turn, Layers, MaxLost, MaxSweep,
          Steps, MaxStep, Capacity, Window, QueueSize, MaxScans, MaxWait,
          Azimuths, Blocks, Step, MaxPerScan,
          Velocities, TurnRates, Headings, Landmarks, ScanLen, Layouts, TfSpan, MaxPose

\* A picture has at least one fragment, a scan one packet.
ASSUME LidarAssumption == Sizes \cup {Npackets, Hour, Second} \subseteq Nat \ {0} /\ {MaxStarts, MaxTime, FileLength} \subseteq Nat

\* Headings are multiples of 60 degrees; within a scan the car turns by less than half a turn, or by half a turn one way.
ASSUME MotionAssumption ==
    /\ Velocities \cup Landmarks \subseteq Int \X Int /\ TurnRates \cup Headings \subseteq Int
    /\ {ScanLen, TfSpan, MaxPose} \subseteq Nat /\ QueueSize \in Nat \ {0}
    /\ Layouts \subseteq SUBSET {"x", "y", "z", "intensity", "timestamp"}
    /\ \A r \in TurnRates : r * ScanLen \in -3..2

VARIABLES part,
          user, starts, exit, goes, recv, heart, proc, sock, dev, position, pics, list, sem, stale, overrun,
          caller, calls, client, enable, calib, got, lock, mute,
          owner, runs, on, receiver, processor, angle, lost, start_angle, lidar_packets, lidar_sem, packetIndex, outMsg, clean, aligned, round,
          model, read_once, node, ros, thread, running, clock, silent, gps, file, empty, scan, published,
          phase, is_first_sweep, last_azimuth, sweep_data, layer_num, gap, unbroken, wide, count, sweep, wild,
          time, scans, clouds, pic, tf, static, seq, use_seq_as_index_, skip_static_frames_, queue_, pc_msg_count_, iter, poses, files,
          vert, laser_ring, ring, next_angle, view, min_angle, max_angle, cloud,
          motion, made, buffer, offsets, waiting, call, out

\* A packet that goes through azimuth 0, one with a step that is too wide, and one without azimuths.
MCPackets == {<<7, 0>>, <<1, 4>>, <<-1, -1>>}
\* The angles of four lasers: in disorder, and two of them equal.
MCCalibrations == {[j \in 0..3 |-> s[j + 1]] : s \in {<<0, 3, 1, 2>>, <<1, 0, 2, 1>>}}
\* A car that drives askew, and two landmarks.
MCVelocities == {<<1, -2>>}
MCLandmarks == {<<0, 1>>, <<3, 2>>}

Camera == INSTANCE PandoraCamera
Calib == INSTANCE PandoraCalib WITH user <- caller, starts <- calls, silent <- mute
Lidar == INSTANCE PandoraLidar WITH user <- owner, starts <- runs, enable <- on, recv <- receiver, proc <- processor
Nodes == INSTANCE LidarNodes
Sweep == INSTANCE LidarSweep WITH Full <- Turn, angle <- phase, clean <- unbroken, published <- sweep
Files == INSTANCE RslidarCloud WITH Packets <- MCPackets, Full <- Steps
Velodyne == INSTANCE VelodyneCloud WITH NumLasers <- 4, Calibrations <- MCCalibrations, Full <- Azimuths, MaxPackets <- MaxPerScan
Motion == INSTANCE LidarCompensator WITH MaxTime <- MaxPose, tf <- buffer, queue <- waiting

cameraVars == <<user, starts, exit, goes, recv, heart, proc, sock, dev, position, pics, list, sem, stale, overrun>>
calibVars == <<caller, calls, client, enable, calib, got, lock, mute>>
lidarVars == <<owner, runs, on, receiver, processor, angle, lost, start_angle, lidar_packets, lidar_sem, packetIndex, outMsg, clean, aligned, round>>
nodeVars == <<model, read_once, node, ros, thread, running, clock, silent, gps, file, empty, scan, published>>
sweepVars == <<phase, is_first_sweep, last_azimuth, sweep_data, layer_num, gap, unbroken, wide, count, sweep, wild>>
fileVars == <<time, scans, clouds, pic, tf, static, seq, use_seq_as_index_, skip_static_frames_, queue_, pc_msg_count_, iter, poses, files>>
velodyneVars == <<vert, laser_ring, ring, next_angle, view, min_angle, max_angle, cloud>>
motionVars == <<motion, made, buffer, offsets, waiting, call, out>>
vars == <<part, cameraVars, calibVars, lidarVars, nodeVars, sweepVars, fileVars, velodyneVars, motionVars>>

Init ==
    /\ part \in {"camera", "calib", "lidar", "nodes", "sweep", "files", "velodyne", "motion"}
    /\ Camera!Init /\ Lidar!Init
    /\ Calib!Init /\ (part # "calib" => client)
    /\ Files!Init /\ (part # "files" => ~use_seq_as_index_ /\ ~skip_static_frames_)
    /\ Nodes!Init /\ (part # "nodes" => model = "rslidar")
    /\ Sweep!Init /\ (part # "sweep" => phase = 0)
    /\ Velodyne!Init /\ (part # "velodyne" => vert[0] = 0)
    /\ Motion!Init /\ (part # "motion" => motion.r = 0 /\ "timestamp" \in motion.fields)

CameraPart == part = "camera" /\ UNCHANGED <<part, calibVars, lidarVars, nodeVars, sweepVars, fileVars, velodyneVars, motionVars>>
CalibPart == part = "calib" /\ UNCHANGED <<part, cameraVars, lidarVars, nodeVars, sweepVars, fileVars, velodyneVars, motionVars>>
LidarPart == part = "lidar" /\ UNCHANGED <<part, cameraVars, calibVars, nodeVars, sweepVars, fileVars, velodyneVars, motionVars>>
NodesPart == part = "nodes" /\ UNCHANGED <<part, cameraVars, calibVars, lidarVars, sweepVars, fileVars, velodyneVars, motionVars>>

Next ==
    \/ CameraPart /\ Camera!Next
    \/ CalibPart /\ Calib!Next
    \/ LidarPart /\ Lidar!Next
    \/ NodesPart /\ Nodes!Next
    \/ part = "sweep" /\ Sweep!Next /\ UNCHANGED <<part, cameraVars, calibVars, lidarVars, nodeVars, fileVars, velodyneVars, motionVars>>
    \/ part = "files" /\ Files!Next /\ UNCHANGED <<part, cameraVars, calibVars, lidarVars, nodeVars, sweepVars, velodyneVars, motionVars>>
    \/ part = "velodyne" /\ Velodyne!Next /\ UNCHANGED <<part, cameraVars, calibVars, lidarVars, nodeVars, sweepVars, fileVars, motionVars>>
    \/ part = "motion" /\ Motion!Next /\ UNCHANGED <<part, cameraVars, calibVars, lidarVars, nodeVars, sweepVars, fileVars, velodyneVars>>

\* The fairness of each part.
Spec ==
    /\ Init /\ [][Next]_vars
    /\ WF_vars(CameraPart /\ Camera!Threads) /\ WF_vars(CameraPart /\ Camera!HeartBeatTask) /\ WF_vars(CameraPart /\ Camera!processPic)
    /\ WF_vars(CalibPart /\ Calib!Thread) /\ WF_vars(CalibPart /\ Calib!UserAnswered) /\ WF_vars(CalibPart /\ Calib!StopGoesOn)
    /\ WF_vars(LidarPart /\ Lidar!Threads) /\ WF_vars(LidarPart /\ Lidar!StopGoesOn)
    /\ WF_vars(NodesPart /\ Nodes!Poll) /\ WF_vars(NodesPart /\ Nodes!Join)

\* What is captured is whole and has its time and its place: pictures, in spite of lost connections and new starts (PandoraCamera), scans, whose thread does not outlive its nodelet (LidarNodes), and clouds that are corrected for the motion of the car, which stand where one look would see them (LidarCompensator).
CapturesWhole == Camera!CameraSafe /\ Nodes!NodesSafe /\ Motion!CompensatorSafe
\* Rounds and sweeps are whole and in order, in spite of lost packets and new starts (PandoraLidar, LidarSweep); clouds have the points of their scan, their number and pose, and those in view (RslidarCloud, VelodyneCloud).
CloudsSafe == Lidar!LidarSafe /\ Sweep!SweepWhole /\ Files!FilesSafe /\ Velodyne!VelodyneSafe
\* A driver that is stopped or unloaded comes to an end, unless its device has fallen silent (PandoraCamera, PandoraCalib, PandoraLidar, LidarNodes).
StopReturns == Camera!StopReturns /\ Calib!StopReturns /\ Lidar!StopReturns /\ Nodes!StopReturns
=============================================================================
