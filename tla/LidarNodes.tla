------------------------------ MODULE LidarNodes ------------------------------
(***************************************************************************)
(* The driver nodelets of the Velodyne, RoboSense and LeiShen lidars: a    *)
(* thread that polls the device (or a recorded file) for scans while ROS   *)
(* runs, and a nodelet manager that loads and unloads it.                  *)
(*                                                                         *)
(* The three drivers are one loop over different calls; model says which.  *)
(* Time is counted in ticks, Hour of them to the hour and Second to the    *)
(* second; a packet is the time of its capture.                           *)
(***************************************************************************)
EXTENDS Integers, Sequences, SequencesExt

CONSTANTS
    Models,            \* "velodyne", "pcap" (a file instead of a Velodyne), "rslidar", "lslidar"
    Npackets,          \* npackets of a scan; LeiShen publishes packet by packet
    Hour, Second,      \* ticks to an hour and to a second
    MaxTime,           \* bound: ticks
    FileLength         \* packets of the file

VARIABLES
    model, read_once,     \* the driver; read_once_ of a file
    node, ros, thread,    \* the nodelet; ros::ok(); the poll thread
    running,              \* running_
    clock, silent,        \* the time; whether the device has stopped sending
    gps,                  \* packetTimeStamp: the second of the last device packet (LeiShen)
    file, empty,          \* the next packet of the file (NoFile: pcap_ is null), empty_
    scan,                 \* the packets of this poll
    published             \* history: the last scan published, its stamp, and the time it was stamped at

vars == <<model, read_once, node, ros, thread, running, clock, silent, gps, file, empty, scan, published>>
setup == <<model, read_once>>
device == <<clock, silent>>
replay == <<file, empty>>
Nothing == [packets |-> <<>>, stamp |-> 0, at |-> 0]
NoFile == FileLength + 1
-----------------------------------------------------------------------------
\* onInit: the device is opened and the thread is started; a model that is not known, or a port that cannot be had, ends the load, but a file that cannot be opened does not.
onInit ==
    /\ node = "none" /\ ros
    /\ \/ node' = "loaded" /\ running' = TRUE /\ thread' = "top" /\ file' \in IF model = "pcap" THEN {0, NoFile} ELSE {file}
       \/ node' = "unloaded" /\ UNCHANGED <<running, thread, file>>
    /\ UNCHANGED <<setup, ros, device, gps, empty, scan, published>>

\* devicePoll: a scan after the other while ROS is up; the flag is written, never read.
devicePoll ==
    /\ thread = "top"
    /\ thread' = IF ros THEN "poll" ELSE "last"
    /\ scan' = <<>>
    /\ UNCHANGED <<setup, node, ros, running, device, gps, replay, published>>

\* The last write of the flag, on the way out.
PollEnds ==
    /\ thread = "last" /\ thread' = "ended" /\ running' = FALSE
    /\ UNCHANGED <<setup, node, ros, device, gps, replay, scan, published>>

\* Twice the stamp of a scan: the mean of two times within the hour, added to the hour that the clock shows now.
computeTimeStamp(t) == t % Hour
VelodyneStamp(first, last) == 2 * Hour * (clock \div Hour) + computeTimeStamp(first) + computeTimeStamp(last)

\* Twice the stamp of a LeiShen packet: the second of the last device packet and the fraction of this one.
LslidarStamp(t) == 2 * (gps * Second + (t % Second))

Stamp(packets) ==
    CASE model \in {"velodyne", "pcap"} -> VelodyneStamp(Head(packets), Last(packets))
      [] model = "rslidar" -> 2 * clock
      [] model = "lslidar" -> LslidarStamp(Last(packets))

\* poll with one more packet: the scan is published when it has all of them.
Size == IF model = "lslidar" THEN 1 ELSE Npackets
Read(packet) ==
    LET packets == Append(scan, packet) IN
    IF Len(packets) = Size
    THEN /\ published' = [packets |-> packets, stamp |-> Stamp(packets), at |-> clock]
         /\ running' = TRUE /\ thread' = "top" /\ scan' = <<>>
    ELSE scan' = packets /\ UNCHANGED <<published, running, thread>>

\* getPacket from a socket; packets of another size or sender are passed over.
getPacket ==
    /\ thread = "poll" /\ model # "pcap" /\ ~silent
    /\ Read(clock)
    /\ UNCHANGED <<setup, node, ros, device, gps, replay>>

\* A device packet of a LeiShen: it brings the second, and is published like the others.
DevicePacket ==
    /\ thread = "poll" /\ model = "lslidar" /\ ~silent
    /\ gps' = clock \div Second
    /\ running' = TRUE /\ thread' = "top"
    /\ UNCHANGED <<setup, node, ros, device, replay, scan, published>>

\* Nothing came for a second, or an error: only RoboSense gives up the scan and polls again.
Timeout ==
    /\ thread = "poll" /\ model = "rslidar"
    /\ running' = TRUE /\ thread' = "top" /\ scan' = <<>>
    /\ UNCHANGED <<setup, node, ros, device, gps, replay, published>>

\* The next packet of a file ...
ReadFile ==
    /\ thread = "poll" /\ model = "pcap" /\ file < FileLength
    /\ file' = file + 1 /\ empty' = FALSE
    /\ Read(file)
    /\ UNCHANGED <<setup, node, ros, device, gps>>

\* ... and its end: an empty file, or one to be read once, ends the poll; else it is opened again, with success or without.
EndOfFile ==
    /\ thread = "poll" /\ model = "pcap" /\ file = FileLength
    /\ IF empty \/ read_once
       THEN running' = FALSE /\ thread' = "last" /\ UNCHANGED replay
       ELSE file' \in {0, FileLength, NoFile} /\ empty' = TRUE /\ UNCHANGED <<running, thread>>
    /\ UNCHANGED <<setup, node, ros, device, gps, scan, published>>

\* A null pcap_ is used as it is, and the process ends.
NullFile ==
    /\ thread = "poll" /\ model = "pcap" /\ file = NoFile
    /\ node' = "crashed"
    /\ UNCHANGED <<setup, ros, thread, running, device, gps, replay, scan, published>>

\* Mutant: the nodelet does not wait for its thread.
Unload_NoJoin ==
    /\ node = "loaded" /\ node' = "unloaded" /\ running' = FALSE
    /\ UNCHANGED <<setup, ros, thread, device, gps, replay, scan, published>>

\* The input is closed with the nodelet, and pcap_close() needs a file, too.
Gone == IF model = "pcap" /\ file = NoFile THEN "crashed" ELSE "unloaded"

\* The destructor: the thread is waited for if the flag says that it runs.
Unload ==
    /\ node = "loaded"
    /\ node' = IF running THEN "unloading" ELSE Gone
    /\ running' = FALSE
    /\ UNCHANGED <<setup, ros, thread, device, gps, replay, scan, published>>

Join ==
    /\ node = "unloading" /\ thread = "ended" /\ node' = Gone
    /\ UNCHANGED <<setup, ros, thread, running, device, gps, replay, scan, published>>

\* ROS is shut down.
Shutdown ==
    /\ ros /\ ros' = FALSE
    /\ UNCHANGED <<setup, node, thread, running, device, gps, replay, scan, published>>

Tick ==
    /\ clock < MaxTime /\ clock' = clock + 1
    /\ UNCHANGED <<setup, node, ros, thread, running, silent, gps, replay, scan, published>>

FallSilent ==
    /\ ~silent /\ silent' = TRUE
    /\ UNCHANGED <<setup, node, ros, thread, running, clock, gps, replay, scan, published>>

Init ==
    /\ model \in Models /\ read_once \in (IF model = "pcap" THEN BOOLEAN ELSE {FALSE})
    /\ node = "none" /\ ros = TRUE /\ thread = "none" /\ running = FALSE
    /\ clock = 0 /\ silent = FALSE /\ gps = 0 /\ file = 0 /\ empty = TRUE
    /\ scan = <<>> /\ published = Nothing

Poll == node # "crashed" /\ (devicePoll \/ PollEnds \/ getPacket \/ DevicePacket \/ Timeout \/ ReadFile \/ EndOfFile \/ NullFile)
Next == node # "crashed" /\ (onInit \/ Poll \/ Unload \/ Join \/ Shutdown \/ Tick \/ FallSilent)

Spec == Init /\ [][Next]_vars

\* The thread runs, while there is something to read; and the manager is not killed.
Fairness == WF_vars(Poll) /\ WF_vars(Join)
FairSpec == Spec /\ Fairness
-----------------------------------------------------------------------------
\* The time of a scan of a Velodyne lies between those of its first and its last packet, when the hour has not changed in between; a scan of a LeiShen is never stamped later than it was captured.
StampsRight ==
    published # Nothing =>
      LET first == Head(published.packets)  last == Last(published.packets) IN
      /\ model = "velodyne" /\ first \div Hour = published.at \div Hour => published.stamp \in 2 * first .. 2 * last
      /\ model = "lslidar" => published.stamp <= 2 * last

\* The object is given back only when its thread is over, but for the last write of the flag after the end of a file.
ThreadOver == node = "unloaded" => thread \in {"none", "ended"} \/ (model = "pcap" /\ thread = "last")

NodesSafe == StampsRight /\ ThreadOver

\* After ROS has been shut down an unload returns, unless a Velodyne or a LeiShen has fallen silent or a missing file has ended the process.
StopReturns == (node = "unloading" /\ ~ros) ~> (node \in {"unloaded", "crashed"} \/ (silent /\ model \in {"velodyne", "lslidar"}))
=============================================================================
