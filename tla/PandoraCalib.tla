----------------------------- MODULE PandoraCalib -----------------------------
(***************************************************************************)
(* The calibrations of a Pandora: a thread asks the device for those of    *)
(* the lidar and of the cameras (pandora.cc), a user may upload or reset   *)
(* them, and both share the connection for commands                        *)
(* (tcp_command_client.c).                                                 *)
(***************************************************************************)
EXTENDS Integers

CONSTANTS EnableCamera, MaxStarts    \* enable_camera_; bound: starts

VARIABLES
    user, starts,   \* where the caller is; how often it has started
    client,         \* tcp_command_client_: there was memory for it
    enable,         \* enable_get_calibration_thr_
    calib,          \* the thread
    got,            \* got_lidar_calibration_ and got_camera_calibration_
    lock, silent    \* who has the lock of the command client; the device answers no command

vars == <<user, starts, client, enable, calib, got, lock, silent>>
-----------------------------------------------------------------------------
\* tcpCommandClient_SendCmd: the lock is held over connection, request and answer, for which there is no timeout; no path keeps it.
SendCmd(who) == lock = "none" /\ lock' = who
Answered(who) == lock = who /\ ~silent /\ lock' = "none"

\* The loop goes on while neither calibration is there.
Loop == ~got.lidar /\ ~got.camera

\* GetCalibrationFromDevice: without a client there is nothing to do; the calibration of the lidar, which may be refused or wrong, ...
GetLidarCalibration ==
    /\ \/ calib = "top" /\ client /\ enable /\ Loop /\ calib' = "lidar" /\ SendCmd("calib") /\ UNCHANGED got
       \/ calib = "lidar" /\ Answered("calib") /\ \E ok \in BOOLEAN :
            /\ got' = [got EXCEPT !.lidar = ok]
            /\ calib' = IF ok /\ ~EnableCamera THEN "ended" ELSE "next"
    /\ UNCHANGED <<user, client, enable, starts, silent>>

\* ... and of the cameras, whatever came of it; it goes to loadIntrinsics().  If the answer is no YAML, or has other values than numbers, the exception ends the process.
GetCameraCalibration ==
    /\ \/ calib = "next" /\ calib' = "camera" /\ SendCmd("calib") /\ UNCHANGED <<got, user>>
       \/ calib = "camera" /\ Answered("calib") /\ calib' = "top" /\ (\E ok \in BOOLEAN : got' = [got EXCEPT !.camera = ok]) /\ UNCHANGED user
       \/ calib = "camera" /\ Answered("calib") /\ calib' = "crashed" /\ user' = "crashed" /\ UNCHANGED got
    /\ UNCHANGED <<client, enable, starts, silent>>

CalibrationEnds ==
    /\ calib = "top" /\ (~client \/ ~enable \/ ~Loop) /\ calib' = "ended"
    /\ UNCHANGED <<user, client, enable, starts, got, lock, silent>>

\* UploadCameraCalibrationFile and ResetCameraClibration of a user.
UserCommand ==
    /\ (user = "running" /\ client /\ SendCmd("user")) \/ Answered("user")
    /\ UNCHANGED <<user, client, enable, starts, calib, got, silent>>

\* A device that accepts commands and does not answer them.
FallSilent == ~silent /\ silent' = TRUE /\ UNCHANGED <<user, client, enable, starts, calib, got, lock>>
-----------------------------------------------------------------------------
Start ==
    /\ user = "stopped" /\ starts < MaxStarts
    /\ user' = "running" /\ starts' = starts + 1 /\ enable' = TRUE /\ calib' = "top"
    /\ UNCHANGED <<client, got, lock, silent>>

\* Stop, after the lidar and the cameras were stopped.
Stop ==
    \/ /\ user = "running" /\ user' = "calib" /\ enable' = FALSE
       /\ UNCHANGED <<starts, client, calib, got, lock, silent>>
    \/ /\ user = "calib" /\ calib = "ended" /\ user' = "stopped" /\ calib' = "none"
       /\ UNCHANGED <<starts, client, enable, got, lock, silent>>

Init ==
    /\ user = "stopped" /\ starts = 0 /\ client \in BOOLEAN /\ enable = FALSE /\ calib = "none"
    /\ got = [lidar |-> FALSE, camera |-> FALSE] /\ lock = "none" /\ silent = FALSE

Next ==
    \/ GetLidarCalibration \/ GetCameraCalibration \/ CalibrationEnds
    \/ UserCommand \/ FallSilent \/ Start \/ Stop

Spec == Init /\ [][Next]_vars

\* The thread runs, a stop is not given up, and commands are answered until the device falls silent.
Thread == GetLidarCalibration \/ GetCameraCalibration \/ CalibrationEnds
UserAnswered == Answered("user") /\ UserCommand
StopGoesOn == user = "calib" /\ Stop
Fairness == WF_vars(Thread) /\ WF_vars(UserAnswered) /\ WF_vars(StopGoesOn)
FairSpec == Spec /\ Fairness
-----------------------------------------------------------------------------
\* A stop returns, unless the device leaves a command without an answer or an answer has ended the process; and a thread that had a client and ended by itself has brought a calibration.
StopReturns ==
    /\ user = "calib" ~> (user \in {"stopped", "crashed"} \/ silent)
    /\ [](calib = "ended" /\ enable /\ client => got.lidar \/ got.camera)
=============================================================================
