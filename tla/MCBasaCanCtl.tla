---------------------------- MODULE MCBasaCanCtl ----------------------------
(* Model checking of the control and transmit side of a CAN channel. *)
EXTENDS BasaCanCtl, TLC

CONSTANTS t1, t2, t3, pA, pB

\* Two threads share the handle of process A; process B competes for the device.
MCProcOf == (t1 :> pA) @@ (t2 :> pA) @@ (t3 :> pB)
=============================================================================
