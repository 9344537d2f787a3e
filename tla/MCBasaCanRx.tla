---------------------------- MODULE MCBasaCanRx ----------------------------
(* Model checking of the CAN receive path. *)
EXTENDS BasaCanRx, TLC

\* Threads are interchangeable in the safety runs.
UserSymmetry == Permutations(Users)
=============================================================================
