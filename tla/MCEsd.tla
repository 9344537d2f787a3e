------------------------------- MODULE MCEsd -------------------------------
(***************************************************************************)
(* The esd CAN driver for TLC: one handle (EsdCan), the DPC thread         *)
(* (EsdOsif) and the attach of the cards (EsdCard).  They share no state   *)
(* in the code either; each behaviour runs one of them.                    *)
(***************************************************************************)
EXTENDS Integers, FiniteSets

CONSTANTS Threads, MaxMsgs, MaxQueue, MaxId, Dpcs, MaxTrig, Cards, NODES_PER_CARD, NoCard

\* There are finitely many cards, each with a node or more; the bounds are numbers.
ASSUME CardAssumption == IsFiniteSet(Cards) /\ NoCard \notin Cards /\ NODES_PER_CARD \in Nat \ {0}
ASSUME BoundAssumption == MaxMsgs \in Nat /\ MaxQueue \in Nat /\ MaxId \in Nat

VARIABLES part,
          file, closeState, rx, tx, status, filt, nuc, th,
          attach, dpc, queue, trig, waking, destroy, thread,
          load, left, cur, res, up, nodes, data, attached, files

Can == INSTANCE EsdCan
Osif == INSTANCE EsdOsif
Card == INSTANCE EsdCard

canVars == <<file, closeState, rx, tx, status, filt, nuc, th>>
osifVars == <<attach, dpc, queue, trig, waking, destroy, thread>>
cardVars == <<load, left, cur, res, up, nodes, data, attached, files>>
vars == <<part, canVars, osifVars, cardVars>>

Init == part \in {"can", "osif", "card"} /\ Can!Init /\ Osif!Init /\ Card!Init

Next ==
    \/ part = "can" /\ Can!Next /\ UNCHANGED <<part, osifVars, cardVars>>
    \/ part = "osif" /\ Osif!Next /\ UNCHANGED <<part, canVars, cardVars>>
    \/ part = "card" /\ Card!Next /\ UNCHANGED <<part, canVars, osifVars>>

\* Nothing that is fair can happen in a part that is not run.
Spec == Init /\ [][Next]_vars /\ Can!Fairness /\ Osif!Fairness

\* A handle has one reader and one writer, each with a job in the nucleus that will wake it, and a close returns when nothing of the handle is in the driver (EsdCan).
HandleSafe == Can!HandleSafe /\ Can!ClosedQuiet
\* A close, and a call that a signal interrupts, return (EsdCan).
CallsReturn == Can!CallsReturn
\* A DPC that is triggered runs or is destroyed (EsdOsif).
DpcRuns == Osif!DpcRuns
\* A DPC is freed only when the thread can no longer reach it (EsdOsif); a card that is not attached holds nothing but pci_enable_device() and the lock_irq of a failed board layer, and nodes[] names the nodes that are there (EsdCard).
CardsSafe == Osif!DpcSafe /\ Card!CardsSafe
=============================================================================
