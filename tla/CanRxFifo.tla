------------------------------ MODULE CanRxFifo ------------------------------
(***************************************************************************)
(* What the receive side of a CAN channel promises its user: the frames    *)
(* the controller accepted are handed over in the order they arrived, each *)
(* at most once.  A frame is lost only by a flush that a caller asked for, *)
(* which discards the oldest frames that are still pending, as a block;    *)
(* one request is good for one flush.                                      *)
(***************************************************************************)
EXTENDS Naturals, Sequences

CONSTANT Callers    \* who may ask for a flush

VARIABLES
    accepted,       \* number of frames accepted so far; a frame is its number
    pending,        \* frames accepted and not yet handed over, oldest first
    last,           \* the frame handed over last
    asked           \* the callers whose flush is still to be done

fifoVars == <<accepted, pending, last, asked>>

FifoInit ==
    /\ accepted = 0
    /\ pending = <<>>
    /\ last = 0
    /\ asked = [c \in Callers |-> FALSE]

Accept ==
    /\ accepted' = accepted + 1
    /\ pending' = Append(pending, accepted')
    /\ UNCHANGED <<last, asked>>

HandOver ==
    /\ pending # <<>>
    /\ last' = Head(pending)
    /\ pending' = Tail(pending)
    /\ UNCHANGED <<accepted, asked>>

AskFlush(c) ==
    /\ ~asked[c]
    /\ asked' = [asked EXCEPT ![c] = TRUE]
    /\ UNCHANGED <<accepted, pending, last>>

Flush(c) ==
    /\ asked[c]
    /\ asked' = [asked EXCEPT ![c] = FALSE]
    /\ \E k \in 0..Len(pending) : pending' = SubSeq(pending, k + 1, Len(pending))
    /\ UNCHANGED <<accepted, last>>

FifoNext ==
    \/ Accept
    \/ HandOver
    \/ \E c \in Callers : AskFlush(c) \/ Flush(c)

FifoSpec == FifoInit /\ [][FifoNext]_fifoVars

==============================================================================
