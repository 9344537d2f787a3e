---------------------------- MODULE PandoraCamera ----------------------------
(***************************************************************************)
(* The cameras of a Pandora: a client that reads fragments of pictures     *)
(* from a TCP connection, puts them together and reconnects                *)
(* (pandora_client.c), a thread that converts the pictures                 *)
(* (pandora_camera.cc) and the heart beat, started and stopped by one      *)
(* caller.                                                                 *)
(*                                                                         *)
(* The device sends whole pictures, from their first fragment on after     *)
(* each connection; fragments are one unit long.  A picture is the         *)
(* sequence of the fragments in its buffer.                                *)
(***************************************************************************)
EXTENDS Integers, Sequences, FiniteSets

CONSTANTS
    Units,       \* cameras
    Sizes,       \* lengths of pictures
    MaxPics,     \* bound: pictures that wait for their conversion
    MaxStarts    \* bound: starts

VARIABLES
    user, starts,      \* where the caller is; how often it has started
    exit, goes,        \* exit of the client; continue_process_pic_
    recv, heart, proc, \* the three threads
    sock,              \* cliSocket: whether there is one
    dev,               \* of each unit: the picture the device is sending, its size, and its next fragment
    position, pics,    \* of each unit, in the client
    list, sem,         \* pic_list_ and pic_sem_
    stale, overrun     \* history: units whose buffer was left half-filled; other units with a picture longer than its buffer

vars == <<user, starts, exit, goes, recv, heart, proc, sock, dev, position, pics, list, sem, stale, overrun>>
control == <<user, starts, exit, goes>>
tasks == <<recv, heart, proc>>
frames == <<position, pics, stale, overrun>>
queue == <<list, sem>>
NULL == [alloc |-> 0, data |-> <<>>]
-----------------------------------------------------------------------------
\* tcp_open, and the device begins with a new picture.
Picture(u, size) == [pic |-> (dev[u].pic + 1) % 2, size |-> size, next |-> 0]
Connect ==
    /\ recv = "run" /\ ~exit /\ ~sock /\ sock' = TRUE
    /\ \E s \in [Units -> Sizes] : dev' = [u \in Units |-> Picture(u, s[u])]
    /\ UNCHANGED <<control, tasks, frames, queue>>

\* Nothing to read for a second, or an error while waiting or reading: the socket is closed; position and pics stay.
CloseSocket ==
    /\ recv = "run" /\ ~exit /\ sock /\ sock' = FALSE
    /\ stale' = stale \union {u \in Units : position[u] # 0}
    /\ UNCHANGED <<control, tasks, dev, position, pics, overrun, queue>>

\* The next fragment of the unit; after its last one, a picture of any size.
Advance(u) ==
    IF dev[u].next + 1 < dev[u].size THEN dev' = [dev EXCEPT ![u].next = @ + 1]
    ELSE \E s \in Sizes : dev' = [dev EXCEPT ![u] = Picture(u, s)]

\* A buffer is made for the first fragment, and kept until its picture is complete.
Buffer(u) == IF pics[u] = NULL THEN [alloc |-> dev[u].size, data |-> <<>>] ELSE pics[u]

\* memcpy() at the position.
Store(u) ==
    LET b == Buffer(u) IN
    [b EXCEPT !.data = SubSeq(@, 1, position[u]) \o <<<<dev[u].pic, dev[u].next>>>> \o SubSeq(@, position[u] + 2, Len(@))]
Overrun(u) == overrun' = IF u \notin stale /\ position[u] + 1 > Buffer(u).alloc THEN overrun \union {u} ELSE overrun

\* Mutant: the place of a fragment is not looked at.
InPlace_Any(u) == TRUE

InPlace(u) == dev[u].next = position[u]

\* A fragment of another place: the position is reset, and the fragment dropped.
Misplaced(u) ==
    /\ position' = [position EXCEPT ![u] = 0]
    /\ stale' = IF pics[u] # NULL THEN stale \union {u} ELSE stale
    /\ UNCHANGED <<pics, overrun, queue>>

\* The next fragment, ...
Stored(u) ==
    /\ position[u] + 1 # dev[u].size
    /\ pics' = [pics EXCEPT ![u] = Store(u)] /\ position' = [position EXCEPT ![u] = @ + 1]
    /\ Overrun(u) /\ UNCHANGED <<stale, queue>>

\* ... and the last one: the picture goes to pushPicture() of the camera.
Complete(u) ==
    /\ position[u] + 1 = dev[u].size /\ Len(list) < MaxPics
    /\ list' = Append(list, [unit |-> u, size |-> dev[u].size, data |-> SubSeq(Store(u).data, 1, dev[u].size)]) /\ sem' = sem + 1
    /\ pics' = [pics EXCEPT ![u] = NULL] /\ position' = [position EXCEPT ![u] = 0]
    /\ stale' = stale \ {u} /\ Overrun(u)

\* A fragment of an unknown unit is dropped without a trace; a header that is not one, which is what follows a fragment without memory, ends the program.
PandoraClientTask ==
    /\ recv = "run" /\ ~exit /\ sock
    /\ \E u \in Units :
         /\ Advance(u)
         /\ IF InPlace(u) THEN Stored(u) \/ Complete(u) ELSE Misplaced(u)
    /\ UNCHANGED <<control, tasks, sock>>

\* The client sees exit.
RecvExit ==
    /\ recv = "run" /\ exit /\ recv' = "ended"
    /\ UNCHANGED <<control, heart, proc, sock, dev, frames, queue>>

\* The heart beat looks at the socket without its lock; the second time it may be closed, or another one.
HeartBeatTask ==
    /\ \/ heart = "test" /\ exit /\ heart' = "ended"
       \/ heart = "test" /\ ~exit /\ sock /\ heart' = "write"
       \/ heart = "write" /\ heart' = "test"
    /\ UNCHANGED <<control, recv, proc, sock, dev, frames, queue>>

\* A picture is waited for, converted, passed on and freed.
processPic ==
    /\ \/ proc = "run" /\ goes /\ sem > 0 /\ sem' = sem - 1 /\ list' = Tail(list) /\ UNCHANGED proc
       \/ proc = "run" /\ ~goes /\ proc' = "ended" /\ UNCHANGED queue
    /\ UNCHANGED <<control, recv, heart, sock, dev, frames>>
-----------------------------------------------------------------------------
\* Start (Pandora_Internal stops before): the client with its two threads and the conversion, or none of them.
Start ==
    /\ user = "stopped" /\ starts < MaxStarts
    /\ user' = "running" /\ starts' = starts + 1
    /\ \/ goes' = TRUE /\ exit' = FALSE /\ recv' = "run" /\ heart' = "test" /\ proc' = "run"
          /\ position' = [u \in Units |-> 0] /\ pics' = [u \in Units |-> NULL] /\ stale' = {}
       \/ goes' = FALSE /\ UNCHANGED <<exit, tasks, position, pics, stale>>
    /\ UNCHANGED <<sock, dev, overrun, queue>>

Over(t) == t \in {"none", "ended"}

\* Mutant: the thread is not told to end.
PandoraClientDestroy_NoExit ==
    /\ user = "running" /\ user' = "heart" /\ goes' = FALSE
    /\ UNCHANGED <<starts, exit, tasks, sock, dev, frames, queue>>

\* PandoraClientDestroy, called by Stop: the client is told to end ...
PandoraClientDestroy ==
    /\ user = "running" /\ user' = "heart" /\ goes' = FALSE /\ exit' = TRUE
    /\ UNCHANGED <<starts, tasks, sock, dev, frames, queue>>

\* ... and waited for, both threads of it; then its socket is closed.
JoinHeartBeat ==
    /\ user = "heart" /\ Over(heart) /\ user' = "recv" /\ heart' = "none"
    /\ UNCHANGED <<starts, exit, goes, recv, proc, sock, dev, frames, queue>>
JoinReceive ==
    /\ user = "recv" /\ Over(recv) /\ user' = "proc" /\ recv' = "none" /\ sock' = FALSE
    /\ UNCHANGED <<starts, exit, goes, heart, proc, dev, frames, queue>>

\* The conversion comes last: pictures it has not got to stay in the list.
Stop ==
    /\ user = "proc" /\ Over(proc) /\ user' = "stopped" /\ proc' = "none"
    /\ UNCHANGED <<starts, exit, goes, recv, heart, sock, dev, frames, queue>>

Init ==
    /\ user = "stopped" /\ starts = 0 /\ exit = FALSE /\ goes = FALSE
    /\ recv = "none" /\ heart = "none" /\ proc = "none" /\ sock = FALSE
    /\ dev = [u \in Units |-> [pic |-> 0, size |-> 1, next |-> 0]]
    /\ position = [u \in Units |-> 0] /\ pics = [u \in Units |-> NULL]
    /\ list = <<>> /\ sem = 0 /\ stale = {} /\ overrun = {}

Next ==
    \/ Connect \/ CloseSocket \/ PandoraClientTask \/ RecvExit \/ HeartBeatTask \/ processPic
    \/ Start \/ PandoraClientDestroy \/ JoinHeartBeat \/ JoinReceive \/ Stop

Spec == Init /\ [][Next]_vars

\* Every thread runs, and a stop is not given up.
Threads == RecvExit \/ JoinHeartBeat \/ JoinReceive \/ Stop
Fairness == WF_vars(Threads) /\ WF_vars(HeartBeatTask) /\ WF_vars(processPic)
FairSpec == Spec /\ Fairness
-----------------------------------------------------------------------------
\* A picture that is passed on has all the fragments of one picture, in order, whatever was lost in between; it is never longer than its buffer unless a half-filled buffer was left over by a lost connection; and the conversion never looks for a picture that is not there, after a new start either.
CameraSafe ==
    /\ \A i \in DOMAIN list : LET p == list[i] IN
         \A k \in 1..p.size : p.data[k] = <<p.data[1][1], k - 1>>
    /\ overrun = {}
    /\ sem <= Len(list)

\* A stop returns, whatever the threads are doing, and after it no thread of the cameras runs.
StopReturns == user = "heart" ~> (user = "stopped" /\ {recv, heart, proc} = {"none"})
=============================================================================
