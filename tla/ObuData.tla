------------------------------- MODULE ObuData -------------------------------
(***************************************************************************)
(* The messages of the on-board unit: two adapters put what they receive   *)
(* into the tables of the data base (v2x_db.cc, v2x_table.cc), the traffic *)
(* light thread and the shared sensor thread take the latest entry, copy   *)
(* and decode it, and combine it with the car status, for which the thread *)
(* that sends to the platform competes (cmn_queue.h).                      *)
(*                                                                         *)
(* A table is changed and searched under its mutex, in one step.  A thread *)
(* that has looked up an entry copies it later, without the mutex.         *)
(* Signatures are checked by libraries; ObuSecurity has what the code      *)
(* makes of their results.                                                 *)
(***************************************************************************)
EXTENDS Integers, FiniteSets, Sequences

CONSTANTS
    Msgs,          \* contents of messages
    MaxEntries,    \* max_entry_num_ of a table
    Mixes,         \* bound: sets of kinds that are received in one behaviour
    NoMsg          \* none

VARIABLES
    mix,       \* the kinds that are received
    table,     \* of each kind of message: its entries, the latest first
    refresh,   \* refresh_ of a table with notification
    newest,    \* history: the latest message that was accepted
    fetched,   \* history: the latest message that a thread took
    pc,        \* of the two consumers
    entry,     \* of each consumer: the entry it is about to copy, and whether it still exists
    frame,     \* of the traffic light thread: its message frames
    twice,     \* history: a frame was freed that was not in use
    car        \* car_status_ in the proxy

vars == <<mix, table, refresh, newest, fetched, pc, entry, frame, twice, car>>

Kinds == {"map", "spat", "ssm"}
Notified == {"spat", "ssm"}         \* V2xDbInit
Light == "light"
Sensor == "sensor"
NoEntry == [kind |-> "none", msg |-> NoMsg, live |-> FALSE]
thread == <<pc, entry, frame, twice>>
-----------------------------------------------------------------------------
\* Mutant: a new entry is put behind the others.
AddEntryWithCompare_Behind(k, m) ==
    LET old == table[k]
        over == Len(old) + 1 > MaxEntries
    IN
    IF \E i \in DOMAIN old : old[i] = m
    THEN UNCHANGED <<table, refresh, newest, entry>>
    ELSE /\ table' = [table EXCEPT ![k] = Append(IF over THEN Tail(old) ELSE old, m)]
         /\ refresh' = [refresh EXCEPT ![k] = k \in Notified]
         /\ newest' = [newest EXCEPT ![k] = m]
         /\ UNCHANGED entry

\* A message that a table of this kind already has is ignored; a full table gives up its latest entry for the new one, which is deleted at once.
AddEntryWithCompare(k, m) ==
    LET old == table[k]
        over == Len(old) + 1 > MaxEntries
        kept == IF over THEN Tail(old) ELSE old
    IN
    IF \E i \in DOMAIN old : old[i] = m
    THEN UNCHANGED <<table, refresh, newest, entry>>
    ELSE /\ table' = [table EXCEPT ![k] = <<m>> \o kept]
         /\ refresh' = [refresh EXCEPT ![k] = k \in Notified]
         /\ newest' = [newest EXCEPT ![k] = m]
         /\ entry' = [t \in DOMAIN entry |->
               IF over /\ entry[t].kind = k /\ entry[t].msg = Head(old) THEN [entry[t] EXCEPT !.live = FALSE] ELSE entry[t]]

\* SubmitData: the kind is told by the application id; a message of another kind is dropped.
SubmitData(k, m) ==
    /\ IF k \in mix THEN AddEntryWithCompare(k, m) ELSE UNCHANGED <<table, refresh, newest, entry>>
    /\ UNCHANGED <<mix, fetched, pc, frame, twice, car>>

\* The adapters: PC5 without and with signatures, and Uu, which only passes on maps and signals.  What cannot be received, verified or decoded is dropped.
ProcessUnsecured == \E k \in Kinds \union {"other"}, m \in Msgs : SubmitData(k, m)
ProcessSecured == \E k \in Kinds \union {"other"}, m \in Msgs : SubmitData(k, m)
RecvData == \E k \in {"map", "spat"}, m \in Msgs : SubmitData(k, m)

\* CmnQueue of size one: a new status replaces the old one.
PushCarStatus ==
    /\ car' = <<"status">>
    /\ UNCHANGED <<mix, table, refresh, newest, fetched, thread>>

\* UuSend::TimerExpired takes the status out of the queue, like the traffic light thread.
TimerExpired ==
    /\ car # <<>> /\ car' = <<>>
    /\ UNCHANGED <<mix, table, refresh, newest, fetched, thread>>
-----------------------------------------------------------------------------
Goto(t, l) == pc' = [pc EXCEPT ![t] = l]

\* The latest entry: a table with notification is waited for, and its flag reset.
GetLatestEntry(t, k, next) ==
    /\ k \in Notified => refresh[k]
    /\ table[k] # <<>>
    /\ entry' = [entry EXCEPT ![t] = [kind |-> k, msg |-> Head(table[k]), live |-> TRUE]]
    /\ fetched' = [fetched EXCEPT ![k] = Head(table[k])]
    /\ refresh' = [refresh EXCEPT ![k] = FALSE]
    /\ Goto(t, next)

\* The second half of GetData: memcpy() of the entry, which may have been deleted meanwhile; what is then copied is anything, and is decoded or not.
CopyEntry(t, next) ==
    /\ entry' = [entry EXCEPT ![t] = NoEntry]
    /\ Goto(t, next)

\* FreeAll keeps the pointer, so that it must not be called twice.
FreeAll(fs) ==
    /\ frame' = [f \in DOMAIN frame |-> IF f \in fs THEN "freed" ELSE frame[f]]
    /\ twice' = (twice \/ \E f \in fs : frame[f] # "live")

\* Creating a frame overwrites the pointer to an older one.
Create(f) == frame' = [frame EXCEPT ![f] = "live"] /\ UNCHANGED twice

\* TrafficLightThread::Run: a signal is waited for and copied, ...
ReadSpat ==
    /\ \/ pc[Light] = "start" /\ GetLatestEntry(Light, "spat", "spat")
       \/ pc[Light] = "spat" /\ CopyEntry(Light, "spat_decode") /\ UNCHANGED <<fetched, refresh>>
    /\ UNCHANGED <<mix, table, newest, frame, twice, car>>

\* ... decoded, or given up with its frame, which is not freed, ...
DecodeSpat ==
    /\ pc[Light] = "spat_decode"
    /\ \/ Create("spat") /\ (Goto(Light, "map") \/ Goto(Light, "start"))
       \/ Goto(Light, "start") /\ UNCHANGED <<frame, twice>>
    /\ UNCHANGED <<mix, table, refresh, newest, fetched, entry, car>>

\* ... the map is copied, if there is one, ...
ReadMap ==
    /\ \/ pc[Light] = "map" /\ GetLatestEntry(Light, "map", "map_copy") /\ UNCHANGED <<frame, twice>>
       \/ pc[Light] = "map" /\ table["map"] = <<>> /\ FreeAll({"spat"}) /\ Goto(Light, "start") /\ UNCHANGED <<entry, fetched, refresh>>
       \/ pc[Light] = "map_copy" /\ CopyEntry(Light, "map_decode") /\ UNCHANGED <<fetched, refresh, frame, twice>>
    /\ UNCHANGED <<mix, table, newest, car>>

\* ... and decoded; a frame that could not be filled is left.
DecodeMap ==
    /\ pc[Light] = "map_decode"
    /\ \/ Create("map") /\ Goto(Light, "car")
       \/ Goto(Light, "start") /\ twice' = (twice \/ frame["spat"] # "live")
          /\ \E f \in {"live", frame["map"]} : frame' = [frame EXCEPT !["spat"] = "freed", !["map"] = f]
    /\ UNCHANGED <<mix, table, refresh, newest, fetched, entry, car>>

\* With a car status the policy is asked, and what it returns sent; both frames are freed in each case.
TrafficLightApp ==
    /\ pc[Light] = "car"
    /\ car' = <<>>
    /\ FreeAll({"spat", "map"}) /\ Goto(Light, "start")
    /\ UNCHANGED <<mix, table, refresh, newest, fetched, entry>>

\* SharedSensorThread::Run: a message is waited for, copied, decoded and sent, or dropped.
SharedSensor ==
    /\ \/ pc[Sensor] = "start" /\ GetLatestEntry(Sensor, "ssm", "ssm")
       \/ pc[Sensor] = "ssm" /\ CopyEntry(Sensor, "start") /\ UNCHANGED <<fetched, refresh>>
    /\ UNCHANGED <<mix, table, newest, frame, twice, car>>
-----------------------------------------------------------------------------
Init ==
    /\ mix \in Mixes
    /\ table = [k \in Kinds |-> <<>>] /\ refresh = [k \in Kinds |-> FALSE]
    /\ newest = [k \in Kinds |-> NoMsg] /\ fetched = newest
    /\ pc = [t \in {Light, Sensor} |-> "start"] /\ entry = [t \in {Light, Sensor} |-> NoEntry]
    /\ frame = [f \in {"spat", "map"} |-> "none"]
    /\ twice = FALSE /\ car = <<>>

Next ==
    \/ ProcessUnsecured \/ ProcessSecured \/ RecvData \/ PushCarStatus \/ TimerExpired
    \/ ReadSpat \/ DecodeSpat \/ ReadMap \/ DecodeMap \/ TrafficLightApp \/ SharedSensor

Spec == Init /\ [][Next]_vars
-----------------------------------------------------------------------------
\* No accepted message is overlooked: the latest one was taken by its thread, or the thread will still be woken for it; it stands first in its table; the entry that a thread is about to copy is still in its table, or the thread will be woken again for a newer one, so that what it copied from a deleted entry is not its last word (of a map, which is not waited for, there is a newer one); and no frame is freed twice on any path.
DataSafe ==
    /\ \A k \in Notified : refresh[k] \/ fetched[k] = newest[k]
    /\ \A k \in Kinds : newest[k] # NoMsg => Head(table[k]) = newest[k] /\ Len(table[k]) <= MaxEntries
    /\ \A t \in DOMAIN entry : LET e == entry[t] IN
         e.kind # "none" => IF e.live THEN \E i \in DOMAIN table[e.kind] : table[e.kind][i] = e.msg
                                     ELSE IF e.kind \in Notified THEN refresh[e.kind] ELSE table[e.kind] # <<>>
    /\ ~twice
=============================================================================
