------------------------------ MODULE ObuProofs ------------------------------
(***************************************************************************)
(* The on-board unit for any set of messages, any table size and any       *)
(* times that satisfy ObuAssumption: what its run checks of the messages,  *)
(* the signatures, the authentication and the threads is proved for the    *)
(* composition MCObu, one inductive invariant for each part.               *)
(***************************************************************************)
EXTENDS MCObu, TLAPS

-----------------------------------------------------------------------------
(* Messages                                                                *)

Kinds == {"map", "spat", "ssm"}
Consumers == {"light", "sensor"}
Places == {"start", "spat", "spat_decode", "map", "map_copy", "map_decode", "car", "ssm"}
Entry == [kind : Kinds \cup {"none"}, msg : Msgs \cup {NoMsg}, live : BOOLEAN]

DataType ==
    /\ table \in [Kinds -> Seq(Msgs)] /\ refresh \in [Kinds -> BOOLEAN]
    /\ newest \in [Kinds -> Msgs \cup {NoMsg}] /\ fetched \in [Kinds -> Msgs \cup {NoMsg}]
    /\ mix \subseteq Kinds
    /\ dataPc \in [Consumers -> Places] /\ entry \in [Consumers -> Entry]
    /\ frame \in [{"spat", "map"} -> {"none", "live", "freed"}]

\* The newest message of a kind stands first in its table, which stays within its size.
NewestFirst ==
    \A k \in Kinds :
      /\ table[k] = <<>> <=> newest[k] = NoMsg
      /\ table[k] # <<>> => Head(table[k]) = newest[k]
      /\ Len(table[k]) <= MaxEntries

\* A thread of a table with notification has the newest message or will be woken for it.
Woken == \A k \in {"spat", "ssm"} : refresh[k] \/ fetched[k] = newest[k]

\* A thread that is about to copy has an entry of its table, or will be woken for a newer one; each table with notification has one thread.
Has(s, m) == \E i \in 1 .. Len(s) : s[i] = m
CopyLive ==
    \A t \in Consumers :
      LET e == entry[t] IN
      e.kind # "none" =>
        /\ e.kind = "ssm" <=> t = "sensor"
        /\ e.live => Has(table[e.kind], e.msg)
        /\ ~e.live => table[e.kind] # <<>> /\ (e.kind \in {"spat", "ssm"} => refresh[e.kind])

\* The frames that a path of the traffic light thread frees are in use on it.
FramesLive ==
    /\ twice = FALSE
    /\ dataPc["light"] \in {"map", "map_copy", "map_decode", "car"} => frame["spat"] = "live"
    /\ dataPc["light"] = "car" => frame["map"] = "live"

DataInv == DataType /\ NewestFirst /\ Woken /\ CopyLive /\ FramesLive
-----------------------------------------------------------------------------
(* Signatures                                                              *)

Keep == {"root_key", "self_key", "secured_msg", "signerinfo", "certificateStr", "payload", "signature_buf"}
Needed == {"root_key", "certificate", "signature"}
Names == Keep \cup {"file", "titles", "x", "y", "z", "cert", "tbs", "encode", "certificate", "pub_key", "signature", "tbs_data", "verificationKey"}
StepType == [do : {"take", "check", "put", "use"}, obj : Names]
CallType == [name : {"none", "init", "verify", "secure"}, steps : Seq(StepType), fail : SUBSET Names]

\* What steps s take beyond Keep they give back, or it is one of the objects that later steps give back.
Closed(s, later) ==
    \A i \in 1 .. Len(s) : s[i].do = "take" /\ s[i].obj \notin Keep =>
        s[i].obj \in later \/ \E j \in i + 1 .. Len(s) : s[j] = Security!Put(s[i].obj)

\* What steps s take is kept or is given back by a failure.
Covered(s, fail) == \A i \in 1 .. Len(s) : s[i].do = "take" => s[i].obj \in Keep \cup fail

\* The steps of a call, what a failure gives back and the checks of a message are right for the program that is left.
Program(c) ==
    /\ c \in CallType /\ Closed(c.steps, {}) /\ Covered(c.steps, c.fail)

SecurityType == Program(call) /\ held \subseteq Names /\ (call.name = "none" => call = Security!Quiet)

Taken ==
    /\ held \subseteq Keep \cup call.fail
    /\ \A o \in held \ Keep : \E j \in 1 .. Len(call.steps) : call.steps[j] = Security!Put(o)

\* The checks with an accepted result.
Passed(S) == {c \in Needed : \E r \in Security!Accepts(c) : <<c, r>> \in S}

\* Each result that was stored was accepted, and each check is stored once the code has gone on.
ChecksLeft ==
    /\ \A x \in proved : x[2] \in Security!Accepts(x[1])
    /\ call.name = "verify" => \A c \in Needed \ Passed(proved) : \E j \in 1 .. Len(call.steps) : call.steps[j] = Security!Check(c)

Gone == stage = "gone" => call = Security!Quiet /\ held \cap {"root_key", "self_key"} = {}

StoredOk(S) == S = {} \/ (Needed = Passed(S) /\ <<"signature", "bad">> \notin S)

SecurityInv == SecurityType /\ Taken /\ ChecksLeft /\ Gone /\ StoredOk(stored)
-----------------------------------------------------------------------------
(* Authentication                                                          *)

Creds == {"token", "key"}
Cred == [of : Int, left : Nat]
Answering == {"token", "key", "evaluate"}

ManagerType ==
    /\ status \in {"none", "authed", "invalid_token", "invalid_key"}
    /\ cred \in [Creds -> Cred] /\ reply \in [token : Cred, key : Cred, good : BOOLEAN]
    /\ authPc \in {"loop", "sleep", "pause", "request", "ended", "crashed"} \cup Answering /\ wait \in Nat
    /\ authPc \in {"request"} \cup Answering => wait <= MaxDelay
    /\ requests \in 0 .. 2 /\ failed \in {"no", "partly", "yes"}
    /\ authPc \in {"ended", "crashed"} => failed = "yes"
    /\ uu \in [at : {"wait", "idle", "encode", "send"}, token : Int, key : Int] /\ mixed \in BOOLEAN

\* How long a credential of a good answer still lasts, at each place of the thread.
Lasts(left) ==
    /\ authPc = "pause" => left >= ValidTimeInterval
    /\ authPc = "loop" => left >= ValidTimeInterval - 2
    /\ authPc = "sleep" => left >= ValidTimeInterval - 1 + wait \/ (wait = 0 /\ left >= ValidTimeInterval - 2)
    /\ authPc \in {"request"} \cup Answering => left >= ValidTimeInterval - 2 - MaxDelay + wait

\* Without a failure the credentials of an authenticated device last until they are renewed.
InTime == failed = "no" /\ status = "authed" => \A c \in Creds : Lasts(cred[c].left)

\* A good answer to an authenticated device renews both.
GoodAnswer ==
    authPc \in Answering =>
      /\ ~reply.good => failed = "yes"
      /\ status = "authed" /\ reply.good => \A c \in Creds : reply[c].left >= Life - MaxDelay + wait

\* What is valid has come from the platform, and is replaced by what has.
Granted ==
    /\ \A c \in Creds : cred[c].left > 0 => cred[c].of # 0
    /\ \A c \in Creds : reply[c].left > 0 => reply[c].of # 0
    /\ \A c \in Creds : authPc = "token" \/ authPc = c => (cred[c].of # 0 => reply[c].of # 0)
    /\ status = "authed" \/ uu.at # "wait" => \A c \in Creds : cred[c].of # 0

\* A message is made of the present credentials, unless an answer is stored meanwhile.
Present ==
    /\ uu.at \in {"encode", "send"} => uu.token # 0
    /\ uu.at = "send" => uu.key # 0
    /\ uu.at \in {"encode", "send"} /\ ~mixed => uu.token = cred["token"].of /\ authPc # "key"
    /\ uu.at = "send" /\ ~mixed => uu.key = cred["key"].of

AuthInv == ManagerType /\ InTime /\ GoodAnswer /\ Granted /\ Present
-----------------------------------------------------------------------------
(* Threads                                                                 *)

Statements == Threads!Objects \cup {"auth", "db", "proxy", "StartAll", "Join"}

ThreadsType ==
    /\ main \in Seq(Statements)
    /\ threads \in [Threads!Objects -> 0 .. 1] /\ thread_id \in [Threads!Objects -> BOOLEAN]
    /\ calls \in [going : Nat, done : Nat]
    /\ cq \in {"none", "open", "shut"} /\ client \in {"none", "next", "ended"} /\ server \in {"none", "new", "wait", "ended"}
    /\ stop_flag \in BOOLEAN /\ restarted \in BOOLEAN

\* The global objects of a thread are installed, or main installs them before it starts the thread.
Installed ==
    \A o \in Threads!Objects \ {"uu_send"} :
      /\ threads[o] > 0 => Threads!Uses[o] \subseteq installed
      /\ \A i \in 1 .. Len(main) : main[i] = o =>
           \A u \in Threads!Uses[o] : u \in installed \/ \E j \in 1 .. i - 1 : main[j] = u

StartedOnce == \A o \in Threads!Objects : ~thread_id[o] => threads[o] = 0

\* The flag of a proxy that was not started again is only seen by a stop.
ServerStops ==
    /\ ~restarted /\ stop_flag => caller \in {"join_server", "stop_client", "join_client", "stopped"}
    /\ caller \in {"stop_client", "join_client", "stopped"} => server = "none"
    /\ server = "ended" => restarted \/ caller = "join_server"

\* The queue exists as long as its thread, and takes its calls with it.
ClientStops ==
    /\ client # "next" => cq = "none" /\ calls = [going |-> 0, done |-> 0]
    /\ client = "next" => cq # "none"
    /\ caller = "stopped" => client = "none"

ThreadsInv == ThreadsType /\ Installed /\ StartedOnce /\ ServerStops /\ ClientStops
-----------------------------------------------------------------------------
\* The four parts with a proof; the traffic light policy has none.
IInv == DataInv /\ SecurityInv /\ AuthInv /\ ThreadsInv
-----------------------------------------------------------------------------
(* Threads.                                                                *)

\* What is left of a sequence after its first element.
LEMMA TailParts ==
  ASSUME NEW S, NEW s \in Seq(S), s # <<>>
  PROVE  /\ Tail(s) \in Seq(S) /\ Len(Tail(s)) = Len(s) - 1 /\ Len(s) \in Nat \ {0}
         /\ Head(s) = s[1] /\ s[1] \in S
         /\ \A i \in 1 .. Len(s) - 1 : Tail(s)[i] = s[i + 1]
OBVIOUS

\* main starts a thread after what it uses, once (OsThread::Start).
LEMMA StepMain == ThreadsInv /\ Threads!MainStep => ThreadsInv'
<1> SUFFICES ASSUME ThreadsInv, Threads!MainStep PROVE ThreadsInv' OBVIOUS
<1> DEFINE h == Head(main)
<1>1. main \in Seq(Statements) /\ main # <<>> /\ main' = Tail(main) BY DEF ThreadsInv, ThreadsType, Threads!MainStep
<1>2. /\ main' \in Seq(Statements) /\ Len(main') = Len(main) - 1 /\ Len(main) \in Nat \ {0} /\ h = main[1]
      /\ \A i \in 1 .. Len(main) - 1 : main'[i] = main[i + 1]
  BY <1>1, TailParts
<1>3. UNCHANGED <<server, stop_flag, client, cq, sender, calls, restarted, late>>
  BY DEF Threads!MainStep, Threads!proxy
<1>4. installed \subseteq installed' /\ (h \in {"auth", "db", "proxy"} => h \in installed')
  BY DEF Threads!MainStep, Threads!Objects
<1>5. (UNCHANGED <<threads, thread_id>>) \/
      (h \in Threads!Objects /\ ~thread_id[h] /\ threads' = [threads EXCEPT ![h] = @ + 1] /\ thread_id' = [thread_id EXCEPT ![h] = TRUE])
  BY DEF Threads!MainStep, Threads!Start
<1>6. /\ threads' \in [Threads!Objects -> 0 .. 1] /\ thread_id' \in [Threads!Objects -> BOOLEAN]
      /\ \A o \in Threads!Objects : ~thread_id'[o] => threads'[o] = 0
      /\ \A o \in Threads!Objects : threads'[o] > 0 => threads[o] > 0 \/ o = h
  <2>1. CASE UNCHANGED <<threads, thread_id>> BY <2>1 DEF ThreadsInv, ThreadsType, StartedOnce
  <2>2. CASE h \in Threads!Objects /\ ~thread_id[h] /\ threads' = [threads EXCEPT ![h] = @ + 1] /\ thread_id' = [thread_id EXCEPT ![h] = TRUE]
    <3>1. threads[h] = 0 BY <2>2 DEF ThreadsInv, StartedOnce
    <3>2. threads \in [Threads!Objects -> 0 .. 1] /\ thread_id \in [Threads!Objects -> BOOLEAN] BY DEF ThreadsInv, ThreadsType
    <3>3. \A o \in Threads!Objects : threads'[o] = IF o = h THEN 1 ELSE threads[o] BY <2>2, <3>1, <3>2
    <3>4. threads' \in [Threads!Objects -> 0 .. 1] BY <2>2, <3>1, <3>2
    <3>5. thread_id' \in [Threads!Objects -> BOOLEAN] /\ \A o \in Threads!Objects : ~thread_id'[o] => ~thread_id[o] /\ o # h
      BY <2>2, <3>2, Zenon
    <3>6. QED BY <3>3, <3>4, <3>5 DEF ThreadsInv, StartedOnce
  <2>3. QED BY <1>5, <2>1, <2>2
<1>7. ThreadsType' BY <1>2, <1>3, <1>6 DEF ThreadsInv, ThreadsType
<1>8. Installed'
  <2> SUFFICES ASSUME NEW o \in Threads!Objects \ {"uu_send"}
               PROVE  /\ threads'[o] > 0 => Threads!Uses[o] \subseteq installed'
                      /\ \A i \in 1 .. Len(main') : main'[i] = o =>
                           \A u \in Threads!Uses[o] : u \in installed' \/ \E j \in 1 .. i - 1 : main'[j] = u
    BY DEF Installed
  <2>1. Threads!Uses[o] \subseteq {"auth", "db", "proxy"} BY DEF Threads!Uses, Threads!Objects
  <2>2. h = o => Threads!Uses[o] \subseteq installed
    BY <1>2 DEF ThreadsInv, Installed
  <2>3. threads'[o] > 0 => Threads!Uses[o] \subseteq installed'
    BY <2>2, <1>4, <1>6 DEF ThreadsInv, Installed
  <2>4. ASSUME NEW i \in 1 .. Len(main'), main'[i] = o, NEW u \in Threads!Uses[o]
        PROVE  u \in installed' \/ \E j \in 1 .. i - 1 : main'[j] = u
    <3>1. i + 1 \in 1 .. Len(main) /\ main[i + 1] = o BY <1>2, <2>4
    <3>2. CASE u \in installed BY <3>2, <1>4
    <3>3. CASE u \notin installed
      <4>1. PICK j \in 1 .. i : main[j] = u BY <3>1, <3>3 DEF ThreadsInv, Installed
      <4>2. CASE j = 1 BY <4>1, <4>2, <1>2, <1>4, <2>1
      <4>3. CASE j # 1
        <5>1. j - 1 \in 1 .. i - 1 /\ main'[j - 1] = u BY <4>1, <4>3, <1>2
        <5>2. QED BY <5>1
      <4>4. QED BY <4>2, <4>3
    <3>4. QED BY <3>2, <3>3
  <2>5. QED BY <2>3, <2>4
<1>9. StartedOnce' BY <1>6 DEF StartedOnce
<1>10. caller = "idle" /\ caller' \in {"idle", "start"} BY DEF Threads!MainStep, Threads!proxy
<1>11. ServerStops' /\ ClientStops' BY <1>3, <1>10 DEF ThreadsInv, ServerStops, ClientStops
<1>12. QED BY <1>7, <1>8, <1>9, <1>11 DEF ThreadsInv

\* The end of a thread leaves its object started.
LEMMA StepThreadProc == ThreadsInv /\ (\E o \in Threads!Objects : Threads!ThreadProc(o)) => ThreadsInv'
<1> SUFFICES ASSUME ThreadsInv, NEW p \in Threads!Objects, Threads!ThreadProc(p) PROVE ThreadsInv' OBVIOUS
<1>1. /\ threads' \in [Threads!Objects -> 0 .. 1] /\ \A o \in Threads!Objects : threads'[o] > 0 => threads[o] > 0
  BY DEF Threads!ThreadProc, ThreadsInv, ThreadsType
<1>2. \A o \in Threads!Objects : threads[o] = 0 => threads'[o] = 0
  BY DEF Threads!ThreadProc, ThreadsInv, ThreadsType
<1>3. UNCHANGED <<main, installed, thread_id, caller, server, stop_flag, client, cq, sender, calls, restarted, late>>
  BY DEF Threads!ThreadProc, Threads!proxy
<1>4. ThreadsType' BY <1>1, <1>3 DEF ThreadsInv, ThreadsType
<1>5. Installed' /\ StartedOnce' BY <1>1, <1>2, <1>3 DEF ThreadsInv, Installed, StartedOnce
<1>6. ServerStops' /\ ClientStops' BY <1>3 DEF ThreadsInv, ServerStops, ClientStops
<1>7. QED BY <1>4, <1>5, <1>6 DEF ThreadsInv

\* The proxy leaves the threads of main alone.
LEMMA MainKept ==
  ASSUME ThreadsInv, UNCHANGED Threads!other,
         calls' \in [going : Nat, done : Nat], cq' \in {"none", "open", "shut"}, client' \in {"none", "next", "ended"},
         server' \in {"none", "new", "wait", "ended"}, stop_flag' \in BOOLEAN, restarted' \in BOOLEAN
  PROVE  ThreadsType' /\ Installed' /\ StartedOnce'
BY DEF ThreadsInv, ThreadsType, Installed, StartedOnce, Threads!other

\* The flag is set by a stop, and the server is waited for before the client is stopped (proxy.cc).
LEMMA StepServer == ThreadsInv /\ (Threads!ServiceStart \/ Threads!ServerThread \/ Threads!ServiceStop \/ Threads!StartAll) => ThreadsInv'
<1> SUFFICES ASSUME ThreadsInv, Threads!ServiceStart \/ Threads!ServerThread \/ Threads!ServiceStop \/ Threads!StartAll PROVE ThreadsInv' OBVIOUS
<1> USE DEF Threads!ServiceStart, Threads!ServerThread, Threads!ServiceStop, Threads!StartAll
<1>1. UNCHANGED <<Threads!other, client, cq, sender, calls, late>> OBVIOUS
<1>2. server' \in {"none", "new", "wait", "ended"} BY DEF ThreadsInv, ThreadsType
<1>3. stop_flag' \in BOOLEAN /\ restarted' \in BOOLEAN BY Zenon DEF ThreadsInv, ThreadsType
<1>4. ThreadsType' /\ Installed' /\ StartedOnce' BY <1>1, <1>2, <1>3, MainKept DEF ThreadsInv, ThreadsType
<1>5. ServerStops' BY DEF ThreadsInv, ThreadsType, ServerStops
<1>6. ClientStops' BY <1>1 DEF ThreadsInv, ClientStops
<1>7. QED BY <1>4, <1>5, <1>6 DEF ThreadsInv

\* A call needs the open queue, and the queue ends without calls (ClientThread).
LEMMA StepClient ==
  ThreadsInv /\ (Threads!ClientStart \/ Threads!ClientStop \/ Threads!Answer \/ Threads!ClientThread
                 \/ \E s \in Senders : Threads!SendPrepare(s) \/ Threads!SendFinish(s)) => ThreadsInv'
<1> SUFFICES ASSUME ThreadsInv, Threads!ClientStart \/ Threads!ClientStop \/ Threads!Answer \/ Threads!ClientThread
                 \/ \E s \in Senders : Threads!SendPrepare(s) \/ Threads!SendFinish(s)
             PROVE  ThreadsInv'
  OBVIOUS
<1> USE DEF Threads!ClientStart, Threads!ClientStop, Threads!Answer, Threads!ClientThread, Threads!SendPrepare, Threads!SendFinish
<1>1. UNCHANGED <<Threads!other, server, stop_flag, restarted>> OBVIOUS
<1>2. calls' \in [going : Nat, done : Nat] BY DEF ThreadsInv, ThreadsType
<1>3. cq' \in {"none", "open", "shut"} /\ client' \in {"none", "next", "ended"} BY DEF ThreadsInv, ThreadsType
<1>4. ThreadsType' /\ Installed' /\ StartedOnce' BY <1>1, <1>2, <1>3, MainKept DEF ThreadsInv, ThreadsType
<1>5. ServerStops' BY <1>1 DEF ThreadsInv, ServerStops
<1>6. ClientStops' BY DEF ThreadsInv, ThreadsType, ClientStops
<1>7. QED BY <1>4, <1>5, <1>6 DEF ThreadsInv

\* Every step of the threads keeps their invariant.
LEMMA StepThreads == ThreadsInv /\ [Threads!Next]_threadVars => ThreadsInv'
<1> SUFFICES ASSUME ThreadsInv, [Threads!Next]_threadVars PROVE ThreadsInv' OBVIOUS
<1>1. CASE UNCHANGED threadVars
  BY <1>1 DEF ThreadsInv, ThreadsType, Installed, StartedOnce, ServerStops, ClientStops, threadVars
<1>2. QED BY <1>1, StepMain, StepThreadProc, StepServer, StepClient DEF Threads!Next
-----------------------------------------------------------------------------
(* Messages.                                                               *)

\* A new message is put before the others, of which a full table gives up the first.
LEMMA NewTable ==
  ASSUME NEW m \in Msgs, NEW old \in Seq(Msgs), Len(old) <= MaxEntries
  PROVE  LET over == Len(old) + 1 > MaxEntries
             kept == IF over THEN Tail(old) ELSE old
             new == <<m>> \o kept
         IN  /\ new \in Seq(Msgs) /\ new # <<>> /\ Head(new) = m /\ Len(new) <= MaxEntries
             /\ over => old # <<>>
             /\ \A x : Has(old, x) /\ ~(over /\ x = Head(old)) => Has(new, x)
<1> DEFINE over == Len(old) + 1 > MaxEntries
           kept == IF over THEN Tail(old) ELSE old
           new == <<m>> \o kept
<1>1. over => old # <<>> BY ObuAssumption
<1>2. kept \in Seq(Msgs) /\ Len(kept) \in Nat /\ Len(kept) + 1 <= MaxEntries
  <2>1. CASE over
    <3>1. Tail(old) \in Seq(Msgs) /\ Len(Tail(old)) = Len(old) - 1 /\ Len(old) \in Nat \ {0} BY <2>1, <1>1, TailParts
    <3>2. QED BY <2>1, <3>1, ObuAssumption
  <2>2. CASE ~over BY <2>2, ObuAssumption
  <2>3. QED BY <2>1, <2>2
<1> HIDE DEF kept
<1>3. new \in Seq(Msgs) /\ Len(new) = 1 + Len(kept) /\ new[1] = m BY <1>2
<1>4. new # <<>> /\ Head(new) = m BY <1>2, <1>3
<1>5. \A i \in 2 .. 1 + Len(kept) : new[i] = kept[i - 1] BY <1>2
<1> HIDE DEF new
<1>6. ASSUME NEW x, Has(old, x), ~(over /\ x = Head(old)) PROVE Has(new, x)
  <2>1. PICK i \in 1 .. Len(old) : old[i] = x BY <1>6 DEF Has
  <2>2. CASE over
    <3>1. Len(kept) = Len(old) - 1 /\ Head(old) = old[1] /\ \A j \in 1 .. Len(old) - 1 : kept[j] = old[j + 1] BY <2>2, <1>1, TailParts DEF kept
    <3>2. i # 1 BY <1>6, <2>1, <2>2, <3>1
    <3>3. i \in 2 .. 1 + Len(kept) /\ kept[i - 1] = old[i] BY <3>1, <3>2
    <3>4. i \in 1 .. Len(new) /\ new[i] = x BY <3>3, <2>1, <1>2, <1>3, <1>5
    <3>5. QED BY <3>4 DEF Has
  <2>3. CASE ~over
    <3>1. kept = old BY <2>3 DEF kept
    <3>2. i + 1 \in 2 .. 1 + Len(kept) /\ i + 1 - 1 = i BY <3>1, <2>1, <1>2
    <3>3. new[i + 1] = x BY <3>1, <3>2, <2>1, <1>5
    <3>4. i + 1 \in 1 .. Len(new) BY <3>2, <1>2, <1>3
    <3>5. QED BY <3>3, <3>4 DEF Has
  <2>4. QED BY <2>2, <2>3
<1>7. QED BY <1>1, <1>2, <1>3, <1>4, <1>6 DEF kept, new

\* A received message is put into its table, or dropped; the threads keep their places (v2x_table.cc).
LEMMA StepSubmit ==
  ASSUME DataInv, NEW k \in Kinds \cup {"other"}, NEW m \in Msgs, Data!SubmitData(k, m)
  PROVE  DataInv'
<1>1. UNCHANGED <<mix, fetched, dataPc, frame, twice, car>> BY DEF Data!SubmitData
<1>2. CASE UNCHANGED <<table, refresh, newest, entry>>
  BY <1>1, <1>2 DEF DataInv, DataType, NewestFirst, Woken, CopyLive, FramesLive
<1>3. CASE ~UNCHANGED <<table, refresh, newest, entry>>
  <2> DEFINE old == table[k]
             over == Len(old) + 1 > MaxEntries
             kept == IF over THEN Tail(old) ELSE old
             new == <<m>> \o kept
  <2>1. k \in Kinds BY <1>3 DEF Data!SubmitData, DataInv, DataType
  <2>2. /\ table' = [table EXCEPT ![k] = new]
        /\ refresh' = [refresh EXCEPT ![k] = k \in Data!Notified]
        /\ newest' = [newest EXCEPT ![k] = m]
        /\ entry' = [t \in DOMAIN entry |->
               IF over /\ entry[t].kind = k /\ entry[t].msg = Head(old) THEN [entry[t] EXCEPT !.live = FALSE] ELSE entry[t]]
    BY <1>3 DEF Data!SubmitData, Data!AddEntryWithCompare
  <2>3. old \in Seq(Msgs) /\ Len(old) <= MaxEntries BY <2>1 DEF DataInv, DataType, NewestFirst
  <2>4. /\ new \in Seq(Msgs) /\ new # <<>> /\ Head(new) = m /\ Len(new) <= MaxEntries
        /\ \A x : Has(old, x) /\ ~(over /\ x = Head(old)) => Has(new, x)
    BY <2>3, NewTable
  <2> HIDE DEF new, kept
  <2>5. table' \in [Kinds -> Seq(Msgs)] /\ newest' \in [Kinds -> Msgs \cup {NoMsg}] BY <2>2, <2>4 DEF DataInv, DataType
  <2>6. refresh' \in [Kinds -> BOOLEAN] /\ \A q \in {"spat", "ssm"} : refresh'[q] \/ (q # k /\ refresh'[q] = refresh[q])
    <3>1. refresh \in [Kinds -> BOOLEAN] BY DEF DataInv, DataType
    <3>2. refresh' \in [Kinds -> BOOLEAN]
      <4> DEFINE b == k \in Data!Notified
      <4>1. b = TRUE \/ b = FALSE OBVIOUS
      <4>2. refresh' = [refresh EXCEPT ![k] = b] BY <2>2
      <4> HIDE DEF b
      <4>3. QED BY <4>1, <4>2, <3>1, Zenon
    <3>3. \A q \in Kinds : refresh'[q] = IF q = k THEN k \in Data!Notified ELSE refresh[q] BY <2>1, <2>2, <3>1, Zenon
    <3>4. ASSUME NEW q \in {"spat", "ssm"} PROVE q \in Kinds /\ q \in Data!Notified BY DEF Data!Notified, Kinds
    <3>5. QED BY <3>2, <3>3, <3>4, Zenon
  <2>7. /\ entry' \in [Consumers -> Entry]
        /\ \A t \in Consumers :
             /\ entry'[t].kind = entry[t].kind /\ entry'[t].msg = entry[t].msg
             /\ (entry'[t] = entry[t] /\ ~(over /\ entry[t].kind = k /\ entry[t].msg = Head(old))) \/ (entry[t].kind = k /\ entry'[t].live = FALSE)
    <3>1. entry \in [Consumers -> Entry] BY DEF DataInv, DataType
    <3>2. ASSUME NEW e \in Entry PROVE LET d == [e EXCEPT !.live = FALSE] IN d \in Entry /\ d.kind = e.kind /\ d.msg = e.msg /\ d.live = FALSE BY DEF Entry
    <3>3. DOMAIN entry' = Consumers /\ \A t \in Consumers :
                       \/ entry'[t] = entry[t] /\ ~(over /\ entry[t].kind = k /\ entry[t].msg = Head(old))
                       \/ over /\ entry[t].kind = k /\ entry'[t] = [entry[t] EXCEPT !.live = FALSE]
      <4> HIDE DEF over
      <4>1. QED BY <2>2, <3>1
    <3>4. entry' = [t \in Consumers |-> entry'[t]] BY <2>2, <3>1, <3>3
    <3>5. ASSUME NEW t \in Consumers
          PROVE  /\ entry'[t] \in Entry /\ entry'[t].kind = entry[t].kind /\ entry'[t].msg = entry[t].msg
                 /\ (entry'[t] = entry[t] /\ ~(over /\ entry[t].kind = k /\ entry[t].msg = Head(old))) \/ (entry[t].kind = k /\ entry'[t].live = FALSE)
      <4>1. entry[t] \in Entry BY <3>1
      <4>2. CASE entry'[t] = entry[t] /\ ~(over /\ entry[t].kind = k /\ entry[t].msg = Head(old)) BY <4>1, <4>2
      <4>3. CASE over /\ entry[t].kind = k /\ entry'[t] = [entry[t] EXCEPT !.live = FALSE]
        <5>1. entry'[t] \in Entry /\ entry'[t].kind = entry[t].kind /\ entry'[t].msg = entry[t].msg /\ entry'[t].live = FALSE
          BY <4>1, <4>3, <3>2
        <5>2. QED BY <4>3, <5>1
      <4>4. QED BY <3>3, <4>2, <4>3
    <3>6. entry' \in [Consumers -> Entry] BY <3>4, <3>5
    <3>7. QED BY <3>5, <3>6
  <2>8. DataType' BY <1>1, <2>5, <2>6, <2>7 DEF DataInv, DataType
  <2>9. NewestFirst'
    <3>1. \A q \in Kinds : table'[q] = (IF q = k THEN new ELSE table[q]) /\ newest'[q] = (IF q = k THEN m ELSE newest[q])
      BY <2>2 DEF DataInv, DataType
    <3>2. m # NoMsg BY ObuAssumption
    <3>3. QED BY <3>1, <3>2, <2>4 DEF DataInv, NewestFirst
  <2>10. Woken'
    <3>1. \A q \in {"spat", "ssm"} : q # k => newest'[q] = newest[q] BY <2>2 DEF DataInv, DataType, Kinds
    <3>2. QED BY <1>1, <2>6, <3>1 DEF DataInv, Woken
  <2>11. CopyLive'
    <3> SUFFICES ASSUME NEW t \in Consumers, entry'[t].kind # "none"
                 PROVE  LET e == entry'[t] IN
                        /\ e.kind = "ssm" <=> t = "sensor"
                        /\ e.live => Has(table'[e.kind], e.msg)
                        /\ ~e.live => table'[e.kind] # <<>> /\ (e.kind \in {"spat", "ssm"} => refresh'[e.kind])
      BY DEF CopyLive
    <3> DEFINE q == entry[t].kind
    <3>1. entry'[t].kind = q /\ entry'[t].msg = entry[t].msg /\ q \in Kinds /\ (q = "ssm" <=> t = "sensor")
      BY <2>7 DEF DataInv, DataType, CopyLive, Entry
    <3>2. /\ entry[t].live => Has(table[q], entry[t].msg)
          /\ ~entry[t].live => table[q] # <<>> /\ (q \in {"spat", "ssm"} => refresh[q])
      BY <3>1 DEF DataInv, CopyLive
    <3>3. CASE q # k
      <4>1. table'[q] = table[q] /\ entry'[t] = entry[t] BY <3>1, <3>3, <2>2, <2>7 DEF DataInv, DataType
      <4>2. q \in {"spat", "ssm"} /\ refresh[q] => refresh'[q] BY <2>6
      <4>3. QED BY <3>1, <3>2, <4>1, <4>2
    <3>4. CASE q = k
      <4>1. table'[q] = new /\ (q \in {"spat", "ssm"} => refresh'[q]) BY <3>1, <3>4, <2>2, <2>6 DEF DataInv, DataType
      <4>2. entry'[t].live => Has(old, entry[t].msg) /\ ~(over /\ entry[t].msg = Head(old)) BY <3>2, <3>4, <2>7
      <4>3. entry'[t].live => Has(new, entry[t].msg) BY <4>2, <2>4
      <4>4. QED BY <3>1, <4>1, <4>3, <2>4
    <3>5. QED BY <3>3, <3>4
  <2>12. FramesLive' BY <1>1 DEF DataInv, FramesLive
  <2>13. QED BY <2>8, <2>9, <2>10, <2>11, <2>12 DEF DataInv
<1>4. QED BY <1>2, <1>3

\* A thread takes the newest entry of its table.
LEMMA StepGet ==
  ASSUME DataInv, NEW t \in Consumers, NEW k \in Kinds, NEW next \in Places, Data!GetLatestEntry(t, k, next),
         UNCHANGED <<mix, table, newest, frame, twice>>,
         k = "ssm" <=> t = "sensor",
         t = "light" /\ next \in {"map", "map_copy", "map_decode", "car"} => dataPc["light"] = "map" /\ next = "map_copy"
  PROVE  DataInv'
<1>1. Head(table[k]) = newest[k] /\ table[k] # <<>> BY DEF Data!GetLatestEntry, DataInv, NewestFirst
<1>2. newest[k] \in Msgs \cup {NoMsg} BY DEF DataInv, DataType
<1>3. /\ entry' = [entry EXCEPT ![t] = [kind |-> k, msg |-> newest[k], live |-> TRUE]]
      /\ fetched' = [fetched EXCEPT ![k] = newest[k]]
      /\ refresh' = [refresh EXCEPT ![k] = FALSE]
      /\ dataPc' = [dataPc EXCEPT ![t] = next]
  BY <1>1 DEF Data!GetLatestEntry, Data!Goto
<1>4. entry' \in [Consumers -> Entry] BY <1>2, <1>3 DEF DataInv, DataType, Entry
<1>5. fetched' \in [Kinds -> Msgs \cup {NoMsg}] /\ dataPc' \in [Consumers -> Places] BY <1>2, <1>3 DEF DataInv, DataType
<1>6. refresh' \in [Kinds -> BOOLEAN] /\ \A q \in Kinds : q # k => refresh'[q] = refresh[q] BY <1>3, Zenon DEF DataInv, DataType
<1>7. DataType' BY <1>4, <1>5, <1>6 DEF DataInv, DataType
<1>8. NewestFirst' BY DEF DataInv, NewestFirst
<1>9. Woken'
  <2>1. \A q \in Kinds : fetched'[q] = IF q = k THEN newest[q] ELSE fetched[q] BY <1>3 DEF DataInv, DataType
  <2>2. QED BY <1>6, <2>1 DEF DataInv, Woken, Kinds
<1>10. CopyLive'
  <2>1. entry'[t] = [kind |-> k, msg |-> newest[k], live |-> TRUE] BY <1>3 DEF DataInv, DataType
  <2>2. \A u \in Consumers : u # t => entry'[u] = entry[u] /\ dataPc'[u] = dataPc[u] BY <1>3 DEF DataInv, DataType
  <2>3. Has(table[k], newest[k])
    <3>1. table[k] \in Seq(Msgs) BY DEF DataInv, DataType
    <3>2. 1 \in 1 .. Len(table[k]) /\ table[k][1] = newest[k] BY <1>1, <3>1, TailParts
    <3>3. QED BY <3>2 DEF Has
  <2>4. \A u \in Consumers : u # t /\ entry[u].kind = k => k = "map"
    BY DEF DataInv, CopyLive, Consumers, Kinds
  <2>5. \A q \in {"spat", "ssm"} : q # k /\ refresh[q] => refresh'[q] BY <1>6 DEF Kinds
  <2>6. QED BY <2>1, <2>2, <2>3, <2>4, <2>5 DEF DataInv, CopyLive
<1>11. FramesLive' BY <1>3 DEF DataInv, DataType, FramesLive, Consumers
<1>12. QED BY <1>7, <1>8, <1>9, <1>10, <1>11 DEF DataInv

\* It copies the entry, which may have been deleted.
LEMMA StepCopy ==
  ASSUME DataInv, NEW t \in Consumers, NEW next \in Places, Data!CopyEntry(t, next),
         dataPc[t] \in {"spat", "map_copy", "ssm"}, next \notin {"spat", "map_copy", "ssm"},
         UNCHANGED <<mix, table, refresh, newest, fetched, frame, twice>>,
         t = "light" /\ next \in {"map", "map_copy", "map_decode", "car"} => dataPc["light"] = "map_copy" /\ next = "map_decode"
  PROVE  DataInv'
<1>1. /\ entry' = [entry EXCEPT ![t] = Data!NoEntry] /\ dataPc' = [dataPc EXCEPT ![t] = next]
  BY DEF Data!CopyEntry, Data!Goto
<1>2. Data!NoEntry \in Entry /\ Data!NoEntry.kind = "none" BY DEF Data!NoEntry, Entry
<1>3. DataType' BY <1>1, <1>2 DEF DataInv, DataType
<1>4. NewestFirst' /\ Woken' BY DEF DataInv, NewestFirst, Woken
<1>5. CopyLive'
  <2>2. entry'[t] = Data!NoEntry /\ dataPc'[t] = next BY <1>1 DEF DataInv, DataType
  <2>3. \A u \in Consumers : u # t => entry'[u] = entry[u] /\ dataPc'[u] = dataPc[u] BY <1>1 DEF DataInv, DataType
  <2>4. QED BY <1>2, <2>2, <2>3 DEF DataInv, CopyLive
<1>6. FramesLive' BY <1>1 DEF DataInv, DataType, FramesLive, Consumers
<1>7. QED BY <1>3, <1>4, <1>5, <1>6 DEF DataInv

\* The traffic light thread fills and frees its frames.
LEMMA StepFrames ==
  ASSUME DataInv, NEW next \in Places \ {"spat", "map_copy", "ssm"}, Data!Goto("light", next),
         UNCHANGED <<mix, table, refresh, newest, fetched, entry>>,
         frame' \in [{"spat", "map"} -> {"none", "live", "freed"}], twice' = FALSE,
         next \in {"map", "map_decode", "car"} => frame'["spat"] = "live", next = "car" => frame'["map"] = "live"
  PROVE  DataInv'
<1>1. dataPc' = [dataPc EXCEPT !["light"] = next] BY DEF Data!Goto
<1>2. /\ dataPc' \in [Consumers -> Places] /\ dataPc'["light"] = next
      /\ \A t \in Consumers : t # "light" => dataPc'[t] = dataPc[t]
  BY <1>1 DEF DataInv, DataType, Consumers
<1>3. DataType' BY <1>2 DEF DataInv, DataType
<1>4. NewestFirst' /\ Woken' BY DEF DataInv, NewestFirst, Woken
<1>5. CopyLive' BY <1>2 DEF DataInv, CopyLive
<1>6. FramesLive' BY <1>2 DEF FramesLive
<1>7. QED BY <1>3, <1>4, <1>5, <1>6 DEF DataInv

\* A signal is waited for, copied and decoded (TrafficLightThread::Run).
LEMMA StepSpat == DataInv /\ (Data!ReadSpat \/ Data!DecodeSpat) => DataInv'
<1> USE DEF Data!Light, Data!Sensor, Consumers, Kinds, Places
<1>1. ASSUME DataInv, Data!ReadSpat, dataPc["light"] = "start" PROVE DataInv' 
  BY <1>1, StepGet DEF Data!ReadSpat
<1>2. ASSUME DataInv, Data!ReadSpat, dataPc["light"] = "spat" PROVE DataInv'
  BY <1>2, StepCopy DEF Data!ReadSpat
<1>3. ASSUME DataInv, Data!DecodeSpat PROVE DataInv'
  <2>1. UNCHANGED <<mix, table, refresh, newest, fetched, entry>> BY <1>3 DEF Data!DecodeSpat
  <2>2. frame \in [{"spat", "map"} -> {"none", "live", "freed"}] /\ twice = FALSE BY <1>3 DEF DataInv, DataType, FramesLive
  <2>3. PICK next \in {"map", "start"} :
          /\ Data!Goto("light", next) /\ twice' = twice
          /\ frame' = [frame EXCEPT !["spat"] = "live"] \/ (frame' = frame /\ next = "start")
    BY <1>3 DEF Data!DecodeSpat, Data!Create
  <2>4. QED BY <1>3, <2>1, <2>2, <2>3, StepFrames
<1>4. QED BY <1>1, <1>2, <1>3 DEF Data!ReadSpat

\* The map is copied and decoded, and what the thread has is freed when there is none.
LEMMA StepMap == DataInv /\ (Data!ReadMap \/ Data!DecodeMap \/ Data!TrafficLightApp) => DataInv'
<1> USE DEF Data!Light, Data!Sensor, Consumers, Kinds, Places
<1> SUFFICES ASSUME DataInv, Data!ReadMap \/ Data!DecodeMap \/ Data!TrafficLightApp PROVE DataInv' OBVIOUS
<1>1. frame \in [{"spat", "map"} -> {"none", "live", "freed"}] /\ twice = FALSE BY DEF DataInv, DataType, FramesLive
<1>2. CASE Data!ReadMap /\ dataPc["light"] = "map" /\ table["map"] # <<>>
  BY <1>2, StepGet DEF Data!ReadMap
<1>3. CASE Data!ReadMap /\ dataPc["light"] = "map" /\ table["map"] = <<>>
  <2>1. Data!FreeAll({"spat"}) /\ Data!Goto("light", "start") /\ UNCHANGED <<mix, table, refresh, newest, fetched, entry>>
    BY <1>3 DEF Data!ReadMap, Data!GetLatestEntry
  <2>2. frame["spat"] = "live" BY <1>3 DEF DataInv, FramesLive
  <2>3. twice' = FALSE BY <1>1, <2>1, <2>2 DEF Data!FreeAll
  <2>4. frame' \in [{"spat", "map"} -> {"none", "live", "freed"}] BY <1>1, <2>1 DEF Data!FreeAll
  <2>5. QED BY <2>1, <2>3, <2>4, StepFrames
<1>4. CASE Data!ReadMap /\ dataPc["light"] = "map_copy"
  BY <1>4, StepCopy DEF Data!ReadMap
<1>5. CASE Data!DecodeMap
  <2>1. frame["spat"] = "live" BY <1>5 DEF Data!DecodeMap, DataInv, FramesLive
  <2>2. UNCHANGED <<mix, table, refresh, newest, fetched, entry>> BY <1>5 DEF Data!DecodeMap
  <2>3. PICK next \in {"car", "start"}, a, b \in {"none", "live", "freed"} :
          /\ Data!Goto("light", next) /\ twice' = FALSE
          /\ frame' = [frame EXCEPT !["spat"] = a, !["map"] = b]
          /\ next = "car" => a = "live" /\ b = "live"
    <3>1. CASE Data!Create("map") /\ Data!Goto("light", "car")
      <4>1. frame' = [frame EXCEPT !["spat"] = "live", !["map"] = "live"] BY <3>1, <2>1, <1>1 DEF Data!Create
      <4>2. QED BY <3>1, <4>1, <1>1 DEF Data!Create
    <3>2. CASE ~Data!Create("map") \/ ~Data!Goto("light", "car")
      <4>1. Data!Goto("light", "start") /\ twice' = (twice \/ frame["spat"] # "live") BY <1>5, <3>2 DEF Data!DecodeMap
      <4>2. PICK f \in {"live", frame["map"]} : frame' = [frame EXCEPT !["spat"] = "freed", !["map"] = f] BY <1>5, <3>2 DEF Data!DecodeMap
      <4>3. f \in {"none", "live", "freed"} BY <1>1
      <4>4. twice' = FALSE BY <4>1, <1>1, <2>1
      <4>5. QED BY <4>1, <4>2, <4>3, <4>4
    <3>3. QED BY <3>1, <3>2
  <2>4. frame' \in [{"spat", "map"} -> {"none", "live", "freed"}] /\ frame'["spat"] = a /\ frame'["map"] = b BY <1>1, <2>3
  <2>5. QED BY <2>2, <2>3, <2>4, StepFrames
<1>6. CASE Data!TrafficLightApp
  <2>1. Data!FreeAll({"spat", "map"}) /\ Data!Goto("light", "start") /\ UNCHANGED <<mix, table, refresh, newest, fetched, entry>>
    BY <1>6 DEF Data!TrafficLightApp
  <2>2. frame["spat"] = "live" /\ frame["map"] = "live" BY <1>6 DEF Data!TrafficLightApp, DataInv, FramesLive
  <2>3. twice' = FALSE BY <1>1, <2>1, <2>2 DEF Data!FreeAll
  <2>4. frame' \in [{"spat", "map"} -> {"none", "live", "freed"}] BY <1>1, <2>1 DEF Data!FreeAll
  <2>5. QED BY <2>1, <2>3, <2>4, StepFrames
<1>7. QED BY <1>2, <1>3, <1>4, <1>5, <1>6 DEF Data!ReadMap

\* A shared sensor message is waited for and copied (SharedSensorThread::Run).
LEMMA StepSensor == DataInv /\ Data!SharedSensor => DataInv'
<1> USE DEF Data!Light, Data!Sensor, Consumers, Kinds, Places
<1> SUFFICES ASSUME DataInv, Data!SharedSensor PROVE DataInv' OBVIOUS
<1>1. CASE dataPc["sensor"] = "start" BY <1>1, StepGet DEF Data!SharedSensor
<1>2. CASE dataPc["sensor"] = "ssm" BY <1>2, StepCopy DEF Data!SharedSensor
<1>3. QED BY <1>1, <1>2 DEF Data!SharedSensor

\* Every step of the adapters and of the two threads keeps the invariant of the messages.
LEMMA StepData == DataInv /\ [Data!Next]_dataVars => DataInv'
<1> SUFFICES ASSUME DataInv, [Data!Next]_dataVars PROVE DataInv' OBVIOUS
<1>1. CASE UNCHANGED dataVars \/ Data!PushCarStatus \/ Data!TimerExpired
  <2>1. UNCHANGED <<mix, table, refresh, newest, fetched, dataPc, entry, frame, twice>>
    BY <1>1 DEF dataVars, Data!PushCarStatus, Data!TimerExpired, Data!thread
  <2>2. QED BY <2>1 DEF DataInv, DataType, NewestFirst, Woken, CopyLive, FramesLive
<1>2. CASE Data!ProcessUnsecured \/ Data!ProcessSecured \/ Data!RecvData
  <2>1. PICK k \in Kinds \cup {"other"}, m \in Msgs : Data!SubmitData(k, m)
    BY <1>2 DEF Data!ProcessUnsecured, Data!ProcessSecured, Data!RecvData, Kinds, Data!Kinds
  <2>2. QED BY <2>1, StepSubmit
<1>3. QED BY <1>1, <1>2, StepSpat, StepMap, StepSensor DEF Data!Next
-----------------------------------------------------------------------------
(* Signatures.                                                             *)

\* The elements of two sequences one after the other.
LEMMA ConcatParts ==
  ASSUME NEW S, NEW s \in Seq(S), NEW t \in Seq(S)
  PROVE  /\ s \o t \in Seq(S) /\ Len(s) \in Nat /\ Len(t) \in Nat /\ Len(s \o t) = Len(s) + Len(t)
         /\ \A i \in 1 .. Len(s) : (s \o t)[i] = s[i]
         /\ \A i \in Len(s) + 1 .. Len(s) + Len(t) : (s \o t)[i] = t[i - Len(s)]
OBVIOUS

\* Steps one after the other: what the first leave open the second give back or leave open too.
LEMMA ClosedConcat ==
  ASSUME NEW s \in Seq(StepType), NEW t \in Seq(StepType), NEW L, NEW M, Closed(s, L), Closed(t, M),
         \A o \in L : o \in M \/ \E j \in 1 .. Len(t) : t[j] = Security!Put(o)
  PROVE  s \o t \in Seq(StepType) /\ Closed(s \o t, M)
<1> DEFINE u == s \o t
<1>1. /\ u \in Seq(StepType) /\ Len(s) \in Nat /\ Len(t) \in Nat /\ Len(u) = Len(s) + Len(t)
      /\ \A i \in 1 .. Len(s) : u[i] = s[i]
      /\ \A i \in 1 .. Len(t) : u[Len(s) + i] = t[i]
  OBVIOUS
<1>2. ASSUME NEW i \in 1 .. Len(u), u[i].do = "take", u[i].obj \notin Keep, u[i].obj \notin M
      PROVE  \E j \in i + 1 .. Len(u) : u[j] = Security!Put(u[i].obj)
  <2> DEFINE p == Security!Put(u[i].obj)
  <2>1. CASE i > Len(s)
    <3>1. i - Len(s) \in 1 .. Len(t) /\ u[i] = t[i - Len(s)] BY <1>1, <2>1
    <3>2. PICK j \in i - Len(s) + 1 .. Len(t) : t[j] = p BY <3>1, <1>2 DEF Closed
    <3>3. Len(s) + j \in i + 1 .. Len(u) /\ u[Len(s) + j] = p BY <1>1, <3>1, <3>2
    <3>4. QED BY <3>3
  <2>2. CASE i <= Len(s)
    <3>1. i \in 1 .. Len(s) /\ u[i] = s[i] BY <1>1, <2>2
    <3>2. CASE \E j \in i + 1 .. Len(s) : s[j] = p
      <4>1. PICK j \in i + 1 .. Len(s) : s[j] = p BY <3>2
      <4>2. j \in i + 1 .. Len(u) /\ u[j] = p BY <1>1, <4>1, <3>1
      <4>3. QED BY <4>2
    <3>3. CASE u[i].obj \in L
      <4>1. PICK j \in 1 .. Len(t) : t[j] = p BY <3>3, <1>2
      <4>2. Len(s) + j \in i + 1 .. Len(u) /\ u[Len(s) + j] = p BY <1>1, <3>1, <4>1
      <4>3. QED BY <4>2
    <3>4. QED BY <3>1, <3>2, <3>3, <1>2 DEF Closed
  <2>3. QED BY <1>1, <2>1, <2>2
<1>3. QED BY <1>1, <1>2 DEF Closed

\* Steps that leave nothing open may be followed by any others.
LEMMA ClosedBefore ==
  ASSUME NEW s \in Seq(StepType), NEW t \in Seq(StepType), NEW M, Closed(s, {}), Closed(t, M)
  PROVE  s \o t \in Seq(StepType) /\ Closed(s \o t, M)
<1> DEFINE L == {}
<1>1. Closed(s, L) /\ \A o \in L : o \in M \/ \E j \in 1 .. Len(t) : t[j] = Security!Put(o) OBVIOUS
<1> HIDE DEF L
<1>2. QED BY <1>1, ClosedConcat

\* Steps that leave one object open are followed by others that give it back.
LEMMA ClosedAfter ==
  ASSUME NEW s \in Seq(StepType), NEW t \in Seq(StepType), NEW o, Closed(s, {o}), Closed(t, {}),
         \E j \in 1 .. Len(t) : t[j] = Security!Put(o)
  PROVE  s \o t \in Seq(StepType) /\ Closed(s \o t, {})
<1> DEFINE L == {o}
           M == {}
<1>1. Closed(s, L) /\ Closed(t, M) /\ \A x \in L : x \in M \/ \E j \in 1 .. Len(t) : t[j] = Security!Put(x) OBVIOUS
<1> HIDE DEF L, M
<1>2. s \o t \in Seq(StepType) /\ Closed(s \o t, M) BY <1>1, ClosedConcat
<1>3. QED BY <1>2 DEF M

\* A failure covers what both of two lists of steps take.
LEMMA CoveredConcat ==
  ASSUME NEW s \in Seq(StepType), NEW t \in Seq(StepType), NEW fail, Covered(s, fail), Covered(t, fail)
  PROVE  Covered(s \o t, fail)
<1> DEFINE u == s \o t
<1>1. /\ Len(s) \in Nat /\ Len(t) \in Nat /\ Len(u) = Len(s) + Len(t)
      /\ \A i \in 1 .. Len(s) : u[i] = s[i]
      /\ \A i \in Len(s) + 1 .. Len(u) : i - Len(s) \in 1 .. Len(t) /\ u[i] = t[i - Len(s)]
  OBVIOUS
<1>2. ASSUME NEW i \in 1 .. Len(u), u[i].do = "take" PROVE u[i].obj \in Keep \cup fail
  <2>1. i \in 1 .. Len(s) \/ i \in Len(s) + 1 .. Len(u) BY <1>1
  <2>2. CASE i \in 1 .. Len(s) BY <1>1, <1>2, <2>2 DEF Covered
  <2>3. CASE i \in Len(s) + 1 .. Len(u) BY <1>1, <1>2, <2>3 DEF Covered
  <2>4. QED BY <2>1, <2>2, <2>3
<1>3. QED BY <1>2 DEF Covered

\* The single steps, as records.
LEMMA Steps ==
  ASSUME NEW o \in Names
  PROVE  /\ Security!Take(o) \in StepType /\ Security!Check(o) \in StepType /\ Security!Put(o) \in StepType /\ Security!Use(o) \in StepType
         /\ Security!Take(o).do = "take" /\ Security!Check(o).do = "check" /\ Security!Put(o).do = "put"
         /\ Security!Take(o).obj = o /\ Security!Check(o).obj = o /\ Security!Put(o).obj = o
BY DEF StepType, Security!Take, Security!Check, Security!Put, Security!Use

\* SetupKey gives back the numbers, and keeps the key.
LEMMA SetupKeyClosed ==
  ASSUME NEW key \in Keep, NEW fail, {"x", "y", "z"} \subseteq fail
  PROVE  LET s == Security!SetupKey(key) IN s \in Seq(StepType) /\ Closed(s, {}) /\ Covered(s, fail)
<1> DEFINE s == Security!SetupKey(key)
<1>1. key \in Names BY DEF Names
<1>2. s \in Seq(StepType) /\ Len(s) = 7
  <2>1. \A o \in {"x", "y", "z"} : o \in Names BY DEF Names
  <2>2. QED BY <1>1, <2>1, Steps DEF Security!SetupKey
<1>3. /\ s[1] = Security!Take("y") /\ s[2] = Security!Take("z") /\ s[3] = Security!Take("x") /\ s[4] = Security!Take(key)
      /\ s[5] = Security!Put("x") /\ s[6] = Security!Put("y") /\ s[7] = Security!Put("z")
  BY DEF Security!SetupKey
<1> HIDE DEF s
<1>4. \A i \in 1 .. Len(s) : i = 1 \/ i = 2 \/ i = 3 \/ i = 4 \/ i = 5 \/ i = 6 \/ i = 7 BY <1>2
<1>5. Closed(s, {})
  BY <1>2, <1>3, <1>4 DEF Closed, Security!Take, Security!Put
<1>6. Covered(s, fail)
  BY <1>2, <1>3, <1>4 DEF Covered, Security!Take, Security!Put
<1>7. QED BY <1>2, <1>5, <1>6 DEF s

\* A certificate becomes a key that is kept; the file and the certificate are given back (Init).
LEMMA GetKeyClosed ==
  ASSUME NEW key \in Keep, NEW fail, {"file", "x", "y", "z", "cert"} \subseteq fail
  PROVE  LET s == Security!GetKey(key) IN s \in Seq(StepType) /\ Closed(s, {}) /\ Covered(s, fail)
<1> DEFINE f == <<Security!Take("file"), Security!Check("titles"), Security!Put("file")>>
           a == <<Security!Take("cert"), Security!Use("verificationKey")>>
           b == Security!SetupKey(key)
           c == <<Security!Put("cert")>>
<1>0. "file" \in Names /\ "titles" \in Names /\ "cert" \in Names /\ "verificationKey" \in Names BY DEF Names
<1>1. f \in Seq(StepType) /\ Closed(f, {}) /\ Covered(f, fail)
  <2>1. f \in Seq(StepType) /\ Len(f) = 3 BY <1>0, Steps
  <2>2. f[1] = Security!Take("file") /\ f[2] = Security!Check("titles") /\ f[3] = Security!Put("file") OBVIOUS
  <2> HIDE DEF f
  <2>3. \A i \in 1 .. Len(f) : i = 1 \/ i = 2 \/ i = 3 BY <2>1
  <2>4. Closed(f, {}) BY <2>1, <2>2, <2>3 DEF Closed, Security!Take, Security!Put, Security!Check
  <2>5. Covered(f, fail) BY <2>1, <2>2, <2>3 DEF Covered, Security!Take, Security!Put, Security!Check
  <2>6. QED BY <2>1, <2>4, <2>5
<1>2. /\ a \in Seq(StepType) /\ Closed(a, {"cert"}) /\ Covered(a, fail)
      /\ c \in Seq(StepType) /\ Closed(c, {}) /\ Covered(c, fail) /\ c[1] = Security!Put("cert") /\ Len(c) = 1
  <2>1. a \in Seq(StepType) /\ Len(a) = 2 /\ a[1] = Security!Take("cert") /\ a[2] = Security!Use("verificationKey") BY <1>0, Steps
  <2>2. c \in Seq(StepType) /\ Len(c) = 1 /\ c[1] = Security!Put("cert") BY <1>0, Steps
  <2> HIDE DEF a, c
  <2>3. Closed(a, {"cert"}) /\ Covered(a, fail)
    <3>1. \A i \in 1 .. Len(a) : i = 1 \/ i = 2 BY <2>1
    <3>2. QED BY <2>1, <3>1 DEF Closed, Covered, Security!Take, Security!Use
  <2>4. Closed(c, {}) /\ Covered(c, fail) BY <2>2 DEF Closed, Covered, Security!Put
  <2>5. QED BY <2>1, <2>2, <2>3, <2>4
<1>3. b \in Seq(StepType) /\ Closed(b, {}) /\ Covered(b, fail) BY SetupKeyClosed
<1> HIDE DEF f, a, b, c
<1>4. Closed(b, {"cert"}) BY <1>3 DEF Closed
<1>5. a \o b \in Seq(StepType) /\ Closed(a \o b, {"cert"}) BY <1>2, <1>3, <1>4, ClosedConcat
<1>6. Covered(a \o b, fail) BY <1>2, <1>3, CoveredConcat
<1> DEFINE ab == a \o b
           abc == ab \o c
<1>7. ab \in Seq(StepType) /\ Closed(ab, {"cert"}) /\ Covered(ab, fail) BY <1>5, <1>6
<1> HIDE DEF ab
<1>8. abc \in Seq(StepType) /\ Closed(abc, {}) /\ Covered(abc, fail)
  <2>1. \E j \in 1 .. Len(c) : c[j] = Security!Put("cert") BY <1>2
  <2>2. abc \in Seq(StepType) /\ Closed(abc, {}) BY <1>2, <1>7, <2>1, ClosedAfter
  <2>3. Covered(abc, fail) BY <1>2, <1>7, CoveredConcat
  <2>4. QED BY <2>2, <2>3
<1> HIDE DEF abc
<1>9. f \o abc \in Seq(StepType) /\ Closed(f \o abc, {}) BY <1>1, <1>8, ClosedBefore
<1>10. Covered(f \o abc, fail) BY <1>1, <1>8, CoveredConcat
<1>11. Security!GetKey(key) = f \o abc BY DEF Security!GetKey, Security!SetupKeyFromCA, f, a, b, c, ab, abc
<1>12. QED BY <1>9, <1>10, <1>11

\* The programs of Init.
LEMMA InitPrograms == Program(Security!InitRoot) /\ Program(Security!InitSelf)
<1> DEFINE fail == {"file", "x", "y", "z", "cert"}
           f == Security!GetCert
<1>0. "file" \in Names /\ "titles" \in Names /\ fail \subseteq Names /\ "root_key" \in Keep /\ "self_key" \in Keep BY DEF Names, Keep
<1>1. f \in Seq(StepType) /\ Closed(f, {}) /\ Covered(f, fail)
  <2>1. f \in Seq(StepType) /\ Len(f) = 3 BY <1>0, Steps DEF Security!GetCert
  <2>2. f[1] = Security!Take("file") /\ f[2] = Security!Check("titles") /\ f[3] = Security!Put("file") BY DEF Security!GetCert
  <2> HIDE DEF f
  <2>3. \A i \in 1 .. Len(f) : i = 1 \/ i = 2 \/ i = 3 BY <2>1
  <2>4. Closed(f, {}) BY <2>1, <2>2, <2>3 DEF Closed, Security!Take, Security!Put, Security!Check
  <2>5. Covered(f, fail) BY <2>1, <2>2, <2>3 DEF Covered, Security!Take, Security!Put, Security!Check
  <2>6. QED BY <2>1, <2>4, <2>5
<1>2. \A key \in Keep : LET s == Security!GetKey(key) IN s \in Seq(StepType) /\ Closed(s, {}) /\ Covered(s, fail)
  BY GetKeyClosed
<1> DEFINE r == Security!GetKey("root_key")
           o == Security!GetKey("self_key")
<1>3. r \in Seq(StepType) /\ Closed(r, {}) /\ Covered(r, fail) /\ o \in Seq(StepType) /\ Closed(o, {}) /\ Covered(o, fail)
  BY <1>0, <1>2
<1> HIDE DEF f, r, o, fail
<1>4. o \o f \in Seq(StepType) /\ Closed(o \o f, {}) BY <1>1, <1>3, ClosedBefore
<1>5. Covered(o \o f, fail) BY <1>1, <1>3, CoveredConcat
<1>6. Security!InitRoot = Security!Call("init", r, fail) /\ Security!InitSelf = Security!Call("init", o \o f, fail)
  BY DEF Security!InitRoot, Security!InitSelf, r, o, f, fail
<1>7. QED BY <1>0, <1>3, <1>4, <1>5, <1>6 DEF Program, CallType, Security!Call

\* A message is passed on after three checks, and its verification gives back the key of the sender.
LEMMA VerifyProgram ==
  /\ Program(Security!VerifyAndStrip)
  /\ \A c \in Needed : \E j \in 1 .. Len(Security!VerifyAndStrip.steps) : Security!VerifyAndStrip.steps[j] = Security!Check(c)
<1> DEFINE fail == {"cert", "tbs", "y", "z", "pub_key"}
           a == <<Security!Take("secured_msg"), Security!Use("signerinfo")>>
           b == Security!GetPubKey
           c == <<Security!Check("signature"), Security!Put("pub_key")>>
           ab == a \o b
           s == ab \o c
<1>0. /\ fail \subseteq Names /\ "secured_msg" \in Names /\ "signature" \in Names /\ "root_key" \in Names /\ "encode" \in Names
      /\ "certificate" \in Names /\ "signerinfo" \in Names /\ "tbs_data" \in Names /\ "verificationKey" \in Names /\ "secured_msg" \in Keep
  BY DEF Names, Keep
<1>1. a \in Seq(StepType) /\ Len(a) = 2 /\ a[1] = Security!Take("secured_msg") /\ a[2] = Security!Use("signerinfo") BY <1>0, Steps
<1>2. c \in Seq(StepType) /\ Len(c) = 2 /\ c[1] = Security!Check("signature") /\ c[2] = Security!Put("pub_key") BY <1>0, Steps
<1>3. b \in Seq(StepType) /\ Len(b) = 14 BY <1>0, Steps DEF Security!GetPubKey
<1>4. /\ b[1] = Security!Check("root_key") /\ b[2] = Security!Take("cert") /\ b[3] = Security!Take("tbs") /\ b[4] = Security!Check("encode")
      /\ b[5] = Security!Use("tbs_data") /\ b[6] = Security!Check("certificate") /\ b[7] = Security!Take("y") /\ b[8] = Security!Take("z")
      /\ b[9] = Security!Use("verificationKey") /\ b[10] = Security!Take("pub_key")
      /\ b[11] = Security!Put("cert") /\ b[12] = Security!Put("tbs") /\ b[13] = Security!Put("y") /\ b[14] = Security!Put("z")
  BY DEF Security!GetPubKey
<1>5. Security!VerifyAndStrip = Security!Call("verify", s, fail) BY DEF Security!VerifyAndStrip
<1> HIDE DEF a, b, c
<1>6. \A i \in 1 .. Len(b) : i = 1 \/ i = 2 \/ i = 3 \/ i = 4 \/ i = 5 \/ i = 6 \/ i = 7 \/ i = 8 \/ i = 9 \/ i = 10 \/ i = 11 \/ i = 12 \/ i = 13 \/ i = 14 BY <1>3
<1>7. Closed(b, {"pub_key"}) BY <1>3, <1>4, <1>6 DEF Closed, Security!Take, Security!Put, Security!Check, Security!Use
<1>8. Covered(b, fail) BY <1>3, <1>4, <1>6 DEF Covered, Security!Take, Security!Put, Security!Check, Security!Use
<1>9. Closed(a, {}) /\ Covered(a, fail)
  <2>1. \A i \in 1 .. Len(a) : i = 1 \/ i = 2 BY <1>1
  <2>2. QED BY <1>0, <1>1, <2>1 DEF Closed, Covered, Security!Take, Security!Use
<1>10. Closed(c, {}) /\ Covered(c, fail)
  <2>1. \A i \in 1 .. Len(c) : i = 1 \/ i = 2 BY <1>2
  <2>2. QED BY <1>2, <2>1 DEF Closed, Covered, Security!Check, Security!Put
<1>11. ab \in Seq(StepType) /\ Closed(ab, {"pub_key"}) /\ Covered(ab, fail)
  BY <1>1, <1>3, <1>7, <1>8, <1>9, ClosedBefore, CoveredConcat
<1>12. Len(ab) = 16 /\ ab[3] = b[1] /\ ab[8] = b[6]
  <2>1. Len(ab) = Len(a) + Len(b) /\ \A i \in Len(a) + 1 .. Len(a) + Len(b) : ab[i] = b[i - Len(a)] BY <1>1, <1>3, ConcatParts
  <2> HIDE DEF ab
  <2>2. Len(ab) = 16 /\ \A i \in 3 .. 16 : ab[i] = b[i - 2] BY <2>1, <1>1, <1>3
  <2>3. QED BY <2>2
<1> HIDE DEF ab
<1>13. s \in Seq(StepType) /\ Closed(s, {}) /\ Covered(s, fail)
  <2>1. \E j \in 1 .. Len(c) : c[j] = Security!Put("pub_key") BY <1>2
  <2>2. s \in Seq(StepType) /\ Closed(s, {}) BY <1>2, <1>10, <1>11, <2>1, ClosedAfter
  <2>3. Covered(s, fail) BY <1>2, <1>10, <1>11, CoveredConcat
  <2>4. QED BY <2>2, <2>3
<1>14. \A x \in Needed : \E j \in 1 .. Len(s) : s[j] = Security!Check(x)
  <2>0. /\ Len(s) = Len(ab) + Len(c) /\ \A i \in 1 .. Len(ab) : s[i] = ab[i]
        /\ \A i \in Len(ab) + 1 .. Len(ab) + Len(c) : s[i] = c[i - Len(ab)]
    BY <1>2, <1>11, ConcatParts
  <2>1. Len(s) = 18 /\ s[3] = b[1] /\ s[8] = b[6] /\ s[17] = c[1]
    <3> HIDE DEF s
    <3>1. Len(s) = 18 /\ (\A i \in 1 .. 16 : s[i] = ab[i]) /\ \A i \in 17 .. 18 : s[i] = c[i - 16] BY <2>0, <1>2, <1>12
    <3>2. QED BY <3>1, <1>12
  <2> HIDE DEF s
  <2>2. QED BY <2>1, <1>2, <1>4 DEF Needed
<1> HIDE DEF s, fail
<1>15. Program(Security!Call("verify", s, fail)) BY <1>0, <1>13 DEF Program, CallType, Security!Call
<1>16. QED BY <1>5, <1>14, <1>15 DEF Security!Call

\* A message that is signed keeps its parts.
LEMMA SecuredProgram == Program(Security!Secured)
<1> DEFINE s == <<Security!Take("signerinfo"), Security!Take("certificateStr"), Security!Take("payload"), Security!Take("signature_buf")>>
<1>0. \A o \in {"signerinfo", "certificateStr", "payload", "signature_buf"} : o \in Names /\ o \in Keep BY DEF Names, Keep
<1>1. s \in Seq(StepType) /\ Len(s) = 4 BY <1>0, Steps
<1>2. s[1] = Security!Take("signerinfo") /\ s[2] = Security!Take("certificateStr") /\ s[3] = Security!Take("payload") /\ s[4] = Security!Take("signature_buf")
  OBVIOUS
<1>3. Security!Secured = Security!Call("secure", s, {}) BY DEF Security!Secured
<1> HIDE DEF s
<1>4. \A i \in 1 .. Len(s) : i = 1 \/ i = 2 \/ i = 3 \/ i = 4 BY <1>1
<1>5. Closed(s, {}) /\ Covered(s, {}) BY <1>0, <1>1, <1>2, <1>4 DEF Closed, Covered, Security!Take
<1>6. QED BY <1>1, <1>3, <1>5 DEF Program, CallType, Security!Call

\* A call begins with nothing in hand but what is kept.
LEMMA StepBegin ==
  ASSUME SecurityInv, NEW c, NEW next, Security!Begin(c, next), Program(c), c.name # "none", next # "gone",
         c.name = "verify" => \A x \in Needed : \E j \in 1 .. Len(c.steps) : c.steps[j] = Security!Check(x)
  PROVE  SecurityInv'
<1>1. call = Security!Quiet /\ call' = c /\ proved' = {} /\ stage' = next /\ UNCHANGED <<held, stored>> BY DEF Security!Begin
<1>2. held \subseteq Keep BY <1>1 DEF SecurityInv, Taken, Security!Quiet
<1>3. SecurityType' BY <1>1 DEF SecurityInv, SecurityType
<1>4. Taken' BY <1>1, <1>2 DEF Taken
<1>5. ChecksLeft' BY <1>1 DEF ChecksLeft
<1>6. Gone' BY <1>1 DEF Gone
<1>7. QED BY <1>1, <1>3, <1>4, <1>5, <1>6 DEF SecurityInv

\* The calls of Init and of a message, and what Init leaves out.
LEMMA StepCall == SecurityInv /\ (Security!InitKeys \/ Security!Message) => SecurityInv'
<1> SUFFICES ASSUME SecurityInv, Security!InitKeys \/ Security!Message PROVE SecurityInv' OBVIOUS
<1>1. CASE Security!Skip("root") \/ Security!Skip("ready")
  <2>1. UNCHANGED <<call, held, proved, stored>> /\ stage' # "gone" BY <1>1 DEF Security!Skip
  <2>2. QED BY <2>1 DEF SecurityInv, SecurityType, Program, Taken, ChecksLeft, Gone
<1>2. CASE Security!Begin(Security!InitRoot, "root") \/ Security!Begin(Security!InitSelf, "ready")
  <2>1. Security!InitRoot.name = "init" /\ Security!InitSelf.name = "init" BY DEF Security!InitRoot, Security!InitSelf, Security!Call
  <2>2. QED BY <1>2, <2>1, StepBegin, InitPrograms
<1>3. CASE stage = "ready" /\ Security!Begin(Security!VerifyAndStrip, stage)
  <2>1. Security!VerifyAndStrip.name = "verify" BY DEF Security!VerifyAndStrip, Security!Call
  <2>2. QED BY <1>3, <2>1, StepBegin, VerifyProgram
<1>4. CASE stage = "ready" /\ Security!Begin(Security!Secured, stage)
  <2>1. Security!Secured.name = "secure" BY DEF Security!Secured, Security!Call
  <2>2. QED BY <1>4, <2>1, StepBegin, SecuredProgram
<1>5. QED BY <1>1, <1>2, <1>3, <1>4 DEF Security!InitKeys, Security!Message

\* A step takes, gives back or checks; what it takes has a later step that gives it back.
LEMMA StepStep == SecurityInv /\ Security!Step => SecurityInv'
<1> SUFFICES ASSUME SecurityInv, Security!Step PROVE SecurityInv' OBVIOUS
<1> DEFINE n == Security!Now
           s == call.steps
           r == Tail(s)
<1>1. /\ s # <<>> /\ call' = [call EXCEPT !.steps = r] /\ UNCHANGED <<stage, stored>>
      /\ \/ n.do = "take" /\ held' = held \cup {n.obj} /\ UNCHANGED proved
         \/ n.do = "put" /\ held' = held \ {n.obj} /\ UNCHANGED proved
         \/ n.do = "use" /\ UNCHANGED <<held, proved>>
         \/ n.do = "check" /\ (\E x \in Security!Accepts(n.obj) : proved' = proved \cup {<<n.obj, x>>}) /\ UNCHANGED held
  BY DEF Security!Step
<1>2. call \in CallType /\ s \in Seq(StepType) BY DEF SecurityInv, SecurityType, Program, CallType
<1>3. /\ r \in Seq(StepType) /\ Len(r) = Len(s) - 1 /\ Len(s) \in Nat \ {0} /\ n = s[1] /\ s[1] \in StepType
      /\ \A i \in 1 .. Len(s) - 1 : r[i] = s[i + 1]
  BY <1>1, <1>2, TailParts DEF Security!Now
<1> HIDE DEF r, n
<1>4. call' \in CallType /\ call'.steps = r /\ call'.fail = call.fail /\ call'.name = call.name BY <1>1, <1>2, <1>3 DEF CallType
<1>5. \A j \in 2 .. Len(s) : j - 1 \in 1 .. Len(r) /\ r[j - 1] = s[j] BY <1>3
<1>6. Closed(r, {})
  <2> SUFFICES ASSUME NEW i \in 1 .. Len(r), r[i].do = "take", r[i].obj \notin Keep
               PROVE  \E j \in i + 1 .. Len(r) : r[j] = Security!Put(r[i].obj)
    BY DEF Closed
  <2>1. i + 1 \in 1 .. Len(s) /\ s[i + 1] = r[i] BY <1>3
  <2>2. PICK j \in i + 1 + 1 .. Len(s) : s[j] = Security!Put(r[i].obj) BY <2>1 DEF SecurityInv, SecurityType, Program, Closed
  <2>3. j \in 2 .. Len(s) /\ j - 1 \in i + 1 .. Len(r) /\ r[j - 1] = s[j]
    <3>1. j \in 2 .. Len(s) /\ j - 1 \in i + 1 .. Len(r) BY <1>3, <2>2
    <3>2. QED BY <3>1, <1>5
  <2>4. QED BY <2>2, <2>3
<1>7. Covered(r, call.fail)
  <2> SUFFICES ASSUME NEW i \in 1 .. Len(r), r[i].do = "take" PROVE r[i].obj \in Keep \cup call.fail BY DEF Covered
  <2>1. i + 1 \in 1 .. Len(s) /\ s[i + 1] = r[i] BY <1>3
  <2>2. QED BY <2>1 DEF SecurityInv, SecurityType, Program, Covered
<1>8. held' \subseteq Names BY <1>1, <1>3 DEF SecurityInv, SecurityType, StepType
<1>9. call.name # "none"
  <2>1. call # Security!Quiet BY <1>1 DEF Security!Quiet
  <2>2. QED BY <2>1 DEF SecurityInv, SecurityType
<1>10. SecurityType' BY <1>4, <1>6, <1>7, <1>8, <1>9 DEF SecurityType, Program
<1>11. Taken'
  <2>1. held' \subseteq Keep \cup call.fail
    <3>1. n.do = "take" => n.obj \in Keep \cup call.fail BY <1>3 DEF SecurityInv, SecurityType, Program, Covered
    <3>2. QED BY <1>1, <3>1 DEF SecurityInv, Taken
  <2>2. ASSUME NEW o \in held' \ Keep PROVE \E j \in 2 .. Len(s) : s[j] = Security!Put(o)
    <3>1. CASE n.do = "take" /\ o = n.obj
      <4>1. PICK j \in 1 + 1 .. Len(s) : s[j] = Security!Put(s[1].obj)
        BY <1>3, <2>2, <3>1 DEF SecurityInv, SecurityType, Program, Closed
      <4>2. QED BY <4>1, <1>3, <3>1
    <3>2. CASE ~(n.do = "take" /\ o = n.obj)
      <4>1. o \in held BY <1>1, <2>2, <3>2
      <4>2. PICK j \in 1 .. Len(s) : s[j] = Security!Put(o) BY <4>1, <2>2 DEF SecurityInv, Taken
      <4>3. n # Security!Put(o)
        <5>1. Security!Put(o).do = "put" /\ Security!Put(o).obj = o BY DEF Security!Put
        <5>2. n.do = "put" => o # n.obj BY <1>1, <2>2
        <5>3. QED BY <5>1, <5>2
      <4>4. QED BY <4>2, <4>3, <1>3
    <3>3. QED BY <3>1, <3>2
  <2>3. ASSUME NEW o \in held' \ Keep PROVE \E j \in 1 .. Len(r) : r[j] = Security!Put(o)
    <3>1. PICK j \in 2 .. Len(s) : s[j] = Security!Put(o) BY <2>2
    <3>2. QED BY <3>1, <1>5
  <2>4. QED BY <1>4, <2>1, <2>3 DEF Taken
<1>12. ChecksLeft'
  <2>1. proved \subseteq proved' /\ \A x \in proved' : x[2] \in Security!Accepts(x[1])
    BY <1>1 DEF SecurityInv, ChecksLeft
  <2>2. ASSUME call.name = "verify", NEW c \in Needed \ Passed(proved') PROVE \E j \in 1 .. Len(r) : r[j] = Security!Check(c)
    <3>1. c \in Needed \ Passed(proved) BY <2>1, <2>2 DEF Passed
    <3>2. PICK j \in 1 .. Len(s) : s[j] = Security!Check(c) BY <2>2, <3>1 DEF SecurityInv, ChecksLeft
    <3>3. n # Security!Check(c)
      <4>1. Security!Check(c).do = "check" /\ Security!Check(c).obj = c BY DEF Security!Check
      <4>2. n.do = "check" => n.obj # c BY <1>1, <2>2 DEF Passed
      <4>3. QED BY <4>1, <4>2
    <3>4. j \in 2 .. Len(s) BY <1>3, <3>2, <3>3
    <3>5. QED BY <3>2, <3>4, <1>5
  <2>3. QED BY <1>4, <2>1, <2>2 DEF ChecksLeft
<1>13. stage # "gone" BY <1>9 DEF SecurityInv, Gone, Security!Quiet
<1>14. Gone' BY <1>1, <1>13 DEF Gone
<1>15. QED BY <1>1, <1>10, <1>11, <1>12, <1>14 DEF SecurityInv

\* A failure, the end of the process, of a call and the end of the object.
LEMMA StepEnd == SecurityInv /\ (Security!Fail \/ Security!Crash \/ Security!Return \/ Security!Destroy) => SecurityInv'
<1> SUFFICES ASSUME SecurityInv, Security!Fail \/ Security!Crash \/ Security!Return \/ Security!Destroy PROVE SecurityInv' OBVIOUS
<1>1. Program(Security!Quiet) BY DEF Program, CallType, Closed, Covered, Security!Quiet
<1>2. call' = Security!Quiet BY DEF Security!Fail, Security!Crash, Security!Return, Security!Destroy
<1>3. held' \subseteq Keep /\ held' \subseteq held
  <2>1. CASE Security!Fail BY <2>1 DEF Security!Fail, SecurityInv, Taken
  <2>2. CASE Security!Return
    <3>1. call.steps = <<>> /\ held' = held BY <2>2 DEF Security!Return
    <3>2. \A j \in 1 .. Len(call.steps) : FALSE BY <3>1
    <3>3. QED BY <3>1, <3>2 DEF SecurityInv, Taken
  <2>3. CASE Security!Destroy BY <2>3 DEF Security!Destroy, SecurityInv, Taken, Security!Quiet
  <2>4. CASE Security!Crash BY <2>4 DEF Security!Crash
  <2>5. QED BY <2>1, <2>2, <2>3, <2>4
<1>4. StoredOk(stored')
  <2>1. CASE Security!Return /\ call.name = "verify"
    <3>1. call.steps = <<>> /\ stored' = proved BY <2>1 DEF Security!Return
    <3>2. \A j \in 1 .. Len(call.steps) : FALSE BY <3>1
    <3>3. Needed = Passed(proved) BY <2>1, <3>2 DEF SecurityInv, ChecksLeft, Passed
    <3>4. <<"signature", "bad">> \notin proved
      <4>1. \A x \in proved : x[2] \in Security!Accepts(x[1]) BY DEF SecurityInv, ChecksLeft
      <4>2. "bad" \notin Security!Accepts("signature") BY DEF Security!Accepts
      <4>3. QED BY <4>1, <4>2
    <3>5. QED BY <3>1, <3>3, <3>4 DEF StoredOk
  <2>2. CASE ~(Security!Return /\ call.name = "verify")
    BY <2>2 DEF Security!Fail, Security!Crash, Security!Return, Security!Destroy, SecurityInv
  <2>3. QED BY <2>1, <2>2
<1>5. SecurityType' BY <1>1, <1>2, <1>3 DEF SecurityInv, SecurityType
<1>6. Taken' BY <1>2, <1>3 DEF Taken
<1>7. ChecksLeft'
  <2>1. proved' = {} \/ proved' = proved BY DEF Security!Fail, Security!Crash, Security!Return, Security!Destroy
  <2>2. QED BY <1>2, <2>1 DEF SecurityInv, ChecksLeft, Security!Quiet
<1>8. Gone'
  <2>1. stage' = "gone" => stage = "gone" \/ Security!Destroy BY DEF Security!Fail, Security!Crash, Security!Return, Security!Destroy
  <2>2. QED BY <1>2, <1>3, <2>1 DEF Security!Destroy, SecurityInv, Gone
<1>9. QED BY <1>4, <1>5, <1>6, <1>7, <1>8 DEF SecurityInv

\* Every step of the signatures keeps their invariant.
LEMMA StepSecurity == SecurityInv /\ [Security!Next]_securityVars => SecurityInv'
<1> SUFFICES ASSUME SecurityInv, [Security!Next]_securityVars PROVE SecurityInv' OBVIOUS
<1>1. CASE UNCHANGED securityVars
  BY <1>1 DEF SecurityInv, SecurityType, Program, Taken, ChecksLeft, Gone, securityVars
<1>2. QED BY <1>1, StepCall, StepStep, StepEnd DEF Security!Next
-----------------------------------------------------------------------------
(* Authentication.                                                         *)

\* The thread sleeps, wakes up, asks and waits a second (AuthProc).
LEMMA StepManager == AuthInv /\ (Auth!AuthProc \/ Auth!SleepEnd \/ Auth!DeviceAuthFails \/ Auth!DeviceAuthEnds \/ Auth!Pause) => AuthInv'
<1> SUFFICES ASSUME AuthInv, Auth!AuthProc \/ Auth!SleepEnd \/ Auth!DeviceAuthFails \/ Auth!DeviceAuthEnds \/ Auth!Pause PROVE AuthInv' OBVIOUS
<1>1. UNCHANGED <<status, cred, reply, requests, uu, mixed>>
  BY DEF Auth!AuthProc, Auth!SleepEnd, Auth!DeviceAuthFails, Auth!DeviceAuthEnds, Auth!Pause, Auth!others
<1>2. authPc' \in {"loop", "sleep", "pause", "request", "ended", "crashed"} /\ authPc \in {"loop", "sleep", "pause", "request"}
  BY DEF Auth!AuthProc, Auth!SleepEnd, Auth!DeviceAuthFails, Auth!DeviceAuthEnds, Auth!Pause, Auth!Goto
<1>3. failed' \in {failed, "yes"} BY DEF Auth!AuthProc, Auth!SleepEnd, Auth!DeviceAuthFails, Auth!DeviceAuthEnds, Auth!Pause
<1>4. \A c \in Creds : cred[c] \in Cred /\ cred[c].left \in Nat BY DEF AuthInv, ManagerType, Cred
<1>5. Auth!Earliest \in Nat /\ \A c \in Creds : cred[c].left + 1 >= Auth!Earliest
  <2>1. cred["token"].left \in Nat /\ cred["key"].left \in Nat BY <1>4 DEF Creds
  <2>2. QED BY <2>1 DEF Auth!Earliest, Auth!SecFromValidTime, Creds
<1>6. wait' \in Nat /\ (authPc' = "request" => wait' <= MaxDelay)
  <2>1. CASE Auth!AuthProc BY <2>1, <1>5, ObuAssumption DEF Auth!AuthProc, Auth!Due, Auth!Goto, AuthInv, ManagerType
  <2>2. CASE ~Auth!AuthProc
    BY <2>2 DEF Auth!SleepEnd, Auth!DeviceAuthFails, Auth!DeviceAuthEnds, Auth!Pause, Auth!Goto, Auth!others, AuthInv, ManagerType
  <2>3. QED BY <2>1, <2>2
<1>7. ManagerType'
  <2>1. authPc' \in {"ended", "crashed"} => failed' = "yes"
    BY DEF Auth!AuthProc, Auth!SleepEnd, Auth!DeviceAuthFails, Auth!DeviceAuthEnds, Auth!Pause, Auth!Goto
  <2>2. QED BY <1>1, <1>2, <1>3, <1>6, <2>1 DEF AuthInv, ManagerType, Answering
<1>8. InTime'
  <2> SUFFICES ASSUME failed' = "no", status = "authed", NEW c \in Creds PROVE Lasts(cred[c].left)' BY <1>1 DEF InTime
  <2>1. failed = "no" /\ Lasts(cred[c].left) BY <1>3 DEF AuthInv, InTime
  <2>2. ~Auth!DeviceAuthFails /\ ~Auth!DeviceAuthEnds BY DEF Auth!DeviceAuthFails, Auth!DeviceAuthEnds
  <2>3. cred[c].left \in Nat /\ cred'[c] = cred[c] BY <1>1, <1>4
  <2>4. CASE Auth!AuthProc
    BY <2>1, <2>3, <2>4, <1>5, ObuAssumption DEF Auth!AuthProc, Auth!Due, Auth!Goto, Lasts, Answering
  <2>5. CASE Auth!SleepEnd BY <2>1, <2>3, <2>5, ObuAssumption DEF Auth!SleepEnd, Auth!Goto, Lasts, Answering
  <2>6. CASE Auth!Pause BY <2>1, <2>3, <2>6, ObuAssumption DEF Auth!Pause, Auth!Goto, Lasts, Answering
  <2>7. QED BY <2>2, <2>4, <2>5, <2>6
<1>9. GoodAnswer' BY <1>2 DEF GoodAnswer, Answering
<1>10. Granted' BY <1>1, <1>2 DEF AuthInv, Granted, Creds
<1>11. Present' BY <1>1, <1>2 DEF AuthInv, Present
<1>12. QED BY <1>7, <1>8, <1>9, <1>10, <1>11 DEF AuthInv

\* The platform renews what was asked for, which is both for an authenticated device.
LEMMA StepDeviceAuth == AuthInv /\ Auth!DeviceAuth => AuthInv'
<1> SUFFICES ASSUME AuthInv, Auth!DeviceAuth PROVE AuthInv' OBVIOUS
<1> DEFINE new(c, life) == IF c \in Auth!AuthType THEN [of |-> requests', left |-> life] ELSE cred[c]
<1>1. /\ authPc = "request" /\ authPc' = "token" /\ UNCHANGED <<status, cred, wait, uu, mixed>>
      /\ requests' = IF requests = 2 THEN 1 ELSE requests + 1
  BY DEF Auth!DeviceAuth, Auth!Goto
<1>2. PICK life \in {1, Life} :
        /\ reply' = [token |-> new("token", life), key |-> new("key", life), good |-> life = Life]
        /\ failed' = IF life < Life THEN "yes" ELSE failed
  BY DEF Auth!DeviceAuth
<1>3. requests' \in 1 .. 2 BY <1>1 DEF AuthInv, ManagerType
<1>4. status = "authed" => Auth!AuthType = Creds BY DEF Auth!AuthType, Creds, Auth!Creds
<1>5. life \in Nat /\ life > 0 /\ life <= Life BY ObuAssumption
<1>6. \A c \in Creds : cred[c] \in Cred BY DEF AuthInv, ManagerType
<1>7. \A c \in Creds : /\ new(c, life) \in Cred
                       /\ new(c, life).left > 0 => new(c, life).of # 0
                       /\ cred[c].of # 0 => new(c, life).of # 0
                       /\ status = "authed" => new(c, life).left = life
  BY <1>3, <1>4, <1>5, <1>6 DEF AuthInv, Granted, Cred
<1> HIDE DEF new
<1>8. reply'["token"] = new("token", life) /\ reply'["key"] = new("key", life) BY <1>2
<1>9. reply' \in [token : Cred, key : Cred, good : BOOLEAN]
  <2> DEFINE g == life = Life
  <2>1. g = TRUE \/ g = FALSE OBVIOUS
  <2>2. reply' = [token |-> new("token", life), key |-> new("key", life), good |-> g] BY <1>2
  <2>3. new("token", life) \in Cred /\ new("key", life) \in Cred BY <1>7 DEF Creds
  <2> HIDE DEF g
  <2>4. QED BY <2>1, <2>2, <2>3
<1>10. (reply'.good => life = Life) /\ (~reply'.good => life < Life)
  <2>1. reply'.good = (life = Life) BY <1>2
  <2>2. reply'.good <=> life = Life BY <2>1
  <2>3. life # Life => life < Life BY <1>5, ObuAssumption
  <2>4. QED BY <2>2, <2>3
<1>11. ManagerType' BY <1>1, <1>2, <1>3, <1>9 DEF AuthInv, ManagerType, Answering
<1>12. InTime' BY <1>1, <1>2 DEF AuthInv, InTime, Lasts, Answering
<1>13. GoodAnswer'
  <2>1. ~reply'.good => failed' = "yes" BY <1>2, <1>10
  <2>2. wait <= MaxDelay /\ wait \in Nat BY <1>1 DEF AuthInv, ManagerType
  <2>3. ASSUME status = "authed", reply'.good, NEW c \in Creds PROVE reply'[c].left >= Life - MaxDelay + wait
    <3>1. reply'[c].left = Life BY <2>3, <1>7, <1>8, <1>10 DEF Creds
    <3>2. QED BY <2>2, <3>1, ObuAssumption
  <2>4. QED BY <1>1, <2>1, <2>3 DEF GoodAnswer
<1>14. Granted'
  <2>1. \A c \in Creds : reply'[c] = new(c, life) BY <1>8 DEF Creds
  <2>2. \A c \in Creds : (reply'[c].left > 0 => reply'[c].of # 0) /\ (cred[c].of # 0 => reply'[c].of # 0) BY <2>1, <1>7
  <2>3. QED BY <1>1, <2>2 DEF AuthInv, Granted
<1>15. Present' BY <1>1 DEF AuthInv, Present
<1>16. QED BY <1>11, <1>12, <1>13, <1>14, <1>15 DEF AuthInv

\* The answer is stored, first the token and then the key (ParseResponseBody).
LEMMA StepParse == AuthInv /\ Auth!ParseResponseBody => AuthInv'
<1> SUFFICES ASSUME AuthInv, Auth!ParseResponseBody PROVE AuthInv' OBVIOUS
<1>1. /\ authPc \in Creds /\ cred' = [cred EXCEPT ![authPc] = reply[authPc]]
      /\ authPc' = IF authPc = "token" THEN "key" ELSE "evaluate"
      /\ UNCHANGED <<status, wait, reply, failed, requests, uu>>
      /\ mixed' = (mixed \/ uu.at \in {"encode", "send"})
  BY DEF Auth!ParseResponseBody, Auth!Goto, Creds, Auth!Creds
<1>2. cred \in [Creds -> Cred] /\ \A c \in Creds : reply[c] \in Cred BY DEF AuthInv, ManagerType, Creds
<1>3. cred' \in [Creds -> Cred] /\ \A c \in Creds : cred'[c] = IF c = authPc THEN reply[c] ELSE cred[c] BY <1>1, <1>2
<1>4. mixed' \in BOOLEAN BY <1>1, Zenon DEF AuthInv, ManagerType
<1>5. ManagerType' BY <1>1, <1>3, <1>4 DEF AuthInv, ManagerType, Answering, Creds
<1>6. InTime'
  <2> SUFFICES ASSUME failed = "no", status = "authed", NEW c \in Creds PROVE Lasts(cred[c].left)' BY <1>1 DEF InTime
  <2>1. reply.good BY <1>1 DEF AuthInv, GoodAnswer, Creds, Answering
  <2>2. reply[c].left >= Life - MaxDelay + wait BY <2>1, <1>1 DEF AuthInv, GoodAnswer, Creds, Answering
  <2>3. cred[c].left >= ValidTimeInterval - 2 - MaxDelay + wait BY <1>1 DEF AuthInv, InTime, Lasts, Creds, Answering
  <2>4. reply[c].left \in Nat /\ cred[c].left \in Nat /\ wait \in Nat BY <1>2 DEF Cred, AuthInv, ManagerType
  <2>5. cred'[c].left >= ValidTimeInterval - 2 - MaxDelay + wait BY <1>3, <2>2, <2>3, <2>4, ObuAssumption
  <2>6. QED BY <1>1, <2>5 DEF Lasts, Answering
<1>7. GoodAnswer' BY <1>1 DEF AuthInv, GoodAnswer, Creds, Answering
<1>8. Granted'
  <2> USE DEF Creds
  <2>1. \A c \in Creds : authPc = c => (cred[c].of # 0 => reply[c].of # 0) BY DEF AuthInv, Granted
  <2>2. \A c \in Creds : cred[c].of # 0 => cred'[c].of # 0 BY <1>3, <2>1
  <2>3. \A c \in Creds : cred'[c].left > 0 => cred'[c].of # 0 BY <1>3 DEF AuthInv, Granted
  <2>4. \A c \in Creds : authPc' = "token" \/ authPc' = c => (cred'[c].of # 0 => reply'[c].of # 0)
    BY <1>1, <1>3 DEF AuthInv, Granted
  <2>5. QED BY <1>1, <2>2, <2>3, <2>4 DEF AuthInv, Granted
<1>9. Present'
  <2>1. uu.at \in {"encode", "send"} => mixed' BY <1>1
  <2>2. QED BY <1>1, <2>1 DEF AuthInv, Present
<1>10. QED BY <1>5, <1>6, <1>7, <1>8, <1>9 DEF AuthInv

\* The status follows from what is valid, and a good answer leaves the device in time (DoDeviceAuth).
LEMMA StepEvaluate == AuthInv /\ Auth!DoDeviceAuth => AuthInv'
<1> SUFFICES ASSUME AuthInv, Auth!DoDeviceAuth PROVE AuthInv' OBVIOUS
<1>1. /\ authPc = "evaluate" /\ authPc' \in {"pause", "loop"} /\ UNCHANGED <<cred, wait, requests, uu, mixed>> /\ reply' = Auth!NoReply
      /\ status' \in {"invalid_key", "invalid_token", "authed"}
      /\ status' = "authed" => Auth!CheckValidTime("key") /\ Auth!CheckValidTime("token")
      /\ failed' = IF ~reply.good THEN failed ELSE IF \E c \in Creds : cred[c].left < ValidTimeInterval THEN "partly" ELSE "no"
  BY DEF Auth!DoDeviceAuth, Auth!Goto, Auth!others, Creds, Auth!Creds
<1>2. Auth!Nothing \in Cred /\ Auth!Nothing.left = 0 BY DEF Cred, Auth!Nothing
<1>3. reply' \in [token : Cred, key : Cred, good : BOOLEAN] /\ \A c \in Creds : reply'[c] = Auth!Nothing
  BY <1>1, <1>2 DEF Auth!NoReply, Creds
<1>4. failed' \in {"no", "partly", "yes"} BY <1>1 DEF AuthInv, ManagerType
<1>5. ManagerType' BY <1>1, <1>3, <1>4 DEF AuthInv, ManagerType, Answering
<1>6. InTime'
  <2> SUFFICES ASSUME failed' = "no", NEW c \in Creds PROVE Lasts(cred[c].left)' BY DEF InTime
  <2>1. reply.good
    <3>1. ~reply.good => failed = "yes" BY <1>1 DEF AuthInv, GoodAnswer, Answering
    <3>2. QED BY <1>1, <3>1
  <2>2. ~(cred[c].left < ValidTimeInterval) BY <1>1, <2>1
  <2>3. cred[c].left \in Nat BY DEF AuthInv, ManagerType, Cred
  <2>4. cred'[c].left >= ValidTimeInterval BY <1>1, <2>2, <2>3, ObuAssumption
  <2>5. QED BY <1>1, <2>3, <2>4, ObuAssumption DEF Lasts, Answering
<1>7. GoodAnswer' BY <1>1 DEF GoodAnswer, Answering
<1>8. Granted' BY <1>1, <1>2, <1>3 DEF AuthInv, Granted, Creds, Auth!CheckValidTime
<1>9. Present' BY <1>1 DEF AuthInv, Present
<1>10. QED BY <1>5, <1>6, <1>7, <1>8, <1>9 DEF AuthInv

\* The sender reads a token and a key that have come from the platform (UuSend).
LEMMA StepUuSend == AuthInv /\ Auth!UuSend => AuthInv'
<1> SUFFICES ASSUME AuthInv, Auth!UuSend PROVE AuthInv' OBVIOUS
<1>1. UNCHANGED <<status, cred, authPc, wait, reply, failed, requests>> BY DEF Auth!UuSend
<1>2. uu \in [at : {"wait", "idle", "encode", "send"}, token : Int, key : Int] /\ mixed \in BOOLEAN BY DEF AuthInv, ManagerType
<1>3. cred["token"].of \in Int /\ cred["key"].of \in Int BY DEF AuthInv, ManagerType, Creds, Cred
<1>4. InTime' /\ GoodAnswer' BY <1>1 DEF AuthInv, InTime, Lasts, GoodAnswer
<1>5. CASE uu' = Auth!Idle
  <2>1. uu'.at = "idle" /\ uu' \in [at : {"wait", "idle", "encode", "send"}, token : Int, key : Int] BY <1>5 DEF Auth!Idle
  <2>2. mixed' \in BOOLEAN
    <3>1. mixed' = mixed \/ mixed' = FALSE
      <4>1. CASE uu.at = "idle" BY <4>1, <1>2, <2>1 DEF Auth!UuSend, Auth!TimerExpired, Auth!EncodeBSM, Auth!SendData
      <4>2. CASE uu.at # "idle" BY <4>2 DEF Auth!UuSend, Auth!TimerExpired, Auth!EncodeBSM, Auth!SendData
      <4>3. QED BY <4>1, <4>2
    <3>2. QED BY <1>2, <3>1, Zenon
  <2>3. uu.at # "wait" \/ status = "authed" BY DEF Auth!UuSend, Auth!TimerExpired, Auth!EncodeBSM, Auth!SendData
  <2>4. ManagerType' BY <1>1, <2>1, <2>2 DEF AuthInv, ManagerType
  <2>5. Granted' BY <1>1, <2>3 DEF AuthInv, Granted
  <2>6. Present' BY <2>1 DEF Present
  <2>7. QED BY <1>4, <2>4, <2>5, <2>6 DEF AuthInv
<1>6. CASE uu.at = "idle" /\ uu' # Auth!Idle
  <2>1. mixed' = (authPc \in Creds) BY <1>6 DEF Auth!UuSend, Auth!TimerExpired, Auth!EncodeBSM, Auth!SendData, Creds, Auth!Creds
  <2>2. PICK v \in Auth!ReadCred("token") : uu' = [uu EXCEPT !.at = "encode", !.token = v]
    BY <1>6 DEF Auth!UuSend, Auth!TimerExpired, Auth!EncodeBSM, Auth!SendData
  <2>3. cred["token"].of # 0 BY <1>6 DEF AuthInv, Granted, Creds
  <2>4. v \in Int /\ v # 0 /\ (authPc # "token" => v = cred["token"].of) BY <1>3, <2>3 DEF Auth!ReadCred
  <2>5. uu' \in [at : {"wait", "idle", "encode", "send"}, token : Int, key : Int] /\ uu'.at = "encode" /\ uu'.token = v
    BY <1>2, <2>2, <2>4
  <2>6. mixed' \in BOOLEAN /\ (~mixed' => authPc \notin Creds)
    <3> DEFINE b == authPc \in Creds
    <3>1. b = TRUE \/ b = FALSE OBVIOUS
    <3>2. mixed' = b BY <2>1
    <3> HIDE DEF b
    <3>3. mixed' \in BOOLEAN /\ (~mixed' => ~b) BY <3>1, <3>2, Zenon
    <3>4. QED BY <3>3 DEF b
  <2>7. ManagerType' BY <1>1, <2>5, <2>6 DEF AuthInv, ManagerType
  <2>8. Granted' BY <1>1, <1>6 DEF AuthInv, Granted
  <2>9. Present' BY <1>1, <2>4, <2>5, <2>6 DEF Present, Creds
  <2>10. QED BY <1>4, <2>7, <2>8, <2>9 DEF AuthInv
<1>7. CASE uu.at = "encode" /\ uu' # Auth!Idle
  <2>1. mixed' = mixed BY <1>7 DEF Auth!UuSend, Auth!TimerExpired, Auth!EncodeBSM, Auth!SendData
  <2>2. PICK v \in Auth!ReadCred("key") : uu' = [uu EXCEPT !.at = "send", !.key = v]
    BY <1>7 DEF Auth!UuSend, Auth!TimerExpired, Auth!EncodeBSM, Auth!SendData
  <2>3. cred["key"].of # 0 BY <1>7 DEF AuthInv, Granted, Creds
  <2>4. v \in Int /\ v # 0 /\ (authPc # "key" => v = cred["key"].of) BY <1>3, <2>3 DEF Auth!ReadCred
  <2>5. /\ uu' \in [at : {"wait", "idle", "encode", "send"}, token : Int, key : Int]
        /\ uu'.at = "send" /\ uu'.key = v /\ uu'.token = uu.token
    BY <1>2, <2>2, <2>4
  <2>6. ManagerType' BY <1>1, <2>1, <2>5 DEF AuthInv, ManagerType
  <2>7. Granted' BY <1>1, <1>7 DEF AuthInv, Granted
  <2>8. Present' BY <1>1, <1>7, <2>1, <2>4, <2>5 DEF AuthInv, Present
  <2>9. QED BY <1>4, <2>6, <2>7, <2>8 DEF AuthInv
<1>8. QED BY <1>5, <1>6, <1>7 DEF Auth!UuSend, Auth!TimerExpired, Auth!EncodeBSM, Auth!SendData

\* The clock takes a second from everything that is waited for or valid.
LEMMA StepTick == AuthInv /\ Auth!Tick => AuthInv'
<1> SUFFICES ASSUME AuthInv, Auth!Tick PROVE AuthInv' OBVIOUS
<1>1. /\ authPc \notin {"loop", "pause", "crashed"} /\ (wait > 0 \/ authPc = "ended" \/ (authPc = "sleep" /\ Auth!Spins)) /\ wait' = Auth!Down(wait)
      /\ cred' = [c \in Creds |-> [cred[c] EXCEPT !.left = Auth!Down(@)]]
      /\ reply' = [reply EXCEPT !.token.left = Auth!Down(@), !.key.left = Auth!Down(@)]
      /\ UNCHANGED <<status, authPc, failed, requests, uu, mixed>>
  BY DEF Auth!Tick, Creds, Auth!Creds
<1>2. \A n \in Nat : Auth!Down(n) \in Nat /\ Auth!Down(n) <= n /\ (n > 0 => Auth!Down(n) = n - 1) BY DEF Auth!Down
<1>3. wait \in Nat /\ \A c \in Creds : cred[c] \in Cred /\ cred[c].left \in Nat BY DEF AuthInv, ManagerType, Cred
<1>4. cred' \in [Creds -> Cred] /\ \A c \in Creds : cred'[c].of = cred[c].of /\ cred'[c].left = Auth!Down(cred[c].left)
  BY <1>1, <1>2, <1>3 DEF Cred
<1>5. reply \in [token : Cred, key : Cred, good : BOOLEAN] BY DEF AuthInv, ManagerType
<1>6. /\ reply' \in [token : Cred, key : Cred, good : BOOLEAN] /\ reply'.good = reply.good
      /\ \A c \in Creds : reply[c].left \in Nat /\ reply'[c].of = reply[c].of /\ reply'[c].left = Auth!Down(reply[c].left)
  <2>1. reply' = [token |-> [reply.token EXCEPT !.left = Auth!Down(@)], key |-> [reply.key EXCEPT !.left = Auth!Down(@)], good |-> reply.good]
    BY <1>1, <1>5
  <2>2. ASSUME NEW r \in Cred
        PROVE  LET d == [r EXCEPT !.left = Auth!Down(@)] IN d \in Cred /\ d.of = r.of /\ d.left = Auth!Down(r.left) /\ r.left \in Nat
    BY <1>2 DEF Cred
  <2> DEFINE d(r) == [r EXCEPT !.left = Auth!Down(@)]
  <2>3. reply.token \in Cred /\ reply.key \in Cred /\ reply.good \in BOOLEAN BY <1>5
  <2>4. /\ d(reply.token) \in Cred /\ d(reply.token).of = reply.token.of /\ d(reply.token).left = Auth!Down(reply.token.left) /\ reply.token.left \in Nat
        /\ d(reply.key) \in Cred /\ d(reply.key).of = reply.key.of /\ d(reply.key).left = Auth!Down(reply.key.left) /\ reply.key.left \in Nat
    BY <2>2, <2>3
  <2>5. reply' = [token |-> d(reply.token), key |-> d(reply.key), good |-> reply.good] BY <2>1
  <2> HIDE DEF d
  <2>6. reply' \in [token : Cred, key : Cred, good : BOOLEAN] BY <2>3, <2>4, <2>5
  <2>7. reply'.good = reply.good /\ reply'["token"] = d(reply.token) /\ reply'["key"] = d(reply.key) BY <2>5
  <2>8. QED BY <2>4, <2>6, <2>7 DEF Creds
<1>7. ManagerType' BY <1>1, <1>2, <1>3, <1>4, <1>6, ObuAssumption DEF AuthInv, ManagerType
<1>8. InTime'
  <2> SUFFICES ASSUME failed = "no", status = "authed", NEW c \in Creds PROVE Lasts(cred[c].left)' BY <1>1 DEF InTime
  <2>1. Lasts(cred[c].left) /\ authPc \notin {"ended", "crashed"} BY DEF AuthInv, InTime, ManagerType
  <2>2. cred[c].left \in Nat /\ cred'[c].left = Auth!Down(cred[c].left) BY <1>3, <1>4
  <2>3. CASE authPc = "sleep" /\ wait = 0
    <3>1. cred[c].left + 1 >= ValidTimeInterval
      <4>1. cred["token"].left \in Nat /\ cred["key"].left \in Nat BY <1>3 DEF Creds
      <4>2. Auth!Earliest = ValidTimeInterval BY <1>1, <2>3 DEF Auth!Spins
      <4>3. QED BY <4>1, <4>2, ObuAssumption DEF Auth!Earliest, Auth!SecFromValidTime, Creds
    <3>2. cred'[c].left >= ValidTimeInterval - 2 BY <3>1, <2>2, <1>2, ObuAssumption
    <3>3. wait' = 0 BY <1>1, <2>3 DEF Auth!Down
    <3>4. QED BY <1>1, <2>3, <3>2, <3>3 DEF Lasts, Answering
  <2>4. CASE wait > 0
    <3>1. wait' = wait - 1 BY <1>1, <1>2, <1>3, <2>4
    <3>2. CASE authPc = "sleep"
      BY <1>1, <1>2, <1>3, <2>1, <2>2, <2>4, <3>1, <3>2, ObuAssumption DEF Lasts, Answering
    <3>3. CASE authPc # "sleep"
      <4>1. cred[c].left >= ValidTimeInterval - 2 - MaxDelay + wait BY <1>1, <2>1, <3>3 DEF Lasts, AuthInv, ManagerType
      <4>2. cred[c].left > 0 BY <4>1, <1>3, <2>2, ObuAssumption
      <4>3. cred'[c].left >= ValidTimeInterval - 2 - MaxDelay + wait' BY <4>1, <4>2, <3>1, <2>2, <1>2, <1>3, ObuAssumption
      <4>4. QED BY <1>1, <3>3, <4>3 DEF Lasts
    <3>4. QED BY <3>2, <3>3
  <2>5. QED BY <1>1, <1>3, <2>1, <2>3, <2>4
<1>9. GoodAnswer'
  <2> SUFFICES ASSUME authPc \in Answering
               PROVE  /\ ~reply'.good => failed = "yes"
                      /\ status = "authed" /\ reply'.good => \A c \in Creds : reply'[c].left >= Life - MaxDelay + wait'
    BY <1>1 DEF GoodAnswer
  <2>1. wait > 0 /\ wait' = wait - 1 BY <1>1, <1>2, <1>3 DEF Answering
  <2>2. ASSUME status = "authed", reply.good, NEW c \in Creds PROVE reply'[c].left >= Life - MaxDelay + wait'
    <3>1. reply[c].left >= Life - MaxDelay + wait BY <2>2 DEF AuthInv, GoodAnswer
    <3>2. reply[c].left \in Nat /\ reply[c].left > 0 BY <3>1, <1>3, <1>6, <2>1, ObuAssumption
    <3>3. reply'[c].left = reply[c].left - 1 BY <3>2, <1>2, <1>6
    <3>4. QED BY <3>1, <3>2, <3>3, <2>1, <1>3, ObuAssumption
  <2>3. QED BY <1>6, <2>2 DEF AuthInv, GoodAnswer
<1>10. Granted'
  <2>1. \A c \in Creds : (cred'[c].left > 0 => cred[c].left > 0) /\ (reply'[c].left > 0 => reply[c].left > 0)
    BY <1>3, <1>4, <1>6 DEF Auth!Down
  <2>2. \A c \in Creds : cred'[c].left > 0 => cred'[c].of # 0 BY <1>4, <2>1 DEF AuthInv, Granted
  <2>3. \A c \in Creds : reply'[c].left > 0 => reply'[c].of # 0 BY <1>6, <2>1 DEF AuthInv, Granted
  <2>4. \A c \in Creds : authPc' = "token" \/ authPc' = c => (cred'[c].of # 0 => reply'[c].of # 0) BY <1>1, <1>4, <1>6 DEF AuthInv, Granted
  <2>5. status' = "authed" \/ uu'.at # "wait" => \A c \in Creds : cred'[c].of # 0 BY <1>1, <1>4 DEF AuthInv, Granted
  <2>6. QED BY <2>2, <2>3, <2>4, <2>5 DEF Granted
<1>11. Present' BY <1>1, <1>4 DEF AuthInv, Present, Creds
<1>12. QED BY <1>7, <1>8, <1>9, <1>10, <1>11 DEF AuthInv

\* Every step of the authentication keeps its invariant.
LEMMA StepAuth == AuthInv /\ [Auth!Next]_authVars => AuthInv'
<1> SUFFICES ASSUME AuthInv, [Auth!Next]_authVars PROVE AuthInv' OBVIOUS
<1>1. CASE UNCHANGED authVars \/ Auth!AdapterRun
  <2>1. UNCHANGED <<status, cred, authPc, wait, reply, failed, requests, uu, mixed>> BY <1>1 DEF authVars, Auth!AdapterRun
  <2>2. QED BY <2>1 DEF AuthInv, ManagerType, InTime, Lasts, GoodAnswer, Granted, Present
<1>2. QED BY <1>1, StepManager, StepDeviceAuth, StepParse, StepEvaluate, StepUuSend, StepTick DEF Auth!Next, Auth!Manager
-----------------------------------------------------------------------------
(* The composition.                                                        *)

\* The initial states satisfy the invariants.
LEMMA InitInv == Init => IInv
<1> SUFFICES ASSUME Init PROVE IInv OBVIOUS
<1>1. DataInv
  <2> USE DEF Init, Data!Init, Data!Light, Data!Sensor, Data!Kinds, Kinds, Consumers
  <2>1. Data!NoEntry \in Entry /\ Data!NoEntry.kind = "none" BY DEF Data!NoEntry, Entry
  <2>2. refresh \in [Kinds -> BOOLEAN] BY Zenon
  <2>3. mix \subseteq Kinds BY DEF MCMixes
  <2>4. DataType BY <2>1, <2>2, <2>3 DEF DataType, Places
  <2>5. NewestFirst BY ObuAssumption DEF NewestFirst
  <2>6. Woken BY DEF Woken
  <2>7. CopyLive BY <2>1 DEF CopyLive
  <2>8. FramesLive BY DEF FramesLive
  <2>9. QED BY <2>4, <2>5, <2>6, <2>7, <2>8 DEF DataInv
<1>2. SecurityInv
  BY DEF Init, Security!Init, SecurityInv, SecurityType, Program, CallType, Closed, Covered, Taken, ChecksLeft, Gone, StoredOk, Security!Quiet
<1>3. AuthInv
  <2> USE DEF Init, Auth!Init, Auth!Creds, Creds
  <2>1. Auth!Nothing \in Cred /\ Auth!Nothing.left = 0 /\ Auth!Nothing.of = 0 BY DEF Auth!Nothing, Cred
  <2>2. /\ reply \in [token : Cred, key : Cred, good : BOOLEAN] /\ reply["token"] = Auth!Nothing /\ reply["key"] = Auth!Nothing
    BY <2>1 DEF Auth!NoReply
  <2>3. uu = [at |-> "wait", token |-> 0, key |-> 0] BY DEF Auth!Idle
  <2>4. mixed \in BOOLEAN BY Zenon
  <2>5. ManagerType
    <3>1. cred \in [Creds -> Cred] BY <2>1
    <3>2. uu \in [at : {"wait", "idle", "encode", "send"}, token : Int, key : Int] BY DEF Auth!Idle
    <3>3. QED BY <2>2, <2>4, <3>1, <3>2 DEF ManagerType, Answering
  <2>6. InTime /\ GoodAnswer BY DEF InTime, GoodAnswer, Answering
  <2>7. Granted BY <2>1, <2>2, <2>3 DEF Granted
  <2>8. Present BY <2>3 DEF Present
  <2>9. QED BY <2>5, <2>6, <2>7, <2>8 DEF AuthInv
<1>4. ThreadsInv
  <2> USE DEF Init, Threads!Init
  <2>1. main \in Seq(Statements) /\ Len(main) = 11
    <3>1. /\ "auth" \in Statements /\ "auth_manager" \in Statements /\ "db" \in Statements /\ "uu_send" \in Statements
          /\ "adapter_uu" \in Statements /\ "proxy" \in Statements /\ "StartAll" \in Statements /\ "traffic_light" \in Statements
          /\ "shared_sensor" \in Statements /\ "recv" \in Statements /\ "Join" \in Statements
      BY DEF Statements, Threads!Objects
    <3>2. QED BY <3>1 DEF Threads!Main
  <2>2. /\ main[1] = "auth" /\ main[2] = "auth_manager" /\ main[3] = "db" /\ main[4] = "uu_send" /\ main[5] = "adapter_uu"
        /\ main[6] = "proxy" /\ main[7] = "StartAll" /\ main[8] = "traffic_light" /\ main[9] = "shared_sensor" /\ main[10] = "recv"
        /\ main[11] = "Join"
    BY DEF Threads!Main
  <2>3. stop_flag \in BOOLEAN /\ restarted \in BOOLEAN BY Zenon
  <2>4. thread_id \in [Threads!Objects -> BOOLEAN] BY Zenon
  <2>5. ThreadsType BY <2>1, <2>3, <2>4 DEF ThreadsType
  <2>6. Installed
    <3> SUFFICES ASSUME NEW o \in Threads!Objects \ {"uu_send"}, NEW i \in 1 .. Len(main), main[i] = o, NEW u \in Threads!Uses[o]
                 PROVE  \E j \in 1 .. i - 1 : main[j] = u
      BY DEF Installed
    <3>1. i = 2 \/ i = 5 \/ i = 8 \/ i = 9 \/ i = 10
      <4>1. \A j \in 1 .. Len(main) : j = 1 \/ j = 2 \/ j = 3 \/ j = 4 \/ j = 5 \/ j = 6 \/ j = 7 \/ j = 8 \/ j = 9 \/ j = 10 \/ j = 11 BY <2>1
      <4>2. QED BY <2>2, <4>1 DEF Threads!Objects
    <3>2. /\ Threads!Uses["auth_manager"] = {} /\ Threads!Uses["adapter_uu"] = {"auth", "db"} /\ Threads!Uses["traffic_light"] = {"db", "proxy"}
          /\ Threads!Uses["shared_sensor"] = {"db", "proxy"} /\ Threads!Uses["recv"] = {"db"}
      BY DEF Threads!Uses, Threads!Objects
    <3>3. CASE i = 2 \/ i = 5 BY <2>2, <3>2, <3>3
    <3>4. CASE i = 8 \/ i = 9
      <4>1. u = main[3] \/ u = main[6] BY <2>2, <3>2, <3>4
      <4>2. 3 \in 1 .. i - 1 /\ 6 \in 1 .. i - 1 BY <3>4
      <4>3. QED BY <4>1, <4>2
    <3>5. CASE i = 10
      <4>1. u = main[3] BY <2>2, <3>2, <3>5
      <4>2. 3 \in 1 .. i - 1 BY <3>5
      <4>3. QED BY <4>1, <4>2
    <3>6. QED BY <3>1, <3>3, <3>4, <3>5
  <2>7. StartedOnce BY DEF StartedOnce
  <2>8. ServerStops /\ ClientStops BY DEF ServerStops, ClientStops
  <2>9. QED BY <2>5, <2>6, <2>7, <2>8 DEF ThreadsInv
<1>5. QED BY <1>1, <1>2, <1>3, <1>4 DEF IInv

\* The invariants of the parts give what the run checks.
LEMMA SafeFromInv == IInv => MessagesSafe /\ UnitSafe
<1> SUFFICES ASSUME IInv PROVE MessagesSafe /\ UnitSafe OBVIOUS
<1>1. Data!DataSafe
  <2>1. DOMAIN entry = Consumers /\ (\A t \in Consumers : entry[t].kind \in Kinds \cup {"none"}) /\ table \in [Kinds -> Seq(Msgs)]
    BY DEF IInv, DataInv, DataType, Entry
  <2>2. ASSUME NEW t \in Consumers, entry[t].kind # "none"
        PROVE  IF entry[t].live THEN \E i \in DOMAIN table[entry[t].kind] : table[entry[t].kind][i] = entry[t].msg
               ELSE IF entry[t].kind \in Data!Notified THEN refresh[entry[t].kind] ELSE table[entry[t].kind] # <<>>
    <3>1. table[entry[t].kind] \in Seq(Msgs) BY <2>1, <2>2
    <3>2. CASE entry[t].live
      <4>1. Has(table[entry[t].kind], entry[t].msg) BY <2>2, <3>2 DEF IInv, DataInv, CopyLive
      <4>2. QED BY <3>1, <3>2, <4>1 DEF Has
    <3>3. CASE ~entry[t].live BY <2>2, <3>3 DEF IInv, DataInv, CopyLive, Data!Notified
    <3>4. QED BY <3>2, <3>3
  <2>3. QED BY <2>1, <2>2 DEF IInv, DataInv, NewestFirst, Woken, FramesLive, Data!DataSafe, Data!Notified, Data!Kinds, Kinds
<1>2. Security!SecuritySafe
  <2>1. Security!Accepts("root_key") = {"good"} /\ Security!Accepts("certificate") = {"good"} /\ Security!Accepts("signature") \subseteq Security!Results
    BY DEF Security!Accepts, Security!Results
  <2>2. ASSUME stored # {}
        PROVE  /\ {<<"root_key", "good">>, <<"certificate", "good">>} \subseteq stored /\ <<"signature", "bad">> \notin stored
               /\ \E r \in Security!Results : <<"signature", r>> \in stored
    <3>1. Needed = Passed(stored) /\ <<"signature", "bad">> \notin stored BY <2>2 DEF IInv, SecurityInv, StoredOk
    <3>2. \A c \in {"root_key", "certificate", "signature"} : \E r \in Security!Accepts(c) : <<c, r>> \in stored
      BY <3>1 DEF Needed, Passed
    <3>3. QED BY <2>1, <3>1, <3>2
  <2>3. QED BY <2>2 DEF IInv, SecurityInv, Taken, Gone, Keep, Security!SecuritySafe, Security!Quiet
<1>3. Auth!AuthSafe
  <2>1. ASSUME status = "authed", NEW c \in Creds, ~(cred[c].left > 0) PROVE failed # "no"
    <3> SUFFICES ASSUME failed = "no" PROVE FALSE OBVIOUS
    <3>1. Lasts(cred[c].left) /\ cred[c].left \in Nat BY <2>1 DEF IInv, AuthInv, InTime, ManagerType, Cred
    <3>2. wait \in Nat /\ authPc \in {"loop", "sleep", "pause", "request"} \cup Answering BY <2>1 DEF IInv, AuthInv, ManagerType
    <3>3. QED BY <2>1, <3>1, <3>2, ObuAssumption DEF Lasts
  <2>2. QED BY <2>1 DEF IInv, AuthInv, Present, Auth!AuthSafe, Auth!CheckValidTime, Auth!Creds, Creds
<1>4. Threads!ThreadsSafe
  <2>1. \A o \in Threads!Objects : threads[o] \in 0 .. 1 BY DEF IInv, ThreadsInv, ThreadsType
  <2>2. QED BY <2>1 DEF IInv, ThreadsInv, Installed, ServerStops, ClientStops, Threads!ThreadsSafe
<1>5. QED BY <1>1, <1>2, <1>3, <1>4 DEF MessagesSafe, UnitSafe

\* The unit keeps the invariants of four of its parts, for all messages, table sizes and times that satisfy ObuAssumption (ObuData, ObuSecurity, ObuAuth, ObuThreads).
THEOREM Invariance == Spec => []IInv
<1>1. IInv /\ [Next]_vars => IInv'
  <2> SUFFICES ASSUME IInv, [Next]_vars PROVE IInv' OBVIOUS
  <2>1. [Data!Next]_dataVars /\ [Security!Next]_securityVars /\ [Auth!Next]_authVars /\ [Threads!Next]_threadVars
    BY DEF Next, vars, dataVars, securityVars, authVars, threadVars
  <2>2. QED BY <2>1, StepData, StepSecurity, StepAuth, StepThreads DEF IInv
<1>2. QED BY <1>1, InitInv, PTL DEF Spec

\* No accepted message is overlooked, a thread whose entry was deleted before the copy is woken again, and no frame is freed twice, for every set of messages and every table size; a payload is passed on only when SM2Verify confirmed its certificate and did not refuse its signature, and no path of a call keeps what it has to give back (v2x_table.cc, v2x_db.cc, traffic_light_thread.cc, security.cc).
THEOREM MessagesKept == Spec => []MessagesSafe
<1>1. QED BY Invariance, SafeFromInv, PTL

\* An authenticated device has expired credentials only after a failed request, for every interval that leaves room for a request; a message is made of credentials that exist; threads find what they use, and a stop leaves none behind (auth_manager.cc, uu_send.cc, main.cc, proxy.cc).
THEOREM UnitKept == Spec => []UnitSafe
<1>1. QED BY Invariance, SafeFromInv, PTL
=============================================================================
