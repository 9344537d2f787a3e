------------------------------ MODULE ObuThreads ------------------------------
(***************************************************************************)
(* The threads of the on-board unit: main.cc installs the global objects   *)
(* and starts the threads one by one (os_thread.cc); the proxy has a       *)
(* server thread, ended by a flag and a condition, and a client thread,    *)
(* ended by closing its completion queue (proxy.cc).                       *)
(*                                                                         *)
(* StartAll and StopAll are called by one thread; the scenario threads     *)
(* send meanwhile.                                                         *)
(***************************************************************************)
EXTENDS Integers, Sequences, FiniteSets

CONSTANTS
    MaxCalls,    \* bound: calls to the car under way
    Senders      \* threads that send to the car

VARIABLES
    main,        \* statements of main that are still to come
    installed,   \* global objects (singleton.h)
    threads,     \* of each OsThread: how many threads run its Run
    thread_id,   \* of each OsThread: whether thread_id_ is set
    caller,      \* where the thread that starts and stops the proxy is
    server,      \* server_thread_: none, its place, or ended
    stop_flag,   \* stop_flag_
    client,      \* client_thread_
    cq,          \* cq_: none, open or shut
    sender,      \* of each sender: whether it is between taking cq_ and Finish, and which queue it took
    calls,       \* AsyncClientCall objects: under way and answered
    restarted, late   \* history: the proxy was started again; it was stopped during a call

vars == <<main, installed, threads, thread_id, caller, server, stop_flag, client, cq, sender, calls, restarted, late>>
proxy == <<caller, server, stop_flag, client, cq, sender, calls, restarted, late>>

\* The threads of main, whether their objects are deleted by themselves, and the global objects they use.
Objects == {"auth_manager", "uu_send", "adapter_uu", "traffic_light", "shared_sensor", "recv"}
Uses == [o \in Objects |->
    CASE o = "auth_manager" -> {} [] o = "uu_send" -> {"auth", "proxy"} [] o = "adapter_uu" -> {"auth", "db"}
      [] o = "recv" -> {"db"} [] OTHER -> {"db", "proxy"}]
Main ==
    <<"auth", "auth_manager", "db", "uu_send", "adapter_uu", "proxy", "StartAll", "traffic_light", "shared_sensor", "recv", "Join">>
-----------------------------------------------------------------------------
\* OsThread::Start does nothing for an object that was started; the creation may fail.
Start(o) ==
    IF thread_id[o] THEN UNCHANGED <<threads, thread_id>>
    ELSE \/ threads' = [threads EXCEPT ![o] = @ + 1] /\ thread_id' = [thread_id EXCEPT ![o] = TRUE]
         \/ UNCHANGED <<threads, thread_id>>

\* ThreadProc: Run of these objects only ends after an error; thread_id_ stays set, as the threads are joinable.
ThreadProc(o) ==
    /\ threads[o] > 0 /\ threads' = [threads EXCEPT ![o] = @ - 1]
    /\ UNCHANGED <<main, installed, thread_id, proxy>>

\* The statements of main; the last one waits for the receiving thread.
MainStep ==
    /\ main # <<>> /\ main' = Tail(main) /\ caller = "idle"
    /\ Head(main) = "Join" => threads["recv"] = 0
    /\ IF Head(main) \in Objects
       THEN Start(Head(main)) /\ UNCHANGED <<installed, proxy>>
       ELSE IF Head(main) = "StartAll"
       THEN caller' = "start" /\ UNCHANGED <<installed, threads, thread_id, server, stop_flag, client, cq, sender, calls, restarted, late>>
       ELSE installed' = installed \union ({Head(main)} \ {"Join"}) /\ UNCHANGED <<threads, thread_id, proxy>>

-----------------------------------------------------------------------------
other == <<main, installed, threads, thread_id>>

\* CarToObuService::Start: the flag is reset after the thread was created, and without the mutex.
ServiceStart ==
    \/ /\ caller = "start"
       /\ IF server = "none" THEN server' = "new" /\ caller' = "reset" ELSE caller' = "start_client" /\ UNCHANGED server
       /\ UNCHANGED <<other, stop_flag, client, cq, sender, calls, restarted, late>>
    \/ /\ caller = "reset" /\ stop_flag' = FALSE /\ caller' = "start_client"
       /\ UNCHANGED <<other, server, client, cq, sender, calls, restarted, late>>

\* ObuToCarClient::Start
ClientStart ==
    /\ caller = "start_client" /\ caller' = "idle"
    /\ IF client = "none" THEN client' = "next" /\ cq' = "open" ELSE UNCHANGED <<client, cq>>
    /\ UNCHANGED <<other, server, stop_flag, sender, calls, restarted, late>>

\* Mutant: wait() without its predicate, so that a spurious wake-up ends the server.
ServerThread_Spurious ==
    /\ \/ server = "new" /\ server' = "wait"
       \/ server = "wait" /\ server' = "ended"
    /\ UNCHANGED <<other, caller, stop_flag, client, cq, sender, calls, restarted, late>>

\* The server waits for the flag, whatever wakes it up, and shuts down.
ServerThread ==
    /\ \/ server = "new" /\ server' = "wait"
       \/ server = "wait" /\ stop_flag /\ server' = "ended"
    /\ UNCHANGED <<other, caller, stop_flag, client, cq, sender, calls, restarted, late>>

\* A scenario thread prepares a call on the queue it finds, and hands it over.
SendPrepare(s) ==
    /\ sender[s] = "idle" /\ client # "none" /\ caller = "idle"
    /\ calls.going + calls.done < MaxCalls
    /\ sender' = [sender EXCEPT ![s] = cq]
    /\ UNCHANGED <<other, caller, server, stop_flag, client, cq, calls, restarted, late>>
SendFinish(s) ==
    /\ sender[s] # "idle"
    /\ sender' = [sender EXCEPT ![s] = "idle"]
    /\ calls' = IF cq = "open" THEN [calls EXCEPT !.going = @ + 1] ELSE calls
    /\ late' = (late \/ cq # "open")
    /\ UNCHANGED <<other, caller, server, stop_flag, client, cq, restarted>>

\* The car answers, or the call fails.
Answer ==
    /\ calls.going > 0
    /\ calls' = [going |-> calls.going - 1, done |-> calls.done + 1]
    /\ UNCHANGED <<other, caller, server, stop_flag, client, cq, sender, restarted, late>>

\* ClientThread: a call is deleted when its answer is taken; the queue ends when it is shut and empty.
ClientThread ==
    /\ client = "next"
    /\ \/ calls.done > 0 /\ calls' = [calls EXCEPT !.done = @ - 1] /\ UNCHANGED <<client, cq>>
       \/ cq = "shut" /\ calls = [going |-> 0, done |-> 0] /\ client' = "ended" /\ cq' = "none" /\ UNCHANGED calls
    /\ UNCHANGED <<other, caller, server, stop_flag, sender, restarted, late>>

\* StopAll: the service, whose thread is waited for, ...
ServiceStop ==
    \/ /\ caller = "idle" /\ main \in {<<>>, <<"Join">>} /\ caller' = "join_server"
       /\ stop_flag' = (stop_flag \/ server # "none")
       /\ UNCHANGED <<other, server, client, cq, sender, calls, restarted, late>>
    \/ /\ caller = "join_server" /\ server \in {"none", "ended"} /\ server' = "none" /\ caller' = "stop_client"
       /\ UNCHANGED <<other, stop_flag, client, cq, sender, calls, restarted, late>>

\* ... and the client.
ClientStop ==
    \/ /\ caller = "stop_client" /\ caller' = "join_client"
       /\ cq' = IF client # "none" /\ cq # "none" THEN "shut" ELSE cq
       /\ UNCHANGED <<other, server, stop_flag, client, sender, calls, restarted, late>>
    \/ /\ caller = "join_client" /\ client \in {"none", "ended"} /\ client' = "none" /\ caller' = "stopped"
       /\ UNCHANGED <<other, server, stop_flag, cq, sender, calls, restarted, late>>

\* The proxy may be started again.
StartAll ==
    /\ caller = "stopped" /\ caller' = "start" /\ restarted' = TRUE
    /\ UNCHANGED <<other, server, stop_flag, client, cq, sender, calls, late>>
-----------------------------------------------------------------------------
Init ==
    /\ main = Main /\ installed = {}
    /\ threads = [o \in Objects |-> 0] /\ thread_id = [o \in Objects |-> FALSE]
    /\ caller = "idle" /\ server = "none" /\ stop_flag = FALSE /\ client = "none" /\ cq = "none"
    /\ sender = [s \in Senders |-> "idle"] /\ calls = [going |-> 0, done |-> 0]
    /\ restarted = FALSE /\ late = FALSE

Next ==
    \/ MainStep \/ \E o \in Objects : ThreadProc(o)
    \/ ServiceStart \/ ClientStart \/ ServerThread \/ ServiceStop \/ ClientStop \/ StartAll
    \/ \E s \in Senders : SendPrepare(s) \/ SendFinish(s)
    \/ Answer \/ ClientThread

Spec == Init /\ [][Next]_vars
-----------------------------------------------------------------------------
\* Every thread but the one that sends to the platform finds the global objects it uses; the server of a proxy that was started once serves until it is stopped; and when a stop has returned, no thread of the proxy is left, nor a call, unless one was made during the stop.
ThreadsSafe ==
    /\ \A o \in Objects \ {"uu_send"} : threads[o] > 0 => threads[o] = 1 /\ Uses[o] \subseteq installed
    /\ server = "ended" => restarted \/ caller = "join_server"
    /\ caller = "stopped" => server = "none" /\ client = "none" /\ (late \/ calls = [going |-> 0, done |-> 0])
=============================================================================
