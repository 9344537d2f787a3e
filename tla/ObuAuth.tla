------------------------------- MODULE ObuAuth -------------------------------
(***************************************************************************)
(* The authentication of the on-board unit at the platform                 *)
(* (auth_manager.cc): a thread that asks for a token and a key, sleeps     *)
(* until shortly before one of them expires, and renews them; and the two  *)
(* threads that use them (uu_send.cc, adapter_uu.cc).                      *)
(*                                                                         *)
(* Times are kept as the seconds that are left of them.  An answer of the  *)
(* platform that renews a credential makes it valid for a while; strings   *)
(* that one thread reads while another assigns them may come out torn.     *)
(***************************************************************************)
EXTENDS Integers, FiniteSets

CONSTANTS
    ValidTimeInterval,   \* VALID_TIME_INTERVAL
    Life,                \* how long a renewed credential is valid
    MaxDelay             \* bound: seconds from a request to the end of its evaluation

VARIABLES
    status,    \* auth_status_
    cred,      \* token and key: the request that brought it (0: none, -1: torn), and how long it is valid
    pc, wait,  \* of the authentication thread: where it is, and how long it sleeps or its request may still take
    reply,     \* the answer that is being stored, and whether what it renews lasts
    failed,    \* history: requests have brought nothing, or what expires at once, since a good answer was stored ("yes"), or it renewed one of two only ("partly")
    requests,  \* requests so far
    sender,    \* UuSend: where it is and what it has read
    mixed,     \* history: the message was put together while a renewal was stored
    receiving  \* AdapterUu has seen the authentication

vars == <<status, cred, pc, wait, reply, failed, requests, sender, mixed, receiving>>

Creds == {"token", "key"}
others == <<wait, requests, sender, mixed, receiving>>
Goto(l) == pc' = l
Idle == [at |-> "idle", token |-> 0, key |-> 0]
Nothing == [of |-> 0, left |-> 0]
NoReply == [token |-> Nothing, key |-> Nothing, good |-> FALSE]
-----------------------------------------------------------------------------
\* CheckValidTime, and SecFromValidTime with its second to spare.
CheckValidTime(c) == cred[c].left > 0
SecFromValidTime(c) == cred[c].left + 1

\* Mutant: a request for a key asks for the token, and the other way round.
AuthType_Swapped == CASE status = "invalid_token" -> {"key"} [] status = "invalid_key" -> {"token"} [] OTHER -> Creds

\* What is asked for; INVALID_ALL, NONE and AUTHED ask for both.
AuthType == CASE status = "invalid_token" -> {"token"} [] status = "invalid_key" -> {"key"} [] OTHER -> Creds

\* The loop of AuthProc: at once, or when the first of the two is about to expire.
Earliest == IF SecFromValidTime("key") < SecFromValidTime("token") THEN SecFromValidTime("key") ELSE SecFromValidTime("token")
Spins == status = "authed" /\ Earliest = ValidTimeInterval
Due == status # "authed" \/ Earliest < ValidTimeInterval

\* Mutant: sleeps until the credentials expire, not until the interval before.
AuthProc_Oversleeps ==
    /\ pc = "loop"
    /\ \/ Due /\ Goto("request") /\ wait' = MaxDelay
       \/ ~Due /\ Goto("sleep") /\ wait' = Earliest
    /\ UNCHANGED <<status, cred, reply, failed, requests, sender, mixed, receiving>>

AuthProc ==
    /\ pc = "loop"
    /\ \/ Due /\ Goto("request") /\ wait' = MaxDelay
       \/ ~Due /\ Goto("sleep") /\ wait' = Earliest - ValidTimeInterval
    /\ UNCHANGED <<status, cred, reply, failed, requests, sender, mixed, receiving>>

SleepEnd ==
    /\ pc = "sleep" /\ wait = 0 /\ Goto("loop")
    /\ UNCHANGED <<status, cred, reply, failed, others>>

\* DeviceAuth: no connection or a refusal; ...
DeviceAuthFails ==
    /\ pc = "request" /\ failed' = "yes"
    /\ Goto(IF status = "authed" THEN "pause" ELSE "loop")
    /\ UNCHANGED <<status, cred, reply, others>>

\* ... an answer without a brace, for which substr() throws and OsThread::ThreadProc ends the thread, or one without the expected members, for which a null pointer is used and the process ends; ...
DeviceAuthEnds ==
    /\ pc = "request" /\ failed' = "yes"
    /\ pc' \in {"ended", "crashed"}
    /\ UNCHANGED <<status, cred, reply, others>>

\* ... or the platform renews what was asked for and sends the rest as it is.
DeviceAuth ==
    /\ pc = "request" /\ requests' = IF requests = 2 THEN 1 ELSE requests + 1
    /\ \E life \in {1, Life} :
         LET new(c) == IF c \in AuthType THEN [of |-> requests', left |-> life] ELSE cred[c] IN
         /\ reply' = [token |-> new("token"), key |-> new("key"), good |-> life = Life]
         /\ failed' = IF life < Life THEN "yes" ELSE failed
    /\ Goto("token")
    /\ UNCHANGED <<status, cred, wait, sender, mixed, receiving>>

\* ParseResponseBody: the strings are assigned one after the other.
ParseResponseBody ==
    /\ pc \in Creds
    /\ cred' = [cred EXCEPT ![pc] = reply[pc]]
    /\ Goto(IF pc = "token" THEN "key" ELSE "evaluate")
    /\ mixed' = (mixed \/ sender.at \in {"encode", "send"})
    /\ UNCHANGED <<status, wait, reply, failed, requests, sender, receiving>>

\* DoDeviceAuth: without a valid key the status says so, whatever the token is.
DoDeviceAuth ==
    /\ pc = "evaluate"
    /\ status' = IF ~CheckValidTime("key") THEN "invalid_key" ELSE IF ~CheckValidTime("token") THEN "invalid_token" ELSE "authed"
    /\ Goto(IF status = "authed" THEN "pause" ELSE "loop")
    /\ reply' = NoReply /\ failed' = IF ~reply.good THEN failed ELSE IF \E c \in Creds : cred[c].left < ValidTimeInterval THEN "partly" ELSE "no"
    /\ UNCHANGED <<cred, others>>

\* sleep(1) after a renewal.
Pause ==
    /\ pc = "pause" /\ Goto("sleep") /\ wait' = 1
    /\ UNCHANGED <<status, cred, reply, failed, requests, sender, mixed, receiving>>
-----------------------------------------------------------------------------
\* UuSend::Run waits until the authentication was granted once; then its timer goes off for ever.
\* The timer: the car status is there, and the token is read ...
ReadCred(c) == {cred[c].of} \union (IF pc = c THEN {-1} ELSE {})
TimerExpired ==
    \/ sender.at = "wait" /\ status = "authed" /\ sender' = Idle /\ UNCHANGED mixed
    \/ /\ sender.at = "idle"
       /\ \E v \in ReadCred("token") : sender' = [sender EXCEPT !.at = "encode", !.token = v]
       /\ mixed' = (pc \in Creds)

\* ... the message is encoded, or given up, and the key read for its encryption ...
EncodeBSM ==
    /\ sender.at = "encode" /\ UNCHANGED mixed
    /\ \/ \E v \in ReadCred("key") : sender' = [sender EXCEPT !.at = "send", !.key = v]
       \/ sender' = Idle

\* ... and the message is sent, unless it cannot be encrypted.
SendData == sender.at = "send" /\ sender' = Idle /\ mixed' = FALSE

UuSend ==
    /\ pc # "crashed"
    /\ TimerExpired \/ EncodeBSM \/ SendData
    /\ UNCHANGED <<status, cred, pc, wait, reply, failed, requests, receiving>>

\* AdapterUu::Run looks at the status until it was granted once.
AdapterRun ==
    /\ pc # "crashed" /\ ~receiving /\ status = "authed" /\ receiving' = TRUE
    /\ UNCHANGED <<status, cred, pc, wait, reply, failed, requests, sender, mixed>>

\* The clock; threads that could run are not late (Spins: the thread sleeps for 0 seconds until the second is over), and a request takes no longer than MaxDelay.
Down(n) == IF n = 0 THEN 0 ELSE n - 1
Tick ==
    /\ pc \notin {"loop", "pause", "crashed"} /\ (wait > 0 \/ pc = "ended" \/ (pc = "sleep" /\ Spins))
    /\ wait' = Down(wait)
    /\ cred' = [c \in Creds |-> [cred[c] EXCEPT !.left = Down(@)]]
    /\ reply' = [reply EXCEPT !.token.left = Down(@), !.key.left = Down(@)]
    /\ UNCHANGED <<status, pc, failed, requests, sender, mixed, receiving>>
-----------------------------------------------------------------------------
Init ==
    /\ status = "none"
    /\ cred = [c \in Creds |-> Nothing] /\ reply = NoReply
    /\ pc = "loop" /\ wait = 0
    /\ failed = "no" /\ requests = 0
    /\ sender = [Idle EXCEPT !.at = "wait"] /\ mixed = FALSE /\ receiving = FALSE

Manager == AuthProc \/ SleepEnd \/ DeviceAuthFails \/ DeviceAuthEnds \/ DeviceAuth \/ ParseResponseBody \/ DoDeviceAuth \/ Pause

Next == Manager \/ UuSend \/ AdapterRun \/ Tick

Spec == Init /\ [][Next]_vars
Fairness == WF_vars(Manager) /\ WF_vars(Tick)
FairSpec == Spec /\ Fairness
-----------------------------------------------------------------------------
\* The device is AUTHED with a token or a key that has expired only after a request has failed or brought a short-lived answer, until both are renewed: the thread wakes up early enough for the other requests, the second that it allows for included.  A message is only made with a token and a key that the platform has given, and with the present ones unless an answer was stored while it was made.
AuthSafe ==
    /\ status = "authed" /\ (\E c \in Creds : ~CheckValidTime(c)) => failed # "no"
    /\ sender.at = "send" => sender.token # 0 /\ sender.key # 0
    /\ sender.at = "send" /\ ~mixed => \A c \in Creds : sender[c] = cred[c].of

\* If the platform answers requests from some time on, and no answer was such that the thread has ended, then the device is authenticated with a token and a key that are valid again and again: whatever was lost, only one of the two was asked for, or both have expired, it is had again.
AuthRecovers == <>[](failed # "yes") => []<>(status = "authed" /\ \A c \in Creds : CheckValidTime(c))
=============================================================================
