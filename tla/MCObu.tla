-------------------------------- MODULE MCObu --------------------------------
(***************************************************************************)
(* The on-board unit for TLC: its messages (ObuData), signatures           *)
(* (ObuSecurity), traffic light policy (ObuLight), authentication          *)
(* (ObuAuth) and threads (ObuThreads).  Each behaviour runs one of them.   *)
(***************************************************************************)
EXTENDS Integers, Sequences, FiniteSets

CONSTANTS Msgs, MaxEntries, NoMsg,
          Reference, NoLane, MaxMessages,
          ValidTimeInterval, Life, MaxDelay,
          MaxCalls, Senders

\* The entries of a table, and an interval before the end of a credential that is long enough for a request and for the seconds that the thread rounds away.
ASSUME ObuAssumption ==
    /\ NoMsg \notin Msgs /\ MaxEntries \in Nat \ {0} /\ MaxCalls \in Nat
    /\ ValidTimeInterval \in Nat /\ Life \in Nat /\ MaxDelay \in Nat
    /\ MaxDelay + 2 < ValidTimeInterval /\ ValidTimeInterval <= Life

VARIABLES part,
          mix, table, refresh, newest, fetched, dataPc, entry, frame, twice, car,
          stage, call, held, proved, stored,
          sequence_num, previous, input, output,
          status, cred, authPc, wait, reply, failed, requests, uu, mixed, receiving,
          main, installed, threads, thread_id, caller, server, stop_flag, client, cq, sender, calls, restarted, late

\* Two lanes that the stop line tells apart, one without points and one that cannot be converted.
Near == [ok |-> TRUE, points |-> <<3, 1>>, connections |-> <<1, 2>>]
Far == [ok |-> TRUE, points |-> <<1, 2>>, connections |-> <<2, 2>>]
Beyond == [ok |-> TRUE, points |-> <<9>>, connections |-> <<1>>]
Pointless == [ok |-> TRUE, points |-> <<>>, connections |-> <<1>>]
Bad == [ok |-> FALSE, points |-> <<1>>, connections |-> <<1>>]
MCRoads == {<<>>, <<<<>>>>, <<<<Far, Near>>>>, <<<<Far>>, <<Near>>>>, <<<<Far>>, <<Pointless>>>>, <<<<Near, Bad>>>>, <<<<Beyond>>>>}
MCIntersections == {[id |-> id, ahead |-> a, dist |-> d, roads |-> <<<<Far>>, <<Near>>>>] : id \in {1, 2}, a \in BOOLEAN, d \in {1, 2, 9}}
MCMaps ==
    {<<[id |-> 1, ahead |-> TRUE, dist |-> 1, roads |-> r]>> : r \in MCRoads} \union
    {<<x, y>> : x \in MCIntersections, y \in {z \in MCIntersections : z.id = 2}}

\* Phases with states that have begun or not, in any order, one with a light that is not known.
State(now, light) == [now |-> now, light |-> light]
Red == [id |-> 1, states |-> <<State(TRUE, 3), State(FALSE, 6)>>]
Green == [id |-> 2, states |-> <<State(FALSE, 3), State(TRUE, 6)>>]
Odd == [id |-> 2, states |-> <<State(TRUE, 7), State(TRUE, 8), State(FALSE, 4)>>]
Dark == [id |-> 1, states |-> <<State(FALSE, 0)>>]
Wrong == [id |-> 1, states |-> <<State(TRUE, 4)>>]
Signals(id, stamp, phases) == [id |-> id, stamp |-> stamp, phases |-> phases]
MCSpats ==
    {<<Signals(1, <<1, 1>>, <<Red, Green>>), Signals(2, <<>>, <<Odd>>)>>, <<Signals(2, <<0, 2>>, <<Dark, Odd>>)>>,
     <<Signals(1, <<>>, <<Wrong>>)>>, <<Signals(1, <<2, 0>>, <<>>)>>, <<>>}

MCMixes == {{"map", "spat"}, {"ssm"}}

Data == INSTANCE ObuData WITH Mixes <- MCMixes, pc <- dataPc
Security == INSTANCE ObuSecurity
Light == INSTANCE ObuLight WITH Maps <- MCMaps, Spats <- MCSpats, MaxCalls <- MaxMessages
Auth == INSTANCE ObuAuth WITH pc <- authPc, sender <- uu
Threads == INSTANCE ObuThreads

dataVars == <<mix, table, refresh, newest, fetched, dataPc, entry, frame, twice, car>>
securityVars == <<stage, call, held, proved, stored>>
lightVars == <<sequence_num, previous, input, output>>
authVars == <<status, cred, authPc, wait, reply, failed, requests, uu, mixed, receiving>>
threadVars == <<main, installed, threads, thread_id, caller, server, stop_flag, client, cq, sender, calls, restarted, late>>
vars == <<part, dataVars, securityVars, lightVars, authVars, threadVars>>

Init ==
    /\ part \in {"data", "security", "light", "auth", "threads"}
    /\ Data!Init /\ (part # "data" => mix = {"ssm"})
    /\ Security!Init /\ Light!Init /\ Auth!Init /\ Threads!Init

Next ==
    \/ part = "data" /\ Data!Next /\ UNCHANGED <<part, securityVars, lightVars, authVars, threadVars>>
    \/ part = "security" /\ Security!Next /\ UNCHANGED <<part, dataVars, lightVars, authVars, threadVars>>
    \/ part = "light" /\ Light!Next /\ UNCHANGED <<part, dataVars, securityVars, authVars, threadVars>>
    \/ part = "auth" /\ Auth!Next /\ UNCHANGED <<part, dataVars, securityVars, lightVars, threadVars>>
    \/ part = "threads" /\ Threads!Next /\ UNCHANGED <<part, dataVars, securityVars, lightVars, authVars>>

\* The fairness of the authentication, in its own part.
Spec == Init /\ [][Next]_vars /\ WF_vars(part = "auth" /\ Auth!Manager /\ UNCHANGED <<part, dataVars, securityVars, lightVars, threadVars>>)
                              /\ WF_vars(part = "auth" /\ Auth!Tick /\ UNCHANGED <<part, dataVars, securityVars, lightVars, threadVars>>)

\* No message is overlooked, a thread that copies a deleted one is woken again, and no frame is freed twice (ObuData); a payload that is passed on has a confirmed certificate and was not refused, and failures give back what they took (ObuSecurity).
MessagesSafe == Data!DataSafe /\ Security!SecuritySafe
\* The lights are those of the lane ahead (ObuLight).
LightRight == Light!LightRight
\* Credentials are renewed in time (ObuAuth), and threads find what they use and end when they are stopped (ObuThreads).
UnitSafe == Auth!AuthSafe /\ Threads!ThreadsSafe
\* The device is authenticated again after each loss (ObuAuth).
AuthRecovers == part = "auth" => Auth!AuthRecovers
=============================================================================
