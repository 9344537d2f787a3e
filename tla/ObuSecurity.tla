----------------------------- MODULE ObuSecurity -----------------------------
(***************************************************************************)
(* Signed messages of the on-board unit (security.cc, common.c): keys are  *)
(* read from certificate files, and a received message is only passed on   *)
(* when its certificate was signed by the root and its payload by the      *)
(* certificate.  A call is a list of steps that take objects from a        *)
(* library, or fail; after a failure it gives back what its label `end'    *)
(* frees.  The mathematics is the library's.                               *)
(*                                                                         *)
(* The result of a library call is "good" (1), "bad" (0) or "error" (less  *)
(* than 0), and the calls are not tested alike: Accepts has each test.     *)
(* Pointers and lengths that the code uses untested may end the process.   *)
(***************************************************************************)
EXTENDS Integers, Sequences, FiniteSets

VARIABLES
    stage,     \* of the Security object
    call,      \* the call at work: its steps, and what a failure gives back
    held,      \* objects that were taken and not given back
    proved,    \* checks that the message at work has passed, each with its result
    stored     \* history: the same of the last payload that was passed on

vars == <<stage, call, held, proved, stored>>

Take(o) == [do |-> "take", obj |-> o]
Check(c) == [do |-> "check", obj |-> c]
Put(o) == [do |-> "put", obj |-> o]
Use(o) == [do |-> "use", obj |-> o]
Results == {"good", "bad", "error"}
Quiet == [name |-> "none", steps |-> <<>>, fail |-> {}]
Call(name, steps, fail) == [name |-> name, steps |-> steps, fail |-> fail]

\* The results with which the code goes on: der_encode_to_buffer is tested for 0 only and SM2Verify of a payload with `!', SM2Verify of a certificate for 1.
Accepts(c) == IF c \in {"encode", "signature"} THEN {"good", "error"} ELSE {"good"}
-----------------------------------------------------------------------------
\* The certificate becomes a key; x is the private one.
SetupKey(key) == <<Take("y"), Take("z"), Take("x"), Take(key), Put("x"), Put("y"), Put("z")>>
SetupKeyFromCA(key) == <<Take("cert"), Use("verificationKey")>> \o SetupKey(key) \o <<Put("cert")>>
GetKey(key) == <<Take("file"), Check("titles"), Put("file")>> \o SetupKeyFromCA(key)
GetCert == <<Take("file"), Check("titles"), Put("file")>>

\* Init: the root key and the own key with its certificate, each if it has a file.
InitRoot == Call("init", GetKey("root_key"), {"file", "x", "y", "z", "cert"})
InitSelf == Call("init", GetKey("self_key") \o GetCert, {"file", "x", "y", "z", "cert"})

\* Mutant: the certificate is taken as it is.
GetPubKey_Unverified ==
    <<Check("root_key"), Take("cert"), Take("tbs"), Check("encode"), Use("tbs_data"), Take("y"), Take("z"), Use("verificationKey"), Take("pub_key"),
      Put("cert"), Put("tbs"), Put("y"), Put("z")>>

\* The key of the sender, after its certificate was verified with the root key.
GetPubKey ==
    <<Check("root_key"), Take("cert"), Take("tbs"), Check("encode"), Use("tbs_data"), Check("certificate"),
      Take("y"), Take("z"), Use("verificationKey"), Take("pub_key"),
      Put("cert"), Put("tbs"), Put("y"), Put("z")>>

\* The message itself is not freed, on no path.
VerifyAndStrip ==
    Call("verify", <<Take("secured_msg"), Use("signerinfo")>> \o GetPubKey \o <<Check("signature"), Put("pub_key")>>, {"cert", "tbs", "y", "z", "pub_key"})

\* Secured fills a message with three allocations, signs and encodes it; these are not freed either.
Secured == Call("secure", <<Take("signerinfo"), Take("certificateStr"), Take("payload"), Take("signature_buf")>>, {})
-----------------------------------------------------------------------------
Begin(c, next) ==
    /\ call = Quiet /\ call' = c /\ proved' = {}
    /\ stage' = next /\ UNCHANGED <<held, stored>>

Skip(next) == call = Quiet /\ stage' = next /\ UNCHANGED <<call, held, proved, stored>>

\* Init reads each key that has a file; a thread whose Init failed ends.
InitKeys ==
    \/ stage = "new" /\ (Begin(InitRoot, "root") \/ Skip("root"))
    \/ stage = "root" /\ (Begin(InitSelf, "ready") \/ Skip("ready"))

Message ==
    /\ stage = "ready"
    /\ Begin(VerifyAndStrip, stage) \/ ("self_key" \in held /\ Begin(Secured, stage))

Now == Head(call.steps)

Step ==
    /\ call.steps # <<>>
    /\ call' = [call EXCEPT !.steps = Tail(@)]
    /\ \/ Now.do = "take" /\ held' = held \union {Now.obj} /\ UNCHANGED proved
       \/ Now.do = "put" /\ held' = held \ {Now.obj} /\ UNCHANGED proved
       \/ Now.do = "use" /\ UNCHANGED <<held, proved>>
       \/ /\ Now.do = "check" /\ (Now.obj = "root_key" => "root_key" \in held)
          /\ \E r \in Accepts(Now.obj) : proved' = proved \union {<<Now.obj, r>>}
          /\ UNCHANGED held
    /\ UNCHANGED <<stage, stored>>

\* An object cannot be had, or the code refuses a result.
Fail ==
    /\ call.steps # <<>> /\ Now.do \in {"take", "check"} /\ call.name # "secure"
    /\ held' = held \ call.fail
    /\ call' = Quiet /\ proved' = {}
    /\ stage' = IF call.name = "init" THEN "failed" ELSE stage
    /\ UNCHANGED stored

\* The process ends: a part of a message that is not there is used, a failed encoding is hashed with its length of -1, or Secured writes through a null pointer of malloc.
Crash ==
    /\ call.steps # <<>>
    /\ call.name = "secure" \/ (Now.do = "use" /\ (Now.obj = "tbs_data" => <<"encode", "error">> \in proved))
    /\ stage' = "crashed" /\ call' = Quiet /\ held' = {} /\ proved' = {}
    /\ UNCHANGED stored

\* The end: the payload of a verified message is handed to the data base.
Return ==
    /\ call # Quiet /\ call.steps = <<>>
    /\ call' = Quiet /\ proved' = {}
    /\ stored' = IF call.name = "verify" THEN proved ELSE stored
    /\ UNCHANGED <<stage, held>>

\* ~Security
Destroy ==
    /\ call = Quiet /\ stage = "failed"
    /\ held' = held \ {"root_key", "self_key"} /\ stage' = "gone"
    /\ UNCHANGED <<call, proved, stored>>

Init == stage = "new" /\ call = Quiet /\ held = {} /\ proved = {} /\ stored = {}

Next == InitKeys \/ Message \/ Step \/ Fail \/ Crash \/ Return \/ Destroy

Spec == Init /\ [][Next]_vars
-----------------------------------------------------------------------------
\* A payload reaches the data base only after there was a root key, SM2Verify has confirmed the certificate with it, and SM2Verify with the key of the certificate has not refused the payload; whatever fails, no path keeps a file, a number, a certificate or a key of the sender, only the messages themselves and their parts.
SecuritySafe ==
    /\ stored # {} => {<<"root_key", "good">>, <<"certificate", "good">>} \subseteq stored /\ <<"signature", "bad">> \notin stored /\ \E r \in Results : <<"signature", r>> \in stored
    /\ call = Quiet => held \subseteq {"root_key", "self_key", "secured_msg", "signerinfo", "certificateStr", "payload", "signature_buf"}
    /\ stage = "gone" => held \intersect {"root_key", "self_key"} = {}
=============================================================================
