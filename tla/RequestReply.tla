---------------------------- MODULE RequestReply ----------------------------
(***************************************************************************)
(* What an IFabricTransportMessageHandler owes the transport, seen from    *)
(* outside: after BeginProcessRequest the transport's callback is invoked  *)
(* at most once, EndProcessRequest runs once, only after the callback, and *)
(* hands over one reply that does not change once it is decided.           *)
(***************************************************************************)
CONSTANTS Requests, Replies, NoReply

VARIABLES phase, reply

vars == <<phase, reply>>

Init ==
    /\ phase = [r \in Requests |-> "idle"]
    /\ reply = [r \in Requests |-> NoReply]

Begin(r) ==
    /\ phase[r] = "idle"
    /\ phase' = [phase EXCEPT ![r] = "begun"]
    /\ UNCHANGED reply

\* A reply, once decided, stays.
Decide(r, a) ==
    /\ phase[r] \in {"begun", "called"}
    /\ reply[r] = NoReply
    /\ reply' = [reply EXCEPT ![r] = a]
    /\ UNCHANGED phase

Callback(r) ==
    /\ phase[r] = "begun"
    /\ phase' = [phase EXCEPT ![r] = "called"]
    /\ UNCHANGED reply

\* EndProcessRequest hands over the decided reply, or decides now.
End(r, a) ==
    /\ phase[r] = "called"
    /\ reply[r] \in {a, NoReply}
    /\ phase' = [phase EXCEPT ![r] = "ended"]
    /\ reply' = [reply EXCEPT ![r] = a]

Next ==
    \E r \in Requests :
        Begin(r) \/ Callback(r) \/ \E a \in Replies : Decide(r, a) \/ End(r, a)

Spec == Init /\ [][Next]_vars
=============================================================================
