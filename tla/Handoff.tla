------------------------------ MODULE Handoff ------------------------------
(***************************************************************************)
(* What a basic_item_queue promises its users, without vectors, events or  *)
(* locks: an item that was put is pending until one consumer of that queue *)
(* gets it, and one consumer gets it only once.  No order is promised.     *)
(***************************************************************************)
CONSTANTS Queues, Waiters, QueueOf, Items

VARIABLES pending, taken

vars == <<pending, taken>>

Init ==
    /\ pending = [q \in Queues |-> {}]
    /\ taken = [w \in Waiters |-> {}]

Fresh(x) ==
    /\ \A q \in Queues : x \notin pending[q]
    /\ \A w \in Waiters : x \notin taken[w]

Put(q, x) ==
    /\ Fresh(x)
    /\ pending' = [pending EXCEPT ![q] = @ \cup {x}]
    /\ UNCHANGED taken

Get(w, x) ==
    /\ x \in pending[QueueOf[w]]
    /\ pending' = [pending EXCEPT ![QueueOf[w]] = @ \ {x}]
    /\ taken' = [taken EXCEPT ![w] = @ \cup {x}]

Next ==
    \/ \E q \in Queues, x \in Items : Put(q, x)
    \/ \E w \in Waiters, x \in Items : Get(w, x)

Spec == Init /\ [][Next]_vars
=============================================================================
