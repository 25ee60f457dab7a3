---------------------------- MODULE MCItemQueue ----------------------------
(***************************************************************************)
(* Two queues: one with two consumers, as the class allows, and one with a *)
(* single consumer that copies its slot, like the acceptor.                *)
(***************************************************************************)
EXTENDS ItemQueue, TLC

CONSTANTS q1, q2, w1, w2, w3

MCQueueOf == (w1 :> q1) @@ (w2 :> q1) @@ (w3 :> q2)
=============================================================================
