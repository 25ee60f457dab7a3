----------------------------- MODULE MCShutdown -----------------------------
(***************************************************************************)
(* One connection queue with its accept loop and three connections.        *)
(***************************************************************************)
EXTENDS Shutdown

CONSTANT conn_queue_

MCQueueOf == [w \in Waiters |-> conn_queue_]
=============================================================================
