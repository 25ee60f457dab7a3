---------------------------- MODULE MCRpc2Server ----------------------------
(***************************************************************************)
(* One client that connects twice, so that a request can belong to a       *)
(* connection that is gone and two requests to different connections.      *)
(***************************************************************************)
EXTENDS Rpc2Server

MCMaxConnects == [c \in Clients |-> 2]
=============================================================================
