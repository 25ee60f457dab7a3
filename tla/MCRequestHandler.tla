-------------------------- MODULE MCRequestHandler --------------------------
(***************************************************************************)
(* Two requests whose begin may fail or succeed in any way.                *)
(***************************************************************************)
EXTENDS RequestHandler
=============================================================================
