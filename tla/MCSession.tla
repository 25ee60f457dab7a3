----------------------------- MODULE MCSession ------------------------------
(***************************************************************************)
(* An instance of Session: a server, a client of either library, and       *)
(* durations below, at and beyond the range of a DWORD scaled down to 0..3.*)
(***************************************************************************)
EXTENDS Session

MCElapsed == {0, 1, DwordRange, DwordRange + 2}
=============================================================================
