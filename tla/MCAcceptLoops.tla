--------------------------- MODULE MCAcceptLoops ---------------------------
(***************************************************************************)
(* Values of the constants of AcceptLoops for TLC: four calls, enough for  *)
(* either process to hold one connection, have another in its queue, and   *)
(* more to come.                                                           *)
(***************************************************************************)
EXTENDS AcceptLoops

CONSTANTS x1, x2, x3, x4

MCCalls == {x1, x2, x3, x4}
=============================================================================
