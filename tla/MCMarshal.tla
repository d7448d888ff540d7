----------------------------- MODULE MCMarshal -----------------------------
(***************************************************************************)
(* Values of the constants of Marshal for TLC.                             *)
(***************************************************************************)
EXTENDS Marshal

\* Strings of different length, one of them empty, one no palindrome.
MCTexts == {<<>>, <<"a", "b">>}

\* The least and the greatest value of rand().
MCIds == {0, MaxInt}

MCServerLoc == [address |-> "host", port |-> "8090"]
MCClientLoc == [address |-> "host", port |-> "8095"]
=============================================================================
