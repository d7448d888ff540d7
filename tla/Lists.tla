------------------------------- MODULE Lists -------------------------------
(***************************************************************************)
(* The lists from which the processes take entries at any position.        *)
(***************************************************************************)
EXTENDS Naturals, Sequences

\* The sequence q without its i-th element.
Without(q, i) == SubSeq(q, 1, i - 1) \o SubSeq(q, i + 1, Len(q))
=============================================================================
