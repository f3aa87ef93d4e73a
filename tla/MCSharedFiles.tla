--------------------------- MODULE MCSharedFiles ---------------------------
(* Instances of SharedFiles for TLC. *)
EXTENDS SharedFiles

CONSTANTS n1, n2, d1, d2, w1, w2

\* n1 changes beside n2, or is alone, or is withdrawn.
SomeSnapshots ==
  {[n \in Names |-> IF n = n1 THEN d1 ELSE d2], [n \in Names |-> d2],
   [n \in Names |-> IF n = n1 THEN d1 ELSE None], [n \in Names |-> IF n = n1 THEN None ELSE d2]}

OneBadSource == {<<n2, d2>>}
=============================================================================
