----------------------------- MODULE MCTransfer -----------------------------
(* Instances of Transfer for TLC: r1 downloads, r2 lists, r3 reaps. *)
EXTENDS Transfer

CONSTANTS r1, r2, r3

PartsOf == [r \in Requests |-> IF r = r1 THEN 3 ELSE 1]
=============================================================================
