---------------------------- MODULE MCPlacement ----------------------------
(* Instances of Placement for TLC: strategy a is placed on volume v, and is *)
(* halted; of strategy b a slot is left.                                    *)
EXTENDS Placement

CONSTANTS a, b, v, x1, x2, c1, c2, w1, w2, p1, p2, p3

OneOnOne ==
  [s \in Strategies |-> IF s = a THEN [art |-> x1, mounts |-> {v}, stopped |-> TRUE] ELSE None]

\* To run on the volume, or beside it.
OnV == [art |-> x1, mounts |-> {v}, stopped |-> FALSE]
Beside == [art |-> x2, mounts |-> {}, stopped |-> FALSE]
OnVOrBeside == {OnV, Beside}
=============================================================================
