--------------------------- MODULE MCOrchestrator ---------------------------
(* Instances of Orchestrator for TLC. *)
EXTENDS Orchestrator, TLC

CONSTANTS A, B, m1, m2, fam, n1, n2, n3, v1, v2, t

AFirst == <<A, B>>

SpecOf(members, v) == [members |-> members, strategy |-> fam, ver |-> v, tmpl |-> t, max |-> 1]
As(v) == [ver |-> v, tmpl |-> t]

\* Members of A: one a machine; B's member lives on A's first machine.
a1 == <<m1, n1>>
a2 == <<m2, n2>>
b1 == <<m1, n3>>

\* A as it stands half way from family slots to member slots: its second machine
\* has moved, on the first the process still runs under the family's name.
HalfSlots == << <<m1, fam>>, a1, b1, a2 >>
HalfRow == [spec |-> SpecOf({a1, a2}, v1), generation |-> 1,
            status |-> NewStatus("Rolling", 0, {a1, a2}, "", FALSE)]
Half0 == A :> HalfRow @@ B :> None
HalfAssign == [x \in {HalfSlots[i] : i \in 1..4} |-> IF x \in {<<m1, fam>>, a2} THEN As(v1) ELSE None]

\* A gets a new version, then gives up its members, one after the other, for one
\* in B's slot.  B is applied once.
Rolling == A :> <<SpecOf({a1, a2}, v2), SpecOf({a1}, v2), SpecOf({b1}, v2)>> @@ B :> <<SpecOf({b1}, v1)>>
\* A gets a new version and loses its second member.
Upgrade == A :> <<SpecOf({a1}, v2)>> @@ B :> <<SpecOf({b1}, v1)>>

NoVerbs == {}
VerbOnB == {[slot |-> b1, want |-> As(v2)], [slot |-> b1, want |-> None]}

DeleteFailRestart == {"delete", "fail", "restart"}
=============================================================================
