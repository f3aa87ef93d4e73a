------------------------- MODULE OrchestratorProofs -------------------------
(* Type correctness of Orchestrator, the disjointness of what the sets     *)
(* claim, the budget of a roll, what Ready says of the members, and that   *)
(* no slot is left to nobody, for every value of the constants.            *)
EXTENDS Orchestrator, FiniteSetTheorems, TLAPS

----------------------------------------------------------------------------
(* Data *)

\* There are finitely many slots, so that members can be counted.
LEMMA SlotsFinite == \A S \in SUBSET Slots : IsFiniteSet(S) /\ Cardinality(S) \in Nat
<1>1. IsFiniteSet(1..Len(SlotOrder))
  BY FS_Interval, OrchestratorAssumption
<1>2. IsFiniteSet(Slots)
  <2> DEFINE f == [i \in 1..Len(SlotOrder) |-> SlotOrder[i]]
  <2>1. f \in Surjection(1..Len(SlotOrder), Slots)
    BY DEF Slots, Surjection
  <2> QED BY <1>1, <2>1, FS_Surjection
<1> QED BY <1>2, FS_Subset, FS_CardinalityType

\* What a set owns, or is to drop, are slots.
LEMMA OwnedAreSlots ==
  ASSUME NEW r
  PROVE  /\ assignedSlots(r) \subseteq Slots
         /\ droppedSlots(r) \subseteq Slots
         /\ \A rows \in SUBSET Slots : withRetainedDrops(r, rows) \subseteq Slots
BY DEF assignedSlots, droppedSlots, withRetainedDrops

LEMMA StatusType ==
  ASSUME NEW p \in Phases, NEW o \in Nat, NEW S \in SUBSET Slots, NEW k \in {"", "member"}, NEW d \in BOOLEAN
  PROVE  NewStatus(p, o, S, k, d) \in SetStatus
BY DEF NewStatus, SetStatus

----------------------------------------------------------------------------
(* The controller's record *)

\* The controller's local state: its part of TypeOK.
CtlOK ==
  /\ ctl \in Ctl
  /\ ctl.pc \notin {"idle", "next"} => ctl.cl # None
  /\ ctl.pc = "save" => ctl.st # None

LEMMA IdleType == Idle \in Ctl /\ Idle.pc = "idle" /\ Idle.cl = None
BY DEF Idle, Ctl

\* In the middle of a reconcile there is a row to work on.
LEMMA Working ==
  ASSUME CtlOK, ctl.pc \notin {"idle", "next"}
  PROVE  /\ ctl.cl \in Snapshot /\ me \in Sets /\ myRow \in Row
         /\ myRow.spec \in SetSpec /\ myRow.status \in SetStatus /\ myRow.generation \in Nat
         /\ myRow.spec.members \subseteq Slots /\ myRow.spec.max \in Nat \ {0}
         /\ myRow.status.members \subseteq Slots /\ myRow.status.observed \in Nat
         /\ myRow.status.key \in {"", "member"}
<1>1. ctl.cl \in Snapshot
  BY DEF CtlOK, Ctl
<1>2. me \in Sets /\ myRow \in Row
  BY <1>1 DEF Snapshot, me, myRow
<1>3. myRow.spec \in SetSpec /\ myRow.status \in SetStatus /\ myRow.generation \in Nat
  BY <1>2 DEF Row
<1> QED BY <1>1, <1>2, <1>3 DEF SetSpec, SetStatus

LEMMA NextSetType ==
  ASSUME CtlOK
  PROVE  NextSet \in Ctl /\ NextSet.pc = "next"
BY DEF CtlOK, NextSet, Idle, Ctl

LEMMA SavingType ==
  ASSUME CtlOK, ctl.cl # None, NEW st \in SetStatus
  PROVE  /\ Saving(st) \in Ctl /\ Saving(st).pc = "save"
         /\ Saving(st).cl # None /\ Saving(st).st # None
<1>1. st # None
  BY OrchestratorAssumption
<1> QED BY <1>1 DEF CtlOK, Saving, NextSet, Idle, Ctl

\* An early return keeps a status that is well formed.
LEMMA StoppedType ==
  ASSUME CtlOK, ctl.pc \notin {"idle", "next"}, NEW S \in SUBSET Slots, NEW p \in Phases
  PROVE  Stopped(p, myRow, withRetainedDrops(myRow, S)) \in SetStatus
BY Working, OwnedAreSlots, StatusType DEF Stopped

LEMMA AssignFailedType ==
  ASSUME CtlOK, ctl.pc \notin {"idle", "next"}, NEW S \in SUBSET Slots, ctl' = AssignFailed(S)
  PROVE  CtlOK'
<1>1. Stopped("Failed", myRow, withRetainedDrops(myRow, S)) \in SetStatus
  BY StoppedType DEF Phases
<1>2. ctl.cl # None
  BY DEF CtlOK
<1> QED BY <1>1, <1>2, SavingType DEF AssignFailed, CtlOK
----------------------------------------------------------------------------
(* Type correctness *)

\* The parts of TypeOK, by who writes them.
SetsOK ==
  /\ sets \in [Sets -> Row \cup {None}]
  /\ applying \in [Sets -> SetSpec \cup {None}]
  /\ marks \subseteq Snapshot
  /\ sent \in [Sets -> Nat]

SlotsOK ==
  /\ assign \in [Slots -> Assignment \cup {None}]
  /\ status \in [Slots -> Report \cup {None}]
  /\ writer \in [Slots -> Sets \cup {Human}]
  /\ awaiting \subseteq Slots

DeadlineOK == deadline \in [Sets -> [Slots -> {"none", "armed", "past"}]]

RestOK ==
  /\ verb \in Verbs \cup {None}
  /\ used \subseteq Kinds
  /\ lost \subseteq Slots

LEMMA TypeParts == TypeOK <=> SetsOK /\ SlotsOK /\ CtlOK /\ DeadlineOK /\ RestOK
BY DEF TypeOK, SetsOK, SlotsOK, CtlOK, DeadlineOK, RestOK

LEMMA InitType == Init => TypeOK
<1> SUFFICES ASSUME Init PROVE TypeOK
  OBVIOUS
<1>1. SetsOK
  BY OrchestratorAssumption DEF Init, SetsOK
<1>2. SlotsOK
  <2>1. assign \in [Slots -> Assignment \cup {None}]
    BY OrchestratorAssumption DEF Init
  <2>2. status \in [Slots -> Report \cup {None}]
    <3>1. \A x \in Slots : assign[x] # None =>
            [on |-> assign[x], phase |-> "healthy", run |-> assign[x].ver, ready |-> TRUE] \in Report
      BY <2>1 DEF Report, Assignment
    <3> QED BY <3>1 DEF Init
  <2>3. writer \in [Slots -> Sets \cup {Human}]
    BY DEF Init
  <2> QED BY <2>1, <2>2, <2>3 DEF Init, SlotsOK
<1>3. CtlOK
  BY IdleType DEF Init, CtlOK
<1>4. DeadlineOK /\ RestOK
  BY DEF Init, DeadlineOK, RestOK
<1> QED BY <1>1, <1>2, <1>3, <1>4, TypeParts

\* The two writes of the store keep the slots well formed.
LEMMA UndeployType ==
  ASSUME SlotsOK, NEW x, NEW who \in Sets \cup {Human}, Undeploy(x, who)
  PROVE  SlotsOK'
BY DEF Undeploy, SlotsOK

LEMMA SetAssignmentType ==
  ASSUME SlotsOK, NEW x \in Slots, NEW a \in Assignment, NEW who \in Sets \cup {Human}, SetAssignment(x, a, who)
  PROVE  SlotsOK'
BY DEF SetAssignment, SlotsOK

LEMMA ClearDeadlineType ==
  ASSUME DeadlineOK, NEW s, NEW X, clearDeadline(s, X)
  PROVE  DeadlineOK'
BY DEF clearDeadline, DeadlineOK

LEMMA SpendType ==
  ASSUME used \subseteq Kinds, NEW k, Spend(k)
  PROVE  used' \subseteq Kinds
BY OrchestratorAssumption DEF Spend

\* A rendered assignment is one.
LEMMA ComputedType ==
  ASSUME NEW r \in Row
  PROVE  Computed(r) \in Assignment
<1>1. r.spec \in SetSpec
  BY DEF Row
<1> QED BY <1>1 DEF Computed, Assignment, SetSpec

\* A status write keeps the row a row.
LEMMA PreserveType ==
  ASSUME NEW cur \in SetStatus, NEW st \in SetStatus
  PROVE  preserveDeleting(cur, st) \in SetStatus
BY DEF preserveDeleting, SetStatus, Phases

LEMMA NewRowType ==
  ASSUME NEW spec \in SetSpec
  PROVE  NewRow(spec) \in Row
BY DEF NewRow, Row, SetStatus, Phases

LEMMA MarkedType ==
  ASSUME NEW r \in Row
  PROVE  Marked(r) \in Row
<1>1. r.status \in SetStatus
  BY DEF Row
<1>2. [r.status EXCEPT !.deleting = TRUE, !.phase = "Deleting"] \in SetStatus
  BY <1>1 DEF SetStatus, Phases
<1>3. Marked(r) = [r EXCEPT !.status = [r.status EXCEPT !.deleting = TRUE, !.phase = "Deleting"]]
  BY DEF Marked, Row
<1> QED BY <1>2, <1>3 DEF Row

\* What a step leaves alone stays well formed.
LEMMA Frame ==
  ASSUME TypeOK
  PROVE  /\ UNCHANGED setVars => SetsOK'
         /\ UNCHANGED slotVars => SlotsOK'
         /\ UNCHANGED ctl => CtlOK'
         /\ UNCHANGED deadline => DeadlineOK'
         /\ UNCHANGED <<verb, used, lost>> => RestOK'
         /\ SetsOK' /\ SlotsOK' /\ CtlOK' /\ DeadlineOK' /\ RestOK' => TypeOK'
<1>1. UNCHANGED setVars => SetsOK'
  BY DEF TypeOK, setVars, SetsOK
<1>2. UNCHANGED slotVars => SlotsOK'
  BY DEF TypeOK, slotVars, SlotsOK
<1>3. UNCHANGED ctl => CtlOK'
  BY DEF TypeOK, CtlOK
<1>4. UNCHANGED deadline => DeadlineOK'
  BY DEF TypeOK, DeadlineOK
<1>5. UNCHANGED <<verb, used, lost>> => RestOK'
  BY DEF TypeOK, RestOK
<1>6. SetsOK' /\ SlotsOK' /\ CtlOK' /\ DeadlineOK' /\ RestOK' => TypeOK'
  BY DEF TypeOK, SetsOK, SlotsOK, CtlOK, DeadlineOK, RestOK
<1> QED BY <1>1, <1>2, <1>3, <1>4, <1>5, <1>6

----------------------------------------------------------------------------
(* Calls *)

LEMMA CallsType ==
  ASSUME TypeOK, Calls
  PROVE  TypeOK'
<1>0. SetsOK /\ SlotsOK /\ CtlOK /\ DeadlineOK /\ RestOK
  BY TypeParts
<1>1. ASSUME NEW s \in Sets, Admit(s) PROVE TypeOK'
  <2>1. History[s][sent[s] + 1] \in SetSpec
    <3>1. History[s] \in Seq(SetSpec) /\ sent[s] \in Nat /\ sent[s] < Len(History[s])
      BY <1>0, <1>1, OrchestratorAssumption DEF Admit, SetsOK
    <3>2. sent[s] + 1 \in 1..Len(History[s])
      BY <3>1
    <3> QED BY <3>1, <3>2
  <2>2. SetsOK'
    BY <1>0, <1>1, <2>1 DEF Admit, SetsOK
  <2> QED BY <1>1, <2>2, Frame DEF Admit
<1>2. ASSUME NEW s \in Sets, ApplyAssignmentSet(s) PROVE TypeOK'
  <2>1. applying[s] \in SetSpec
    BY <1>0, <1>2 DEF ApplyAssignmentSet, SetsOK
  <2>2. sets[s] # None => [sets[s] EXCEPT !.spec = applying[s], !.generation = @ + 1] \in Row
    <3>1. sets[s] \in Row \cup {None}
      BY <1>0 DEF SetsOK
    <3> SUFFICES ASSUME sets[s] # None PROVE [sets[s] EXCEPT !.spec = applying[s], !.generation = @ + 1] \in Row
      OBVIOUS
    <3> DEFINE r == sets[s]
    <3>2. r \in Row
      BY <3>1
    <3> HIDE DEF r
    <3>3. r.generation + 1 \in Nat
      BY <3>2 DEF Row
    <3> QED BY <2>1, <3>2, <3>3 DEF Row, r
  <2>3. sets' \in [Sets -> Row \cup {None}]
    <3>1. CASE sets' = [sets EXCEPT ![s] = NewRow(applying[s])]
      BY <1>0, <2>1, <3>1, NewRowType DEF SetsOK
    <3>2. CASE sets[s] # None /\ sets' = [sets EXCEPT ![s].spec = applying[s], ![s].generation = @ + 1]
      <4>1. sets' = [sets EXCEPT ![s] = [sets[s] EXCEPT !.spec = applying[s], !.generation = @ + 1]]
        BY <1>0, <3>2 DEF SetsOK, Row
      <4> QED BY <1>0, <2>2, <3>2, <4>1 DEF SetsOK
    <3>3. CASE UNCHANGED sets
      BY <1>0, <3>3 DEF SetsOK
    <3> QED BY <1>2, <3>1, <3>2, <3>3 DEF ApplyAssignmentSet
  <2>4. SetsOK'
    BY <1>0, <1>2, <2>3 DEF ApplyAssignmentSet, SetsOK
  <2> QED BY <1>2, <2>4, Frame DEF ApplyAssignmentSet
<1>3. ASSUME NEW s \in Sets, DeleteAssignmentSet(s) PROVE TypeOK'
  <2>1. [name |-> s, row |-> sets[s]] \in Snapshot
    BY <1>0, <1>3 DEF DeleteAssignmentSet, SetsOK, Snapshot
  <2>2. SetsOK'
    BY <1>0, <1>3, <2>1 DEF DeleteAssignmentSet, SetsOK
  <2>3. RestOK'
    BY <1>0, <1>3, SpendType DEF DeleteAssignmentSet, RestOK
  <2> QED BY <1>3, <2>2, <2>3, Frame DEF DeleteAssignmentSet
<1>4. ASSUME NEW m \in marks, MarkAssignmentSetDeleting(m) PROVE TypeOK'
  <2>1. m \in Snapshot /\ m.name \in Sets /\ m.row \in Row
    <3>1. m \in Snapshot
      BY <1>0 DEF SetsOK
    <3> QED BY <3>1 DEF Snapshot
  <2> DEFINE row == IF MarkLocks THEN sets[m.name] ELSE m.row
  <2>2. row \in Row \cup {None}
    BY <1>0, <2>1 DEF SetsOK
  <2>3. row # None => Marked(row) \in Row
    BY <2>2, MarkedType
  <2>4. sets' = IF row = None THEN sets ELSE [sets EXCEPT ![m.name] = Marked(row)]
    BY <1>4 DEF MarkAssignmentSetDeleting
  <2> HIDE DEF row
  <2>5. SetsOK'
    BY <1>0, <1>4, <2>3, <2>4 DEF MarkAssignmentSetDeleting, SetsOK
  <2> QED BY <1>4, <2>5, Frame DEF MarkAssignmentSetDeleting
<1>5. ASSUME NEW v \in Verbs, CheckVerb(v) PROVE TypeOK'
  <2>1. RestOK'
    BY <1>0, <1>5, SpendType DEF CheckVerb, RestOK
  <2> QED BY <1>5, <2>1, Frame DEF CheckVerb
<1>6. ASSUME CommitVerb PROVE TypeOK'
  <2>1. verb.slot \in Slots /\ verb.want \in Assignment \cup {None}
    BY <1>0, <1>6, OrchestratorAssumption DEF CommitVerb, RestOK
  <2>2. SlotsOK'
    <3>1. CASE verb.want = None
      BY <1>0, <1>6, <3>1, UndeployType DEF CommitVerb
    <3>2. CASE verb.want # None
      BY <1>0, <1>6, <2>1, <3>2, SetAssignmentType DEF CommitVerb
    <3> QED BY <3>1, <3>2
  <2>3. RestOK'
    BY <1>0, <1>6 DEF CommitVerb, RestOK
  <2> QED BY <1>6, <2>2, <2>3, Frame DEF CommitVerb
<1> QED BY <1>1, <1>2, <1>3, <1>4, <1>5, <1>6 DEF Calls

----------------------------------------------------------------------------
(* Agents, time and restarts *)

LEMMA EnvironmentType ==
  ASSUME TypeOK, Environment
  PROVE  TypeOK'
<1>0. SetsOK /\ SlotsOK /\ CtlOK /\ DeadlineOK /\ RestOK
  BY TypeParts
<1>1. ASSUME NEW x \in Slots, Take(x) PROVE TypeOK'
  <2>1. assign[x] \in Assignment /\ assign[x].ver \in Versions
    BY <1>0, <1>1 DEF Take, SlotsOK, Assignment
  <2>2. status[x] = None \/ status[x] \in Report
    BY <1>0 DEF SlotsOK
  <2>3. status[x] = None \/ [status[x] EXCEPT !.on = assign[x]] \in Report
    BY <2>1, <2>2 DEF Report
  <2>4. [on |-> assign[x], phase |-> "deploying", run |-> None, ready |-> FALSE] \in Report
    BY <2>1 DEF Report
  <2>5. status[x] = None \/ [on |-> assign[x], phase |-> "deploying", run |-> status[x].run, ready |-> FALSE] \in Report
    BY <2>1, <2>2 DEF Report
  <2>6. \E r \in Report : status' = [status EXCEPT ![x] = r]
    <3>1. CASE status[x] = None
      <4>1. status' = [status EXCEPT ![x] = [on |-> assign[x], phase |-> "deploying", run |-> None, ready |-> FALSE]]
        BY <1>1, <3>1 DEF Take
      <4> QED BY <2>4, <4>1
    <3>2. CASE status[x] # None
      <4>1. \/ status' = [status EXCEPT ![x] = [status[x] EXCEPT !.on = assign[x]]]
            \/ status' = [status EXCEPT ![x] = [on |-> assign[x], phase |-> "deploying", run |-> status[x].run, ready |-> FALSE]]
        BY <1>1, <3>2 DEF Take
      <4> QED BY <2>3, <2>5, <3>2, <4>1
    <3> QED BY <3>1, <3>2
  <2>7. SlotsOK'
    BY <1>0, <1>1, <2>6 DEF Take, SlotsOK
  <2> QED BY <1>1, <2>7, Frame DEF Take
<1>2. ASSUME NEW x \in Slots, Verdict(x) PROVE TypeOK'
  <2>1. assign[x] \in Assignment /\ assign[x].ver \in Versions /\ status[x] \in Report
    BY <1>0, <1>2 DEF Verdict, SlotsOK, Assignment
  <2>2. /\ [status[x] EXCEPT !.phase = "healthy", !.run = assign[x].ver, !.ready = TRUE] \in Report
        /\ [status[x] EXCEPT !.phase = "failed"] \in Report
        /\ [status[x] EXCEPT !.phase = "rolledback"] \in Report
    BY <2>1 DEF Report
  <2>3. \E r \in Report : status' = [status EXCEPT ![x] = r]
    BY <1>2, <2>2 DEF Verdict
  <2>4. SlotsOK'
    <3>1. awaiting' \subseteq Slots
      BY <1>0, <1>2 DEF Verdict, SlotsOK
    <3> QED BY <1>0, <1>2, <2>3, <3>1 DEF Verdict, SlotsOK
  <2>5. RestOK'
    <3>1. used' \subseteq Kinds
      BY <1>0, <1>2, SpendType DEF Verdict, RestOK
    <3> QED BY <1>0, <1>2, <3>1 DEF Verdict, RestOK
  <2> QED BY <1>2, <2>4, <2>5, Frame DEF Verdict
<1>3. ASSUME NEW x \in Slots, Flap(x) PROVE TypeOK'
  <2>1. status[x] \in Report
    BY <1>0, <1>3 DEF Flap, SlotsOK
  <2>2. [status[x] EXCEPT !.ready = ~@] \in Report
    BY <2>1 DEF Report
  <2>3. status' = [status EXCEPT ![x] = [status[x] EXCEPT !.ready = ~@]]
    BY <1>0, <1>3 DEF Flap, SlotsOK
  <2>4. SlotsOK'
    <3>1. awaiting' \subseteq Slots
      BY <1>0, <1>3 DEF Flap, SlotsOK
    <3> QED BY <1>0, <1>3, <2>2, <2>3, <3>1 DEF Flap, SlotsOK
  <2>5. RestOK'
    <3>1. used' \subseteq Kinds
      BY <1>0, <1>3, SpendType DEF Flap, RestOK
    <3> QED BY <1>0, <1>3, <3>1 DEF Flap, RestOK
  <2> QED BY <1>3, <2>4, <2>5, Frame DEF Flap
<1>4. ASSUME NEW s \in Sets, NEW x \in Slots, DeadlinePasses(s, x) PROVE TypeOK'
  <2>1. DeadlineOK'
    BY <1>0, <1>4 DEF DeadlinePasses, DeadlineOK
  <2> QED BY <1>4, <2>1, Frame DEF DeadlinePasses
<1>5. ASSUME Restart PROVE TypeOK'
  <2>1. SetsOK'
    BY <1>0, <1>5 DEF Restart, SetsOK
  <2>2. CtlOK'
    BY <1>5, IdleType DEF Restart, CtlOK
  <2>3. DeadlineOK'
    BY <1>5 DEF Restart, DeadlineOK
  <2>4. RestOK'
    <3>1. ctl.written \subseteq Slots
      BY <1>0 DEF CtlOK, Ctl
    <3>2. used' \subseteq Kinds
      BY <1>0, <1>5, SpendType DEF Restart, RestOK
    <3> QED BY <1>0, <1>5, <3>1, <3>2 DEF Restart, RestOK
  <2> QED BY <1>5, <2>1, <2>2, <2>3, <2>4, Frame DEF Restart
<1> QED BY <1>1, <1>2, <1>3, <1>4, <1>5 DEF Environment

----------------------------------------------------------------------------
(* The controller *)

\* The record a reconcile begins with.
LEMMA BeginType ==
  ASSUME CtlOK, NEW cl \in ctl.todo, NEW pc \in {"drain", "delete"}, NEW q \in SUBSET Slots, NEW n \in Nat,
         ctl' = [Idle EXCEPT !.pc = pc, !.todo = ctl.todo \ {cl}, !.cl = cl, !.queue = q, !.targets = n]
  PROVE  CtlOK'
<1>1. ctl.todo \subseteq Snapshot
  BY DEF CtlOK, Ctl
<1>2. cl \in Snapshot /\ cl # None
  BY <1>1, OrchestratorAssumption
<1> QED BY <1>1, <1>2 DEF CtlOK, Ctl, Idle

\* Steps that begin or end a pass, or a reconcile.
LEMMA PassType ==
  ASSUME TypeOK, ReconcileAll \/ PassEnds \/ SaveStatus \/ StartRoll \/ StartDelete \/ ArtifactFails
  PROVE  TypeOK'
<1>0. SetsOK /\ SlotsOK /\ CtlOK /\ DeadlineOK /\ RestOK
  BY TypeParts
<1>1. ASSUME ReconcileAll PROVE TypeOK'
  <2>1. {[name |-> s, row |-> sets[s]] : s \in {s \in Sets : sets[s] # None}} \subseteq Snapshot
    BY <1>0 DEF SetsOK, Snapshot
  <2>2. CtlOK'
    BY <1>1, <2>1, IdleType DEF ReconcileAll, CtlOK, Ctl
  <2> QED BY <1>1, <2>2, Frame DEF ReconcileAll
<1>2. ASSUME PassEnds PROVE TypeOK'
  <2>1. CtlOK'
    BY <1>2, IdleType DEF PassEnds, CtlOK
  <2> QED BY <1>2, <2>1, Frame DEF PassEnds
<1>3. ASSUME SaveStatus PROVE TypeOK'
  <2>1. ctl.st \in SetStatus /\ ctl.written \subseteq Slots
    BY <1>0, <1>3 DEF SaveStatus, CtlOK, Ctl
  <2>2. CtlOK'
    BY <1>0, <1>3, NextSetType DEF SaveStatus, CtlOK
  <2>3. sets' \in [Sets -> Row \cup {None}]
    <3>1. CASE sets[me] # None /\ sets' = [sets EXCEPT ![me].status = preserveDeleting(@, ctl.st)]
      <4>1. me \in Sets
        BY <1>0, <1>3, Working DEF SaveStatus
      <4> DEFINE r == sets[me]
      <4>2. r \in Row /\ r.status \in SetStatus
        BY <1>0, <3>1, <4>1 DEF SetsOK, Row
      <4>3. preserveDeleting(r.status, ctl.st) \in SetStatus
        BY <2>1, <4>2, PreserveType
      <4>4. sets' = [sets EXCEPT ![me] = [r EXCEPT !.status = preserveDeleting(r.status, ctl.st)]]
        BY <3>1
      <4> HIDE DEF r
      <4>5. [r EXCEPT !.status = preserveDeleting(r.status, ctl.st)] \in Row
        BY <4>2, <4>3 DEF Row
      <4> QED BY <1>0, <4>4, <4>5 DEF SetsOK
    <3>2. CASE UNCHANGED sets
      BY <1>0, <3>2 DEF SetsOK
    <3> QED BY <1>3, <3>1, <3>2 DEF SaveStatus
  <2>4. SetsOK'
    BY <1>0, <1>3, <2>3 DEF SaveStatus, SetsOK
  <2>5. RestOK'
    <3>1. used' \subseteq Kinds
      BY <1>0, <1>3, SpendType DEF SaveStatus, RestOK
    <3>2. lost' \subseteq Slots
      BY <1>0, <1>3, <2>1 DEF SaveStatus, RestOK
    <3> QED BY <1>0, <1>3, <3>1, <3>2 DEF SaveStatus, RestOK
  <2> QED BY <1>3, <2>2, <2>4, <2>5, Frame DEF SaveStatus
<1>4. ASSUME StartRoll PROVE TypeOK'
  <2>1. PICK cl \in ctl.todo :
          ctl' = [Idle EXCEPT !.pc = "drain", !.todo = ctl.todo \ {cl}, !.cl = cl, !.queue = droppedSlots(cl.row)]
    BY <1>4 DEF StartRoll
  <2>2. droppedSlots(cl.row) \in SUBSET Slots
    BY OwnedAreSlots
  <2>3. ctl.todo \subseteq Snapshot /\ cl \in Snapshot /\ cl # None
    BY <1>0, OrchestratorAssumption DEF CtlOK, Ctl
  <2>4. CtlOK'
    BY <2>1, <2>2, <2>3 DEF CtlOK, Ctl, Idle
  <2> QED BY <1>4, <2>4, Frame DEF StartRoll
<1>5. ASSUME StartDelete PROVE TypeOK'
  <2>1. PICK cl \in ctl.todo :
          ctl' = [Idle EXCEPT !.pc = "delete", !.todo = ctl.todo \ {cl}, !.cl = cl,
                              !.queue = assignedSlots(cl.row), !.targets = Cardinality(assignedSlots(cl.row))]
    BY <1>5 DEF StartDelete
  <2>2. assignedSlots(cl.row) \subseteq Slots /\ Cardinality(assignedSlots(cl.row)) \in Nat
    BY OwnedAreSlots, SlotsFinite
  <2>3. CtlOK'
    BY <1>0, <2>1, <2>2, BeginType
  <2> QED BY <1>5, <2>3, Frame DEF StartDelete
<1>6. ASSUME ArtifactFails PROVE TypeOK'
  <2>1. PICK cl \in ctl.todo :
          ctl' = [Idle EXCEPT !.pc = "save", !.todo = ctl.todo \ {cl}, !.cl = cl,
                              !.st = Stopped("Failed", cl.row, cl.row.status.members)]
    BY <1>6 DEF ArtifactFails
  <2>2. ctl.todo \subseteq Snapshot /\ cl \in Snapshot /\ cl # None
    BY <1>0, OrchestratorAssumption DEF CtlOK, Ctl
  <2>3. cl.row.status \in SetStatus
    BY <2>2 DEF Snapshot, Row
  <2>4. Stopped("Failed", cl.row, cl.row.status.members) \in SetStatus
    BY <2>3 DEF Stopped, NewStatus, SetStatus, Phases
  <2>5. Stopped("Failed", cl.row, cl.row.status.members) # None
    BY <2>4, OrchestratorAssumption
  <2>6. CtlOK'
    BY <2>1, <2>2, <2>4, <2>5, IdleType DEF CtlOK, Ctl
  <2>7. RestOK'
    BY <1>0, <1>6, SpendType DEF ArtifactFails, RestOK
  <2> QED BY <1>6, <2>6, <2>7, Frame DEF ArtifactFails
<1> QED BY <1>1, <1>2, <1>3, <1>4, <1>5, <1>6

\* Steps that undeploy, and the end of a deletion.
LEMMA UndeployStepType ==
  ASSUME TypeOK, UndeployNext \/ UndeployFails \/ FinishDelete
  PROVE  TypeOK'
<1>0. SetsOK /\ SlotsOK /\ CtlOK /\ DeadlineOK /\ RestOK
  BY TypeParts
<1>1. ASSUME UndeployNext PROVE TypeOK'
  <2>0. me \in Sets
    BY <1>0, <1>1, Working DEF UndeployNext
  <2>1. CtlOK'
    <3> DEFINE rest(x) == [ctl EXCEPT !.queue = @ \ {x}]
    <3>1. \A x : rest(x) \in Ctl /\ rest(x).pc = ctl.pc /\ rest(x).cl = ctl.cl
      BY <1>0 DEF CtlOK, Ctl
    <3> HIDE DEF rest
    <3>2. \A x : LET c == [rest(x) EXCEPT !.undeployed = @ + 1] IN c \in Ctl /\ c.pc = ctl.pc /\ c.cl = ctl.cl
      <4>1. \A x : rest(x).undeployed + 1 \in Nat
        BY <3>1 DEF Ctl
      <4> QED BY <3>1, <4>1 DEF Ctl
    <3>3. \E x : ctl' = rest(x) \/ ctl' = [rest(x) EXCEPT !.undeployed = @ + 1]
      BY <1>1 DEF UndeployNext, rest
    <3>4. ctl.pc # "save"
      BY <1>1 DEF UndeployNext
    <3> QED BY <1>0, <3>1, <3>2, <3>3, <3>4 DEF CtlOK
  <2>2. SlotsOK'
    <3>1. (\E x \in ctl.queue : Undeploy(x, me)) \/ UNCHANGED slotVars
      BY <1>1 DEF UndeployNext
    <3> QED BY <1>0, <2>0, <3>1, UndeployType, Frame
  <2>3. DeadlineOK'
    <3>1. (\E x \in ctl.queue : clearDeadline(me, {x})) \/ UNCHANGED deadline
      BY <1>1 DEF UndeployNext
    <3> QED BY <1>0, <3>1, ClearDeadlineType, Frame
  <2> QED BY <1>1, <2>1, <2>2, <2>3, Frame DEF UndeployNext
<1>2. ASSUME UndeployFails PROVE TypeOK'
  <2>1. CtlOK'
    BY <1>0, <1>2, Working, AssignFailedType DEF UndeployFails
  <2>2. RestOK'
    BY <1>0, <1>2, SpendType DEF UndeployFails, RestOK
  <2> QED BY <1>2, <2>1, <2>2, Frame DEF UndeployFails
<1>3. ASSUME FinishDelete PROVE TypeOK'
  <2>0. me \in Sets /\ ctl.cl # None
    BY <1>0, <1>3, Working DEF FinishDelete, CtlOK
  <2>1. CtlOK'
    <3>1. CASE ctl' = NextSet
      BY <1>0, <3>1, NextSetType DEF CtlOK
    <3>2. CASE ctl' = Saving(NewStatus("Deleting", myRow.status.observed, myRow.status.members, myRow.status.key, TRUE))
      <4>1. NewStatus("Deleting", myRow.status.observed, myRow.status.members, myRow.status.key, TRUE) \in SetStatus
        BY <1>0, <1>3, Working, StatusType DEF FinishDelete, Phases
      <4> QED BY <1>0, <2>0, <3>2, <4>1, SavingType DEF CtlOK
    <3> QED BY <1>3, <3>1, <3>2 DEF FinishDelete
  <2>2. SetsOK'
    BY <1>0, <1>3 DEF FinishDelete, SetsOK
  <2>3. DeadlineOK'
    BY <1>0, <1>3, ClearDeadlineType, Frame DEF FinishDelete, pruneClusterDeadlines
  <2> QED BY <1>3, <2>1, <2>2, <2>3, Frame DEF FinishDelete
<1> QED BY <1>1, <1>2, <1>3

\* The budget is a number, and what is counted in it are slots.
LEMMA BudgetType ==
  ASSUME CtlOK, ctl.pc \notin {"idle", "next"}
  PROVE  Budget \in Nat /\ Candidates \subseteq Slots /\ Legacy \subseteq Slots
<1>1. myRow.spec.members \subseteq Slots /\ myRow.spec.max \in Nat
  BY Working
<1>2. Cardinality(Inflight) \in Nat
  <2>1. Inflight \subseteq Slots
    BY <1>1 DEF Inflight, Matched
  <2> QED BY <2>1, SlotsFinite
<1>3. ctl.undeployed \in Nat
  BY DEF CtlOK, Ctl
<1>4. Candidates \subseteq Slots /\ Legacy \subseteq Slots
  BY <1>1 DEF Candidates, Legacy
<1> QED BY <1>1, <1>2, <1>3, <1>4 DEF Budget

LEMMA RollType ==
  ASSUME TypeOK, Observe \/ MountFails \/ RemoveFamily \/ WriteMember \/ AssignFails \/ FinishRoll
  PROVE  TypeOK'
<1>0. SetsOK /\ SlotsOK /\ CtlOK /\ DeadlineOK /\ RestOK
  BY TypeParts
<1>1. ASSUME Observe PROVE TypeOK'
  <2>0. ctl.pc = "drain" /\ ctl.cl # None /\ me \in Sets
    BY <1>0, <1>1, Working DEF Observe, CtlOK
  <2>1. CtlOK'
    <3>1. CASE ctl' = [ctl EXCEPT !.pc = "roll", !.queue = Candidates, !.legacy = Legacy, !.room = Budget,
                                  !.waiting = Candidates # {}, !.inflight = Inflight # {}]
      BY <1>0, <2>0, <3>1, BudgetType DEF CtlOK, Ctl
    <3>2. ASSUME NEW p \in {"Failed", "Degraded"},
                 ctl' = Saving(Stopped(p, myRow, withRetainedDrops(myRow, myRow.spec.members)))
          PROVE  CtlOK'
      <4>1. myRow.spec.members \in SUBSET Slots /\ p \in Phases
        BY <1>0, <2>0, Working DEF Phases
      <4>2. Stopped(p, myRow, withRetainedDrops(myRow, myRow.spec.members)) \in SetStatus
        BY <1>0, <2>0, <4>1, StoppedType
      <4> QED BY <1>0, <2>0, <3>2, <4>2, SavingType DEF CtlOK
    <3> QED BY <1>1, <3>1, <3>2 DEF Observe
  <2>2. DeadlineOK'
    BY <1>0, <1>1 DEF Observe, DeadlineOK
  <2> QED BY <1>1, <2>1, <2>2, Frame DEF Observe
<1>2. ASSUME MountFails PROVE TypeOK'
  <2>1. CtlOK'
    BY <1>0, <1>2, Working, AssignFailedType DEF MountFails
  <2>2. DeadlineOK'
    BY <1>0, <1>2, ClearDeadlineType DEF MountFails
  <2>3. RestOK'
    BY <1>0, <1>2, SpendType DEF MountFails, RestOK
  <2> QED BY <1>2, <2>1, <2>2, <2>3, Frame DEF MountFails
<1>3. ASSUME RemoveFamily PROVE TypeOK'
  <2>0. ctl.pc = "roll" /\ me \in Sets
    BY <1>0, <1>3, Working DEF RemoveFamily, MayWrite
  <2>1. CtlOK'
    BY <1>0, <1>3 DEF RemoveFamily, CtlOK, Ctl
  <2>2. SlotsOK'
    BY <1>0, <1>3, <2>0, UndeployType DEF RemoveFamily
  <2>3. DeadlineOK'
    BY <1>0, <1>3, ClearDeadlineType DEF RemoveFamily
  <2> QED BY <1>3, <2>1, <2>2, <2>3, Frame DEF RemoveFamily
<1>4. ASSUME WriteMember PROVE TypeOK'
  <2>0. ctl.pc = "roll" /\ me \in Sets /\ myRow \in Row
    BY <1>0, <1>4, Working DEF WriteMember, MayWrite
  <2>1. PICK x \in ctl.queue :
          /\ MayWrite(x)
          /\ SetAssignment(x, Computed(myRow), me)
          /\ deadline' = [deadline EXCEPT ![me][x] = "armed"]
          /\ ctl' = [ctl EXCEPT !.queue = @ \ {x}, !.room = @ - 1, !.written = @ \cup {x}]
    BY <1>4 DEF WriteMember
  <2>2. x \in Slots
    BY <1>0 DEF CtlOK, Ctl
  <2>3. CtlOK'
    <3>1. ctl.room - 1 \in Nat
      BY <1>0, <2>1 DEF MayWrite, CtlOK, Ctl
    <3> QED BY <1>0, <2>1, <2>2, <3>1 DEF CtlOK, Ctl
  <2>4. SlotsOK'
    BY <1>0, <2>0, <2>1, <2>2, ComputedType, SetAssignmentType
  <2>5. DeadlineOK'
    BY <1>0, <2>1 DEF DeadlineOK
  <2> QED BY <1>4, <2>3, <2>4, <2>5, Frame DEF WriteMember
<1>5. ASSUME AssignFails PROVE TypeOK'
  <2>1. CtlOK'
    BY <1>0, <1>5, Working, AssignFailedType DEF AssignFails, MayWrite
  <2>2. RestOK'
    BY <1>0, <1>5, SpendType DEF AssignFails, RestOK
  <2> QED BY <1>5, <2>1, <2>2, Frame DEF AssignFails
<1>6. ASSUME FinishRoll PROVE TypeOK'
  <2>0. ctl.pc = "roll" /\ ctl.cl # None
    BY <1>0, <1>6 DEF FinishRoll, CtlOK
  <2>1. PICK p \in Phases, o \in {ObservedGeneration, myRow.status.observed}, k \in {"member", myRow.status.key} :
          ctl' = Saving(NewStatus(p, o, withRetainedDrops(myRow, myRow.spec.members), k, FALSE))
    BY <1>6 DEF FinishRoll, Phases
  <2>2. NewStatus(p, o, withRetainedDrops(myRow, myRow.spec.members), k, FALSE) \in SetStatus
    <3>1. myRow.spec.members \in SUBSET Slots /\ o \in Nat /\ k \in {"", "member"}
      BY <1>0, <2>0, Working DEF ObservedGeneration
    <3>2. withRetainedDrops(myRow, myRow.spec.members) \in SUBSET Slots
      BY <3>1, OwnedAreSlots
    <3> QED BY <3>1, <3>2, StatusType
  <2>3. CtlOK'
    BY <1>0, <2>0, <2>1, <2>2, SavingType DEF CtlOK
  <2>4. DeadlineOK'
    <3>1. pruneClusterDeadlines(me) \/ UNCHANGED deadline
      BY <1>6 DEF FinishRoll
    <3> QED BY <1>0, <3>1, ClearDeadlineType, Frame DEF pruneClusterDeadlines
  <2> QED BY <1>6, <2>3, <2>4, Frame DEF FinishRoll
<1> QED BY <1>1, <1>2, <1>3, <1>4, <1>5, <1>6

----------------------------------------------------------------------------
(* Theorems *)

LEMMA TypeStep == TypeOK /\ [Next]_vars => TypeOK'
<1> SUFFICES ASSUME TypeOK, [Next]_vars PROVE TypeOK'
  OBVIOUS
<1>1. CASE Controller
  BY <1>1, PassType, UndeployStepType, RollType DEF Controller
<1>2. CASE ControllerFaults
  BY <1>2, PassType, UndeployStepType, RollType DEF ControllerFaults
<1>3. CASE Calls
  BY <1>3, CallsType
<1>4. CASE Environment
  BY <1>4, EnvironmentType
<1>5. CASE UNCHANGED vars
  <2>1. UNCHANGED setVars /\ UNCHANGED slotVars /\ UNCHANGED ctl /\ UNCHANGED deadline /\ UNCHANGED <<verb, used, lost>>
    BY <1>5 DEF vars
  <2> QED BY <2>1, Frame
<1> QED BY <1>1, <1>2, <1>3, <1>4, <1>5 DEF Next

\* The state of the control plane stays well formed, and the controller never
\* works without a set or writes without a status, whatever the instance.
THEOREM TypeCorrect == Spec => []TypeOK
<1>1. Init => TypeOK
  BY InitType
<1>2. TypeOK /\ [Next]_vars => TypeOK'
  BY TypeStep
<1> QED BY <1>1, <1>2, PTL DEF Spec

----------------------------------------------------------------------------
(* Claims *)

\* What a row claims depends on its spec and its key.
LEMMA ClaimsBySpecAndKey ==
  ASSUME NEW r, NEW q, r.spec = q.spec, r.status.key = q.status.key
  PROVE  claimedSlots(r) = claimedSlots(q)
BY DEF claimedSlots, Family

\* Once the key is set the family names are no longer claimed.
LEMMA ClaimsShrink ==
  ASSUME NEW r, NEW q, r.spec = q.spec, q.status.key = r.status.key \/ q.status.key # ""
  PROVE  claimedSlots(q) \subseteq claimedSlots(r)
BY DEF claimedSlots, Family

\* No set comes to claim more: every step but ApplyAssignmentSet.
ClaimsNoMore ==
  \A s \in Sets : Live(s)' => Live(s) /\ claimedSlots(sets'[s]) \subseteq claimedSlots(sets[s])

LEMMA NoMoreDisjoint ==
  ASSUME ClaimsDisjoint, ClaimsNoMore
  PROVE  ClaimsDisjoint'
BY DEF ClaimsDisjoint, ClaimsNoMore

LEMMA SaveClaims ==
  ASSUME TypeOK, SaveStatus
  PROVE  ClaimsNoMore
<1>1. CASE UNCHANGED sets
  BY <1>1 DEF ClaimsNoMore, Live
<1>2. CASE sets[me] # None /\ sets' = [sets EXCEPT ![me].status = preserveDeleting(@, ctl.st)]
  <2>1. me \in Sets /\ ctl.st \in SetStatus /\ sets[me] \in Row
    <3>1. CtlOK
      BY TypeParts
    <3>2. me \in Sets /\ ctl.st \in SetStatus
      BY <3>1, Working DEF SaveStatus, CtlOK, Ctl
    <3> QED BY <1>2, <3>2 DEF TypeOK
  <2> DEFINE r == sets[me]
             q == [r EXCEPT !.status = preserveDeleting(r.status, ctl.st)]
  <2>2. sets' = [sets EXCEPT ![me] = q]
    BY <1>2
  <2>3. r \in Row /\ r.status \in SetStatus
    BY <2>1 DEF Row
  <2>4. /\ preserveDeleting(r.status, ctl.st).deleting = (ctl.st.deleting \/ r.status.deleting)
        /\ preserveDeleting(r.status, ctl.st).key = IF ctl.st.key = "" THEN r.status.key ELSE ctl.st.key
    BY <2>1, <2>3 DEF preserveDeleting, SetStatus
  <2>5. q.spec = r.spec /\ q.status = preserveDeleting(r.status, ctl.st)
    BY <2>3 DEF Row
  <2>6. claimedSlots(q) \subseteq claimedSlots(r)
    BY <2>4, <2>5, ClaimsShrink
  <2>7. q # None => q.status.deleting = (ctl.st.deleting \/ r.status.deleting)
    BY <2>4, <2>5
  <2>8. ~q.status.deleting => ~r.status.deleting
    BY <2>4, <2>5
  <2> HIDE DEF q
  <2>9. \A s \in Sets : sets'[s] = IF s = me THEN q ELSE sets[s]
    BY <2>1, <2>2 DEF TypeOK
  <2> QED BY <1>2, <2>6, <2>8, <2>9 DEF ClaimsNoMore, Live
<1> QED BY <1>1, <1>2 DEF SaveStatus

LEMMA MarkClaims ==
  ASSUME TypeOK, NEW m \in marks, MarkAssignmentSetDeleting(m)
  PROVE  ClaimsNoMore
<1> DEFINE row == IF MarkLocks THEN sets[m.name] ELSE m.row
<1>1. m \in Snapshot /\ m.name \in Sets /\ m.row \in Row
  <2>1. m \in Snapshot
    BY DEF TypeOK
  <2> QED BY <2>1 DEF Snapshot
<1>2. row \in Row \cup {None}
  BY <1>1 DEF TypeOK
<1>3. sets' = IF row = None THEN sets ELSE [sets EXCEPT ![m.name] = Marked(row)]
  BY DEF MarkAssignmentSetDeleting
<1> HIDE DEF row
<1>4. CASE row = None
  BY <1>3, <1>4 DEF ClaimsNoMore, Live
<1>5. CASE row # None
  <2>1. Marked(row).status.deleting
    <3>1. row \in Row /\ row.status \in SetStatus
      BY <1>2, <1>5 DEF Row
    <3>2. Marked(row).status = [row.status EXCEPT !.deleting = TRUE, !.phase = "Deleting"]
      BY <3>1 DEF Marked, Row
    <3> QED BY <3>1, <3>2 DEF SetStatus
  <2>2. \A s \in Sets : sets'[s] = IF s = m.name THEN Marked(row) ELSE sets[s]
    BY <1>1, <1>3, <1>5 DEF TypeOK
  <2> QED BY <2>1, <2>2 DEF ClaimsNoMore, Live
<1> QED BY <1>4, <1>5

\* The guard of ApplyAssignmentSet: the spec it writes claims nothing another set claims.
LEMMA ApplyClaims ==
  ASSUME TypeOK, ClaimsDisjoint, NEW s \in Sets, ApplyAssignmentSet(s)
  PROVE  ClaimsDisjoint'
<1>1. CASE UNCHANGED sets
  BY <1>1 DEF ClaimsDisjoint, Live
<1>2. ASSUME NEW q, ~reservationConflict(s, applying[s]), sets' = [sets EXCEPT ![s] = q],
             q.spec = applying[s], q.status.key = KeyOf(s)
      PROVE  ClaimsDisjoint'
  <2>1. claimedSlots(q) = ClaimsOf(s, applying[s])
    BY <1>2, ClaimsBySpecAndKey DEF ClaimsOf
  <2>2. \A o \in Sets \ {s} : Live(o) => claimedSlots(sets[o]) \cap claimedSlots(q) = {}
    BY <1>2, <2>1 DEF reservationConflict
  <2>3. \A o \in Sets : sets'[o] = IF o = s THEN q ELSE sets[o]
    BY <1>2 DEF TypeOK
  <2>4. \A o \in Sets \ {s} : Live(o)' => Live(o)
    BY <2>3 DEF Live
  <2> QED BY <2>2, <2>3, <2>4 DEF ClaimsDisjoint
<1>3. CASE sets[s] = None /\ ~reservationConflict(s, applying[s]) /\ sets' = [sets EXCEPT ![s] = NewRow(applying[s])]
  <2>1. NewRow(applying[s]).spec = applying[s] /\ NewRow(applying[s]).status.key = KeyOf(s)
    BY <1>3 DEF NewRow, KeyOf
  <2> QED BY <1>2, <1>3, <2>1
<1>4. CASE /\ sets[s] # None /\ ~reservationConflict(s, applying[s])
           /\ sets' = [sets EXCEPT ![s].spec = applying[s], ![s].generation = @ + 1]
  <2> DEFINE r == sets[s]
             q == [r EXCEPT !.spec = applying[s], !.generation = @ + 1]
  <2>1. r \in Row
    BY <1>4 DEF TypeOK
  <2>2. sets' = [sets EXCEPT ![s] = q]
    BY <1>4, <2>1 DEF TypeOK, Row
  <2>3. q.spec = applying[s] /\ q.status = r.status
    BY <2>1 DEF Row
  <2>4. q.status.key = KeyOf(s)
    BY <1>4, <2>3 DEF KeyOf
  <2> HIDE DEF q
  <2> QED BY <1>2, <1>4, <2>2, <2>3, <2>4
<1> QED BY <1>1, <1>3, <1>4 DEF ApplyAssignmentSet

\* The steps that write sets.
LEMMA SetSteps ==
  ASSUME [Next]_vars
  PROVE  \/ UNCHANGED sets \/ SaveStatus \/ FinishDelete
         \/ \E m \in marks : MarkAssignmentSetDeleting(m)
         \/ \E s \in Sets : ApplyAssignmentSet(s)
<1>1. CASE Controller
  BY <1>1 DEF Controller, ReconcileAll, PassEnds, StartRoll, StartDelete, UndeployNext, Observe,
              RemoveFamily, WriteMember, FinishRoll, setVars
<1>2. CASE ControllerFaults
  BY <1>2 DEF ControllerFaults, ArtifactFails, UndeployFails, MountFails, AssignFails, setVars
<1>3. CASE Calls
  BY <1>3 DEF Calls, Admit, DeleteAssignmentSet, CheckVerb, CommitVerb, setVars
<1>4. CASE Environment
  BY <1>4 DEF Environment, Take, Verdict, Flap, DeadlinePasses, Restart, setVars
<1>5. CASE UNCHANGED vars
  BY <1>5 DEF vars, setVars
<1> QED BY <1>1, <1>2, <1>3, <1>4, <1>5 DEF Next

\* No two live sets ever claim the same slot, for any number of sets, machines
\* and specs, and for the unlocked mark of the Postgres store as well.
THEOREM ClaimsStayDisjoint == Spec => []ClaimsDisjoint
<1>1. Init => ClaimsDisjoint
  BY InitClaimsAssumption DEF Init, ClaimsDisjoint, Live
<1>2. ASSUME TypeOK, ClaimsDisjoint, [Next]_vars PROVE ClaimsDisjoint'
  <2>1. CASE UNCHANGED sets
    BY <1>2, <2>1, NoMoreDisjoint DEF ClaimsNoMore, Live
  <2>2. CASE SaveStatus
    BY <1>2, <2>2, SaveClaims, NoMoreDisjoint
  <2>3. ASSUME NEW m \in marks, MarkAssignmentSetDeleting(m) PROVE ClaimsDisjoint'
    BY <1>2, <2>3, MarkClaims, NoMoreDisjoint
  <2>4. ASSUME NEW s \in Sets, ApplyAssignmentSet(s) PROVE ClaimsDisjoint'
    BY <1>2, <2>4, ApplyClaims
  <2>5. CASE FinishDelete
    <3>1. CASE sets' = [sets EXCEPT ![me] = None]
      <4>1. \A s \in Sets : sets'[s] = IF s = me THEN None ELSE sets[s]
        BY <1>2, <3>1 DEF TypeOK
      <4>2. ClaimsNoMore
        BY <4>1 DEF ClaimsNoMore, Live
      <4> QED BY <1>2, <4>2, NoMoreDisjoint
    <3> QED BY <2>1, <2>5, <3>1 DEF FinishDelete
  <2> QED BY <1>2, <2>1, <2>2, <2>3, <2>4, <2>5, SetSteps
<1> QED BY <1>1, <1>2, TypeCorrect, PTL DEF Spec

----------------------------------------------------------------------------
(* The budget *)

\* A member counted as still to come up has not come up.
AwaitedIsDown == \A x \in awaiting : ~Ready(x)

\* Members given the spec of the pass and still to come up.
Due == {y \in Down(me, myRow) : assign[y] = Computed(myRow)}

\* What the budget has left and what is under way stay within maxUnavailable.
BudgetKept == ctl.pc = "roll" /\ ctl.room > 0 => Cardinality(Due) + ctl.room <= myRow.spec.max

\* The store's writes: who is awaited is never ready.
LEMMA AwaitedByUndeploy ==
  ASSUME SlotsOK, AwaitedIsDown, NEW x, NEW who, Undeploy(x, who)
  PROVE  AwaitedIsDown'
BY DEF Undeploy, SlotsOK, AwaitedIsDown, Ready, ReadyAs

LEMMA AwaitedByAssignment ==
  ASSUME SlotsOK, AwaitedIsDown, NEW x \in Slots, NEW a \in Assignment, NEW who, SetAssignment(x, a, who)
  PROVE  AwaitedIsDown'
<1>1. x \in awaiting' => ~ReadyAs(x, a)
  BY DEF SetAssignment
<1>2. assign'[x] = a /\ (ReadyAs(x, a))' <=> ReadyAs(x, a)
  BY DEF SetAssignment, SlotsOK, ReadyAs
<1>3. \A y \in awaiting' \ {x} : y \in awaiting /\ assign'[y] = assign[y] /\ status'[y] = status[y]
  BY DEF SetAssignment, SlotsOK
<1> QED BY <1>1, <1>2, <1>3 DEF SetAssignment, SlotsOK, AwaitedIsDown, Ready, ReadyAs

\* The agents' reports.
LEMMA AwaitedByReports ==
  ASSUME SlotsOK, AwaitedIsDown, NEW x \in Slots, Take(x) \/ Verdict(x) \/ Flap(x)
  PROVE  AwaitedIsDown' /\ awaiting' \subseteq awaiting /\ UNCHANGED <<assign, writer, ctl>>
<1>1. \A y \in Slots \ {x} : status'[y] = status[y]
  BY DEF Take, Verdict, Flap, SlotsOK
<1>2. UNCHANGED <<assign, writer, ctl>> /\ awaiting' \subseteq awaiting
  BY DEF Take, Verdict, Flap
<1>3. x \in awaiting' => ~Ready(x)'
  <2>1. x \in awaiting => ~Ready(x)
    BY DEF AwaitedIsDown
  <2>2. CASE Take(x)
    BY <1>2, <2>1, <2>2 DEF Take, Ready, ReadyAs, SlotsOK, Report
  <2>3. CASE Verdict(x)
    BY <1>2, <2>1, <2>3 DEF Verdict, Ready, ReadyAs, SlotsOK, Report
  <2>4. CASE Flap(x)
    BY <1>2, <2>1, <2>4 DEF Flap, Ready, ReadyAs, SlotsOK, Report
  <2> QED BY <2>2, <2>3, <2>4
<1> QED BY <1>1, <1>2, <1>3 DEF AwaitedIsDown, Ready, ReadyAs, SlotsOK

\* The steps that write slots.
LEMMA SlotSteps ==
  ASSUME [Next]_vars
  PROVE  \/ UNCHANGED slotVars
         \/ UndeployNext \/ RemoveFamily \/ WriteMember \/ CommitVerb
         \/ \E x \in Slots : Take(x) \/ Verdict(x) \/ Flap(x)
<1>1. CASE Controller
  BY <1>1 DEF Controller, ReconcileAll, PassEnds, SaveStatus, StartRoll, StartDelete, FinishDelete,
              Observe, FinishRoll
<1>2. CASE ControllerFaults
  BY <1>2 DEF ControllerFaults, ArtifactFails, UndeployFails, MountFails, AssignFails
<1>3. CASE Calls
  BY <1>3 DEF Calls, Admit, ApplyAssignmentSet, DeleteAssignmentSet, MarkAssignmentSetDeleting, CheckVerb
<1>4. CASE Environment
  BY <1>4 DEF Environment, DeadlinePasses, Restart
<1>5. CASE UNCHANGED vars
  BY <1>5 DEF vars
<1> QED BY <1>1, <1>2, <1>3, <1>4, <1>5 DEF Next

\* The write of a member, spelled out.
LEMMA MemberWritten ==
  ASSUME TypeOK, WriteMember
  PROVE  \E x \in Slots :
           /\ SetAssignment(x, Computed(myRow), me) /\ me \in Sets /\ Computed(myRow) \in Assignment
           /\ ctl' = [ctl EXCEPT !.queue = @ \ {x}, !.room = @ - 1, !.written = @ \cup {x}]
           /\ ctl.pc = "roll" /\ ctl.room > 0
<1>1. PICK x \in ctl.queue :
        /\ MayWrite(x)
        /\ SetAssignment(x, Computed(myRow), me)
        /\ ctl' = [ctl EXCEPT !.queue = @ \ {x}, !.room = @ - 1, !.written = @ \cup {x}]
  BY DEF WriteMember
<1>2. CtlOK /\ ctl.pc = "roll" /\ ctl.room > 0
  BY <1>1, TypeParts DEF MayWrite
<1>3. x \in Slots /\ me \in Sets /\ myRow \in Row
  BY <1>1, <1>2, Working DEF CtlOK, Ctl
<1>4. Computed(myRow) \in Assignment
  BY <1>3, ComputedType
<1> QED BY <1>1, <1>2, <1>3, <1>4

LEMMA AwaitedStep ==
  ASSUME TypeOK, AwaitedIsDown, [Next]_vars
  PROVE  AwaitedIsDown'
<1>0. SlotsOK
  BY TypeParts
<1>1. CASE UNCHANGED slotVars
  BY <1>1 DEF slotVars, AwaitedIsDown, Ready, ReadyAs
<1>2. CASE UndeployNext
  BY <1>0, <1>1, <1>2, AwaitedByUndeploy DEF UndeployNext
<1>3. CASE RemoveFamily
  BY <1>0, <1>3, AwaitedByUndeploy DEF RemoveFamily
<1>4. CASE WriteMember
  BY <1>0, <1>4, MemberWritten, AwaitedByAssignment
<1>5. CASE CommitVerb
  <2>1. verb \in Verbs
    BY <1>5, TypeParts DEF CommitVerb, RestOK
  <2>2. verb.slot \in Slots /\ verb.want \in Assignment \cup {None}
    BY <2>1, OrchestratorAssumption
  <2> QED BY <1>0, <1>5, <2>2, AwaitedByUndeploy, AwaitedByAssignment DEF CommitVerb
<1>6. ASSUME NEW x \in Slots, Take(x) \/ Verdict(x) \/ Flap(x) PROVE AwaitedIsDown'
  BY <1>0, <1>6, AwaitedByReports
<1> QED BY <1>1, <1>2, <1>3, <1>4, <1>5, <1>6, SlotSteps

\* The budget holds on while less is due and no more is left of it.
LEMMA DueShrinks ==
  ASSUME BudgetKept, Due \subseteq Slots, Due' \subseteq Due, ctl'.room = ctl.room, ctl.room \in Nat,
         ctl'.pc = ctl.pc, myRow' = myRow, myRow.spec.max \in Nat
  PROVE  BudgetKept'
<1>1. /\ IsFiniteSet(Due) /\ Cardinality(Due) \in Nat
      /\ Cardinality(Due') \in Nat /\ Cardinality(Due') <= Cardinality(Due)
  BY SlotsFinite, FS_Subset
<1> QED BY <1>1 DEF BudgetKept

\* Writes and reports by others leave no more due than there was.
LEMMA BudgetByOthers ==
  ASSUME TypeOK, BudgetKept, ctl.pc = "roll", UNCHANGED ctl,
         awaiting' \subseteq awaiting,
         \A y \in awaiting' : assign'[y] = assign[y] /\ writer'[y] = writer[y]
  PROVE  BudgetKept'
<1>1. CtlOK /\ SlotsOK
  BY TypeParts
<1>2. /\ ctl.room \in Nat /\ myRow.spec.max \in Nat /\ myRow.spec.members \subseteq Slots
  BY <1>1, Working DEF CtlOK, Ctl
<1>3. me' = me /\ myRow' = myRow
  BY DEF me, myRow
<1>4. Due \subseteq Slots /\ Due' \subseteq Due
  BY <1>2, <1>3 DEF Due, Down, Computed
<1> QED BY <1>2, <1>3, <1>4, DueShrinks

\* The budget is what the members in flight and the drops of this pass leave.
LEMMA BudgetObserved ==
  ASSUME TypeOK, AwaitedIsDown, Observe
  PROVE  BudgetKept'
<1>1. CtlOK /\ SlotsOK /\ ctl.pc = "drain"
  BY TypeParts DEF Observe
<1>2. CASE Stops # {}
  <2>1. PICK st : ctl' = Saving(st)
    BY <1>2 DEF Observe
  <2>2. ctl'.pc = "save"
    BY <2>1 DEF Saving, NextSet, Idle
  <2> QED BY <2>2 DEF BudgetKept
<1>3. CASE Stops = {}
  <2>1. ctl' = [ctl EXCEPT !.pc = "roll", !.queue = Candidates, !.legacy = Legacy,
                           !.room = Budget, !.waiting = Candidates # {}, !.inflight = Inflight # {}]
    BY <1>3 DEF Observe
  <2>2. ctl'.room = Budget /\ ctl'.cl = ctl.cl
    BY <1>1, <2>1 DEF CtlOK, Ctl
  <2>3. me' = me /\ myRow' = myRow /\ UNCHANGED slotVars
    BY <2>2 DEF me, myRow, Observe
  <2>4. /\ myRow.spec.max \in Nat /\ myRow.spec.members \subseteq Slots /\ ctl.undeployed \in Nat
    BY <1>1, Working DEF CtlOK, Ctl
  <2>5. Due' \subseteq Inflight
    BY <2>3 DEF Due, Down, Computed, Inflight, Matched, AwaitedIsDown, slotVars
  <2>6. Inflight \subseteq Slots
    BY <2>4 DEF Inflight, Matched
  <2>7. /\ Cardinality(Inflight) \in Nat /\ Cardinality(Due') \in Nat
        /\ Cardinality(Due') <= Cardinality(Inflight)
    BY <2>5, <2>6, SlotsFinite, FS_Subset
  <2>8. Budget > 0 => Budget = myRow.spec.max - (Cardinality(Inflight) + ctl.undeployed)
    BY <2>4, <2>7 DEF Budget
  <2> QED BY <2>2, <2>3, <2>4, <2>7, <2>8 DEF BudgetKept
<1> QED BY <1>2, <1>3

\* A member written takes its place from the budget.
LEMMA BudgetWritten ==
  ASSUME TypeOK, BudgetKept, WriteMember
  PROVE  BudgetKept'
<1>1. PICK x \in Slots :
        /\ SetAssignment(x, Computed(myRow), me)
        /\ ctl' = [ctl EXCEPT !.queue = @ \ {x}, !.room = @ - 1, !.written = @ \cup {x}]
        /\ ctl.pc = "roll" /\ ctl.room > 0
  BY MemberWritten
<1>2. CtlOK /\ SlotsOK
  BY TypeParts
<1>3. ctl'.room = ctl.room - 1 /\ ctl'.cl = ctl.cl /\ ctl.room \in Nat
  BY <1>1, <1>2 DEF CtlOK, Ctl
<1>4. me' = me /\ myRow' = myRow
  BY <1>3 DEF me, myRow
<1>5. myRow.spec.max \in Nat /\ myRow.spec.members \subseteq Slots
  BY <1>1, <1>2, Working
<1>6. Due' \subseteq Due \cup {x}
  <2>1. \A y \in awaiting' \ {x} : y \in awaiting /\ assign'[y] = assign[y] /\ writer'[y] = writer[y]
    BY <1>1, <1>2 DEF SetAssignment, SlotsOK
  <2> QED BY <1>4, <2>1 DEF Due, Down, Computed
<1>7. /\ Cardinality(Due) \in Nat /\ Cardinality(Due') \in Nat
      /\ Cardinality(Due') <= Cardinality(Due) + 1
  <2>1. IsFiniteSet(Due) /\ Cardinality(Due) \in Nat
    BY <1>5, SlotsFinite DEF Due, Down
  <2>2. /\ IsFiniteSet(Due \cup {x})
        /\ Cardinality(Due \cup {x}) = IF x \in Due THEN Cardinality(Due) ELSE Cardinality(Due) + 1
    BY <2>1, FS_AddElement
  <2>3. Cardinality(Due') \in Nat /\ Cardinality(Due') <= Cardinality(Due \cup {x})
    BY <1>6, <2>2, FS_Subset, FS_CardinalityType
  <2> QED BY <2>1, <2>2, <2>3
<1> QED BY <1>1, <1>3, <1>4, <1>5, <1>7 DEF BudgetKept

\* A pass rolls on, begins to, or does not roll.
LEMMA RollSteps ==
  ASSUME TypeOK, [Next]_vars, ctl'.pc = "roll"
  PROVE  \/ ctl.pc = "roll" /\ UNCHANGED <<ctl, slotVars>>
         \/ ctl.pc = "roll" /\ UNCHANGED ctl
              /\ (CommitVerb \/ \E x \in Slots : Take(x) \/ Verdict(x) \/ Flap(x))
         \/ Observe \/ RemoveFamily \/ WriteMember
<1>1. CASE Controller
  <2>1. CASE ReconcileAll \/ PassEnds \/ SaveStatus \/ StartRoll \/ StartDelete
    <3>1. ctl'.pc = "next" \/ ctl'.pc = "idle" \/ ctl'.pc = "drain" \/ ctl'.pc = "delete"
      <4>1. NextSet.pc = "next" /\ Idle.pc = "idle"
        BY DEF NextSet, Idle
      <4>2. CASE PassEnds \/ SaveStatus
        BY <4>1, <4>2 DEF PassEnds, SaveStatus
      <4>3. CASE ReconcileAll
        BY <4>3 DEF ReconcileAll, Idle
      <4>4. CASE StartRoll
        BY <4>4 DEF StartRoll, Idle
      <4>5. CASE StartDelete
        BY <4>5 DEF StartDelete, Idle
      <4> QED BY <2>1, <4>2, <4>3, <4>4, <4>5
    <3> QED BY <3>1
  <2>2. CASE UndeployNext
    <3>1. CtlOK
      BY TypeParts
    <3>2. ctl'.pc = ctl.pc /\ ctl.pc # "roll"
      BY <2>2, <3>1 DEF UndeployNext, CtlOK, Ctl
    <3> QED BY <3>2
  <2>3. CASE FinishDelete \/ FinishRoll
    BY <2>3 DEF FinishDelete, FinishRoll, NextSet, Saving, Idle
  <2> QED BY <1>1, <2>1, <2>2, <2>3 DEF Controller
<1>2. CASE ControllerFaults
  BY <1>2 DEF ControllerFaults, ArtifactFails, UndeployFails, MountFails, AssignFails, AssignFailed,
              Saving, NextSet, Idle
<1>3. CASE Calls
  BY <1>3 DEF Calls, Admit, ApplyAssignmentSet, DeleteAssignmentSet, MarkAssignmentSetDeleting,
              CheckVerb, CommitVerb
<1>4. CASE Environment
  <2>1. CASE Restart
    BY <2>1 DEF Restart, Idle
  <2>2. ASSUME NEW s \in Sets, NEW x \in Slots, DeadlinePasses(s, x) PROVE UNCHANGED <<ctl, slotVars>>
    BY <2>2 DEF DeadlinePasses
  <2>3. ASSUME NEW x \in Slots, Take(x) \/ Verdict(x) \/ Flap(x) PROVE UNCHANGED ctl
    BY <2>3 DEF Take, Verdict, Flap
  <2> QED BY <1>4, <2>1, <2>2, <2>3 DEF Environment
<1>5. CASE UNCHANGED vars
  BY <1>5 DEF vars
<1> QED BY <1>1, <1>2, <1>3, <1>4, <1>5 DEF Next

LEMMA BudgetStep ==
  ASSUME TypeOK, AwaitedIsDown, BudgetKept, [Next]_vars
  PROVE  BudgetKept'
<1>0. CtlOK /\ SlotsOK
  BY TypeParts
<1>1. CASE ctl'.pc # "roll"
  BY <1>1 DEF BudgetKept
<1>2. CASE ctl.pc = "roll" /\ UNCHANGED <<ctl, slotVars>>
  BY <1>2, BudgetByOthers DEF slotVars
<1>3. CASE ctl.pc = "roll" /\ UNCHANGED ctl /\ CommitVerb
  <2>1. /\ awaiting' \subseteq awaiting \ {verb.slot}
        /\ \A y \in Slots \ {verb.slot} : assign'[y] = assign[y] /\ writer'[y] = writer[y]
    BY <1>0, <1>3 DEF CommitVerb, Undeploy, SetAssignment, SlotsOK
  <2> QED BY <1>0, <1>3, <2>1, BudgetByOthers DEF SlotsOK
<1>4. ASSUME ctl.pc = "roll", UNCHANGED ctl, NEW x \in Slots, Take(x) \/ Verdict(x) \/ Flap(x)
      PROVE  BudgetKept'
  BY <1>0, <1>4, AwaitedByReports, BudgetByOthers
<1>5. CASE Observe
  BY <1>5, BudgetObserved
<1>6. CASE RemoveFamily
  <2>1. PICK x \in ctl.queue : /\ MayWrite(x) /\ Undeploy(Family(myRow, x[1]), me)
                               /\ ctl' = [ctl EXCEPT !.legacy = @ \ {x}]
    BY <1>6 DEF RemoveFamily
  <2>2. /\ ctl.pc = "roll" /\ ctl'.pc = ctl.pc /\ ctl'.room = ctl.room /\ ctl'.cl = ctl.cl /\ ctl.room \in Nat
    BY <1>0, <2>1 DEF MayWrite, CtlOK, Ctl
  <2>3. me' = me /\ myRow' = myRow
    BY <2>2 DEF me, myRow
  <2>4. myRow.spec.max \in Nat /\ myRow.spec.members \subseteq Slots
    BY <1>0, <2>2, Working
  <2>5. \A y \in awaiting' : y \in awaiting /\ assign'[y] = assign[y] /\ writer'[y] = writer[y]
    BY <1>0, <2>1 DEF Undeploy, SlotsOK
  <2>6. Due \subseteq Slots /\ Due' \subseteq Due
    BY <2>3, <2>4, <2>5 DEF Due, Down, Computed
  <2> QED BY <2>2, <2>3, <2>4, <2>6, DueShrinks
<1>7. CASE WriteMember
  BY <1>7, BudgetWritten
<1> QED BY <1>1, <1>2, <1>3, <1>4, <1>5, <1>6, <1>7, RollSteps

\* A member is taken down only while fewer than maxUnavailable members of this
\* spec are still to come up: for any sets, faults, human verbs and restarts, and
\* however the agents' reports fall between the steps of a pass (RollGated).
THEOREM RollStaysGated == Spec => RollGated
<1> DEFINE Inv == TypeOK /\ AwaitedIsDown /\ BudgetKept
           Gated == \A x \in Slots : TakesDown(x) =>
             Cardinality({y \in Down(me, myRow) \ {x} : assign[y] = Computed(myRow)}) < myRow.spec.max
<1>1. Init => Inv
  <2> SUFFICES ASSUME Init PROVE AwaitedIsDown /\ BudgetKept
    BY InitType
  <2> QED BY IdleType DEF Init, AwaitedIsDown, BudgetKept
<1>2. Inv /\ [Next]_vars => Inv'
  BY TypeStep, AwaitedStep, BudgetStep
<1>3. Inv => Gated
  <2> SUFFICES ASSUME Inv, NEW x \in Slots, TakesDown(x)
               PROVE  Cardinality({y \in Down(me, myRow) \ {x} : assign[y] = Computed(myRow)}) < myRow.spec.max
    OBVIOUS
  <2>1. CtlOK /\ ctl.pc = "roll" /\ ctl.room > 0
    BY TypeParts DEF TakesDown, MayWrite
  <2>2. /\ ctl.room \in Nat /\ myRow.spec.max \in Nat /\ myRow.spec.members \subseteq Slots
    BY <2>1, Working DEF CtlOK, Ctl
  <2>3. /\ IsFiniteSet(Due) /\ Cardinality(Due) \in Nat
        /\ \A S \in SUBSET Due : Cardinality(S) \in Nat /\ Cardinality(S) <= Cardinality(Due)
    <3>1. Due \subseteq Slots
      BY <2>2 DEF Due, Down
    <3> QED BY <3>1, SlotsFinite, FS_Subset
  <2>4. {y \in Down(me, myRow) \ {x} : assign[y] = Computed(myRow)} \subseteq Due
    BY DEF Due
  <2> QED BY <2>1, <2>2, <2>3, <2>4 DEF BudgetKept
<1>4. [][Gated]_vars <=> RollGated
  BY DEF RollGated
<1> HIDE DEF Inv, Gated
<1> QED BY <1>1, <1>2, <1>3, <1>4, PTL DEF Spec

----------------------------------------------------------------------------
(* Ready *)

\* The rows a pass has before it and the one it works on.
Snaps == ctl.todo \cup (IF ctl.cl = None THEN {} ELSE {ctl.cl})

\* One row of each set, and the one at work is not to come again.
Apart ==
  /\ \A c, d \in Snaps : c.name = d.name => c = d
  /\ ctl.cl # None => ctl.cl \notin ctl.todo

\* No set is said to have observed what is yet to come.
ObservedIsOld == \A s \in Sets : Live(s) => sets[s].status.observed <= sets[s].generation

\* A row in hand is of the set that is there now, and of its spec when it is of
\* its generation; a set that was being deleted is so still.
Current(c) ==
  /\ sets[c.name] # None
  /\ Live(c.name) =>
       /\ ~c.row.status.deleting
       /\ c.row.status.observed <= c.row.generation
       /\ sets[c.name].status.observed <= c.row.generation
       /\ c.row.generation <= sets[c.name].generation
       /\ sets[c.name].generation = c.row.generation => sets[c.name].spec = c.row.spec

RowsCurrent == Apart /\ ObservedIsOld /\ \A c \in Snaps : Current(c)

\* What a pass has before it is what it had, unless it begins.
LEMMA SnapsStep ==
  ASSUME TypeOK, Apart, [Next]_vars, ~ReconcileAll
  PROVE  Apart' /\ Snaps' \subseteq Snaps
<1>0. CtlOK
  BY TypeParts
<1>1. \/ UNCHANGED ctl
      \/ ctl' = Idle \/ ctl' = NextSet
      \/ ctl'.cl = ctl.cl /\ ctl'.todo = ctl.todo
      \/ \E cl \in ctl.todo : ctl'.cl = cl /\ ctl'.todo = ctl.todo \ {cl}
  <2>1. \A st : Saving(st).cl = ctl.cl /\ Saving(st).todo = ctl.todo
    BY DEF Saving, NextSet, Idle
  <2>2. CASE PassEnds \/ SaveStatus
    BY <2>2 DEF PassEnds, SaveStatus
  <2>3. CASE StartRoll \/ StartDelete \/ ArtifactFails
    BY <2>3 DEF StartRoll, StartDelete, ArtifactFails, Idle
  <2>4. CASE UndeployNext
    BY <1>0, <2>4 DEF UndeployNext, CtlOK, Ctl
  <2>5. CASE FinishDelete \/ FinishRoll
    BY <2>1, <2>5 DEF FinishDelete, FinishRoll
  <2>6. CASE Observe
    <3>1. CASE Stops = {}
      BY <1>0, <2>6, <3>1 DEF Observe, CtlOK, Ctl
    <3>2. CASE Stops # {}
      BY <2>1, <2>6, <3>2 DEF Observe
    <3> QED BY <3>1, <3>2
  <2>7. CASE RemoveFamily \/ WriteMember
    BY <1>0, <2>7 DEF RemoveFamily, WriteMember, CtlOK, Ctl
  <2>8. CASE UndeployFails \/ MountFails \/ AssignFails
    BY <2>1, <2>8 DEF UndeployFails, MountFails, AssignFails, AssignFailed
  <2>9. CASE Calls
    BY <2>9 DEF Calls, Admit, ApplyAssignmentSet, DeleteAssignmentSet, MarkAssignmentSetDeleting,
                CheckVerb, CommitVerb
  <2>10. CASE Environment
    BY <2>10 DEF Environment, Take, Verdict, Flap, DeadlinePasses, Restart
  <2>11. CASE UNCHANGED vars
    BY <2>11 DEF vars
  <2> QED BY <2>2, <2>3, <2>4, <2>5, <2>6, <2>7, <2>8, <2>9, <2>10, <2>11
          DEF Next, Controller, ControllerFaults
<1>2. CASE UNCHANGED ctl \/ (ctl'.cl = ctl.cl /\ ctl'.todo = ctl.todo)
  BY <1>2 DEF Snaps, Apart
<1>3. CASE ctl' = Idle \/ ctl' = NextSet
  <2>1. ctl'.cl = None /\ ctl'.todo \subseteq ctl.todo
    <3>1. Idle.cl = None /\ Idle.todo = {} /\ NextSet.cl = None /\ NextSet.todo = ctl.todo
      BY DEF Idle, NextSet
    <3> QED BY <1>3, <3>1
  <2> QED BY <2>1 DEF Snaps, Apart
<1>4. ASSUME NEW cl \in ctl.todo, ctl'.cl = cl, ctl'.todo = ctl.todo \ {cl}
      PROVE  Apart' /\ Snaps' \subseteq Snaps
  <2>1. Snaps' \subseteq Snaps
    BY <1>4 DEF Snaps
  <2> QED BY <1>4, <2>1 DEF Apart
<1> QED BY <1>1, <1>2, <1>3, <1>4

\* What a step makes of a set's row.
Moves(s) ==
  \/ sets'[s] = sets[s]
  \/ sets'[s] # None /\ sets'[s].status.deleting
  \/ /\ sets[s] = None /\ sets'[s] # None
     /\ sets'[s].status.phase = "Pending" /\ sets'[s].status.observed = 0 /\ sets'[s].generation = 1
  \/ /\ sets[s] # None /\ sets'[s] # None
     /\ sets'[s].status = sets[s].status /\ sets'[s].generation = sets[s].generation + 1
  \/ /\ SaveStatus /\ s = me /\ sets[s] # None /\ sets'[s] # None
     /\ sets'[s].spec = sets[s].spec /\ sets'[s].generation = sets[s].generation
     /\ sets'[s].status = preserveDeleting(sets[s].status, ctl.st)
  \/ FinishDelete /\ s = me /\ sets'[s] = None

LEMMA SetsMove ==
  ASSUME TypeOK, [Next]_vars, NEW s \in Sets
  PROVE  Moves(s)
<1>0. CtlOK /\ SetsOK
  BY TypeParts
<1>1. CASE UNCHANGED sets
  BY <1>1 DEF Moves
<1>2. CASE SaveStatus /\ sets[me] # None /\ sets' = [sets EXCEPT ![me].status = preserveDeleting(@, ctl.st)]
  <2>1. me \in Sets /\ sets[me] \in Row /\ ctl.st \in SetStatus
    BY <1>0, <1>2, Working DEF SaveStatus, CtlOK, Ctl, SetsOK
  <2> DEFINE q == [sets[me] EXCEPT !.status = preserveDeleting(sets[me].status, ctl.st)]
  <2>2. /\ q.spec = sets[me].spec /\ q.generation = sets[me].generation
        /\ q.status = preserveDeleting(sets[me].status, ctl.st)
    BY <2>1 DEF Row
  <2>3. q \in Row
    <3>1. preserveDeleting(sets[me].status, ctl.st) \in SetStatus
      BY <2>1, PreserveType DEF Row
    <3> QED BY <2>1, <3>1 DEF Row
  <2>4. q # None
    BY <2>3, OrchestratorAssumption
  <2>5. \A u \in Sets : sets'[u] = IF u = me THEN q ELSE sets[u]
    BY <1>0, <1>2, <2>1 DEF SetsOK
  <2> HIDE DEF q
  <2> QED BY <1>2, <2>2, <2>4, <2>5 DEF Moves
<1>3. ASSUME NEW m \in marks, MarkAssignmentSetDeleting(m) PROVE Moves(s)
  <2> DEFINE row == IF MarkLocks THEN sets[m.name] ELSE m.row
  <2>1. m.name \in Sets /\ row \in Row \cup {None}
    BY <1>0 DEF SetsOK, Snapshot
  <2>2. sets' = IF row = None THEN sets ELSE [sets EXCEPT ![m.name] = Marked(row)]
    BY <1>3 DEF MarkAssignmentSetDeleting
  <2> HIDE DEF row
  <2>3. row # None => Marked(row) \in Row /\ Marked(row).status.deleting
    <3> SUFFICES ASSUME row # None PROVE Marked(row) \in Row /\ Marked(row).status.deleting
      OBVIOUS
    <3>1. row \in Row /\ row.status \in SetStatus
      BY <2>1 DEF Row
    <3>2. Marked(row).status = [row.status EXCEPT !.deleting = TRUE, !.phase = "Deleting"]
      BY <3>1 DEF Marked, Row
    <3>3. Marked(row).status.deleting
      BY <3>1, <3>2 DEF SetStatus
    <3> QED BY <3>1, <3>3, MarkedType
  <2> QED BY <1>0, <2>1, <2>2, <2>3, OrchestratorAssumption DEF Moves, SetsOK
<1>4. ASSUME NEW u \in Sets, ApplyAssignmentSet(u) PROVE Moves(s)
  <2>1. applying[u] \in SetSpec
    BY <1>0, <1>4 DEF ApplyAssignmentSet, SetsOK
  <2>2. CASE sets[u] = None /\ sets' = [sets EXCEPT ![u] = NewRow(applying[u])]
    <3>1. /\ NewRow(applying[u]) \in Row /\ NewRow(applying[u]).status.phase = "Pending"
          /\ NewRow(applying[u]).status.observed = 0 /\ NewRow(applying[u]).generation = 1
      BY <2>1, NewRowType DEF NewRow
    <3> HIDE DEF NewRow
    <3> QED BY <1>0, <2>2, <3>1, OrchestratorAssumption DEF Moves, SetsOK
  <2>3. CASE sets[u] # None /\ sets' = [sets EXCEPT ![u].spec = applying[u], ![u].generation = @ + 1]
    <3> DEFINE q == [sets[u] EXCEPT !.spec = applying[u], !.generation = sets[u].generation + 1]
    <3>1. sets[u] \in Row /\ sets[u].generation + 1 \in Nat
      BY <1>0, <2>3 DEF SetsOK, Row
    <3>2. q \in Row
      BY <2>1, <3>1 DEF Row
    <3>3. q.status = sets[u].status /\ q.generation = sets[u].generation + 1
      BY <3>1 DEF Row
    <3>4. sets' = [sets EXCEPT ![u] = q]
      BY <1>0, <2>3, <3>1 DEF SetsOK, Row
    <3> HIDE DEF q
    <3>5. q # None
      BY <3>2, OrchestratorAssumption
    <3>6. \A t \in Sets : sets'[t] = IF t = u THEN q ELSE sets[t]
      BY <1>0, <3>4 DEF SetsOK
    <3> QED BY <2>3, <3>3, <3>5, <3>6 DEF Moves
  <2> QED BY <1>1, <1>4, <2>2, <2>3 DEF ApplyAssignmentSet
<1>5. CASE FinishDelete
  BY <1>0, <1>1, <1>5 DEF FinishDelete, Moves, SetsOK
<1> QED BY <1>1, <1>2, <1>3, <1>4, <1>5, SetSteps DEF SaveStatus

\* A set that is there and is being deleted does not come alive again.
LEMMA DeletingStays ==
  ASSUME TypeOK, [Next]_vars, NEW s \in Sets, sets[s] # None, Live(s)'
  PROVE  Live(s)
<1>1. Moves(s)
  BY SetsMove
<1>2. ASSUME SaveStatus, s = me, sets'[s].status = preserveDeleting(sets[s].status, ctl.st)
      PROVE  Live(s)
  <2>1. ctl.st \in SetStatus /\ sets[s].status \in SetStatus
    BY <1>2, TypeParts DEF SaveStatus, CtlOK, Ctl, SetsOK, Row
  <2>2. sets'[s].status.deleting = (ctl.st.deleting \/ sets[s].status.deleting)
    BY <1>2, <2>1 DEF preserveDeleting, SetStatus
  <2> QED BY <2>2 DEF Live
<1> QED BY <1>1, <1>2 DEF Moves, Live

\* What is about to be saved says no more than the row it is about.
SavedIsOld == ctl.pc = "save" /\ Live(me) => ctl.st.observed <= myRow.generation

\* A row stays current but for the writes of the pass on its set.
LEMMA CurrentStep ==
  ASSUME TypeOK, [Next]_vars, NEW c \in Snapshot, Current(c),
         c.name = me => ~SaveStatus /\ (FinishDelete => UNCHANGED sets)
  PROVE  Current(c)'
<1>1. c.name \in Sets /\ c.row \in Row /\ sets[c.name] \in Row
  <2>1. c.name \in Sets /\ c.row \in Row
    BY DEF Snapshot
  <2> QED BY <2>1 DEF Current, TypeOK
<1>2. Live(c.name)' => Live(c.name)
  BY <1>1, DeletingStays DEF Current
<1>3. \/ sets'[c.name] = sets[c.name]
      \/ sets'[c.name] # None /\ sets'[c.name].status.deleting
      \/ /\ sets'[c.name] # None /\ sets'[c.name].status = sets[c.name].status
         /\ sets'[c.name].generation = sets[c.name].generation + 1
  BY <1>1, SetsMove DEF Moves, Current
<1>4. CASE sets'[c.name] = sets[c.name]
  BY <1>4 DEF Current, Live
<1>5. CASE sets'[c.name] # None /\ sets'[c.name].status.deleting
  BY <1>5 DEF Current, Live
<1>6. CASE /\ sets'[c.name] # None /\ sets'[c.name].status = sets[c.name].status
           /\ sets'[c.name].generation = sets[c.name].generation + 1
  <2>1. sets[c.name].generation \in Nat /\ c.row.generation \in Nat
    BY <1>1 DEF Row
  <2> QED BY <1>2, <1>6, <2>1 DEF Current
<1> QED BY <1>3, <1>4, <1>5, <1>6

LEMMA ObservedStep ==
  ASSUME TypeOK, RowsCurrent, SavedIsOld, [Next]_vars
  PROVE  ObservedIsOld'
<1> SUFFICES ASSUME NEW s \in Sets, Live(s)' PROVE (sets[s].status.observed <= sets[s].generation)'
  BY DEF ObservedIsOld
<1>1. Moves(s)
  BY SetsMove
<1>2. sets[s] # None => /\ Live(s) /\ sets[s] \in Row /\ sets[s].status.observed <= sets[s].generation
                        /\ sets[s].generation \in Nat /\ sets[s].status.observed \in Nat
  <2> SUFFICES ASSUME sets[s] # None
               PROVE  /\ Live(s) /\ sets[s] \in Row /\ sets[s].status.observed <= sets[s].generation
                      /\ sets[s].generation \in Nat /\ sets[s].status.observed \in Nat
    OBVIOUS
  <2>1. Live(s)
    BY DeletingStays
  <2>2. sets[s] \in Row
    BY DEF TypeOK
  <2> QED BY <2>1, <2>2 DEF RowsCurrent, ObservedIsOld, Row, SetStatus
<1>3. ASSUME SaveStatus, s = me, sets[s] # None, sets'[s].generation = sets[s].generation,
             sets'[s].status = preserveDeleting(sets[s].status, ctl.st)
      PROVE  sets'[s].status.observed <= sets'[s].generation
  <2>1. CtlOK /\ ctl.pc = "save" /\ ctl.cl # None /\ ctl.cl \in Snaps
    BY <1>3, TypeParts DEF SaveStatus, CtlOK, Snaps
  <2>2. ctl.st \in SetStatus /\ myRow.generation \in Nat
    BY <2>1, Working DEF CtlOK, Ctl
  <2>3. sets'[s].status.observed = ctl.st.observed /\ ctl.st.observed \in Nat
    BY <1>2, <1>3, <2>2 DEF preserveDeleting, SetStatus, Row
  <2>4. Live(me) /\ Current(ctl.cl)
    BY <1>2, <1>3, <2>1 DEF RowsCurrent
  <2>5. ctl.st.observed <= myRow.generation /\ myRow.generation <= sets[s].generation
    BY <1>3, <2>1, <2>4 DEF SavedIsOld, Current, me, myRow
  <2>6. sets[s].generation \in Nat
    BY <1>2, <1>3
  <2>7. ctl.st.observed <= sets[s].generation
    BY <2>2, <2>3, <2>5, <2>6
  <2> QED BY <1>3, <2>3, <2>7
<1>4. CASE sets[s] = None
  BY <1>1, <1>4 DEF Moves, Live
<1>5. CASE sets[s] # None
  BY <1>1, <1>2, <1>3, <1>5 DEF Moves, Live
<1> QED BY <1>4, <1>5

LEMMA RowsStep ==
  ASSUME TypeOK, RowsCurrent, SavedIsOld, [Next]_vars
  PROVE  RowsCurrent'
<1>0. CtlOK /\ SetsOK
  BY TypeParts
<1>1. ObservedIsOld'
  BY ObservedStep
<1>2. CASE ReconcileAll
  <2>1. /\ ctl'.todo = {[name |-> s, row |-> sets[s]] : s \in {s \in Sets : sets[s] # None}}
        /\ ctl'.cl = None /\ UNCHANGED sets
    BY <1>2 DEF ReconcileAll, Idle, setVars
  <2>2. Snaps' = {[name |-> s, row |-> sets[s]] : s \in {s \in Sets : sets[s] # None}}
    BY <2>1 DEF Snaps
  <2>3. Apart'
    BY <2>1, <2>2 DEF Apart
  <2>4. ASSUME NEW c \in Snaps' PROVE Current(c)'
    <3>1. PICK s \in Sets : sets[s] # None /\ c = [name |-> s, row |-> sets[s]]
      BY <2>2, <2>4
    <3>2. c.name = s /\ c.row = sets[s] /\ sets[s] \in Row /\ sets[s].generation \in Nat
      BY <1>0, <3>1 DEF SetsOK, Row
    <3> QED BY <2>1, <3>1, <3>2 DEF Current, Live, RowsCurrent, ObservedIsOld
  <2> QED BY <1>1, <2>3, <2>4 DEF RowsCurrent
<1>3. CASE ~ReconcileAll
  <2>1. Apart' /\ Snaps' \subseteq Snaps
    BY <1>3, SnapsStep DEF RowsCurrent
  <2>2. Snaps \subseteq Snapshot
    BY <1>0 DEF Snaps, CtlOK, Ctl
  <2>3. ASSUME NEW c \in Snaps', SaveStatus \/ (FinishDelete /\ ~UNCHANGED sets) PROVE c.name # me
    <3>1. ctl.cl # None /\ ctl.cl \in Snaps
      BY <1>0, <2>3 DEF SaveStatus, FinishDelete, CtlOK, Snaps
    <3>2. ctl' = NextSet
      BY <2>3 DEF SaveStatus, FinishDelete
    <3>3. NextSet.cl = None /\ NextSet.todo = ctl.todo
      BY DEF NextSet, Idle
    <3>4. c \in ctl.todo
      BY <2>3, <3>2, <3>3 DEF Snaps
    <3>5. c # ctl.cl /\ c \in Snaps
      BY <3>1, <3>4 DEF RowsCurrent, Apart, Snaps
    <3>6. Apart /\ ctl.cl \in Snaps
      BY <3>1 DEF RowsCurrent
    <3> QED BY <3>5, <3>6 DEF Apart, me
  <2>4. ASSUME NEW c \in Snaps' PROVE Current(c)'
    <3>1. c \in Snapshot /\ Current(c)
      BY <2>1, <2>2 DEF RowsCurrent
    <3> QED BY <2>3, <3>1, CurrentStep
  <2> QED BY <1>1, <2>1, <2>4 DEF RowsCurrent
<1> QED BY <1>2, <1>3

\* What a pass may still take away is no member of the row it works on.
QueueKept ==
  /\ ctl.pc = "drain" => ctl.queue \cap myRow.spec.members = {}
  /\ ctl.pc = "delete" => myRow.status.deleting
  /\ ctl.pc = "roll" => /\ \A x \in ctl.legacy : Family(myRow, x[1]) \notin myRow.spec.members
                        /\ ctl.waiting \/ ctl.queue = {}

\* The members the set wrote carry the spec of the row it works on.
Carry == \A x \in myRow.spec.members : writer[x] = me => assign[x] = Computed(myRow)

\* A status says Ready of the generation that was rolled.
SaysReady == ctl.pc = "save" /\ ctl.st.phase = "Ready" /\ ctl.st.observed = myRow.generation

\* What Ready will be said of holds already.
Told ==
  /\ SavedIsOld
  /\ SaysReady => Carry
  /\ ctl.pc = "roll" /\ ~ctl.waiting => Carry

\* The writes a step may make: by another writer, or of a member rolled.
LEMMA WritesKeep ==
  ASSUME TypeOK, QueueKept, [Next]_vars, NEW x \in Slots, NEW s \in Sets, writer'[x] = s
  PROVE  \/ writer[x] = s /\ assign'[x] = assign[x]
         \/ s = me /\ ctl.pc \in {"drain", "delete"} /\ x \in ctl.queue
         \/ s = me /\ ctl.pc = "roll" /\ ctl.queue # {} /\ x \notin myRow.spec.members
         \/ s = me /\ ctl.pc = "roll" /\ ctl.queue # {} /\ assign'[x] = Computed(myRow)
<1>0. SlotsOK /\ CtlOK
  BY TypeParts
<1>1. ASSUME NEW y, NEW who, Undeploy(y, who)
      PROVE  (writer[x] = s /\ assign'[x] = assign[x]) \/ (x = y /\ who = s)
  BY <1>0, <1>1 DEF Undeploy, SlotsOK
<1>2. ASSUME NEW y, NEW a, NEW who, SetAssignment(y, a, who)
      PROVE  (writer[x] = s /\ assign'[x] = assign[x]) \/ (x = y /\ who = s /\ assign'[x] = a)
  BY <1>0, <1>2 DEF SetAssignment, SlotsOK
<1>3. CASE UNCHANGED slotVars
  BY <1>3 DEF slotVars
<1>4. CASE UndeployNext
  BY <1>1, <1>3, <1>4 DEF UndeployNext, slotVars
<1>5. CASE RemoveFamily
  <2>1. PICK y \in ctl.queue : MayWrite(y) /\ y \in ctl.legacy /\ Undeploy(Family(myRow, y[1]), me)
    BY <1>5 DEF RemoveFamily
  <2>2. ctl.pc = "roll" /\ ctl.queue # {} /\ Family(myRow, y[1]) \notin myRow.spec.members
    BY <2>1 DEF MayWrite, QueueKept
  <2> QED BY <1>1, <2>1, <2>2
<1>6. CASE WriteMember
  <2>1. PICK y \in ctl.queue : MayWrite(y) /\ SetAssignment(y, Computed(myRow), me)
    BY <1>6 DEF WriteMember
  <2> QED BY <1>2, <2>1 DEF MayWrite
<1>7. CASE CommitVerb
  <2>1. Human # s
    BY OrchestratorAssumption
  <2> QED BY <1>1, <1>2, <1>7, <2>1 DEF CommitVerb
<1>8. ASSUME NEW y \in Slots, Take(y) \/ Verdict(y) \/ Flap(y)
      PROVE  writer[x] = s /\ assign'[x] = assign[x]
  BY <1>8 DEF Take, Verdict, Flap
<1> QED BY <1>3, <1>4, <1>5, <1>6, <1>7, <1>8, SlotSteps

\* How a pass comes to write a status.
LEMMA SavesFrom ==
  ASSUME TypeOK, [Next]_vars, ctl'.pc = "save", ~UNCHANGED ctl
  PROVE  /\ UNCHANGED sets /\ UNCHANGED slotVars /\ ctl'.cl \in Snaps
         /\ ctl'.st.observed \in {ctl'.cl.row.status.observed, ctl'.cl.row.generation}
         /\ ctl'.st.phase = "Ready" => ctl.pc = "roll" /\ ~ctl.waiting /\ ctl'.cl = ctl.cl
<1>0. CtlOK
  BY TypeParts
<1>1. \A st : Saving(st).cl = ctl.cl /\ Saving(st).st = st
  BY DEF Saving, NextSet, Idle
<1>2. \A p, r, X : Stopped(p, r, X).phase = p /\ Stopped(p, r, X).observed = r.status.observed
  BY DEF Stopped, NewStatus
<1>3. ctl.cl # None => ctl.cl \in Snaps
  BY DEF Snaps
<1>4. CASE ArtifactFails
  <2>1. PICK cl \in ctl.todo :
          ctl' = [Idle EXCEPT !.pc = "save", !.todo = ctl.todo \ {cl}, !.cl = cl,
                              !.st = Stopped("Failed", cl.row, cl.row.status.members)]
    BY <1>4 DEF ArtifactFails
  <2>2. ctl'.cl = cl /\ ctl'.st = Stopped("Failed", cl.row, cl.row.status.members)
    BY <2>1 DEF Idle
  <2> QED BY <1>2, <1>4, <2>2 DEF ArtifactFails, setVars, Snaps
<1>5. CASE UndeployFails \/ MountFails \/ AssignFails
  <2>1. PICK X : ctl' = AssignFailed(X)
    BY <1>5 DEF UndeployFails, MountFails, AssignFails
  <2>2. ctl.cl # None /\ UNCHANGED sets /\ UNCHANGED slotVars
    BY <1>0, <1>5 DEF UndeployFails, MountFails, AssignFails, MayWrite, CtlOK, setVars
  <2> QED BY <1>1, <1>2, <1>3, <2>1, <2>2 DEF AssignFailed, myRow
<1>6. CASE FinishDelete
  <2> DEFINE st == NewStatus("Deleting", myRow.status.observed, myRow.status.members, myRow.status.key, TRUE)
  <2>1. ctl' = Saving(st) /\ UNCHANGED sets
    BY <1>6 DEF FinishDelete, NextSet, Idle
  <2>2. ctl.cl # None /\ UNCHANGED slotVars
    BY <1>0, <1>6 DEF FinishDelete, CtlOK
  <2>3. st.phase = "Deleting" /\ st.observed = myRow.status.observed
    BY DEF NewStatus
  <2> HIDE DEF st
  <2> QED BY <1>1, <1>3, <2>1, <2>2, <2>3 DEF myRow
<1>7. CASE Observe
  <2>1. ctl.cl # None /\ UNCHANGED sets /\ UNCHANGED slotVars
    BY <1>0, <1>7 DEF Observe, CtlOK, setVars
  <2>2. PICK X : \E p \in {"Failed", "Degraded"} : ctl' = Saving(Stopped(p, myRow, X))
    <3>1. CASE ctl' = [ctl EXCEPT !.pc = "roll", !.queue = Candidates, !.legacy = Legacy, !.room = Budget,
                                  !.waiting = Candidates # {}, !.inflight = Inflight # {}]
      BY <1>0, <3>1 DEF CtlOK, Ctl
    <3> QED BY <1>7, <3>1 DEF Observe
  <2> QED BY <1>1, <1>2, <1>3, <2>1, <2>2 DEF myRow
<1>8. CASE FinishRoll
  <2>1. ctl.cl # None /\ UNCHANGED sets /\ UNCHANGED slotVars
    BY <1>0, <1>8 DEF FinishRoll, CtlOK, setVars
  <2>2. PICK ready, idle, X, k :
          /\ ready \in BOOLEAN /\ (ready => ~ctl.waiting)
          /\ ctl' = Saving(NewStatus(IF ready THEN "Ready" ELSE IF idle THEN "Pending" ELSE "Rolling",
                             IF ready THEN ObservedGeneration ELSE myRow.status.observed, X, k, FALSE))
    BY <1>8 DEF FinishRoll
  <2>3. ctl'.cl = ctl.cl /\ ctl'.st.observed \in {myRow.status.observed, myRow.generation}
        /\ (ctl'.st.phase = "Ready" => ready)
    BY <1>1, <2>2 DEF NewStatus, ObservedGeneration
  <2> QED BY <1>3, <1>8, <2>1, <2>2, <2>3 DEF FinishRoll, myRow
<1>9. CASE Controller
  <2>0. NextSet.pc = "next" /\ Idle.pc = "idle"
    BY DEF NextSet, Idle
  <2>1. ASSUME ReconcileAll \/ PassEnds \/ SaveStatus \/ StartRoll \/ StartDelete PROVE FALSE
    <3>1. CASE PassEnds \/ SaveStatus
      BY <2>0, <3>1 DEF PassEnds, SaveStatus
    <3>2. CASE ReconcileAll
      BY <3>2 DEF ReconcileAll, Idle
    <3>3. CASE StartRoll
      BY <3>3 DEF StartRoll, Idle
    <3>4. CASE StartDelete
      BY <3>4 DEF StartDelete, Idle
    <3> QED BY <2>1, <3>1, <3>2, <3>3, <3>4
  <2>2. CASE UndeployNext \/ RemoveFamily \/ WriteMember
    BY <1>0, <2>2 DEF UndeployNext, RemoveFamily, WriteMember, MayWrite, CtlOK, Ctl
  <2> QED BY <1>6, <1>7, <1>8, <1>9, <2>1, <2>2 DEF Controller
<1>10. CASE Calls
  BY <1>10 DEF Calls, Admit, ApplyAssignmentSet, DeleteAssignmentSet, MarkAssignmentSetDeleting,
               CheckVerb, CommitVerb
<1>11. CASE Environment
  <2>1. ~Restart
    BY DEF Restart, Idle
  <2>2. UNCHANGED ctl
    BY <1>11, <2>1 DEF Environment, Take, Verdict, Flap, DeadlinePasses
  <2> QED BY <2>2
<1>12. CASE UNCHANGED vars
  BY <1>12 DEF vars
<1> QED BY <1>4, <1>5, <1>9, <1>10, <1>11, <1>12 DEF Next, ControllerFaults

\* How a pass comes to undeploy.
LEMMA UndeploysFrom ==
  ASSUME TypeOK, [Next]_vars, ctl'.pc \in {"drain", "delete"}
  PROVE  UNCHANGED ctl \/ UndeployNext \/ StartRoll \/ StartDelete
<1>0. CtlOK /\ NextSet.pc = "next" /\ Idle.pc = "idle" /\ \A st : Saving(st).pc = "save"
  BY TypeParts DEF NextSet, Idle, Saving
<1>1. CASE Controller
  <2>1. ~PassEnds /\ ~SaveStatus /\ ~FinishDelete /\ ~FinishRoll
    BY <1>0 DEF PassEnds, SaveStatus, FinishDelete, FinishRoll
  <2>2. ~ReconcileAll
    BY DEF ReconcileAll, Idle
  <2>3. ~RemoveFamily /\ ~WriteMember
    BY <1>0 DEF RemoveFamily, WriteMember, MayWrite, CtlOK, Ctl
  <2>4. ~Observe
    BY <1>0 DEF Observe, CtlOK, Ctl
  <2> QED BY <1>1, <2>1, <2>2, <2>3, <2>4 DEF Controller
<1>2. ~ControllerFaults
  <2>1. ~ArtifactFails
    BY DEF ArtifactFails, Idle
  <2>2. ~UndeployFails /\ ~MountFails /\ ~AssignFails
    BY <1>0 DEF UndeployFails, MountFails, AssignFails, AssignFailed
  <2> QED BY <2>1, <2>2 DEF ControllerFaults
<1>3. CASE Calls
  BY <1>3 DEF Calls, Admit, ApplyAssignmentSet, DeleteAssignmentSet, MarkAssignmentSetDeleting,
              CheckVerb, CommitVerb
<1>4. CASE Environment
  <2>1. ~Restart
    BY <1>0 DEF Restart
  <2> QED BY <1>4, <2>1 DEF Environment, Take, Verdict, Flap, DeadlinePasses
<1>5. CASE UNCHANGED vars
  BY <1>5 DEF vars
<1> QED BY <1>1, <1>2, <1>3, <1>4, <1>5 DEF Next

LEMMA QueueStep ==
  ASSUME TypeOK, QueueKept, [Next]_vars
  PROVE  QueueKept'
<1>0. CtlOK
  BY TypeParts
<1>1. CASE UNCHANGED ctl
  BY <1>1 DEF QueueKept, myRow, Family
<1>2. CASE ctl'.pc \notin {"drain", "delete", "roll"}
  BY <1>2 DEF QueueKept
<1>3. CASE UndeployNext
  <2>1. ctl'.pc = ctl.pc /\ ctl'.cl = ctl.cl /\ ctl'.queue \subseteq ctl.queue /\ ctl.pc \in {"drain", "delete"}
    BY <1>0, <1>3 DEF UndeployNext, CtlOK, Ctl
  <2> QED BY <2>1 DEF QueueKept, myRow
<1>4. CASE StartRoll
  <2>1. ctl'.pc = "drain" /\ ctl'.queue = droppedSlots(myRow)'
    <3>1. PICK cl \in ctl.todo :
            ctl' = [Idle EXCEPT !.pc = "drain", !.todo = ctl.todo \ {cl}, !.cl = cl, !.queue = droppedSlots(cl.row)]
      BY <1>4 DEF StartRoll
    <3>2. ctl'.pc = "drain" /\ ctl'.queue = droppedSlots(cl.row) /\ ctl'.cl = cl
      BY <3>1 DEF Idle
    <3>3. UNCHANGED assign
      BY <1>4 DEF StartRoll, slotVars
    <3> QED BY <3>2, <3>3 DEF myRow, droppedSlots, assignedSlots, ownedSlots, familyLeftover, Family
  <2>2. droppedSlots(myRow)' \cap myRow'.spec.members = {}
    BY DEF droppedSlots
  <2> QED BY <2>1, <2>2 DEF QueueKept
<1>5. CASE StartDelete
  <2>1. ctl'.pc = "delete" /\ myRow'.status.deleting
    BY <1>5 DEF StartDelete, Idle, myRow
  <2> QED BY <2>1 DEF QueueKept
<1>6. CASE ctl'.pc = "roll" /\ Observe
  <2>1. ctl' = [ctl EXCEPT !.pc = "roll", !.queue = Candidates, !.legacy = Legacy, !.room = Budget,
                           !.waiting = Candidates # {}, !.inflight = Inflight # {}]
    BY <1>6 DEF Observe, Saving, NextSet, Idle
  <2>2. ctl'.cl = ctl.cl /\ ctl'.legacy = Legacy /\ ctl'.queue = Candidates /\ ctl'.waiting = (Candidates # {})
    BY <1>0, <2>1 DEF CtlOK, Ctl
  <2>3. \A x \in Legacy : Family(myRow, x[1]) \notin myRow.spec.members
    BY DEF Legacy, familyLeftover
  <2> QED BY <1>6, <2>2, <2>3 DEF QueueKept, myRow, Family
<1>7. CASE RemoveFamily \/ WriteMember
  <2>1. ctl.pc = "roll" /\ ctl'.pc = "roll" /\ ctl'.cl = ctl.cl /\ ctl'.legacy \subseteq ctl.legacy
        /\ ctl'.waiting = ctl.waiting /\ ctl.queue # {}
    BY <1>0, <1>7 DEF RemoveFamily, WriteMember, MayWrite, CtlOK, Ctl
  <2> QED BY <2>1 DEF QueueKept, myRow, Family
<1> QED BY <1>1, <1>2, <1>3, <1>4, <1>5, <1>6, <1>7, UndeploysFrom, RollSteps

LEMMA ToldStep ==
  ASSUME TypeOK, RowsCurrent, QueueKept, Told, [Next]_vars
  PROVE  Told'
<1>0. CtlOK /\ SlotsOK
  BY TypeParts
<1>1. ASSUME UNCHANGED ctl \/ ctl'.cl = ctl.cl, Carry, UNCHANGED slotVars PROVE Carry'
  BY <1>1 DEF Carry, me, myRow, Computed, slotVars
<1>2. ASSUME UNCHANGED ctl, Carry, ctl.pc = "save" \/ (ctl.pc = "roll" /\ ~ctl.waiting) PROVE Carry'
  <2>1. me' = me /\ myRow' = myRow
    BY <1>2 DEF me, myRow
  <2>2. me \in Sets /\ myRow.spec.members \subseteq Slots
    BY <1>0, <1>2, Working
  <2>3. ASSUME NEW x \in myRow.spec.members, writer'[x] = me PROVE assign'[x] = Computed(myRow)
    <3>1. writer[x] = me /\ assign'[x] = assign[x]
      BY <1>2, <2>2, <2>3, WritesKeep DEF QueueKept
    <3> QED BY <1>2, <3>1 DEF Carry
  <2> QED BY <2>1, <2>3 DEF Carry, Computed
<1>3. SavedIsOld'
  <2>1. CASE UNCHANGED ctl /\ ctl.pc = "save"
    <3>1. me' = me /\ myRow' = myRow /\ me \in Sets /\ ctl.cl \in Snaps
      BY <1>0, <2>1, Working DEF me, myRow, CtlOK, Snaps
    <3>2. sets[me] # None
      BY <3>1 DEF RowsCurrent, Current, me
    <3>3. Live(me)' => Live(me)
      <4>1. \A s \in Sets : sets[s] # None /\ Live(s)' => Live(s)
        BY DeletingStays
      <4> QED BY <3>1, <3>2, <4>1 DEF Live
    <3> QED BY <2>1, <3>1, <3>3 DEF Told, SavedIsOld
  <2>2. CASE ~UNCHANGED ctl /\ ctl'.pc = "save"
    <3>1. /\ UNCHANGED sets /\ ctl'.cl \in Snaps
          /\ ctl'.st.observed \in {ctl'.cl.row.status.observed, ctl'.cl.row.generation}
      BY <2>2, SavesFrom
    <3>2. Current(ctl'.cl) /\ ctl'.cl.row.generation \in Nat
      BY <1>0, <3>1 DEF RowsCurrent, Snaps, CtlOK, Ctl, Snapshot, Row
    <3> QED BY <3>1, <3>2 DEF SavedIsOld, Current, Live, me, myRow
  <2>3. CASE ctl'.pc # "save"
    BY <2>3 DEF SavedIsOld
  <2> QED BY <2>1, <2>2, <2>3
<1>4. ASSUME SaysReady' PROVE Carry'
  <2>1. CASE UNCHANGED ctl
    <3>1. SaysReady
      BY <1>4, <2>1 DEF SaysReady, myRow
    <3> QED BY <1>2, <2>1, <3>1 DEF Told, SaysReady
  <2>2. CASE ~UNCHANGED ctl
    <3>1. UNCHANGED slotVars /\ ctl.pc = "roll" /\ ~ctl.waiting /\ ctl'.cl = ctl.cl
      BY <1>4, <2>2, SavesFrom DEF SaysReady
    <3> QED BY <1>1, <3>1 DEF Told
  <2> QED BY <2>1, <2>2
<1>5. ASSUME ctl'.pc = "roll", ~ctl'.waiting PROVE Carry'
  <2>1. CASE ctl.pc = "roll" /\ UNCHANGED ctl
    BY <1>2, <1>5, <2>1 DEF Told
  <2>2. CASE Observe
    <3>1. ctl' = [ctl EXCEPT !.pc = "roll", !.queue = Candidates, !.legacy = Legacy, !.room = Budget,
                             !.waiting = Candidates # {}, !.inflight = Inflight # {}]
      BY <1>5, <2>2 DEF Observe, Saving, NextSet, Idle
    <3>2. ctl'.cl = ctl.cl /\ Candidates = {} /\ UNCHANGED slotVars
      BY <1>0, <1>5, <2>2, <3>1 DEF CtlOK, Ctl, Observe
    <3>3. Carry
      BY <3>2 DEF Carry, Candidates, Matched
    <3> QED BY <1>1, <3>2, <3>3
  <2>3. CASE RemoveFamily \/ WriteMember
    <3>1. ctl.pc = "roll" /\ ctl'.waiting = ctl.waiting /\ ctl.queue # {}
      BY <1>0, <2>3 DEF RemoveFamily, WriteMember, MayWrite, CtlOK, Ctl
    <3> QED BY <1>5, <3>1 DEF QueueKept
  <2> QED BY <1>5, <2>1, <2>2, <2>3, RollSteps
<1> QED BY <1>3, <1>4, <1>5 DEF Told

\* A row in hand of the generation that is said to be observed is the row of now.
LEMMA InHand ==
  ASSUME TypeOK, RowsCurrent, ctl.pc \notin {"idle", "next"}, Live(me)
  PROVE  /\ me \in Sets /\ ~myRow.status.deleting /\ myRow.generation <= sets[me].generation
         /\ sets[me].status.observed <= myRow.generation
         /\ sets[me].generation = myRow.generation => sets[me].spec = myRow.spec
         /\ sets[me] \in Row /\ sets[me].generation \in Nat /\ sets[me].status.observed \in Nat
         /\ myRow.generation \in Nat
<1>1. ctl.cl \in Snaps /\ me \in Sets /\ myRow.generation \in Nat
  BY TypeParts, Working DEF CtlOK, Snaps
<1>2. Current(ctl.cl)
  BY <1>1 DEF RowsCurrent
<1>3. sets[me] \in Row
  BY <1>1, <1>2 DEF TypeOK, Current, me
<1> QED BY <1>1, <1>2, <1>3 DEF Current, me, myRow, Row, SetStatus

LEMMA ReadyStep ==
  ASSUME TypeOK, RowsCurrent, QueueKept, Told, ReadyIsRolled, [Next]_vars
  PROVE  ReadyIsRolled'
<1> SUFFICES ASSUME NEW s \in Sets, Live(s)', sets'[s].status.phase = "Ready",
                    sets'[s].status.observed = sets'[s].generation,
                    NEW x \in sets'[s].spec.members, writer'[x] = s
             PROVE  assign'[x] = Computed(sets'[s])
  BY DEF ReadyIsRolled, Computed
<1>0. SetsOK /\ CtlOK
  BY TypeParts
<1>1. Moves(s) /\ sets'[s] # None /\ ~sets'[s].status.deleting
  BY SetsMove DEF Live
<1>2. CASE sets'[s] = sets[s]
  <2>1. Live(s) /\ sets[s] \in Row /\ x \in Slots
    BY <1>0, <1>1, <1>2 DEF Live, SetsOK, Row, SetSpec
  <2>2. CASE writer[x] = s /\ assign'[x] = assign[x]
    BY <1>2, <2>1, <2>2 DEF ReadyIsRolled
  <2>3. ASSUME s = me, ctl.pc \notin {"idle", "next"}
        PROVE  ~myRow.status.deleting /\ sets[s].spec = myRow.spec
    BY <1>2, <2>1, <2>3, InHand
  <2>4. CASE s = me /\ ctl.pc \in {"drain", "delete"} /\ x \in ctl.queue
    BY <1>2, <2>3, <2>4 DEF QueueKept
  <2>5. CASE s = me /\ ctl.pc = "roll" /\ x \notin myRow.spec.members
    BY <1>2, <2>3, <2>5
  <2>6. CASE s = me /\ ctl.pc = "roll" /\ assign'[x] = Computed(myRow)
    BY <1>2, <2>3, <2>6 DEF Computed
  <2> QED BY <2>1, <2>2, <2>4, <2>5, <2>6, WritesKeep
<1>3. CASE sets[s] # None /\ sets'[s].status = sets[s].status /\ sets'[s].generation = sets[s].generation + 1
  <2>1. Live(s) /\ sets[s].generation \in Nat /\ sets[s].status.observed \in Nat
    BY <1>0, <1>1, <1>3 DEF Live, SetsOK, Row, SetStatus
  <2>2. sets[s].status.observed <= sets[s].generation
    BY <2>1 DEF RowsCurrent, ObservedIsOld
  <2> QED BY <1>3, <2>1, <2>2
<1>4. CASE /\ SaveStatus /\ s = me /\ sets[s] # None
           /\ sets'[s].spec = sets[s].spec /\ sets'[s].generation = sets[s].generation
           /\ sets'[s].status = preserveDeleting(sets[s].status, ctl.st)
  <2>1. ctl.pc = "save" /\ UNCHANGED slotVars /\ ctl.st \in SetStatus /\ sets[s].status \in SetStatus
    BY <1>0, <1>4 DEF SaveStatus, CtlOK, Ctl, SetsOK, Row
  <2>2. /\ sets'[s].status.deleting = (ctl.st.deleting \/ sets[s].status.deleting)
        /\ sets'[s].status.phase = (IF sets[s].status.deleting THEN "Deleting" ELSE ctl.st.phase)
        /\ sets'[s].status.observed = ctl.st.observed
    BY <1>4, <2>1 DEF preserveDeleting, SetStatus
  <2>3. Live(s) /\ ctl.st.phase = "Ready" /\ ctl.st.observed = sets[s].generation
    BY <1>1, <1>4, <2>2 DEF Live
  <2>4. ctl.st.observed <= myRow.generation
    BY <1>4, <2>1, <2>3 DEF Told, SavedIsOld
  <2>5. sets[s].generation = myRow.generation /\ sets[s].spec = myRow.spec
    BY <1>4, <2>1, <2>3, <2>4, InHand
  <2>6. Carry
    BY <2>1, <2>3, <2>5 DEF Told, SaysReady
  <2> QED BY <1>4, <2>1, <2>5, <2>6 DEF Carry, Computed, slotVars
<1>5. CASE sets'[s].status.phase = "Pending"
  BY <1>5
<1> QED BY <1>1, <1>2, <1>3, <1>4, <1>5 DEF Moves

\* A set that reports Ready at its generation has been rolled to the spec of that
\* generation, whatever specs, deletions, human verbs, faults and restarts came
\* between the steps of the pass that said so, and for the unlocked mark of the
\* Postgres store too (ReadyIsRolled); the rows begun with say no less.
THEOREM ReadyStaysRolled == Spec /\ ReadyIsRolled /\ ObservedIsOld => []ReadyIsRolled
<1> DEFINE Inv == TypeOK /\ RowsCurrent /\ QueueKept /\ Told /\ ReadyIsRolled
<1>1. Init /\ ReadyIsRolled /\ ObservedIsOld => Inv
  <2> SUFFICES ASSUME Init, ReadyIsRolled, ObservedIsOld PROVE RowsCurrent /\ QueueKept /\ Told
    BY InitType
  <2>1. ctl.pc = "idle" /\ Snaps = {} /\ ctl.cl = None
    BY DEF Init, Idle, Snaps
  <2> QED BY <2>1 DEF RowsCurrent, Apart, QueueKept, Told, SavedIsOld, SaysReady
<1>2. Inv /\ [Next]_vars => Inv'
  <2> SUFFICES ASSUME Inv, [Next]_vars PROVE Inv'
    OBVIOUS
  <2>1. TypeOK'
    BY TypeStep
  <2>2. RowsCurrent'
    BY RowsStep DEF Told
  <2> QED BY <2>1, <2>2, QueueStep, ToldStep, ReadyStep
<1>3. Inv => ReadyIsRolled
  OBVIOUS
<1> QED BY <1>1, <1>2, <1>3, PTL DEF Spec

----------------------------------------------------------------------------
(* Orphans *)

\* The specs a set may ever have.
SpecsOf(s) ==
  {History[s][i] : i \in 1..Len(History[s])} \cup IF InitSets[s] = None THEN {} ELSE {InitSets[s].spec}

\* The strategy of a set is not changed: the slot a member is to replace is
\* looked up by the name in the spec of now.
OneFamily == \A s \in Sets : \A p, q \in SpecsOf(s) : p.strategy = q.strategy

SpecsKnown ==
  \A s \in Sets : /\ sets[s] # None => sets[s].spec \in SpecsOf(s)
                  /\ applying[s] # None => applying[s] \in SpecsOf(s)

\* What a status tells of the slots that were written: a member, or the family
\* slot of a member's machine while the members have not replaced it.
RecordedBy(st, family, x) ==
  x \in st.members \/ (st.key # "member" /\ \E y \in st.members : x = <<y[1], family>>)

Recorded(row, x) == RecordedBy(row.status, row.spec.strategy, x)

SameRecord(q, r) ==
  q.status.members = r.status.members /\ q.status.key = r.status.key /\ q.spec.strategy = r.spec.strategy

\* The assigned slots that a set was the last to write.
Mine(s) == {y \in Slots : assign[y] # None /\ writer[y] = s}

\* A step gives a set no other spec.
LEMMA SpecsStep ==
  ASSUME TypeOK, MarkLocks = TRUE, SpecsKnown, [Next]_vars
  PROVE  SpecsKnown'
<1>0. SetsOK
  BY TypeParts
<1>1. ASSUME NEW s \in Sets, sets'[s] # None PROVE sets'[s].spec \in SpecsOf(s)
  <2>1. CASE UNCHANGED sets
    BY <1>1, <2>1 DEF SpecsKnown
  <2>2. CASE sets' = [sets EXCEPT ![me].status = preserveDeleting(@, ctl.st)] /\ sets[me] # None
    <3>1. sets'[s] = sets[s] \/ (s = me /\ sets'[s] = [sets[s] EXCEPT !.status = preserveDeleting(@, ctl.st)])
      BY <1>0, <1>1, <2>2 DEF SetsOK
    <3>2. sets[s] # None /\ sets[s] \in Row
      BY <1>0, <1>1, <2>2, <3>1 DEF SetsOK
    <3>3. sets'[s].spec = sets[s].spec
      BY <3>1, <3>2 DEF Row
    <3> QED BY <3>2, <3>3 DEF SpecsKnown
  <2>3. ASSUME NEW m \in marks, MarkAssignmentSetDeleting(m) PROVE sets'[s].spec \in SpecsOf(s)
    <3>1. sets' = IF sets[m.name] = None THEN sets ELSE [sets EXCEPT ![m.name] = Marked(sets[m.name])]
      BY <2>3 DEF MarkAssignmentSetDeleting
    <3>2. sets'[s] = sets[s] \/ (sets[s] # None /\ sets'[s] = Marked(sets[s]))
      BY <1>0, <3>1 DEF SetsOK
    <3>3. sets[s] # None /\ sets[s] \in Row
      BY <1>0, <1>1, <3>2 DEF SetsOK
    <3>4. Marked(sets[s]).spec = sets[s].spec
      BY <3>3 DEF Marked, Row
    <3> QED BY <3>2, <3>3, <3>4 DEF SpecsKnown
  <2>4. ASSUME NEW u \in Sets, ApplyAssignmentSet(u) PROVE sets'[s].spec \in SpecsOf(s)
    <3>1. applying[u] # None /\ applying[u] \in SpecsOf(u)
      BY <2>4 DEF ApplyAssignmentSet, SpecsKnown
    <3>2. CASE sets' = [sets EXCEPT ![u] = NewRow(applying[u])]
      BY <1>0, <1>1, <3>1, <3>2 DEF SetsOK, NewRow, SpecsKnown
    <3>3. CASE sets[u] # None /\ sets' = [sets EXCEPT ![u].spec = applying[u], ![u].generation = @ + 1]
      <4>1. sets[u] \in Row
        BY <1>0, <3>3 DEF SetsOK
      <4>2. s = u => sets'[s].spec = applying[u]
        BY <1>0, <3>3, <4>1 DEF SetsOK, Row
      <4>3. s # u => sets'[s] = sets[s]
        BY <1>0, <3>3 DEF SetsOK
      <4> QED BY <1>1, <3>1, <4>2, <4>3 DEF SpecsKnown
    <3> QED BY <2>1, <2>4, <3>2, <3>3 DEF ApplyAssignmentSet
  <2>5. CASE FinishDelete
    BY <1>0, <1>1, <2>1, <2>5 DEF FinishDelete, SetsOK, SpecsKnown
  <2> QED BY <2>1, <2>2, <2>3, <2>4, <2>5, SetSteps DEF SaveStatus
<1>2. ASSUME NEW s \in Sets, applying'[s] # None PROVE applying'[s] \in SpecsOf(s)
  <2>1. \/ applying'[s] = applying[s]
        \/ applying'[s] = None
        \/ sent[s] < Len(History[s]) /\ applying'[s] = History[s][sent[s] + 1]
    <3>1. CASE UNCHANGED applying
      BY <3>1
    <3>2. ASSUME NEW u \in Sets, Admit(u) PROVE <2>1!:
      BY <1>0, <3>2 DEF Admit, SetsOK
    <3>3. ASSUME NEW u \in Sets, ApplyAssignmentSet(u) PROVE <2>1!:
      BY <1>0, <3>3 DEF ApplyAssignmentSet, SetsOK
    <3>4. CASE Restart
      BY <3>4 DEF Restart
    <3>5. UNCHANGED applying \/ Restart \/ \E u \in Sets : Admit(u) \/ ApplyAssignmentSet(u)
      <4>1. CASE Controller
        BY <4>1 DEF Controller, ReconcileAll, PassEnds, SaveStatus, StartRoll, StartDelete, UndeployNext,
                    FinishDelete, Observe, RemoveFamily, WriteMember, FinishRoll, setVars
      <4>2. CASE ControllerFaults
        BY <4>2 DEF ControllerFaults, ArtifactFails, UndeployFails, MountFails, AssignFails, setVars
      <4>3. CASE Calls
        BY <4>3 DEF Calls, DeleteAssignmentSet, MarkAssignmentSetDeleting, CheckVerb, CommitVerb, setVars
      <4>4. CASE Environment
        BY <4>4 DEF Environment, Take, Verdict, Flap, DeadlinePasses, setVars
      <4>5. CASE UNCHANGED vars
        BY <4>5 DEF vars, setVars
      <4> QED BY <4>1, <4>2, <4>3, <4>4, <4>5 DEF Next
    <3> QED BY <3>1, <3>2, <3>3, <3>4, <3>5
  <2>2. sent[s] \in Nat /\ Len(History[s]) \in Nat
    <3>1. History[s] \in Seq(SetSpec)
      BY OrchestratorAssumption
    <3> QED BY <1>0, <3>1 DEF SetsOK
  <2> QED BY <1>2, <2>1, <2>2 DEF SpecsKnown, SpecsOf
<1> QED BY <1>1, <1>2 DEF SpecsKnown

\* What a step makes of what a set has recorded.
LEMMA RowsRecord ==
  ASSUME TypeOK, MarkLocks = TRUE, OneFamily, SpecsKnown, [Next]_vars, NEW s \in Sets
  PROVE  \/ sets[s] = None
         \/ sets[s] # None /\ sets'[s] # None /\ SameRecord(sets'[s], sets[s])
         \/ /\ SaveStatus /\ s = me /\ sets[s] # None /\ sets'[s] # None
            /\ sets'[s].spec = sets[s].spec /\ sets'[s].status.members = ctl.st.members
            /\ sets'[s].status.key = IF ctl.st.key = "" THEN sets[s].status.key ELSE ctl.st.key
            /\ lost' = lost \ {x \in ctl.st.members : writer[x] = me}
         \/ /\ FinishDelete /\ s = me /\ ctl.queue = {} /\ ~Leftover /\ sets'[s] = None
<1>0. SetsOK /\ CtlOK
  BY TypeParts
<1> SUFFICES ASSUME sets[s] # None
             PROVE  \/ sets'[s] # None /\ SameRecord(sets'[s], sets[s])
                    \/ /\ SaveStatus /\ s = me /\ sets'[s] # None
                       /\ sets'[s].spec = sets[s].spec /\ sets'[s].status.members = ctl.st.members
                       /\ sets'[s].status.key = IF ctl.st.key = "" THEN sets[s].status.key ELSE ctl.st.key
                       /\ lost' = lost \ {x \in ctl.st.members : writer[x] = me}
                    \/ FinishDelete /\ s = me /\ ctl.queue = {} /\ ~Leftover /\ sets'[s] = None
  OBVIOUS
<1>1. CASE sets'[s] = sets[s]
  BY <1>1 DEF SameRecord
<1>2. CASE SaveStatus
  <2>1. CASE UNCHANGED sets
    BY <1>1, <2>1
  <2>2. CASE sets[me] # None /\ sets' = [sets EXCEPT ![me].status = preserveDeleting(@, ctl.st)]
             /\ lost' = lost \ {x \in ctl.st.members : writer[x] = me}
    <3>1. me \in Sets /\ sets[me] \in Row /\ sets[me].status \in SetStatus /\ ctl.st \in SetStatus
      BY <1>0, <1>2, <2>2, Working DEF SaveStatus, CtlOK, Ctl, SetsOK, Row
    <3> DEFINE q == [sets[me] EXCEPT !.status = preserveDeleting(sets[me].status, ctl.st)]
    <3>2. q.spec = sets[me].spec /\ q.status = preserveDeleting(sets[me].status, ctl.st) /\ q \in Row
      <4>1. preserveDeleting(sets[me].status, ctl.st) \in SetStatus
        BY <3>1, PreserveType
      <4> QED BY <3>1, <4>1 DEF Row
    <3>3. /\ preserveDeleting(sets[me].status, ctl.st).members = ctl.st.members
          /\ preserveDeleting(sets[me].status, ctl.st).key
               = IF ctl.st.key = "" THEN sets[me].status.key ELSE ctl.st.key
      BY <3>1 DEF preserveDeleting, SetStatus
    <3>4. sets'[s] = IF s = me THEN q ELSE sets[s]
      BY <1>0, <2>2, <3>1 DEF SetsOK
    <3>5. q # None
      BY <3>2, OrchestratorAssumption
    <3> HIDE DEF q
    <3> QED BY <1>1, <1>2, <2>2, <3>2, <3>3, <3>4, <3>5
  <2> QED BY <1>2, <2>1, <2>2 DEF SaveStatus
<1>3. ASSUME NEW m \in marks, MarkAssignmentSetDeleting(m)
      PROVE  sets'[s] # None /\ SameRecord(sets'[s], sets[s])
  <2>1. sets' = IF sets[m.name] = None THEN sets ELSE [sets EXCEPT ![m.name] = Marked(sets[m.name])]
    BY <1>3 DEF MarkAssignmentSetDeleting
  <2>2. sets'[s] = sets[s] \/ sets'[s] = Marked(sets[s])
    BY <1>0, <2>1 DEF SetsOK
  <2>3. sets[s] \in Row /\ sets[s].status \in SetStatus
    BY <1>0 DEF SetsOK, Row
  <2>4. Marked(sets[s]).spec = sets[s].spec /\ Marked(sets[s]).status.members = sets[s].status.members
        /\ Marked(sets[s]).status.key = sets[s].status.key
    BY <2>3 DEF Marked, Row, SetStatus
  <2>5. Marked(sets[s]) # None
    BY <2>3, MarkedType, OrchestratorAssumption
  <2> QED BY <2>2, <2>4, <2>5 DEF SameRecord
<1>4. ASSUME NEW u \in Sets, ApplyAssignmentSet(u), sets'[s] # sets[s]
      PROVE  sets'[s] # None /\ SameRecord(sets'[s], sets[s])
  <2>1. applying[u] # None /\ applying[u] \in SetSpec
    BY <1>0, <1>4 DEF ApplyAssignmentSet, SetsOK
  <2>2. s = u /\ sets' = [sets EXCEPT ![u].spec = applying[u], ![u].generation = @ + 1]
    BY <1>0, <1>4 DEF ApplyAssignmentSet, SetsOK
  <2> DEFINE q == [sets[u] EXCEPT !.spec = applying[u], !.generation = sets[u].generation + 1]
  <2>3. sets[u] \in Row /\ sets[u].generation + 1 \in Nat
    BY <1>0, <2>2 DEF SetsOK, Row
  <2>4. sets'[s] = q
    BY <1>0, <2>2, <2>3 DEF SetsOK, Row
  <2>5. q \in Row /\ q.spec = applying[u] /\ q.status = sets[u].status
    BY <2>1, <2>3 DEF Row
  <2>6. q # None
    BY <2>5, OrchestratorAssumption
  <2>7. applying[u].strategy = sets[u].spec.strategy
    BY <2>1, <2>2 DEF OneFamily, SpecsKnown
  <2> HIDE DEF q
  <2> QED BY <2>2, <2>4, <2>5, <2>6, <2>7 DEF SameRecord
<1>5. CASE FinishDelete
  BY <1>0, <1>1, <1>5 DEF FinishDelete, SetsOK
<1> QED BY <1>1, <1>2, <1>3, <1>4, <1>5, SetSteps

\* The rows in hand record what the rows of now do: in a pass nobody but the
\* controller writes a status.
Fresh == \A c \in Snaps : sets[c.name] # None /\ SameRecord(sets[c.name], c.row)

\* What the pass has written goes into the status it will save.
Written ==
  /\ ctl.pc \in {"idle", "next", "drain", "delete"} => ctl.written = {}
  /\ ctl.pc = "roll" => ctl.queue \cup ctl.written \subseteq myRow.spec.members
  /\ ctl.pc = "save" => ctl.written \subseteq ctl.st.members

\* So does what the set had recorded and still has.
Saves ==
  ctl.pc = "save" =>
    /\ ctl.st.key \in {myRow.status.key, "member"}
    /\ \A x \in Mine(me) : Recorded(myRow, x) => RecordedBy(ctl.st, myRow.spec.strategy, x)

\* A set being deleted goes only once all of it has been undeployed: a slot still
\* in the queue, or one passed over, keeps the row.
Deletes ==
  ctl.pc = "delete" =>
    /\ Cardinality(ctl.queue) + ctl.undeployed <= ctl.targets
    /\ \A x \in Mine(me) : Recorded(myRow, x) =>
         x \in ctl.queue \/ Cardinality(ctl.queue) + ctl.undeployed < ctl.targets

\* A slot of a set is recorded, or about to be, or its record was lost.
Kept ==
  \A s \in Sets : \A x \in Mine(s) :
    \/ x \in lost
    \/ ctl.cl # None /\ me = s /\ x \in ctl.written
    \/ sets[s] # None /\ Recorded(sets[s], x)

OrphanInv == SpecsKnown /\ Apart /\ Fresh /\ Written /\ Saves /\ Deletes /\ Kept

\* The set finds again what it has recorded.
LEMMA RecordedIsOwned ==
  ASSUME NEW r, NEW x, Recorded(r, x)
  PROVE  x \in ownedSlots(r)
BY DEF Recorded, RecordedBy, ownedSlots, Family, MachinesOf

\* A status with the members of now and the drops records what was recorded.
LEMMA RetainedKeep ==
  ASSUME NEW r, NEW st, st.members = withRetainedDrops(r, r.spec.members),
         st.key = r.status.key \/ transitionComplete(r),
         NEW x \in Slots, assign[x] # None, Recorded(r, x)
  PROVE  RecordedBy(st, r.spec.strategy, x)
<1>1. x \in assignedSlots(r)
  BY RecordedIsOwned DEF assignedSlots
<1>2. x \in st.members \/ x \in familyLeftover(r)
  BY <1>1 DEF withRetainedDrops, droppedSlots
<1>3. ASSUME x \in familyLeftover(r) PROVE RecordedBy(st, r.spec.strategy, x)
  <2>1. ~transitionComplete(r)
    BY <1>1, <1>3 DEF transitionComplete
  <2>2. r.status.key # "member" /\ \E y \in r.spec.members : x = <<y[1], r.spec.strategy>>
    BY <1>3 DEF familyLeftover, Family, MachinesOf
  <2> QED BY <2>1, <2>2 DEF RecordedBy, withRetainedDrops
<1> QED BY <1>2, <1>3 DEF RecordedBy

\* A slot comes to a set by the write of a member alone.
LEMMA MineStep ==
  ASSUME TypeOK, [Next]_vars, NEW s \in Sets, NEW x \in Mine(s)'
  PROVE  x \in Mine(s) \/ (WriteMember /\ s = me /\ x \in ctl'.written)
<1>0. SlotsOK /\ CtlOK /\ x \in Slots /\ assign'[x] # None /\ writer'[x] = s
  BY TypeParts DEF Mine
<1>1. ASSUME NEW y, NEW who, Undeploy(y, who) PROVE assign[x] # None /\ writer[x] = s
  BY <1>0, <1>1 DEF Undeploy, SlotsOK
<1>2. ASSUME NEW y, NEW a, NEW who, SetAssignment(y, a, who)
      PROVE  (assign[x] # None /\ writer[x] = s) \/ (x = y /\ who = s)
  BY <1>0, <1>2 DEF SetAssignment, SlotsOK
<1>3. CASE UNCHANGED slotVars
  BY <1>0, <1>3 DEF slotVars, Mine
<1>4. CASE UndeployNext
  BY <1>0, <1>1, <1>3, <1>4 DEF UndeployNext, slotVars, Mine
<1>5. CASE RemoveFamily
  BY <1>0, <1>1, <1>5 DEF RemoveFamily, Mine
<1>6. CASE WriteMember
  <2>1. PICK y \in ctl.queue : /\ MayWrite(y) /\ SetAssignment(y, Computed(myRow), me)
          /\ ctl' = [ctl EXCEPT !.queue = @ \ {y}, !.room = @ - 1, !.written = @ \cup {y}]
    BY <1>6 DEF WriteMember
  <2>2. y \in ctl'.written
    BY <1>0, <2>1 DEF CtlOK, Ctl
  <2> QED BY <1>0, <1>2, <1>6, <2>1, <2>2 DEF Mine
<1>7. CASE CommitVerb
  <2>1. Human # s
    BY OrchestratorAssumption
  <2> QED BY <1>0, <1>1, <1>2, <1>7, <2>1 DEF CommitVerb, Mine
<1>8. ASSUME NEW y \in Slots, Take(y) \/ Verdict(y) \/ Flap(y) PROVE x \in Mine(s)
  BY <1>0, <1>8 DEF Take, Verdict, Flap, Mine
<1> QED BY <1>3, <1>4, <1>5, <1>6, <1>7, <1>8, SlotSteps

\* Writing and deleting of the set in hand: the controller rests with no set.
LEMMA FreshStep ==
  ASSUME TypeOK, MarkLocks = TRUE, OneFamily, SpecsKnown, Apart, Fresh, [Next]_vars
  PROVE  Apart' /\ Fresh'
<1>0. CtlOK /\ SetsOK
  BY TypeParts
<1>1. CASE ReconcileAll
  <2>1. /\ ctl'.todo = {[name |-> s, row |-> sets[s]] : s \in {s \in Sets : sets[s] # None}}
        /\ ctl'.cl = None /\ UNCHANGED sets
    BY <1>1 DEF ReconcileAll, Idle, setVars
  <2>2. Snaps' = {[name |-> s, row |-> sets[s]] : s \in {s \in Sets : sets[s] # None}}
    BY <2>1 DEF Snaps
  <2> QED BY <2>1, <2>2 DEF Apart, Fresh, SameRecord
<1>2. CASE ~ReconcileAll
  <2>1. Apart' /\ Snaps' \subseteq Snaps
    BY <1>2, SnapsStep
  <2>2. Snaps \subseteq Snapshot
    BY <1>0 DEF Snaps, CtlOK, Ctl
  <2>3. ASSUME NEW c \in Snaps', SaveStatus \/ (FinishDelete /\ ~Leftover) PROVE c.name # me
    <3>1. ctl.cl # None /\ ctl.cl \in Snaps
      BY <1>0, <2>3 DEF SaveStatus, FinishDelete, CtlOK, Snaps
    <3>2. ctl' = NextSet
      BY <2>3 DEF SaveStatus, FinishDelete
    <3>3. NextSet.cl = None /\ NextSet.todo = ctl.todo
      BY DEF NextSet, Idle
    <3>4. c \in ctl.todo
      BY <2>3, <3>2, <3>3 DEF Snaps
    <3>5. c # ctl.cl /\ c \in Snaps
      BY <3>1, <3>4 DEF Apart, Snaps
    <3> QED BY <3>1, <3>5 DEF Apart, me
  <2>4. ASSUME NEW c \in Snaps' PROVE sets'[c.name] # None /\ SameRecord(sets'[c.name], c.row)
    <3>1. c.name \in Sets /\ sets[c.name] # None /\ SameRecord(sets[c.name], c.row)
      BY <2>1, <2>2 DEF Fresh, Snapshot
    <3>2. sets'[c.name] # None /\ SameRecord(sets'[c.name], sets[c.name])
      BY <2>3, <3>1, RowsRecord
    <3> QED BY <3>1, <3>2 DEF SameRecord
  <2> QED BY <2>1, <2>4 DEF Fresh, SameRecord
<1> QED BY <1>1, <1>2

\* The steps that come to write a status.
LEMMA SaveActions ==
  ASSUME TypeOK, [Next]_vars, ctl'.pc = "save", ~UNCHANGED ctl
  PROVE  \/ ArtifactFails \/ UndeployFails \/ MountFails \/ AssignFails \/ FinishRoll
         \/ FinishDelete /\ Leftover
         \/ Observe /\ Stops # {}
<1>0. CtlOK /\ NextSet.pc = "next" /\ Idle.pc = "idle"
  BY TypeParts DEF NextSet, Idle
<1>1. CASE Controller
  <2>1. ~PassEnds /\ ~SaveStatus
    BY <1>0 DEF PassEnds, SaveStatus
  <2>2. ~ReconcileAll
    BY DEF ReconcileAll, Idle
  <2>3. ~StartRoll
    BY DEF StartRoll, Idle
  <2>4. ~StartDelete
    BY DEF StartDelete, Idle
  <2>5. ~UndeployNext /\ ~RemoveFamily /\ ~WriteMember
    BY <1>0 DEF UndeployNext, RemoveFamily, WriteMember, MayWrite, CtlOK, Ctl
  <2>6. FinishDelete => Leftover
    BY <1>0 DEF FinishDelete
  <2>7. Observe => Stops # {}
    BY <1>0 DEF Observe, CtlOK, Ctl
  <2> QED BY <1>1, <2>1, <2>2, <2>3, <2>4, <2>5, <2>6, <2>7 DEF Controller
<1>2. CASE Calls
  BY <1>2 DEF Calls, Admit, ApplyAssignmentSet, DeleteAssignmentSet, MarkAssignmentSetDeleting,
              CheckVerb, CommitVerb
<1>3. CASE Environment
  <2>1. ~Restart
    BY <1>0 DEF Restart
  <2> QED BY <1>3, <2>1 DEF Environment, Take, Verdict, Flap, DeadlinePasses
<1>4. CASE UNCHANGED vars
  BY <1>4 DEF vars
<1> QED BY <1>1, <1>2, <1>3, <1>4 DEF Next, ControllerFaults

\* A status to save has the members of the row in hand, and nothing was written,
\* or it has those of the spec and the drops.
LEMMA SaveBegins ==
  ASSUME TypeOK, Written, [Next]_vars, ctl'.pc = "save", ~UNCHANGED ctl
  PROVE  /\ UNCHANGED slotVars /\ ctl'.cl # None
         /\ \/ /\ ctl'.st.key = ctl'.cl.row.status.key /\ ctl'.written = {}
               /\ ctl'.cl.row.status.members \subseteq ctl'.st.members
            \/ /\ ctl'.st.members = withRetainedDrops(ctl'.cl.row, ctl'.cl.row.spec.members)
               /\ \/ ctl'.st.key = ctl'.cl.row.status.key
                  \/ ctl'.st.key = "member" /\ transitionComplete(ctl'.cl.row)
               /\ ctl'.written \subseteq ctl'.st.members
<1>0. CtlOK
  BY TypeParts
<1>1. \A st : Saving(st).cl = ctl.cl /\ Saving(st).st = st /\ Saving(st).written = ctl.written
  BY DEF Saving, NextSet, Idle
<1>2. \A p, r, X : Stopped(p, r, X).members = X /\ Stopped(p, r, X).key = r.status.key
  BY DEF Stopped, NewStatus
<1>4. \A r, X : X \subseteq withRetainedDrops(r, X)
  BY DEF withRetainedDrops
<1>5. CASE ArtifactFails
  <2>1. PICK cl \in ctl.todo :
          ctl' = [Idle EXCEPT !.pc = "save", !.todo = ctl.todo \ {cl}, !.cl = cl,
                              !.st = Stopped("Failed", cl.row, cl.row.status.members)]
    BY <1>5 DEF ArtifactFails
  <2>2. ctl'.cl = cl /\ ctl'.written = {} /\ ctl'.st = Stopped("Failed", cl.row, cl.row.status.members)
    BY <2>1 DEF Idle
  <2>3. cl # None
    BY <1>0, OrchestratorAssumption DEF CtlOK, Ctl
  <2> QED BY <1>2, <1>5, <2>2, <2>3 DEF ArtifactFails
<1>6. CASE UndeployFails \/ MountFails
  <2>1. ctl' = AssignFailed(myRow.status.members) /\ ctl.cl # None /\ UNCHANGED slotVars
    BY <1>0, <1>6 DEF UndeployFails, MountFails, CtlOK
  <2>2. ctl.written = {}
    BY <1>6 DEF UndeployFails, MountFails, Written
  <2>3. /\ ctl'.cl = ctl.cl /\ ctl'.written = {} /\ ctl'.st.key = myRow.status.key
        /\ ctl'.st.members = withRetainedDrops(myRow, myRow.status.members)
    BY <1>1, <1>2, <2>1, <2>2 DEF AssignFailed
  <2>4. myRow = ctl'.cl.row /\ myRow.status.members \subseteq ctl'.st.members
    BY <1>4, <2>3 DEF myRow
  <2> QED BY <2>1, <2>3, <2>4
<1>7. CASE AssignFails
  <2>1. ctl' = AssignFailed(myRow.spec.members) /\ ctl.cl # None /\ UNCHANGED slotVars
    BY <1>0, <1>7 DEF AssignFails, MayWrite, CtlOK
  <2>2. ctl.written \subseteq myRow.spec.members
    BY <1>7 DEF AssignFails, MayWrite, Written
  <2>3. /\ ctl'.cl = ctl.cl /\ ctl'.written = ctl.written /\ ctl'.st.key = myRow.status.key
        /\ ctl'.st.members = withRetainedDrops(myRow, myRow.spec.members)
    BY <1>1, <1>2, <2>1 DEF AssignFailed
  <2>4. myRow = ctl'.cl.row /\ ctl'.written \subseteq ctl'.st.members
    BY <1>4, <2>2, <2>3 DEF myRow
  <2> QED BY <2>1, <2>3, <2>4
<1>8. CASE FinishDelete /\ Leftover
  <2>1. /\ ctl' = Saving(NewStatus("Deleting", myRow.status.observed, myRow.status.members, myRow.status.key, TRUE))
        /\ ctl.cl # None /\ UNCHANGED slotVars /\ ctl.written = {}
    BY <1>0, <1>8 DEF FinishDelete, CtlOK, Written
  <2>2. /\ ctl'.cl = ctl.cl /\ ctl'.written = {} /\ ctl'.st.key = myRow.status.key
        /\ ctl'.st.members = myRow.status.members
    BY <1>1, <2>1 DEF NewStatus
  <2>3. myRow = ctl'.cl.row
    BY <2>2 DEF myRow
  <2> QED BY <2>1, <2>2, <2>3
<1>9. CASE Observe /\ Stops # {}
  <2>1. PICK p : ctl' = Saving(Stopped(p, myRow, withRetainedDrops(myRow, myRow.spec.members)))
    BY <1>9 DEF Observe
  <2>2. ctl.cl # None /\ UNCHANGED slotVars /\ ctl.written = {}
    BY <1>0, <1>9 DEF Observe, CtlOK, Written
  <2>3. /\ ctl'.cl = ctl.cl /\ ctl'.written = {} /\ ctl'.st.key = myRow.status.key
        /\ ctl'.st.members = withRetainedDrops(myRow, myRow.spec.members)
    BY <1>1, <1>2, <2>1, <2>2
  <2>4. myRow = ctl'.cl.row
    BY <2>3 DEF myRow
  <2> QED BY <2>2, <2>3, <2>4
<1>10. CASE FinishRoll
  <2>1. PICK p, o : ctl' = Saving(NewStatus(p, o, withRetainedDrops(myRow, myRow.spec.members),
                      IF transitionComplete(myRow) THEN "member" ELSE myRow.status.key, FALSE))
    BY <1>10 DEF FinishRoll
  <2>2. ctl.cl # None /\ UNCHANGED slotVars /\ ctl.written \subseteq myRow.spec.members
    BY <1>0, <1>10 DEF FinishRoll, CtlOK, Written
  <2>3. /\ ctl'.cl = ctl.cl /\ ctl'.written = ctl.written
        /\ ctl'.st.members = withRetainedDrops(myRow, myRow.spec.members)
        /\ ctl'.st.key = IF transitionComplete(myRow) THEN "member" ELSE myRow.status.key
    BY <1>1, <2>1 DEF NewStatus
  <2>4. myRow = ctl'.cl.row /\ ctl'.written \subseteq ctl'.st.members
    BY <1>4, <2>2, <2>3 DEF myRow
  <2> QED BY <2>2, <2>3, <2>4
<1> QED BY <1>5, <1>6, <1>7, <1>8, <1>9, <1>10, SaveActions

LEMMA WrittenStep ==
  ASSUME TypeOK, Written, [Next]_vars
  PROVE  Written'
<1>0. CtlOK
  BY TypeParts
<1>1. CASE UNCHANGED ctl
  BY <1>1 DEF Written, myRow
<1>2. ASSUME ~UNCHANGED ctl, ctl'.pc = "save" PROVE ctl'.written \subseteq ctl'.st.members
  BY <1>2, SaveBegins
<1>3. ASSUME ctl'.pc = "roll" PROVE ctl'.queue \cup ctl'.written \subseteq myRow'.spec.members
  <2>1. CASE ctl.pc = "roll" /\ UNCHANGED ctl
    BY <2>1 DEF Written, myRow
  <2>2. CASE Observe
    <3>1. ctl' = [ctl EXCEPT !.pc = "roll", !.queue = Candidates, !.legacy = Legacy, !.room = Budget,
                             !.waiting = Candidates # {}, !.inflight = Inflight # {}]
      BY <1>3, <2>2 DEF Observe, Saving, NextSet, Idle
    <3>2. ctl'.cl = ctl.cl /\ ctl'.queue = Candidates /\ ctl'.written = ctl.written
      BY <1>0, <3>1 DEF CtlOK, Ctl
    <3>3. ctl.written = {}
      BY <2>2 DEF Observe, Written
    <3> QED BY <3>2, <3>3 DEF Candidates, myRow
  <2>3. CASE RemoveFamily \/ WriteMember
    <3>1. ctl.pc = "roll" /\ ctl'.cl = ctl.cl /\ ctl'.queue \cup ctl'.written \subseteq ctl.queue \cup ctl.written
      <4>1. CASE RemoveFamily
        BY <1>0, <4>1 DEF RemoveFamily, MayWrite, CtlOK, Ctl
      <4>2. CASE WriteMember
        <5>1. PICK x \in ctl.queue : /\ ctl.pc = "roll"
                /\ ctl' = [ctl EXCEPT !.queue = @ \ {x}, !.room = @ - 1, !.written = @ \cup {x}]
          BY <4>2 DEF WriteMember, MayWrite
        <5>2. ctl'.cl = ctl.cl /\ ctl'.queue = ctl.queue \ {x} /\ ctl'.written = ctl.written \cup {x}
          BY <1>0, <5>1 DEF CtlOK, Ctl
        <5> QED BY <5>1, <5>2
      <4> QED BY <2>3, <4>1, <4>2
    <3>2. ctl.queue \cup ctl.written \subseteq myRow.spec.members /\ myRow' = myRow
      BY <3>1 DEF Written, myRow
    <3> QED BY <3>1, <3>2
  <2> QED BY <1>3, <2>1, <2>2, <2>3, RollSteps
<1>4. ASSUME ctl'.pc \in {"drain", "delete"} PROVE ctl'.written = {}
  <2>1. CASE UNCHANGED ctl
    BY <1>4, <2>1 DEF Written
  <2>2. CASE UndeployNext
    <3>1. ctl.pc \in {"drain", "delete"} /\ ctl'.written = ctl.written
      BY <1>0, <2>2 DEF UndeployNext, CtlOK, Ctl
    <3> QED BY <3>1 DEF Written
  <2>3. CASE StartRoll
    BY <2>3 DEF StartRoll, Idle
  <2>4. CASE StartDelete
    BY <2>4 DEF StartDelete, Idle
  <2> QED BY <1>4, <2>1, <2>2, <2>3, <2>4, UndeploysFrom
<1>5. ASSUME ~UNCHANGED ctl, ctl'.pc \in {"idle", "next"} PROVE ctl'.written = {}
  <2>0. NextSet.written = {} /\ Idle.written = {}
    BY DEF NextSet, Idle
  <2>1. CASE Controller
    <3>1. CASE ReconcileAll
      BY <3>1 DEF ReconcileAll, Idle
    <3>2. CASE PassEnds \/ SaveStatus \/ FinishDelete
      <4>1. ctl' = Idle \/ ctl' = NextSet
        BY <1>5, <3>2 DEF PassEnds, SaveStatus, FinishDelete, Saving, NextSet, Idle
      <4> QED BY <2>0, <4>1
    <3>3. ~StartRoll /\ ~StartDelete
      <4>1. ~StartRoll
        BY <1>5 DEF StartRoll, Idle
      <4>2. ~StartDelete
        <5>1. StartDelete => ctl'.pc = "delete"
          BY DEF StartDelete, Idle
        <5> QED BY <1>5, <5>1
      <4> QED BY <4>1, <4>2
    <3>4. ~UndeployNext /\ ~RemoveFamily /\ ~WriteMember
      <4>1. ~UndeployNext
        <5>1. UndeployNext => ctl'.pc = ctl.pc /\ ctl.pc \in {"drain", "delete"}
          BY <1>0 DEF UndeployNext, CtlOK, Ctl
        <5> QED BY <1>5, <5>1
      <4>2. ~RemoveFamily /\ ~WriteMember
        BY <1>0, <1>5 DEF RemoveFamily, WriteMember, MayWrite, CtlOK, Ctl
      <4> QED BY <4>1, <4>2
    <3>5. ~Observe
      BY <1>0, <1>5 DEF Observe, Saving, NextSet, Idle, CtlOK, Ctl
    <3>6. ~FinishRoll
      BY <1>5 DEF FinishRoll, Saving, NextSet, Idle
    <3> QED BY <2>1, <3>1, <3>2, <3>3, <3>4, <3>5, <3>6 DEF Controller
  <2>2. ~ControllerFaults
    <3>1. ~ArtifactFails
      BY <1>5 DEF ArtifactFails, Idle
    <3>2. \A X : AssignFailed(X).pc = "save"
      BY DEF AssignFailed, Saving, NextSet, Idle
    <3> QED BY <1>5, <3>1, <3>2 DEF ControllerFaults, UndeployFails, MountFails, AssignFails
  <2>3. CASE Calls
    BY <1>5, <2>3 DEF Calls, Admit, ApplyAssignmentSet, DeleteAssignmentSet, MarkAssignmentSetDeleting,
                CheckVerb, CommitVerb
  <2>4. CASE Environment
    BY <1>5, <2>0, <2>4 DEF Environment, Take, Verdict, Flap, DeadlinePasses, Restart
  <2> QED BY <1>5, <2>1, <2>2, <2>3, <2>4 DEF Next, vars
<1> QED BY <1>1, <1>2, <1>3, <1>4, <1>5 DEF Written

LEMMA SavesStep ==
  ASSUME TypeOK, Written, Saves, [Next]_vars
  PROVE  Saves'
<1>0. CtlOK
  BY TypeParts
<1>1. CASE ctl'.pc # "save"
  BY <1>1 DEF Saves
<1>2. CASE ctl'.pc = "save" /\ UNCHANGED ctl
  <2>1. me' = me /\ myRow' = myRow /\ me \in Sets
    BY <1>0, <1>2, Working DEF me, myRow
  <2>2. ~WriteMember
    BY <1>2 DEF WriteMember, MayWrite
  <2>3. \A x \in Mine(me)' : x \in Mine(me)
    <3> SUFFICES ASSUME NEW x \in Mine(me)' PROVE x \in Mine(me)
      OBVIOUS
    <3> QED BY <2>1, <2>2, MineStep DEF Mine
  <2> QED BY <1>2, <2>1, <2>3 DEF Saves, Recorded
<1>3. CASE ctl'.pc = "save" /\ ~UNCHANGED ctl
  <2> DEFINE row == ctl'.cl.row
  <2>1. UNCHANGED slotVars /\ row = myRow'
    BY <1>3, SaveBegins DEF myRow
  <2>2. \/ /\ ctl'.st.key = row.status.key
           /\ row.status.members \subseteq ctl'.st.members
        \/ /\ ctl'.st.members = withRetainedDrops(row, row.spec.members)
           /\ ctl'.st.key = row.status.key \/ (ctl'.st.key = "member" /\ transitionComplete(row))
    BY <1>3, SaveBegins
  <2> HIDE DEF row
  <2>3. ctl'.st.key \in {row.status.key, "member"}
    BY <2>2
  <2>4. ASSUME NEW x \in Mine(me)', Recorded(row, x) PROVE RecordedBy(ctl'.st, row.spec.strategy, x)
    <3>1. x \in Slots /\ assign[x] # None
      BY <2>1, <2>4 DEF Mine, slotVars
    <3>2. CASE ctl'.st.key = row.status.key /\ row.status.members \subseteq ctl'.st.members
      BY <2>4, <3>2 DEF Recorded, RecordedBy
    <3> QED BY <2>2, <2>4, <3>1, <3>2, RetainedKeep
  <2> QED BY <2>1, <2>3, <2>4 DEF Saves, Recorded
<1> QED BY <1>1, <1>2, <1>3

\* One slot less in the queue.
LEMMA QueueShrinks ==
  ASSUME CtlOK, NEW x \in ctl.queue
  PROVE  /\ Cardinality(ctl.queue \ {x}) = Cardinality(ctl.queue) - 1
         /\ Cardinality(ctl.queue) \in Nat /\ Cardinality(ctl.queue \ {x}) \in Nat
<1>1. ctl.queue \subseteq Slots /\ ctl.queue \ {x} \subseteq Slots
  BY DEF CtlOK, Ctl
<1>2. IsFiniteSet(ctl.queue) /\ Cardinality(ctl.queue) \in Nat /\ Cardinality(ctl.queue \ {x}) \in Nat
  BY <1>1, SlotsFinite
<1> QED BY <1>2, FS_RemoveElement

LEMMA DeletesStep ==
  ASSUME TypeOK, Deletes, [Next]_vars
  PROVE  Deletes'
<1>0. CtlOK /\ SlotsOK
  BY TypeParts
<1> SUFFICES ASSUME ctl'.pc = "delete"
             PROVE  /\ Cardinality(ctl'.queue) + ctl'.undeployed <= ctl'.targets
                    /\ \A x \in Mine(me)' : Recorded(myRow, x)' =>
                         x \in ctl'.queue \/ Cardinality(ctl'.queue) + ctl'.undeployed < ctl'.targets
  BY DEF Deletes
<1>1. ASSUME ctl.pc = "delete", ctl'.cl = ctl.cl
      PROVE  /\ me' = me /\ myRow' = myRow
             /\ Mine(me)' \subseteq Mine(me)
  <2>1. me' = me /\ myRow' = myRow /\ me \in Sets
    BY <1>0, <1>1, Working DEF me, myRow
  <2>2. ~WriteMember
    BY <1>1 DEF WriteMember, MayWrite
  <2>3. ASSUME NEW x \in Mine(me)' PROVE x \in Mine(me)
    BY <2>1, <2>2, <2>3, MineStep DEF Mine
  <2> QED BY <2>1, <2>3
<1>2. CASE UNCHANGED ctl
  BY <1>1, <1>2 DEF Deletes, Recorded
<1>3. CASE UndeployNext
  <2>1. PICK x \in ctl.queue :
          LET rest == [ctl EXCEPT !.queue = @ \ {x}] IN
          \/ assign[x] = None /\ ctl' = rest /\ UNCHANGED slotVars
          \/ /\ assign[x] # None /\ Undeploy(x, me)
             /\ ctl' = [rest EXCEPT !.undeployed = @ + 1]
          \/ assign[x] # None /\ ctl' = rest
    BY <1>3 DEF UndeployNext
  <2>2. ctl.undeployed \in Nat /\ ctl.targets \in Nat /\ x \in Slots
    BY <1>0 DEF CtlOK, Ctl
  <2>3. /\ ctl'.pc = ctl.pc /\ ctl'.cl = ctl.cl /\ ctl'.queue = ctl.queue \ {x} /\ ctl'.targets = ctl.targets
        /\ \/ assign'[x] = None /\ ctl'.undeployed \in {ctl.undeployed, ctl.undeployed + 1}
           \/ ctl'.undeployed = ctl.undeployed
    <3>1. CASE ctl' = [ctl EXCEPT !.queue = @ \ {x}]
      BY <1>0, <3>1 DEF CtlOK, Ctl
    <3>2. CASE ctl' = [[ctl EXCEPT !.queue = @ \ {x}] EXCEPT !.undeployed = @ + 1] /\ Undeploy(x, me)
      <4>1. assign'[x] = None
        BY <1>0, <2>2, <3>2 DEF Undeploy, SlotsOK
      <4> QED BY <1>0, <3>2, <4>1 DEF CtlOK, Ctl
    <3> QED BY <2>1, <3>1, <3>2
  <2>4. /\ Cardinality(ctl.queue) \in Nat
        /\ Cardinality(ctl'.queue) = Cardinality(ctl.queue) - 1
    BY <1>0, <2>3, QueueShrinks
  <2>5. Cardinality(ctl'.queue) + ctl'.undeployed <= Cardinality(ctl.queue) + ctl.undeployed
    BY <2>2, <2>3, <2>4
  <2>6. Cardinality(ctl.queue) + ctl.undeployed <= ctl.targets
    BY <2>3 DEF Deletes
  <2>7. ASSUME NEW y \in Mine(me)', Recorded(myRow, y)'
        PROVE  y \in ctl'.queue \/ Cardinality(ctl'.queue) + ctl'.undeployed < ctl'.targets
    <3>1. y \in Mine(me) /\ Recorded(myRow, y) /\ assign'[y] # None
      BY <1>1, <2>3, <2>7 DEF Recorded, Mine
    <3>2. y \in ctl.queue \/ Cardinality(ctl.queue) + ctl.undeployed < ctl.targets
      BY <2>3, <3>1 DEF Deletes
    <3>3. CASE y = x
      BY <2>2, <2>3, <2>4, <2>6, <3>1, <3>3
    <3>4. CASE Cardinality(ctl.queue) + ctl.undeployed < ctl.targets
      BY <2>2, <2>3, <2>4, <3>4
    <3> QED BY <2>3, <3>2, <3>3, <3>4
  <2>8. Cardinality(ctl'.queue) + ctl'.undeployed <= ctl'.targets
    BY <2>2, <2>3, <2>4, <2>5, <2>6
  <2> QED BY <2>7, <2>8
<1>4. CASE StartDelete
  <2>1. PICK cl \in ctl.todo :
          ctl' = [Idle EXCEPT !.pc = "delete", !.todo = ctl.todo \ {cl}, !.cl = cl,
                              !.queue = assignedSlots(cl.row), !.targets = Cardinality(assignedSlots(cl.row))]
    BY <1>4 DEF StartDelete
  <2>2. /\ ctl'.cl = cl /\ ctl'.queue = assignedSlots(cl.row) /\ ctl'.undeployed = 0
        /\ ctl'.targets = Cardinality(assignedSlots(cl.row))
    BY <2>1 DEF Idle
  <2>3. Cardinality(assignedSlots(cl.row)) \in Nat
    BY SlotsFinite, OwnedAreSlots
  <2>4. UNCHANGED slotVars
    BY <1>4 DEF StartDelete
  <2>5. ASSUME NEW y \in Mine(me)', Recorded(myRow, y)' PROVE y \in ctl'.queue
    <3>1. Recorded(cl.row, y) /\ y \in Slots /\ assign[y] # None
      BY <2>2, <2>4, <2>5 DEF myRow, Recorded, Mine, slotVars
    <3> QED BY <2>2, <3>1, RecordedIsOwned DEF assignedSlots
  <2> QED BY <2>2, <2>3, <2>5
<1>5. ~StartRoll
  BY DEF StartRoll, Idle
<1> QED BY <1>2, <1>3, <1>4, <1>5, UndeploysFrom

\* What has been written is kept in hand until a status is saved.
LEMMA WrittenStays ==
  ASSUME TypeOK, Written, [Next]_vars, ~SaveStatus, ~Restart, ctl.cl # None, NEW x \in ctl.written
  PROVE  ctl'.cl = ctl.cl /\ x \in ctl'.written
<1>0. CtlOK /\ ctl.pc \in {"roll", "save"}
  BY TypeParts DEF Written, CtlOK, Ctl
<1>1. CASE UNCHANGED ctl
  BY <1>1
<1>2. ASSUME NEW st, ctl' = Saving(st) PROVE ctl'.cl = ctl.cl /\ ctl'.written = ctl.written
  BY <1>2 DEF Saving, NextSet, Idle
<1>3. CASE Controller
  <2>1. ~ReconcileAll /\ ~PassEnds /\ ~StartRoll /\ ~StartDelete /\ ~UndeployNext /\ ~FinishDelete /\ ~Observe
    BY <1>0 DEF ReconcileAll, PassEnds, StartRoll, StartDelete, UndeployNext, FinishDelete, Observe
  <2>2. CASE RemoveFamily
    BY <1>0, <2>2 DEF RemoveFamily, CtlOK, Ctl
  <2>3. CASE WriteMember
    BY <1>0, <2>3 DEF WriteMember, CtlOK, Ctl
  <2>4. CASE FinishRoll
    BY <1>2, <2>4 DEF FinishRoll
  <2> QED BY <1>3, <2>1, <2>2, <2>3, <2>4 DEF Controller
<1>4. CASE ControllerFaults
  <2>1. ~ArtifactFails /\ ~UndeployFails /\ ~MountFails
    BY <1>0 DEF ArtifactFails, UndeployFails, MountFails
  <2> QED BY <1>2, <1>4, <2>1 DEF ControllerFaults, AssignFails, AssignFailed
<1>5. CASE Calls
  BY <1>1, <1>5 DEF Calls, Admit, ApplyAssignmentSet, DeleteAssignmentSet, MarkAssignmentSetDeleting,
              CheckVerb, CommitVerb
<1>6. CASE Environment
  BY <1>1, <1>6 DEF Environment, Take, Verdict, Flap, DeadlinePasses
<1>7. CASE UNCHANGED vars
  BY <1>1, <1>7 DEF vars
<1> QED BY <1>3, <1>4, <1>5, <1>6, <1>7 DEF Next

\* The record of a lost write is not forgotten but by a save that makes it good.
LEMMA LostStays ==
  ASSUME [Next]_vars, ~SaveStatus
  PROVE  lost \subseteq lost'
<1>1. CASE Controller
  BY <1>1 DEF Controller, ReconcileAll, PassEnds, StartRoll, StartDelete, UndeployNext, FinishDelete,
              Observe, RemoveFamily, WriteMember, FinishRoll
<1>2. CASE ControllerFaults
  BY <1>2 DEF ControllerFaults, ArtifactFails, UndeployFails, MountFails, AssignFails
<1>3. CASE Calls
  BY <1>3 DEF Calls, Admit, ApplyAssignmentSet, DeleteAssignmentSet, MarkAssignmentSetDeleting,
              CheckVerb, CommitVerb
<1>4. CASE Environment
  BY <1>4 DEF Environment, Take, Verdict, Flap, DeadlinePasses, Restart
<1>5. CASE UNCHANGED vars
  BY <1>5 DEF vars
<1> QED BY <1>1, <1>2, <1>3, <1>4, <1>5 DEF Next

LEMMA KeptStep ==
  ASSUME TypeOK, MarkLocks = TRUE, OneFamily, OrphanInv, [Next]_vars
  PROVE  Kept'
<1>0. CtlOK /\ SetsOK /\ SpecsKnown /\ Fresh /\ Written /\ Saves /\ Deletes /\ Kept
  BY TypeParts DEF OrphanInv
<1> SUFFICES ASSUME NEW s \in Sets, NEW x \in Mine(s)'
             PROVE  \/ x \in lost'
                    \/ ctl'.cl # None /\ me' = s /\ x \in ctl'.written
                    \/ sets'[s] # None /\ Recorded(sets'[s], x)
  BY DEF Kept, Recorded
<1>1. ASSUME ctl.cl # None
      PROVE  /\ ctl.cl \in Snaps /\ sets[me] # None
             /\ sets[me].status.members = myRow.status.members
             /\ sets[me].status.key = myRow.status.key
             /\ sets[me].spec.strategy = myRow.spec.strategy
  BY <1>0, <1>1 DEF Snaps, Fresh, SameRecord, me, myRow
<1>2. ASSUME NEW q, NEW r, SameRecord(q, r), Recorded(r, x) PROVE Recorded(q, x)
  BY <1>2 DEF SameRecord, Recorded, RecordedBy
<1>3. CASE x \notin Mine(s)
  <2>1. WriteMember /\ s = me /\ x \in ctl'.written
    BY <1>3, MineStep
  <2>2. ctl'.cl = ctl.cl /\ ctl.cl # None
    BY <1>0, <2>1 DEF WriteMember, MayWrite, CtlOK, Ctl
  <2> QED BY <2>1, <2>2 DEF me
<1>4. CASE x \in Mine(s) /\ SaveStatus
  <2>1. ctl.pc = "save" /\ ctl.cl # None /\ UNCHANGED <<assign, writer>> /\ ctl.st \in SetStatus
        /\ myRow.status.key \in {"", "member"}
    BY <1>0, <1>4, Working DEF SaveStatus, CtlOK, Ctl, slotVars
  <2>2. \/ x \in lost
        \/ me = s /\ x \in ctl.written
        \/ sets[s] # None /\ Recorded(sets[s], x)
    BY <1>0, <1>4 DEF Kept
  <2>3. CASE s # me
    <3>1. lost \ {y \in ctl.st.members : writer[y] = me} \subseteq lost'
      BY <1>4 DEF SaveStatus
    <3>2. writer[x] = s
      BY <1>4 DEF Mine
    <3>3. sets[s] # None => sets'[s] # None /\ SameRecord(sets'[s], sets[s])
      BY <1>0, <1>4, <2>1, <2>3, RowsRecord DEF FinishDelete
    <3> QED BY <1>2, <2>2, <2>3, <3>1, <3>2, <3>3
  <2>4. CASE /\ s = me /\ sets'[s] # None
             /\ sets'[s].spec = sets[s].spec /\ sets'[s].status.members = ctl.st.members
             /\ sets'[s].status.key = IF ctl.st.key = "" THEN sets[s].status.key ELSE ctl.st.key
             /\ lost' = lost \ {y \in ctl.st.members : writer[y] = me}
    <3>1. sets'[s].status.key = ctl.st.key
      BY <1>0, <1>1, <2>1, <2>4 DEF Saves
    <3>2. ASSUME RecordedBy(ctl.st, myRow.spec.strategy, x) PROVE Recorded(sets'[s], x)
      BY <1>1, <2>1, <2>4, <3>1, <3>2 DEF Recorded, RecordedBy
    <3>3. CASE x \in ctl.st.members
      BY <2>4, <3>3 DEF Recorded, RecordedBy
    <3>4. CASE Recorded(sets[s], x)
      <4>1. Recorded(myRow, x)
        BY <1>1, <2>1, <2>4, <3>4 DEF Recorded, RecordedBy
      <4> QED BY <1>0, <1>4, <2>1, <2>4, <3>2, <4>1 DEF Saves
    <3> QED BY <1>0, <2>1, <2>2, <2>4, <3>3, <3>4 DEF Written
  <2>5. CASE s = me /\ sets[s] # None /\ sets'[s] # None /\ SameRecord(sets'[s], sets[s])
    <3>1. \/ lost' = lost \ {y \in ctl.st.members : writer[y] = me} /\ ctl.st # myRow.status
             /\ sets' = [sets EXCEPT ![me].status = preserveDeleting(@, ctl.st)]
          \/ lost' = lost \cup ctl.written
          \/ lost' = lost /\ (ctl.st = myRow.status \/ sets[me] = None)
      BY <1>4 DEF SaveStatus
    <3>2. CASE lost' = lost \cup ctl.written
      BY <1>2, <2>2, <2>5, <3>2
    <3>3. CASE lost' = lost /\ ctl.st = myRow.status
      <4>1. x \in ctl.written => Recorded(sets[s], x)
        BY <1>0, <1>1, <2>1, <2>5, <3>3 DEF Written, Recorded, RecordedBy
      <4> QED BY <1>2, <2>2, <2>5, <3>3, <4>1
    <3>4. CASE /\ lost' = lost \ {y \in ctl.st.members : writer[y] = me}
               /\ sets' = [sets EXCEPT ![me].status = preserveDeleting(@, ctl.st)]
      <4>1. sets'[s].status.members = ctl.st.members
        <5>1. sets[s] \in Row /\ sets[s].status \in SetStatus
          BY <1>0, <2>5 DEF SetsOK, Row
        <5>2. sets'[s].status = preserveDeleting(sets[s].status, ctl.st)
          BY <1>0, <2>5, <3>4, <5>1 DEF SetsOK, Row
        <5> QED BY <2>1, <5>1, <5>2 DEF preserveDeleting, SetStatus
      <4>2. x \in ctl.st.members => Recorded(sets'[s], x)
        BY <4>1 DEF Recorded, RecordedBy
      <4> QED BY <1>0, <1>2, <2>1, <2>2, <2>5, <3>4, <4>2 DEF Written
    <3> QED BY <1>1, <2>1, <3>1, <3>2, <3>3, <3>4
  <2>6. s = me => sets[s] # None
    BY <1>1, <2>1
  <2> QED BY <1>0, <1>4, <2>1, <2>3, <2>4, <2>5, <2>6, RowsRecord DEF FinishDelete
<1>5. CASE x \in Mine(s) /\ ~SaveStatus
  <2>1. \/ x \in lost
        \/ ctl.cl # None /\ me = s /\ x \in ctl.written
        \/ sets[s] # None /\ Recorded(sets[s], x)
    BY <1>0, <1>5 DEF Kept
  <2>2. CASE x \in lost
    BY <1>5, <2>2, LostStays
  <2>3. CASE ctl.cl # None /\ me = s /\ x \in ctl.written
    <3>1. CASE Restart
      BY <2>3, <3>1 DEF Restart
    <3>2. CASE ~Restart
      BY <1>0, <1>5, <2>3, <3>2, WrittenStays DEF me
    <3> QED BY <3>1, <3>2
  <2>4. CASE x \notin lost /\ ~(ctl.cl # None /\ me = s /\ x \in ctl.written)
             /\ sets[s] # None /\ Recorded(sets[s], x)
    <3>1. CASE FinishDelete /\ s = me /\ ctl.queue = {} /\ ~Leftover
      <4>1. ctl.pc = "delete" /\ ctl.cl # None /\ ctl.undeployed \in Nat /\ ctl.targets \in Nat
        BY <1>0, <3>1 DEF FinishDelete, CtlOK, Ctl
      <4>2. Recorded(myRow, x)
        BY <1>1, <2>4, <3>1, <4>1 DEF Recorded, RecordedBy
      <4>3. Cardinality(ctl.queue) = 0
        BY <3>1, FS_EmptySet
      <4>4. x \in ctl.queue \/ Cardinality(ctl.queue) + ctl.undeployed < ctl.targets
        BY <1>0, <1>5, <3>1, <4>1, <4>2 DEF Deletes
      <4> QED BY <3>1, <4>1, <4>3, <4>4 DEF Leftover
    <3> QED BY <1>0, <1>2, <1>5, <2>4, <3>1, RowsRecord
  <2> QED BY <2>1, <2>2, <2>3, <2>4
<1> QED BY <1>3, <1>4, <1>5

\* The rows begun with record what is assigned for them.
AllRecorded == \A s \in Sets : \A x \in Mine(s) : sets[s] # None /\ Recorded(sets[s], x)

\* Between two reconciles every slot a set was the last to write is found again
\* by the set, for any order of applies, partial drops, key flips, deletions,
\* human verbs, faults and restarts (NoOrphan).  The mark of a deletion is made
\* under the row's lock, and no apply changes the set's strategy: without either
\* the property fails.
THEOREM NoneOrphaned ==
  ASSUME MarkLocks = TRUE, OneFamily
  PROVE  Spec /\ AllRecorded => []NoOrphan
<1> DEFINE Inv == TypeOK /\ OrphanInv
<1>1. Init /\ AllRecorded => Inv
  <2> SUFFICES ASSUME Init, AllRecorded PROVE OrphanInv
    BY InitType
  <2>1. ctl.pc = "idle" /\ ctl.cl = None /\ ctl.written = {} /\ Snaps = {}
    BY DEF Init, Idle, Snaps
  <2>2. SpecsKnown
    BY DEF Init, SpecsKnown, SpecsOf
  <2> QED BY <2>1, <2>2 DEF OrphanInv, Apart, Fresh, Written, Saves, Deletes, Kept, AllRecorded
<1>2. Inv /\ [Next]_vars => Inv'
  <2> SUFFICES ASSUME Inv, [Next]_vars PROVE Inv'
    OBVIOUS
  <2>1. TypeOK' /\ SpecsKnown' /\ Apart' /\ Fresh'
    BY TypeStep, SpecsStep, FreshStep DEF OrphanInv
  <2>2. Written' /\ Saves' /\ Deletes' /\ Kept'
    BY WrittenStep, SavesStep, DeletesStep, KeptStep DEF OrphanInv
  <2> QED BY <2>1, <2>2 DEF OrphanInv
<1>3. Inv => NoOrphan
  <2> SUFFICES ASSUME Inv, ctl.pc \in {"idle", "next"}, NEW x \in Slots, NEW s \in Sets,
                      assign[x] # None, writer[x] = s
               PROVE  x \in lost \/ (sets[s] # None /\ x \in ownedSlots(sets[s]))
    BY DEF NoOrphan
  <2>1. ctl.written = {} /\ x \in Mine(s)
    BY DEF OrphanInv, Written, Mine
  <2>2. x \in lost \/ (sets[s] # None /\ Recorded(sets[s], x))
    BY <2>1 DEF OrphanInv, Kept
  <2> QED BY <2>2, RecordedIsOwned
<1> QED BY <1>1, <1>2, <1>3, PTL DEF Spec

=============================================================================
