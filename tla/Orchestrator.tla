---------------------------- MODULE Orchestrator ----------------------------
(***************************************************************************)
(* AssignmentSets on the control plane: the controller that rolls a set's  *)
(* members (internal/controlplane/orchestrator), the write path it shares  *)
(* with the human verbs (internal/controlplane/assign), the sets and their *)
(* reservations in the store (store/memory_sets.go, postgres_sets.go) and  *)
(* the calls that apply and delete a set (api/assignmentset.go).           *)
(*                                                                         *)
(* The controller is one goroutine that works on the rows ListAssignment-  *)
(* Sets returned when its pass began, one store write per step; calls and  *)
(* the agents' reports come in between.  An agent is what it reports of a  *)
(* slot: at any time after a write it takes the new assignment up, and     *)
(* later reaches a verdict.                                                *)
(***************************************************************************)
EXTENDS Naturals, Sequences, FiniteSets

CONSTANTS
  Sets, SetOrder,          \* AssignmentSet names, and their order
  Machines, Names,         \* an assignment slot is a machine and a strategy name
  SlotOrder,               \* the slots of the instance, by machine, then by name
  Versions, Templates,     \* what an artifact version and a rendered template are told apart by
  None, Human,             \* no value; the writer of a human verb's assignment
  History,                 \* History[s]: the specs applied to s, in order
  Verbs,                   \* human writes: [slot, want]
  InitSets, InitAssign,    \* rows and assignments the run begins with
  MarkLocks,               \* MarkAssignmentSetDeleting holds the row: memory yes, Postgres no
  Events, MaxEvents        \* faults, restarts and calls that may happen, each once; how many of them

Slots == {SlotOrder[i] : i \in 1..Len(SlotOrder)}
Kinds == {"artifact", "mount", "assign", "status", "fail", "flap", "restart", "delete", "verb"}
Phases == {"Pending", "Rolling", "Ready", "Degraded", "Failed", "Deleting"}

Assignment == [ver : Versions, tmpl : Templates]
SetSpec == [members : SUBSET Slots, strategy : Names, ver : Versions, tmpl : Templates, max : Nat \ {0}]
SetStatus == [phase : Phases, observed : Nat, members : SUBSET Slots, key : {"", "member"}, deleting : BOOLEAN]
Row == [spec : SetSpec, generation : Nat, status : SetStatus]
Snapshot == [name : Sets, row : Row]
Report == [on : Assignment, phase : {"deploying", "healthy", "failed", "rolledback"},
           run : Versions \cup {None}, ready : BOOLEAN]

ASSUME OrchestratorAssumption ==
  /\ SetOrder \in Seq(Sets) /\ \A s \in Sets : \E i \in 1..Len(SetOrder) : SetOrder[i] = s
  /\ SlotOrder \in Seq(Machines \X Names)
  /\ None \notin Sets \cup Assignment \cup SetSpec \cup SetStatus \cup Row \cup Snapshot \cup Report \cup Verbs
  /\ Human \notin Sets \cup {None}
  /\ History \in [Sets -> Seq(SetSpec)]
  /\ Verbs \subseteq [slot : Slots, want : Assignment \cup {None}]
  /\ InitSets \in [Sets -> Row \cup {None}]
  /\ InitAssign \in [Slots -> Assignment \cup {None}]
  /\ MarkLocks \in BOOLEAN
  /\ Events \subseteq Kinds /\ MaxEvents \in Nat

VARIABLES
  sets,      \* the assignment_sets rows
  assign,    \* assign[x]: MachineRecord.Assignments
  status,    \* status[x]: MachineRecord.Status
  ctl,       \* the controller: its pass, and the reconcile it is in
  deadline,  \* deadline[s][x]: Controller.deadlines
  applying,  \* applying[s]: the spec of an ApplyAssignmentSet call that passed admission
  marks,     \* DeleteAssignmentSet calls: the rows they looked up
  verb,      \* a human verb that passed the reservation check
  sent,      \* sent[s]: how much of History[s] has been applied
  used,      \* the events that have happened
  writer,    \* (history) writer[x]: who last wrote assignment x
  awaiting,  \* (history) slots written by the controller and not ready since
  lost       \* (history) slots whose status row a failed write or a restart kept from being saved

setVars == <<sets, applying, marks, sent>>
slotVars == <<assign, status, writer, awaiting>>
vars == <<setVars, slotVars, ctl, deadline, verb, used, lost>>

Spend(k) ==
  /\ k \in Events \ used /\ Cardinality(used) < MaxEvents
  /\ used' = used \cup {k}

----------------------------------------------------------------------------
(* Slots a set claims, owns, drops *)

Family(row, m) == <<m, row.spec.strategy>>
MachinesOf(S) == {x[1] : x \in S}

\* claimedSlots: while assignment_key is empty the family name too.
claimedSlots(row) ==
  row.spec.members \cup
  IF row.status.key = "" THEN {Family(row, m) : m \in MachinesOf(row.spec.members)} ELSE {}

\* The rows the run begins with were admitted one by one.
ASSUME InitClaimsAssumption ==
  \A s, u \in Sets : s # u /\ InitSets[s] # None /\ InitSets[u] # None =>
    claimedSlots(InitSets[s]) \cap claimedSlots(InitSets[u]) = {}

\* ownedSlots: what the set may have assigned, for all the controller knows.
ownedSlots(row) ==
  LET named == row.spec.members \cup row.status.members IN
  named \cup
  IF row.status.key # "member" THEN {Family(row, m) : m \in MachinesOf(named)} ELSE {}

\* familyLeftover: the slots a member is to replace in one go.
familyLeftover(row) ==
  IF row.status.key = "member" THEN {}
  ELSE {Family(row, m) : m \in MachinesOf(row.spec.members)} \ row.spec.members

assignedSlots(row) == {x \in ownedSlots(row) \cap Slots : assign[x] # None}
droppedSlots(row) == assignedSlots(row) \ (row.spec.members \cup familyLeftover(row))

withRetainedDrops(row, rows) == rows \cup droppedSlots(row)

transitionComplete(row) ==
  /\ row.spec.members # {}
  /\ \A x \in row.spec.members : assign[x] # None
  /\ droppedSlots(row) = {}
  /\ assignedSlots(row) \cap familyLeftover(row) = {}

Before(order, x, y) ==
  \E i, j \in 1..Len(order) : i < j /\ order[i] = x /\ order[j] = y

\* x is the next of S to be worked on.
IsFirst(S, x) == x \in S /\ \A y \in S \ {x} : Before(SlotOrder, x, y)

\* computeAssignment.
Computed(row) == [ver |-> row.spec.ver, tmpl |-> row.spec.tmpl]

\* view.IsConverged and ReadyConditionTrue; args and env are not looked at.
ReadyAs(x, a) ==
  /\ status[x] # None
  /\ status[x].phase = "healthy" /\ status[x].ready
  /\ status[x].run = a.ver
Ready(x) == assign[x] # None /\ ReadyAs(x, assign[x])

----------------------------------------------------------------------------
(* The store's write path for assignments *)

\* SetAssignment(nil): the report goes with the assignment.
Undeploy(x, who) ==
  /\ assign' = [assign EXCEPT ![x] = None]
  /\ status' = [status EXCEPT ![x] = None]
  /\ writer' = [writer EXCEPT ![x] = IF assign[x] = None THEN @ ELSE who]
  /\ awaiting' = awaiting \ {x}

\* SetAssignment.
SetAssignment(x, a, who) ==
  /\ assign' = [assign EXCEPT ![x] = a]
  /\ writer' = [writer EXCEPT ![x] = IF assign[x] = a THEN @ ELSE who]
  /\ awaiting' = IF who = Human \/ ReadyAs(x, a) THEN awaiting \ {x} ELSE awaiting \cup {x}
  /\ UNCHANGED status

----------------------------------------------------------------------------
(* Calls: apply and delete a set, human verbs *)

\* reservationConflict, with the persisted assignment_key.
KeyOf(s) == IF sets[s] = None THEN "" ELSE sets[s].status.key
ClaimsOf(s, spec) == claimedSlots([spec |-> spec, status |-> [key |-> KeyOf(s)]])

\* Sets whose claims count: ReservedBy and reservationConflict pass over deleting ones.
Live(s) == sets[s] # None /\ ~sets[s].status.deleting

\* (seeded fault: member names are compared, the family name is not)
reservationConflict_MembersOnly(s, spec) ==
  \E o \in Sets \ {s} : Live(o) /\ claimedSlots(sets[o]) \cap spec.members # {}

reservationConflict(s, spec) ==
  \E o \in Sets \ {s} : Live(o) /\ claimedSlots(sets[o]) \cap ClaimsOf(s, spec) # {}

Reserved(x) == \E o \in Sets : Live(o) /\ x \in claimedSlots(sets[o])

\* rejectUnownedSlots: a slot of another live set, or assigned and of no live set.
rejectUnownedSlots(s, spec) ==
  \/ reservationConflict(s, spec)
  \/ \E x \in ClaimsOf(s, spec) \cap Slots : ~Reserved(x) /\ assign[x] # None

\* The API handler ApplyAssignmentSet, up to the store call.
Admit(s) ==
  /\ applying[s] = None /\ sent[s] < Len(History[s])
  /\ LET spec == History[s][sent[s] + 1] IN
       /\ ~rejectUnownedSlots(s, spec)
       /\ applying' = [applying EXCEPT ![s] = spec]
  /\ sent' = [sent EXCEPT ![s] = @ + 1]
  /\ UNCHANGED <<sets, marks, slotVars, ctl, deadline, verb, used, lost>>

NewRow(spec) ==
  [spec |-> spec, generation |-> 1,
   status |-> [phase |-> "Pending", observed |-> 0, members |-> {}, key |-> "", deleting |-> FALSE]]

\* The store's ApplyAssignmentSet; a conflict, or the spec in force, changes nothing.
ApplyAssignmentSet(s) ==
  /\ applying[s] # None
  /\ applying' = [applying EXCEPT ![s] = None]
  /\ \/ /\ ~reservationConflict(s, applying[s])
        /\ sets[s] = None
        /\ sets' = [sets EXCEPT ![s] = NewRow(applying[s])]
     \/ /\ ~reservationConflict(s, applying[s])
        /\ sets[s] # None
        /\ sets[s].spec # applying[s]
        /\ sets' = [sets EXCEPT ![s].spec = applying[s], ![s].generation = @ + 1]
     \/ /\ \/ reservationConflict(s, applying[s])
           \/ sets[s] # None /\ sets[s].spec = applying[s]
        /\ UNCHANGED sets
  /\ UNCHANGED <<marks, sent, slotVars, ctl, deadline, verb, used, lost>>

\* The API handler DeleteAssignmentSet, up to the store call; the lookup of
\* Postgres's MarkAssignmentSetDeleting is taken together with the handler's own.
DeleteAssignmentSet(s) ==
  /\ sets[s] # None
  /\ Spend("delete")
  /\ marks' = marks \cup {[name |-> s, row |-> sets[s]]}
  /\ UNCHANGED <<sets, applying, sent, slotVars, ctl, deadline, verb, lost>>

Marked(row) == [row EXCEPT !.status.deleting = TRUE, !.status.phase = "Deleting"]

\* Memory marks the row of now, or finds none; Postgres writes the whole row it
\* had looked up, whatever has become of it.
MarkAssignmentSetDeleting(m) ==
  /\ marks' = marks \ {m}
  /\ LET row == IF MarkLocks THEN sets[m.name] ELSE m.row IN
       sets' = IF row = None THEN sets ELSE [sets EXCEPT ![m.name] = Marked(row)]
  /\ UNCHANGED <<applying, sent, slotVars, ctl, deadline, verb, used, lost>>

\* assign.Apply for a human verb: the reservation check, and later the write.
CheckVerb(v) ==
  /\ verb = None
  /\ Spend("verb")
  /\ ~Reserved(v.slot)
  /\ v.want = None => assign[v.slot] # None
  /\ verb' = v
  /\ UNCHANGED <<setVars, slotVars, ctl, deadline, lost>>

CommitVerb ==
  /\ verb # None
  /\ verb' = None
  /\ IF verb.want = None THEN Undeploy(verb.slot, Human)
     ELSE SetAssignment(verb.slot, verb.want, Human)
  /\ UNCHANGED <<setVars, ctl, deadline, used, lost>>

----------------------------------------------------------------------------
(* The controller's pass *)

Idle ==
  [pc |-> "idle", todo |-> {}, cl |-> None, queue |-> {}, undeployed |-> 0, targets |-> 0,
   legacy |-> {}, room |-> 0, waiting |-> FALSE, inflight |-> FALSE, written |-> {}, st |-> None]

me == ctl.cl.name
myRow == ctl.cl.row

\* The rest of the pass.
NextSet == [Idle EXCEPT !.pc = "next", !.todo = ctl.todo]

\* ReconcileAll: ListAssignmentSets, once.
ReconcileAll ==
  /\ ctl.pc = "idle"
  /\ \E s \in Sets : sets[s] # None
  /\ ctl' = [Idle EXCEPT !.pc = "next",
                         !.todo = {[name |-> s, row |-> sets[s]] : s \in {s \in Sets : sets[s] # None}}]
  /\ UNCHANGED <<setVars, slotVars, deadline, verb, used, lost>>

PassEnds ==
  /\ ctl.pc = "next" /\ ctl.todo = {}
  /\ ctl' = Idle
  /\ UNCHANGED <<setVars, slotVars, deadline, verb, used, lost>>

\* cl is the next set of the pass.
Comes(cl) == cl \in ctl.todo /\ \A o \in ctl.todo \ {cl} : Before(SetOrder, cl.name, o.name)

\* setStatus is called with st; the write is a step of its own (SaveStatus).
\* preserveDeleting: a key once set, and a mark, survive the write.
preserveDeleting(cur, st) ==
  [st EXCEPT !.phase = IF cur.deleting THEN "Deleting" ELSE @,
             !.deleting = @ \/ cur.deleting,
             !.key = IF @ = "" THEN cur.key ELSE @]

Saving(st) == [NextSet EXCEPT !.pc = "save", !.cl = ctl.cl, !.written = ctl.written, !.st = st]

NewStatus(phase, observed, members, key, deleting) ==
  [phase |-> phase, observed |-> observed, members |-> members, key |-> key, deleting |-> deleting]

\* The status of an early return: generation and key as they were.
Stopped(phase, r, members) ==
  NewStatus(phase, r.status.observed, members, r.status.key, FALSE)

AssignFailed(members) == Saving(Stopped("Failed", myRow, withRetainedDrops(myRow, members)))

\* UpdateAssignmentSetStatus, unless the status is the one the pass began with.
SaveStatus ==
  /\ ctl.pc = "save"
  /\ ctl' = NextSet
  /\ \/ /\ ctl.st # myRow.status /\ sets[me] # None
        /\ sets' = [sets EXCEPT ![me].status = preserveDeleting(@, ctl.st)]
        /\ lost' = lost \ {x \in ctl.st.members : writer[x] = me}
        /\ UNCHANGED used
     \/ /\ ctl.st # myRow.status /\ sets[me] # None   \* the write fails
        /\ Spend("status")
        /\ lost' = lost \cup ctl.written
        /\ UNCHANGED sets
     \/ /\ ctl.st = myRow.status \/ sets[me] = None
        /\ UNCHANGED <<sets, lost, used>>
  /\ UNCHANGED <<applying, marks, sent, slotVars, deadline, verb>>

\* Reconcile of a set that is not deleting, up to the drops.
StartRoll ==
  /\ ctl.pc = "next"
  /\ \E cl \in ctl.todo :
       /\ Comes(cl) /\ ~cl.row.status.deleting
       /\ ctl' = [Idle EXCEPT !.pc = "drain", !.todo = ctl.todo \ {cl}, !.cl = cl,
                              !.queue = droppedSlots(cl.row)]
  /\ UNCHANGED <<setVars, slotVars, deadline, verb, used, lost>>

\* The artifact or a config is not registered, or not READY any more.
ArtifactFails ==
  /\ ctl.pc = "next"
  /\ Spend("artifact")
  /\ \E cl \in ctl.todo :
       /\ Comes(cl) /\ ~cl.row.status.deleting
       /\ ctl' = [Idle EXCEPT !.pc = "save", !.todo = ctl.todo \ {cl}, !.cl = cl,
                              !.st = Stopped("Failed", cl.row, cl.row.status.members)]
  /\ UNCHANGED <<setVars, slotVars, deadline, verb, lost>>

\* reconcileDelete.
StartDelete ==
  /\ ctl.pc = "next"
  /\ \E cl \in ctl.todo :
       /\ Comes(cl) /\ cl.row.status.deleting
       /\ ctl' = [Idle EXCEPT !.pc = "delete", !.todo = ctl.todo \ {cl}, !.cl = cl,
                              !.queue = assignedSlots(cl.row),
                              !.targets = Cardinality(assignedSlots(cl.row))]
  /\ UNCHANGED <<setVars, slotVars, deadline, verb, used, lost>>

clearDeadline(s, X) == deadline' = [deadline EXCEPT ![s] = [x \in Slots |-> IF x \in X THEN "none" ELSE @[x]]]
pruneClusterDeadlines(s) == clearDeadline(s, Slots)

\* undeploySlots, one slot a step: at most maxUnavailable of them are taken away.
UndeployNext ==
  /\ ctl.pc \in {"drain", "delete"}
  /\ \E x \in ctl.queue :
       /\ IsFirst(ctl.queue, x)
       /\ LET rest == [ctl EXCEPT !.queue = @ \ {x}] IN
          \/ /\ assign[x] = None
             /\ ctl' = rest
             /\ clearDeadline(me, {x})
             /\ UNCHANGED slotVars
          \/ /\ assign[x] # None /\ ctl.undeployed < myRow.spec.max
             /\ ctl' = [rest EXCEPT !.undeployed = @ + 1]
             /\ Undeploy(x, me)
             /\ clearDeadline(me, {x})
          \/ /\ assign[x] # None /\ ctl.undeployed >= myRow.spec.max
             /\ ctl' = rest
             /\ UNCHANGED <<slotVars, deadline>>
  /\ UNCHANGED <<setVars, verb, used, lost>>

\* The store refuses an undeploy.
UndeployFails ==
  /\ ctl.pc \in {"drain", "delete"} /\ ctl.undeployed < myRow.spec.max
  /\ \E x \in ctl.queue : IsFirst(ctl.queue, x) /\ assign[x] # None
  /\ Spend("assign")
  /\ ctl' = AssignFailed(myRow.status.members)
  /\ UNCHANGED <<setVars, slotVars, deadline, verb, lost>>

\* (seeded fault: a set with nothing left to undeploy is taken for one that drains)
Leftover_Always == ctl.targets >= ctl.undeployed

\* (seeded fault: the row goes with the first slot)
Leftover_UntilFirst == ctl.targets > 0 /\ ctl.undeployed = 0

\* Targets reconcileDelete found and did not remove in this pass.
Leftover == ctl.targets > ctl.undeployed

\* reconcileDelete: more to undeploy, or the row goes.
FinishDelete ==
  /\ ctl.pc = "delete" /\ ctl.queue = {}
  /\ \/ /\ Leftover
        /\ ctl' = Saving(NewStatus("Deleting", myRow.status.observed, myRow.status.members, myRow.status.key, TRUE))
        /\ UNCHANGED <<sets, deadline>>
     \/ /\ ~Leftover
        /\ ctl' = NextSet
        /\ pruneClusterDeadlines(me)
        /\ sets' = [sets EXCEPT ![me] = None]
  /\ UNCHANGED <<applying, marks, sent, slotVars, verb, used, lost>>

----------------------------------------------------------------------------
(* Rolling the members *)

Matched == {x \in myRow.spec.members : assign[x] = Computed(myRow)}
Candidates == myRow.spec.members \ Matched
Inflight == {x \in Matched : ~Ready(x)}
ReadyConditionTrue(x) == status[x] # None /\ status[x].ready

\* Members whose family slot still runs: legacy in Reconcile.
Legacy == {x \in Candidates : Family(myRow, x[1]) \in familyLeftover(myRow) \cap Slots
                            /\ assign[Family(myRow, x[1])] # None}

Rejected(x) == status[x] # None /\ status[x].phase \in {"failed", "rolledback"}
TimedOut(x) == deadline[me][x] = "past" /\ ~ReadyConditionTrue(x)

\* The loop over the in-flight members ends at the first of these.
Stops == {x \in Inflight : Rejected(x) \/ TimedOut(x)}
FirstStop == CHOOSE x \in Stops : IsFirst(Stops, x)

\* Deadlines armed by the loop: those not set of the members it gets past.
Armed(x) ==
  /\ x \in Inflight /\ deadline[me][x] = "none"
  /\ Stops # {} => Before(SlotOrder, x, FirstStop)

\* (seeded fault: members in flight are left out of the budget)
Budget_IgnoresInflight ==
  IF ctl.undeployed < myRow.spec.max THEN myRow.spec.max - ctl.undeployed ELSE 0

\* (seeded fault: the budget is not kept from going negative)
Budget_Unclamped == myRow.spec.max - (Cardinality(Inflight) + ctl.undeployed)

Budget ==
  LET taken == Cardinality(Inflight) + ctl.undeployed IN
  IF taken < myRow.spec.max THEN myRow.spec.max - taken ELSE 0

\* The members as Reconcile finds them: their machines' records are read one by
\* one, here together, since each tells of one machine alone.
Observe ==
  /\ ctl.pc = "drain" /\ ctl.queue = {}
  /\ deadline' = [deadline EXCEPT ![me] = [x \in Slots |->
                    IF x \in Matched \ Inflight THEN "none" ELSE IF Armed(x) THEN "armed" ELSE @[x]]]
  /\ \/ /\ Stops = {}
        /\ ctl' = [ctl EXCEPT !.pc = "roll", !.queue = Candidates, !.legacy = Legacy,
                              !.room = Budget, !.waiting = Candidates # {}, !.inflight = Inflight # {}]
     \/ /\ Stops # {}
        /\ ctl' = Saving(Stopped(IF Rejected(FirstStop) THEN "Failed" ELSE "Degraded",
                                 myRow, withRetainedDrops(myRow, myRow.spec.members)))
  /\ UNCHANGED <<setVars, slotVars, verb, used, lost>>

\* A mount of some member is not there, or has another live writer.
MountFails ==
  /\ ctl.pc = "drain" /\ ctl.queue = {}
  /\ Spend("mount")
  /\ \E x \in myRow.spec.members : clearDeadline(me, {y \in Matched \ Inflight : Before(SlotOrder, y, x)})
  /\ ctl' = AssignFailed(myRow.status.members)
  /\ UNCHANGED <<setVars, slotVars, verb, lost>>

\* x is the candidate to be written, while the budget lasts.
MayWrite(x) == ctl.pc = "roll" /\ IsFirst(ctl.queue, x) /\ ctl.room > 0

\* The member's family slot goes first; the member follows in the same pass.
RemoveFamily ==
  /\ \E x \in ctl.queue :
       /\ MayWrite(x) /\ x \in ctl.legacy
       /\ Undeploy(Family(myRow, x[1]), me)
       /\ clearDeadline(me, {Family(myRow, x[1])})
       /\ ctl' = [ctl EXCEPT !.legacy = @ \ {x}]
  /\ UNCHANGED <<setVars, verb, used, lost>>

WriteMember ==
  /\ \E x \in ctl.queue :
       /\ MayWrite(x) /\ x \notin ctl.legacy
       /\ SetAssignment(x, Computed(myRow), me)
       /\ deadline' = [deadline EXCEPT ![me][x] = "armed"]
       /\ ctl' = [ctl EXCEPT !.queue = @ \ {x}, !.room = @ - 1, !.written = @ \cup {x}]
  /\ UNCHANGED <<setVars, verb, used, lost>>

AssignFails ==
  /\ \E x \in ctl.queue : MayWrite(x)
  /\ Spend("assign")
  /\ ctl' = AssignFailed(myRow.spec.members)
  /\ UNCHANGED <<setVars, slotVars, deadline, verb, lost>>

\* (seeded fault: observedGeneration is taken from the row as it is by now)
ObservedGeneration_OfNow == sets[me].generation

ObservedGeneration == myRow.generation

\* The status a pass ends with.
FinishRoll ==
  /\ ctl.pc = "roll" /\ (ctl.queue = {} \/ ctl.room = 0)
  /\ LET ready == ~ctl.waiting /\ ~ctl.inflight /\ droppedSlots(myRow) = {}
         idle == ctl.waiting /\ ~ctl.inflight /\ ctl.undeployed = 0 /\ ctl.written = {} IN
       /\ ctl' = Saving(NewStatus(
            IF ready THEN "Ready" ELSE IF idle THEN "Pending" ELSE "Rolling",
            IF ready THEN ObservedGeneration ELSE myRow.status.observed,
            withRetainedDrops(myRow, myRow.spec.members),
            IF transitionComplete(myRow) THEN "member" ELSE myRow.status.key,
            FALSE))
       /\ IF ready THEN pruneClusterDeadlines(me) ELSE UNCHANGED deadline
  /\ UNCHANGED <<setVars, slotVars, verb, used, lost>>

\* The waitReadySeconds of a member run out.
DeadlinePasses(s, x) ==
  /\ deadline[s][x] = "armed" /\ ~Ready(x)
  /\ deadline' = [deadline EXCEPT ![s][x] = "past"]
  /\ UNCHANGED <<setVars, slotVars, ctl, verb, used, lost>>

\* The control plane dies: what is only in memory goes, the rows stay.
Restart ==
  /\ Spend("restart")
  /\ ctl' = Idle
  /\ deadline' = [s \in Sets |-> [x \in Slots |-> "none"]]
  /\ applying' = [s \in Sets |-> None]
  /\ marks' = {}
  /\ verb' = None
  /\ lost' = IF ctl.cl = None THEN lost ELSE lost \cup ctl.written
  /\ UNCHANGED <<sets, sent, slotVars>>

----------------------------------------------------------------------------
(* Agents, as far as their reports tell *)

\* An agent turns to an assignment.  The version it runs goes on as it is, in
\* whatever phase it was, unless it had failed; one it rolled back from is not
\* tried again.
Take(x) ==
  /\ assign[x] # None
  /\ status[x] # None => status[x].on # assign[x]
  /\ LET old == IF status[x] = None THEN [phase |-> "failed", run |-> None] ELSE status[x]
         same == old.run = assign[x].ver /\ old.phase # "failed"
         bad == old.phase = "rolledback" /\ old.on.ver = assign[x].ver IN
       status' = [status EXCEPT ![x] =
         IF same \/ bad THEN [@ EXCEPT !.on = assign[x]]
         ELSE [on |-> assign[x], phase |-> "deploying", run |-> old.run, ready |-> FALSE]]
  /\ UNCHANGED <<setVars, assign, writer, awaiting, ctl, deadline, verb, used, lost>>

\* The verdict on a deploy; a rollback needs a version to return to.
Verdict(x) ==
  /\ assign[x] # None /\ status[x] # None /\ status[x].on = assign[x]
  /\ status[x].phase = "deploying"
  /\ \/ /\ status' = [status EXCEPT ![x] = [@ EXCEPT !.phase = "healthy", !.run = assign[x].ver, !.ready = TRUE]]
        /\ awaiting' = awaiting \ {x}
        /\ UNCHANGED used
     \/ /\ Spend("fail")
        /\ \E p \in {"failed"} \cup IF status[x].run = None THEN {} ELSE {"rolledback"} :
             status' = [status EXCEPT ![x].phase = p]
        /\ UNCHANGED awaiting
  /\ UNCHANGED <<setVars, assign, writer, ctl, deadline, verb, lost>>

\* A healthy member stops answering its probe, and answers again.
Flap(x) ==
  /\ status[x] # None /\ status[x].phase = "healthy"
  /\ \/ /\ status[x].ready /\ Spend("flap")
        /\ UNCHANGED awaiting
     \/ /\ ~status[x].ready
        /\ awaiting' = IF assign[x] # None /\ status[x].run = assign[x].ver THEN awaiting \ {x} ELSE awaiting
        /\ UNCHANGED used
  /\ status' = [status EXCEPT ![x].ready = ~@]
  /\ UNCHANGED <<setVars, assign, writer, ctl, deadline, verb, lost>>

----------------------------------------------------------------------------
(* The specification *)

Init ==
  /\ sets = InitSets /\ assign = InitAssign
  /\ status = [x \in Slots |-> IF assign[x] = None THEN None
                ELSE [on |-> assign[x], phase |-> "healthy", run |-> assign[x].ver, ready |-> TRUE]]
  /\ ctl = Idle
  /\ deadline = [s \in Sets |-> [x \in Slots |-> "none"]]
  /\ applying = [s \in Sets |-> None] /\ marks = {} /\ verb = None
  /\ sent = [s \in Sets |-> 0]
  /\ used = {}
  /\ writer = [x \in Slots |->
                LET owners == {s \in Sets : sets[s] # None /\ assign[x] # None /\ x \in ownedSlots(sets[s])} IN
                IF owners = {} THEN Human ELSE CHOOSE s \in owners : TRUE]
  /\ awaiting = {} /\ lost = {}

Controller ==
  \/ ReconcileAll \/ PassEnds \/ SaveStatus
  \/ StartRoll \/ StartDelete \/ UndeployNext \/ FinishDelete
  \/ Observe \/ RemoveFamily \/ WriteMember \/ FinishRoll

ControllerFaults == ArtifactFails \/ UndeployFails \/ MountFails \/ AssignFails

Calls ==
  \/ \E s \in Sets : Admit(s) \/ ApplyAssignmentSet(s) \/ DeleteAssignmentSet(s)
  \/ \E m \in marks : MarkAssignmentSetDeleting(m)
  \/ \E v \in Verbs : CheckVerb(v)
  \/ CommitVerb

Environment ==
  \/ \E x \in Slots : Take(x) \/ Verdict(x) \/ Flap(x)
  \/ \E s \in Sets, x \in Slots : DeadlinePasses(s, x)
  \/ Restart

Next == Controller \/ ControllerFaults \/ Calls \/ Environment

Spec == Init /\ [][Next]_vars

\* The controller's goroutine runs, handlers return, deadlines run out and each
\* agent follows its orders; nothing else has to happen.
FairSpec ==
  /\ Spec
  /\ WF_vars(Controller)
  /\ WF_vars(CommitVerb \/ (\E s \in Sets : ApplyAssignmentSet(s)) \/ (\E m \in marks : MarkAssignmentSetDeleting(m)))
  /\ WF_vars(\E s \in Sets, x \in Slots : DeadlinePasses(s, x))
  /\ \A x \in Slots : WF_vars(Take(x) \/ Verdict(x))

----------------------------------------------------------------------------
(* Properties *)

Ctl ==
  [pc : {"idle", "next", "drain", "roll", "delete", "save"}, todo : SUBSET Snapshot,
   cl : Snapshot \cup {None}, queue : SUBSET Slots, undeployed : Nat, targets : Nat,
   legacy : SUBSET Slots, room : Nat, waiting : BOOLEAN, inflight : BOOLEAN,
   written : SUBSET Slots, st : SetStatus \cup {None}]

\* Every variable has its type; in particular the controller works on a set
\* (ctl.cl) and has a status to write (ctl.st) wherever Reconcile relies on it.
TypeOK ==
  /\ sets \in [Sets -> Row \cup {None}]
  /\ assign \in [Slots -> Assignment \cup {None}]
  /\ status \in [Slots -> Report \cup {None}]
  /\ ctl \in Ctl
  /\ ctl.pc \notin {"idle", "next"} => ctl.cl # None
  /\ ctl.pc = "save" => ctl.st # None
  /\ deadline \in [Sets -> [Slots -> {"none", "armed", "past"}]]
  /\ applying \in [Sets -> SetSpec \cup {None}]
  /\ marks \subseteq Snapshot
  /\ verb \in Verbs \cup {None}
  /\ sent \in [Sets -> Nat]
  /\ used \subseteq Kinds
  /\ writer \in [Slots -> Sets \cup {Human}]
  /\ awaiting \subseteq Slots /\ lost \subseteq Slots

\* No slot is claimed by two sets that are not being deleted, whatever the
\* order of applies, status writes, key flips and marks: the guard that
\* ApplyAssignmentSet keeps under the store's lock.
ClaimsDisjoint ==
  \A s, t \in Sets : s # t /\ Live(s) /\ Live(t) =>
    claimedSlots(sets[s]) \cap claimedSlots(sets[t]) = {}

\* Between two reconciles, what the controller has assigned for a set is found
\* again by the set (ownedSlots): no change of spec, partial undeploy, key flip
\* or deletion leaves a process behind that no set would ever stop.  A status
\* write that failed, or that a crash cut off, is excused.
NoOrphan ==
  ctl.pc \in {"idle", "next"} =>
    \A x \in Slots : \A s \in Sets :
      assign[x] # None /\ writer[x] = s =>
        x \in lost \/ (sets[s] # None /\ x \in ownedSlots(sets[s]))

\* The set reports Ready at its generation only when its members carry the spec
\* of that generation, whatever was applied while the controller was at work.
ReadyIsRolled ==
  \A s \in Sets : Live(s) /\ sets[s].status.phase = "Ready" /\ sets[s].status.observed = sets[s].generation =>
    \A x \in sets[s].spec.members : writer[x] = s => assign[x] = Computed(sets[s])

\* Members of a set the controller has written and that have not come up since.
Down(s, r) == {x \in r.spec.members \cap awaiting : writer[x] = s}

\* Steps that take a member down: a new assignment, or its family slot removed.
TakesDown(x) == MayWrite(x) /\ ctl' # ctl /\ assign' # assign

\* The controller takes a member down only while fewer than maxUnavailable of
\* those it gave this spec are still to come up, across passes and restarts.
RollGated ==
  [][\A x \in Slots : TakesDown(x) =>
       Cardinality({y \in Down(me, myRow) \ {x} : assign[y] = Computed(myRow)}) < myRow.spec.max]_vars

Settled(s) ==
  \/ sets[s] = None
  \/ /\ Live(s)
     /\ \/ sets[s].status.phase = "Ready" /\ sets[s].status.observed = sets[s].generation
        \/ sets[s].status.phase \in {"Failed", "Degraded"}

\* Every set comes to rest again and again: rolled out, stopped at a member that
\* did not come up, or deleted and gone.
Settles == \A s \in Sets : []<>Settled(s)
=============================================================================
