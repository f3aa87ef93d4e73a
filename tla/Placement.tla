----------------------------- MODULE Placement -----------------------------
(***************************************************************************)
(* One machine's strategies and volumes, from the human verbs that place   *)
(* them (controlplane/api, controlplane/assign, the store's machine        *)
(* record) to the agent's main loop and deploy workers that carry them out *)
(* on disk (reconciler/volumes.go, reconciler/slots.go).                   *)
(*                                                                         *)
(* A verb reads the machine record, validates, builds the next assignment  *)
(* and writes it back: two steps here, since the store is locked only for  *)
(* each.  Artifacts are READY and specs runnable on this machine.  A deploy *)
(* is reduced to the steps that look at or touch slots, volumes and        *)
(* processes; Agent models the rest of it, backoff and rollback included.  *)
(***************************************************************************)
EXTENDS Naturals, FiniteSets

CONSTANTS
  Strategies, Volumes, Arts,
  Callers,        \* requests the control plane may be serving at a time
  Workers,        \* names for the deploy goroutines alive at a time
  Pids,           \* names for the processes alive at a time
  None,
  StoredVolumes,  \* what was placed before the first verb, with nothing running
  StoredSpecs,
  StoredSlots,    \* strategies with a slot on disk from before
  Rooted,         \* strategies whose processes have their root in the slot (OCI)
  VerbKinds,      \* the verbs this instance uses,
  Offered,        \* and the assignments it applies
  MaxEvents,      \* bound: verbs begun, and processes that exit by themselves
  Haste           \* what operators do without waiting: "remount" changes the mounts of a strategy
                  \* that runs, "handover" moves a volume on while its deploy is in flight,
                  \* "again" starts a strategy whose withdrawn deploy has not ended

Specs == [art : Arts, mounts : SUBSET Volumes, stopped : BOOLEAN]
Kinds == {"ApplyAssignment", "Deploy", "Rollback", "Stop", "Start", "SetSchedule", "Undeploy",
          "CreateVolume", "DeleteVolume", "ReapStrategies"}

ASSUME BoundAssumption == MaxEvents \in Nat /\ Haste \subseteq {"remount", "handover", "again"}
ASSUME StoredAssumption ==
  /\ StoredVolumes \subseteq Volumes /\ VerbKinds \subseteq Kinds /\ Offered \subseteq Specs
  /\ StoredSlots \subseteq Strategies /\ Rooted \subseteq Strategies
  /\ StoredSpecs \in [Strategies -> Specs \cup {None}]
  /\ \A s \in Strategies : StoredSpecs[s] # None =>
       StoredSpecs[s].stopped /\ StoredSpecs[s].mounts \subseteq StoredVolumes

VARIABLES
  assigned,   \* MachineRecord.Assignments
  previous,   \* MachineRecord.PreviousArtifacts
  inventory,  \* MachineRecord.Volumes
  counted,    \* VolumesGeneration > 0
  call,       \* the verbs between their read and their write
  pushed,     \* the agent works from the machine's newest generation
  pc, todo,   \* the agent's main loop, and the strategies its pass still owes
  desired, desiredVolumes,
  known, st,  \* r.actual
  worker,     \* the runDeploy goroutines
  proc,       \* processes, with the mounts they were started on
  draining,   \* processes that spawnDrain is stopping
  reaping,    \* slots under deletion
  dir, slot,  \* <base>/volumes/<name> and <base>/<strategy> that exist
  events

record == <<assigned, previous, inventory, counted>>
human  == <<record, call, events>>
loop   == <<pushed, pc, todo, desired, desiredVolumes, known, st>>
world  == <<worker, proc, draining, reaping, dir, slot>>
vars   == <<human, loop, world>>

Op       == [art : Arts, by : Workers, checking : BOOLEAN]
State    == [running : Arts \cup {None}, proc : Pids \cup {None}, inflight : Op \cup {None},
             stopping : BOOLEAN, failed : BOOLEAN, mounts : SUBSET Volumes]
NewState == [running |-> None, proc |-> None, inflight |-> None, stopping |-> FALSE,
             failed |-> FALSE, mounts |-> {}]
Idle     == [step |-> "none"]
Task     == [step : {"fetch", "drain", "switch", "start", "up", "failed"}, strat : Strategies,
             spec : Specs, old : Pids \cup {None}, proc : Pids \cup {None}, cancelled : BOOLEAN]
Process  == [strat : Strategies, mounts : SUBSET Volumes, alive : BOOLEAN]
Call     == [kind : Kinds, strat : Strategies, next : Specs \cup {None}]
              \cup [kind : {"DeleteVolume"}, vol : Volumes]

\* A nil pointer is none of the things it may point at.
ASSUME NoneAssumption ==
  /\ None \notin Specs \cup Arts \cup Workers \cup Pids \cup Strategies \cup Op \cup Task \cup Process
  /\ \A V \in SUBSET Volumes : V # None

TypeOK ==
  /\ assigned \in [Strategies -> Specs \cup {None}]
  /\ previous \in [Strategies -> Arts \cup {None}]
  /\ inventory \subseteq Volumes /\ counted \in BOOLEAN
  /\ call \in [Callers -> Call \cup {None}]
  /\ pushed \in BOOLEAN /\ pc \in {"select", "volumes", "pass"} /\ todo \subseteq Strategies
  /\ desired \in [Strategies -> Specs \cup {None}]
  /\ desiredVolumes \in (SUBSET Volumes) \cup {None}
  /\ known \subseteq Strategies /\ st \in [Strategies -> State]
  /\ worker \in [Workers -> Task \cup {Idle}]
  /\ proc \in [Pids -> Process \cup {None}] /\ draining \subseteq Pids
  /\ reaping \in [Strategies -> {"no", "run", "done"}]
  /\ dir \subseteq Volumes /\ slot \subseteq Strategies
  /\ events \in 0..MaxEvents

\* What is stored has been applied: directories made, nothing started.
Init ==
  /\ assigned = StoredSpecs /\ previous = [s \in Strategies |-> None]
  /\ inventory = StoredVolumes /\ counted = (StoredVolumes # {})
  /\ call = [c \in Callers |-> None]
  /\ pushed = TRUE /\ pc = "select" /\ todo = {}
  /\ desired = StoredSpecs
  /\ desiredVolumes = IF StoredVolumes # {} THEN StoredVolumes ELSE None
  /\ known = {s \in Strategies : StoredSpecs[s] # None}
  /\ st = [s \in Strategies |->
             IF StoredSpecs[s] = None THEN NewState
             ELSE [NewState EXCEPT !.mounts = StoredSpecs[s].mounts]]
  /\ worker = [w \in Workers |-> Idle] /\ proc = [p \in Pids |-> None] /\ draining = {}
  /\ reaping = [s \in Strategies |-> "no"]
  /\ dir = StoredVolumes /\ slot = StoredSlots
  /\ events = 0

----------------------------------------------------------------------------
(* The agent: what it looks at *)

Alive(p) == p # None /\ proc[p] # None /\ proc[p].alive
Running(w) == worker[w] # Idle

\* The volumes a strategy counts as mounting: those of its desired spec, of the
\* last one when it has none.
mountNames(s) == IF desired[s] # None THEN desired[s].mounts ELSE st[s].mounts

runningVolumeMounts == UNION {mountNames(s) : s \in {s \in known : st[s].proc # None}}

\* Seeded fault: a strategy that was told to stop is no writer any more.
volumeWriterConflict_Told(s, mounts) ==
  \E o \in known \ {s} : st[o].proc # None /\ ~st[o].stopping /\ mountNames(o) \cap mounts # {}

volumeWriterConflict(s, mounts) ==
  \E o \in known \ {s} : st[o].proc # None /\ mountNames(o) \cap mounts # {}

volumePresent(mounts) == mounts \subseteq dir

versionMatches(spec, s) == st[s].running = spec.art

\* A name for a new goroutine or process that nothing refers to any more.
SpareWorkers == {w \in Workers : ~Running(w) /\ \A s \in Strategies :
                   st[s].inflight = None \/ st[s].inflight.by # w}
SparePids    == {p \in Pids : proc[p] = None}

\* The deploys after the in-flight one of each strategy in S is cancelled.
Cancelled(S) ==
  [w \in Workers |->
     IF \E s \in S : st[s].inflight # None /\ st[s].inflight.by = w /\ Running(w)
     THEN [worker[w] EXCEPT !.cancelled = TRUE] ELSE worker[w]]

----------------------------------------------------------------------------
(* The human verbs *)

\* Seeded fault: an assignment that is halted does not pin its volumes.
volumeOccupied_ByWriters(v) ==
  \E s \in Strategies : assigned[s] # None /\ ~assigned[s].stopped /\ v \in assigned[s].mounts

volumeOccupied(v) == \E s \in Strategies : assigned[s] # None /\ v \in assigned[s].mounts

\* Another assignment that is not halted mounts one of these volumes.
LiveWriterConflict(s, mounts) ==
  \E o \in Strategies \ {s} :
    assigned[o] # None /\ ~assigned[o].stopped /\ assigned[o].mounts \cap mounts # {}

validateAssignmentMounts(s, spec) ==
  spec.mounts \subseteq inventory /\ (spec.stopped \/ ~LiveWriterConflict(s, spec.mounts))

\* The assignment a verb is about to write, by what it read.
ApplyAssignment(s, next) == next \in Offered /\ validateAssignmentMounts(s, next)
Deploy(s, next) ==
  \E a \in Arts :
    next = IF assigned[s] = None THEN [art |-> a, mounts |-> {}, stopped |-> TRUE]
           ELSE [assigned[s] EXCEPT !.art = a]
Rollback(s, next) ==
  assigned[s] # None /\ previous[s] # None /\ next = [assigned[s] EXCEPT !.art = previous[s]]
setRunState(s, next, stopped) ==
  assigned[s] # None /\ next = [assigned[s] EXCEPT !.stopped = stopped]
SetSchedule(s, next) == assigned[s] # None /\ next = assigned[s]
Undeploy(s, next) == assigned[s] # None /\ next = None

Asks(kind, s, next) ==
  CASE kind = "ApplyAssignment" -> ApplyAssignment(s, next)
    [] kind = "Deploy"          -> Deploy(s, next)
    [] kind = "Rollback"        -> Rollback(s, next)
    [] kind = "Stop"            -> setRunState(s, next, TRUE)
    [] kind = "Start"           -> setRunState(s, next, FALSE)
    [] kind = "SetSchedule"     -> SetSchedule(s, next)
    [] kind = "Undeploy"        -> Undeploy(s, next)
    [] OTHER                    -> FALSE

Begins(c) == call[c] = None /\ events < MaxEvents /\ events' = events + 1

\* The read of a verb on an assignment.
Ask(c) ==
  /\ Begins(c)
  /\ \E kind \in VerbKinds, s \in Strategies, next \in Specs \cup {None} :
       Asks(kind, s, next) /\ call' = [call EXCEPT ![c] = [kind |-> kind, strat |-> s, next |-> next]]
  /\ UNCHANGED <<record, loop, world>>

\* What the strategy's processes run on now, or are about to be started on.
InUse(s) ==
  {proc[p].mounts : p \in {p \in Pids : proc[p] # None /\ proc[p].strat = s}}
    \cup {worker[w].spec.mounts : w \in {w \in Workers : worker[w] # Idle /\ worker[w].strat = s}}
    \cup (IF desired[s] = None THEN {} ELSE {desired[s].mounts})

\* Strategies that mount one of these volumes, and are about to run or in deploy.
Unsettled(s, mounts) ==
  {o \in Strategies \ {s} : /\ mountNames(o) \cap mounts # {}
                           /\ \/ st[o].inflight # None
                              \/ /\ desired[o] # None /\ ~desired[o].stopped
                                 /\ st[o].proc = None \/ ~versionMatches(desired[o], o)}

\* A deploy of it was withdrawn, or will be by the pass that owes it a halt, and
\* its goroutine has not come to look.
Withdrawing(s) ==
  \E w \in Workers : /\ Running(w) /\ worker[w].strat = s
                     /\ worker[w].cancelled \/ desired[s] = None \/ desired[s].stopped

\* What operators wait for before they send a verb, or are said not to.
Patient(s, next) ==
  next # None =>
    /\ "remount" \notin Haste => \A m \in InUse(s) : m = next.mounts
    /\ "handover" \notin Haste => next.stopped \/ Unsettled(s, next.mounts) = {}
    /\ "again" \notin Haste => next.stopped \/ ~Withdrawing(s)

\* SetAssignment; a spec that equals the stored one is not written.
SetAssignment(s, next, changed) ==
  /\ assigned' = [assigned EXCEPT ![s] = next]
  /\ previous' = [previous EXCEPT ![s] =
       IF next = None THEN None
       ELSE IF assigned[s] # None /\ assigned[s].art # next.art THEN assigned[s].art ELSE @]
  /\ pushed' = (pushed /\ ~changed)

\* assign.Apply: the conflict is looked for again, then the write.  A refused
\* verb ends with an error.
Apply(c) ==
  /\ call[c] # None /\ call[c].kind # "DeleteVolume"
  /\ LET s == call[c].strat
         next == call[c].next
     IN IF next # None /\ ~next.stopped /\ LiveWriterConflict(s, next.mounts)
        THEN UNCHANGED <<assigned, previous, pushed>>
        ELSE /\ Patient(s, next)
             /\ SetAssignment(s, next, next # assigned[s] \/ call[c].kind = "SetSchedule")
  /\ call' = [call EXCEPT ![c] = None]
  /\ UNCHANGED <<inventory, counted, events, pc, todo, desired, desiredVolumes, known, st, world>>

CreateVolume(c) ==
  /\ Begins(c) /\ "CreateVolume" \in VerbKinds
  /\ \E v \in Volumes \ inventory : inventory' = inventory \cup {v}
  /\ counted' = TRUE /\ pushed' = FALSE
  /\ UNCHANGED <<assigned, previous, call, pc, todo, desired, desiredVolumes, known, st, world>>

AskDeleteVolume(c) ==
  /\ Begins(c) /\ "DeleteVolume" \in VerbKinds
  /\ \E v \in inventory :
       ~volumeOccupied(v) /\ call' = [call EXCEPT ![c] = [kind |-> "DeleteVolume", vol |-> v]]
  /\ UNCHANGED <<record, loop, world>>

DeleteVolume(c) ==
  /\ call[c] # None /\ call[c].kind = "DeleteVolume"
  /\ inventory' = inventory \ {call[c].vol}
  /\ pushed' = (pushed /\ call[c].vol \notin inventory)
  /\ call' = [call EXCEPT ![c] = None]
  /\ UNCHANGED <<assigned, previous, counted, events, pc, todo, desired, desiredVolumes, known, st,
                 world>>

----------------------------------------------------------------------------
(* The agent: events of the main loop.  A pass follows each of them.        *)

\* A snapshot: every failure latched against the last generation is void, and
\* deploys of something else are withdrawn.
applyDesired ==
  LET gone == {s \in known : st[s].inflight # None
                 /\ (assigned[s] = None \/ assigned[s].art # st[s].inflight.art)}
  IN /\ pc = "select" /\ ~pushed
     /\ pushed' = TRUE /\ pc' = "volumes"
     /\ desired' = assigned
     /\ desiredVolumes' = IF counted THEN inventory ELSE None
     /\ worker' = Cancelled(gone)
     /\ st' = [s \in Strategies |-> [st[s] EXCEPT !.failed = FALSE,
                                       !.inflight = IF s \in gone THEN None ELSE @]]
     /\ UNCHANGED <<human, todo, known, proc, draining, reaping, dir, slot>>

\* handleExit: the process is gone; it was killed, or it exited.
handleExit(p) ==
  /\ pc = "select" /\ proc[p] # None /\ ~proc[p].alive
  /\ LET s == proc[p].strat
     IN IF s \in known /\ st[s].proc = p
        THEN /\ st' = [st EXCEPT ![s] = IF desired[s] = None /\ @.stopping THEN NewState
                                        ELSE [@ EXCEPT !.proc = None, !.stopping = FALSE]]
             /\ known' = IF desired[s] = None /\ st[s].stopping THEN known \ {s} ELSE known
        ELSE UNCHANGED <<known, st>>
  /\ \A w \in Workers : Running(w) => worker[w].old # p /\ worker[w].proc # p
  /\ proc' = [proc EXCEPT ![p] = None] /\ draining' = draining \ {p}
  /\ pc' = "volumes"
  /\ UNCHANGED <<human, pushed, todo, desired, desiredVolumes, worker, reaping, dir, slot>>

\* Events of a withdrawn deploy are dropped; they are told apart by the digest.
Heeded(w) ==
  LET s == worker[w].strat
  IN s \in known /\ st[s].inflight # None /\ st[s].inflight.art = worker[w].spec.art

applyWorkerEvent(w) ==
  /\ pc = "select" /\ Running(w) /\ worker[w].step \in {"up", "failed"}
  /\ LET s == worker[w].strat
     IN IF ~Heeded(w) THEN UNCHANGED st
        ELSE IF worker[w].step = "up"
        THEN st' = [st EXCEPT ![s] = [@ EXCEPT !.running = worker[w].spec.art, !.proc = worker[w].proc,
                                              !.stopping = FALSE, !.inflight.checking = TRUE]]
        ELSE st' = [st EXCEPT ![s] = [@ EXCEPT !.failed = TRUE, !.stopping = FALSE, !.inflight = None]]
  /\ worker' = [worker EXCEPT ![w] = Idle]
  /\ pc' = "volumes"
  /\ UNCHANGED <<human, pushed, todo, desired, desiredVolumes, known, proc, draining, reaping, dir,
                 slot>>

\* markHealthy, by a tick: the deploy is over.
markHealthy(s) ==
  /\ pc = "select" /\ s \in known /\ st[s].proc # None /\ st[s].inflight # None /\ st[s].inflight.checking
  /\ st' = [st EXCEPT ![s].inflight = None]
  /\ pc' = "volumes"
  /\ UNCHANGED <<human, pushed, todo, desired, desiredVolumes, known, world>>

reapReject(s) ==
  \/ desired[s] # None \/ reaping[s] # "no"
  \/ s \in known /\ (st[s].inflight # None \/ st[s].proc # None \/ st[s].stopping)

\* A request to delete a slot, from SubmitReap; a refused one changes nothing.
handleReapOp(s) ==
  /\ pc = "select" /\ events < MaxEvents /\ "ReapStrategies" \in VerbKinds /\ s \in slot
  /\ ~reapReject(s)
  /\ reaping' = [reaping EXCEPT ![s] = "run"]
  /\ events' = events + 1 /\ pc' = "volumes"
  /\ UNCHANGED <<record, call, pushed, todo, desired, desiredVolumes, known, st, worker, proc,
                 draining, dir, slot>>

\* Seeded fault: the name stays in r.reaping.
applyReapDone_Leaks(s) ==
  /\ pc = "select" /\ reaping[s] = "done"
  /\ pc' = "volumes"
  /\ UNCHANGED <<human, pushed, todo, desired, desiredVolumes, known, st, worker, proc, draining,
                 reaping, dir, slot>>

applyReapDone(s) ==
  /\ pc = "select" /\ reaping[s] = "done"
  /\ reaping' = [reaping EXCEPT ![s] = "no"] /\ pc' = "volumes"
  /\ UNCHANGED <<human, pushed, todo, desired, desiredVolumes, known, st, worker, proc, draining,
                 dir, slot>>

----------------------------------------------------------------------------
(* The agent: one pass of the main loop, after an event or a tick *)

\* Seeded fault: a directory is removed without a look at who runs on it.
Removable_Blindly == dir \ desiredVolumes

\* Directories of volumes that left the list, unless a running strategy mounts
\* them.
Removable == dir \ (desiredVolumes \cup runningVolumeMounts)

\* Without a list (a machine that never had a volume) nothing is touched.
reconcileVolumes ==
  /\ pc \in {"select", "volumes"}
  /\ pc' = "pass" /\ todo' = Strategies
  /\ dir' = IF desiredVolumes = None THEN dir ELSE (dir \ Removable) \cup desiredVolumes
  /\ UNCHANGED <<human, pushed, desired, desiredVolumes, known, st, worker, proc, draining,
                 reaping, slot>>

Started(s, p) == [proc EXCEPT ![p] = [strat |-> s, mounts |-> desired[s].mounts, alive |-> TRUE]]

\* startProcess, on the release that was running; a writer in the way is waited
\* for by the next pass.
startProcess(s, rec) ==
  IF volumeWriterConflict(s, desired[s].mounts)
  THEN st' = [st EXCEPT ![s] = rec] /\ UNCHANGED proc
  ELSE \E p \in SparePids :
         st' = [st EXCEPT ![s] = [rec EXCEPT !.proc = p, !.stopping = FALSE]] /\ proc' = Started(s, p)

\* beginDeploy: a writer in the way fails it for this generation.
beginDeploy(s, rec) ==
  IF volumeWriterConflict(s, desired[s].mounts)
  THEN st' = [st EXCEPT ![s] = [rec EXCEPT !.failed = TRUE]] /\ UNCHANGED worker
  ELSE \E w \in SpareWorkers :
         /\ st' = [st EXCEPT ![s] = [rec EXCEPT !.inflight =
                      [art |-> desired[s].art, by |-> w, checking |-> FALSE]]]
         /\ worker' = [worker EXCEPT ![w] = [step |-> "fetch", strat |-> s, spec |-> desired[s],
                          old |-> rec.proc, proc |-> None, cancelled |-> FALSE]]

\* Seeded fault: the drain is spawned without a look at the process.
reconcileStopped_Nil(s, rec) ==
  /\ worker' = Cancelled({s})
  /\ st' = [st EXCEPT ![s] = [rec EXCEPT !.inflight = None, !.stopping = TRUE]]
  /\ draining' = draining \cup {rec.proc}

\* reconcileStopped: withdraw the deploy, drain the process.
reconcileStopped(s, rec) ==
  /\ worker' = Cancelled({s})
  /\ st' = [st EXCEPT ![s] = [rec EXCEPT !.inflight = None, !.stopping = rec.proc # None]]
  /\ draining' = draining \cup ({rec.proc} \ {None})

\* A slot that is being deleted is not touched.
Held(s) == reaping[s] # "no"

\* reconcileOne.
reconcileOne(s) ==
  LET spec  == desired[s]
      rec   == [st[s] EXCEPT !.mounts = spec.mounts]
      same  == versionMatches(spec, s)
      ready == volumePresent(spec.mounts)
      up    == rec.proc # None
      keep  == st' = [st EXCEPT ![s] = rec]
  IN IF Held(s) THEN keep /\ UNCHANGED <<worker, proc, draining>>
     ELSE IF spec.stopped THEN reconcileStopped(s, rec) /\ UNCHANGED proc
     ELSE IF rec.inflight # None
     THEN /\ IF rec.inflight.checking /\ ~up /\ same /\ ready
             THEN startProcess(s, rec) ELSE keep /\ UNCHANGED proc
          /\ UNCHANGED <<worker, draining>>
     ELSE IF rec.failed \/ (same /\ up) \/ ~ready THEN keep /\ UNCHANGED <<worker, proc, draining>>
     ELSE IF same THEN startProcess(s, rec) /\ UNCHANGED <<worker, draining>>
     ELSE beginDeploy(s, rec) /\ UNCHANGED <<proc, draining>>

\* retireStrategy: one that is desired no more is drained, then forgotten.
retireStrategy(s) ==
  /\ worker' = Cancelled({s})
  /\ IF st[s].proc = None
     THEN /\ known' = known \ {s} /\ st' = [st EXCEPT ![s] = NewState]
          /\ UNCHANGED draining
     ELSE /\ st' = [st EXCEPT ![s] = [@ EXCEPT !.inflight = None, !.stopping = TRUE]]
          /\ draining' = draining \cup {st[s].proc} /\ UNCHANGED known

\* The pass goes over the strategies in the order of a Go map: any.
reconcile(s) ==
  /\ pc = "pass" /\ s \in todo
  /\ todo' = todo \ {s} /\ pc' = IF todo = {s} THEN "select" ELSE "pass"
  /\ IF desired[s] # None
     THEN reconcileOne(s) /\ known' = known \cup {s}
     ELSE IF s \in known THEN retireStrategy(s) /\ UNCHANGED proc
     ELSE UNCHANGED <<known, st, worker, proc, draining>>
  /\ UNCHANGED <<human, pushed, desired, desiredVolumes, reaping, dir, slot>>

----------------------------------------------------------------------------
(* Goroutines and processes *)

To(w, step) == worker' = [worker EXCEPT ![w].step = step]
End(w)      == worker' = [worker EXCEPT ![w] = Idle]
Quiet       == UNCHANGED <<human, loop, draining, reaping, dir>>

\* Download, GCReleases, Verify; a withdrawn deploy may be noticed here.
Fetch(w) ==
  /\ worker[w].step = "fetch"
  /\ \/ To(w, "drain") /\ slot' = slot \cup {worker[w].strat}
     \/ worker[w].cancelled /\ End(w) /\ UNCHANGED slot
  /\ Quiet /\ UNCHANGED proc

\* gracefulStop of the process that ran when the deploy began, then the last
\* look at the context.
DrainOld(w) ==
  /\ worker[w].step = "drain"
  /\ LET p == worker[w].old IN proc' = IF Alive(p) THEN [proc EXCEPT ![p].alive = FALSE] ELSE proc
  /\ IF worker[w].cancelled THEN End(w) ELSE worker' = [worker EXCEPT ![w] = [@ EXCEPT !.step = "switch", !.old = None]]
  /\ Quiet /\ UNCHANGED slot

\* SwitchTo, and the writers are looked at again, from this goroutine.
SwitchTo(w) ==
  /\ worker[w].step = "switch"
  /\ IF worker[w].strat \notin slot \/ volumeWriterConflict(worker[w].strat, worker[w].spec.mounts)
     THEN To(w, "failed") ELSE To(w, "start")
  /\ Quiet /\ UNCHANGED <<proc, slot>>

StartNew(w) ==
  /\ worker[w].step = "start"
  /\ \E p \in SparePids :
       /\ proc' = [proc EXCEPT ![p] = [strat |-> worker[w].strat, mounts |-> worker[w].spec.mounts,
                                       alive |-> TRUE]]
       /\ worker' = [worker EXCEPT ![w] = [@ EXCEPT !.step = "up", !.proc = p]]
  /\ Quiet /\ UNCHANGED slot

\* send of a withdrawn deploy: nobody may take the event.
DropEvent(w) ==
  /\ worker[w].step \in {"up", "failed"} /\ worker[w].cancelled
  /\ End(w) /\ Quiet /\ UNCHANGED <<proc, slot>>

runDeploy(w) == Running(w) /\ (Fetch(w) \/ DrainOld(w) \/ SwitchTo(w) \/ StartNew(w) \/ DropEvent(w))

\* spawnDrain's goroutine: the process stops within its grace, or is killed.
Drain(p) ==
  /\ p \in draining /\ Alive(p)
  /\ proc' = [proc EXCEPT ![p].alive = FALSE]
  /\ UNCHANGED <<human, loop, worker, draining, reaping, dir, slot>>

\* A process that outlived its startsecs exits by itself.
Exit(p) ==
  /\ events < MaxEvents /\ events' = events + 1
  /\ Alive(p) /\ proc' = [proc EXCEPT ![p].alive = FALSE]
  /\ UNCHANGED <<record, call, loop, worker, draining, reaping, dir, slot>>

\* A process has its root in the slot.
rootfsBusy(s) == s \in Rooted /\ \E p \in Pids : Alive(p) /\ proc[p].strat = s

\* runReapBatch: RemoveStrategyDir, in a goroutine.
runReap(s) ==
  /\ reaping[s] = "run" /\ reaping' = [reaping EXCEPT ![s] = "done"]
  /\ slot' = IF rootfsBusy(s) THEN slot ELSE slot \ {s}
  /\ UNCHANGED <<human, loop, worker, proc, draining, dir>>

----------------------------------------------------------------------------
Event ==
  \/ applyDesired
  \/ \E p \in Pids : handleExit(p)
  \/ \E w \in Workers : applyWorkerEvent(w)
  \/ \E s \in Strategies : markHealthy(s) \/ applyReapDone(s)

Pass == reconcileVolumes \/ \E s \in Strategies : reconcile(s)

Goroutine ==
  \/ \E w \in Workers : runDeploy(w)
  \/ \E p \in Pids : Drain(p)
  \/ \E s \in Strategies : runReap(s)

Next ==
  \/ \E c \in Callers : Ask(c) \/ Apply(c) \/ CreateVolume(c) \/ AskDeleteVolume(c) \/ DeleteVolume(c)
  \/ \E s \in Strategies : handleReapOp(s)
  \/ Event \/ Pass \/ Goroutine
  \/ \E p \in Pids : Exit(p)

Spec == Init /\ [][Next]_vars

\* The loop takes the events sent to it, in whatever order, and passes after
\* each and at every tick; goroutines run, and a process that is told to stop does.
FairSpec == Spec /\ SF_vars(Event) /\ WF_vars(Pass) /\ WF_vars(Goroutine)

----------------------------------------------------------------------------
(* Properties *)

\* Whatever sequence of verbs is served, one at a time: an assignment mounts
\* volumes its machine has, and of those that are not halted no two mount the
\* same ("Stopped assignments do not count as writers; they still pin
\* DeleteVolume").
Placed ==
  /\ \A s \in Strategies : assigned[s] # None => assigned[s].mounts \subseteq inventory
  /\ \A s, o \in Strategies :
       s # o /\ assigned[s] # None /\ assigned[o] # None /\ ~assigned[s].stopped /\ ~assigned[o].stopped
         => assigned[s].mounts \cap assigned[o].mounts = {}

\* The processes the agent answers for: installed, or about to be.  (One whose
\* deploy was withdrawn after its last look at the context is nobody's:
\* Agent's NoLostProcess.)
Owned(p) ==
  /\ Alive(p)
  /\ \/ st[proc[p].strat].proc = p
     \/ \E w \in Workers : Running(w) /\ worker[w].proc = p /\ ~worker[w].cancelled

\* "One live writer per volume."
OneWriter ==
  \A p, q \in Pids :
    Owned(p) /\ Owned(q) /\ proc[p].strat # proc[q].strat => proc[p].mounts \cap proc[q].mounts = {}

\* No directory is taken from under a process: neither a deleted volume's, even
\* when the verb that freed it and the one that deleted it arrive at once, nor
\* its strategy's slot.
StandsOnDisk ==
  \A p \in Pids : Owned(p) => proc[p].mounts \subseteq dir /\ proc[p].strat \in slot

\* What the record asks of a strategy is what its processes do, or its deploy
\* was refused for good.
Carried(s) ==
  IF assigned[s] = None \/ assigned[s].stopped
  THEN \A p \in Pids : Owned(p) => proc[p].strat # s
  ELSE \/ st[s].failed
       \/ /\ Alive(st[s].proc) /\ versionMatches(assigned[s], s)
          /\ proc[st[s].proc].mounts = assigned[s].mounts

\* Once the verbs stop, the machine comes to what its record says and stays
\* there: directories those of the inventory, processes those assigned.
Converges == <>[](counted => dir = inventory) /\ \A s \in Strategies : <>[]Carried(s)
=============================================================================
