--------------------------- MODULE PlacementProofs ---------------------------
(***************************************************************************)
(* Proofs about Placement: types for every value of the constants, and,    *)
(* where the verbs of a machine are served one at a time, that what is     *)
(* stored can be carried out, that no two strategies ever have processes   *)
(* on one volume, and that what a process stands on stays.                 *)
(***************************************************************************)
EXTENDS Placement, TLAPS

\* TypeOK: the machine record and the verbs, the agent's loop, the world.
RecordOK ==
  /\ assigned \in [Strategies -> Specs \cup {None}]
  /\ previous \in [Strategies -> Arts \cup {None}]
  /\ inventory \subseteq Volumes /\ counted \in BOOLEAN
  /\ call \in [Callers -> Call \cup {None}]
  /\ events \in 0..MaxEvents

LoopOK ==
  /\ pushed \in BOOLEAN /\ pc \in {"select", "volumes", "pass"} /\ todo \subseteq Strategies
  /\ desired \in [Strategies -> Specs \cup {None}]
  /\ desiredVolumes \in (SUBSET Volumes) \cup {None}
  /\ known \subseteq Strategies /\ st \in [Strategies -> State]

WorldOK ==
  /\ worker \in [Workers -> Task \cup {Idle}]
  /\ proc \in [Pids -> Process \cup {None}] /\ draining \subseteq Pids
  /\ reaping \in [Strategies -> {"no", "run", "done"}]
  /\ dir \subseteq Volumes /\ slot \subseteq Strategies

Types == RecordOK /\ LoopOK /\ WorldOK

----------------------------------------------------------------------------
(* Types: the verbs *)

\* What a verb asks for is an assignment of its strategy, or none.
LEMMA AsksSpec ==
  ASSUME RecordOK, NEW s \in Strategies, NEW next \in Specs \cup {None}, NEW kind \in VerbKinds,
         NEW c \in Callers
  PROVE  [call EXCEPT ![c] = [kind |-> kind, strat |-> s, next |-> next]]
           \in [Callers -> Call \cup {None}]
  BY StoredAssumption DEF RecordOK, Call

LEMMA BeginsCounts ==
  ASSUME RecordOK, NEW c \in Callers, Begins(c)
  PROVE  events' \in 0..MaxEvents
  BY BoundAssumption DEF RecordOK, Begins

\* One step of a verb.
LEMMA VerbTypes ==
  ASSUME Types, NEW c \in Callers,
         Ask(c) \/ Apply(c) \/ CreateVolume(c) \/ AskDeleteVolume(c) \/ DeleteVolume(c)
  PROVE  Types'
<1> USE DEF Types
<1>1. CASE Ask(c)
  <2>1. PICK kind \in VerbKinds, s \in Strategies, next \in Specs \cup {None} :
          call' = [call EXCEPT ![c] = [kind |-> kind, strat |-> s, next |-> next]]
    BY <1>1 DEF Ask
  <2>2. call' \in [Callers -> Call \cup {None}]
    BY <2>1, AsksSpec
  <2> QED BY <1>1, <2>2, BeginsCounts DEF Ask, record, loop, world, RecordOK, LoopOK, WorldOK
<1>2. CASE Apply(c)
  <2> DEFINE s == call[c].strat
             next == call[c].next
  <2>1. s \in Strategies /\ next \in Specs \cup {None}
    BY <1>2 DEF Apply, RecordOK, Call
  <2>2. assigned' \in [Strategies -> Specs \cup {None}] /\ pushed' \in BOOLEAN
    BY <1>2, <2>1 DEF Apply, SetAssignment, RecordOK, LoopOK
  <2>3. previous' \in [Strategies -> Arts \cup {None}]
    <3>1. assigned[s] # None => assigned[s].art \in Arts
      BY <2>1 DEF RecordOK, Specs
    <3> QED BY <1>2, <2>1, <3>1 DEF Apply, SetAssignment, RecordOK
  <2>4. call' \in [Callers -> Call \cup {None}]
    BY <1>2 DEF Apply, RecordOK
  <2> QED BY <1>2, <2>2, <2>3, <2>4 DEF Apply, world, RecordOK, LoopOK, WorldOK
<1>3. CASE CreateVolume(c)
  BY <1>3, BeginsCounts DEF CreateVolume, world, RecordOK, LoopOK, WorldOK
<1>4. CASE AskDeleteVolume(c)
  <2>1. PICK v \in inventory : call' = [call EXCEPT ![c] = [kind |-> "DeleteVolume", vol |-> v]]
    BY <1>4 DEF AskDeleteVolume
  <2>2. call' \in [Callers -> Call \cup {None}]
    BY <2>1 DEF RecordOK, Call
  <2> QED BY <1>4, <2>2, BeginsCounts DEF AskDeleteVolume, record, loop, world, RecordOK, LoopOK, WorldOK
<1>5. CASE DeleteVolume(c)
  BY <1>5 DEF DeleteVolume, world, RecordOK, LoopOK, WorldOK
<1> QED BY <1>1, <1>2, <1>3, <1>4, <1>5

----------------------------------------------------------------------------
(* Types: the agent *)

\* Withdrawing deploys keeps the goroutines' shape.
LEMMA CancelledTypes ==
  ASSUME Types, NEW S
  PROVE  Cancelled(S) \in [Workers -> Task \cup {Idle}]
<1>1. \A w \in Workers : Running(w) => [worker[w] EXCEPT !.cancelled = TRUE] \in Task
  BY DEF Types, WorldOK, Running, Task
<1> QED BY <1>1 DEF Cancelled, Types, WorldOK

\* None is no spec, and an assignment that is desired is one.
LEMMA DesiredSpec ==
  ASSUME Types, NEW s \in Strategies, desired[s] # None
  PROVE  desired[s] \in Specs
  BY DEF Types, LoopOK

\* What the main loop takes.
LEMMA EventTypes ==
  ASSUME Types, Event
  PROVE  Types'
<1> USE DEF Types
<1>1. CASE applyDesired
  <2>1. worker' \in [Workers -> Task \cup {Idle}]
    BY <1>1, CancelledTypes DEF applyDesired
  <2>2. st' \in [Strategies -> State]
    <3>1. \A rec \in State : \A op \in {rec.inflight, None} :
            [rec EXCEPT !.failed = FALSE, !.inflight = op] \in State
      BY DEF State
    <3> QED BY <1>1, <3>1 DEF applyDesired, LoopOK
  <2>3. desired' \in [Strategies -> Specs \cup {None}]
    BY <1>1 DEF applyDesired, RecordOK
  <2>4. desiredVolumes' \in (SUBSET Volumes) \cup {None}
    <3>1. desiredVolumes' \in {inventory, None}
      BY <1>1 DEF applyDesired
    <3>2. inventory \in SUBSET Volumes
      BY DEF RecordOK
    <3> QED BY <3>1, <3>2
  <2> QED BY <1>1, <2>1, <2>2, <2>3, <2>4 DEF applyDesired, human, record, RecordOK, LoopOK, WorldOK
<1>2. ASSUME NEW p \in Pids, handleExit(p) PROVE Types'
  <2>1. proc[p].strat \in Strategies
    BY <1>2 DEF handleExit, WorldOK, Process
  <2>2. NewState \in State
    BY DEF NewState, State
  <2>3. st' \in [Strategies -> State] /\ known' \subseteq Strategies
    <3>1. \A rec \in State : [rec EXCEPT !.proc = None, !.stopping = FALSE] \in State
      BY DEF State
    <3>2. st[proc[p].strat] \in State
      BY <2>1 DEF LoopOK
    <3>3. \E rec \in State : st' \in {st, [st EXCEPT ![proc[p].strat] = rec]}
      BY <1>2, <2>2, <3>1, <3>2 DEF handleExit, LoopOK
    <3>4. known' \in {known, known \ {proc[p].strat}}
      BY <1>2 DEF handleExit
    <3> QED BY <2>1, <3>3, <3>4 DEF LoopOK
  <2>4. proc' \in [Pids -> Process \cup {None}] /\ draining' \subseteq Pids
    BY <1>2 DEF handleExit, WorldOK
  <2> QED BY <1>2, <2>3, <2>4 DEF handleExit, human, record, RecordOK, LoopOK, WorldOK
<1>3. ASSUME NEW w \in Workers, applyWorkerEvent(w) PROVE Types'
  <2> DEFINE s == worker[w].strat
  <2>1. worker[w] \in Task
    BY <1>3 DEF applyWorkerEvent, Running, WorldOK
  <2>2. s \in Strategies /\ worker[w].spec.art \in Arts /\ worker[w].proc \in Pids \cup {None}
    BY <2>1 DEF Task, Specs
  <2>3. st' \in [Strategies -> State]
    <3>1. CASE ~Heeded(w)
      BY <1>3, <3>1 DEF applyWorkerEvent, LoopOK
    <3>2. CASE Heeded(w)
      <4>1. st[s] \in State /\ st[s].inflight \in Op
        BY <2>2, <3>2 DEF Heeded, LoopOK, State
      <4>2. [st[s].inflight EXCEPT !.checking = TRUE] \in Op
        BY <4>1 DEF Op
      <4>3. /\ [st[s] EXCEPT !.running = worker[w].spec.art, !.proc = worker[w].proc,
                             !.stopping = FALSE, !.inflight.checking = TRUE] \in State
            /\ [st[s] EXCEPT !.failed = TRUE, !.stopping = FALSE, !.inflight = None] \in State
        BY <2>2, <4>1, <4>2 DEF State
      <4> QED BY <1>3, <2>2, <3>2, <4>3 DEF applyWorkerEvent, LoopOK
    <3> QED BY <3>1, <3>2
  <2>4. worker' \in [Workers -> Task \cup {Idle}]
    BY <1>3 DEF applyWorkerEvent, WorldOK
  <2> QED BY <1>3, <2>3, <2>4 DEF applyWorkerEvent, human, record, RecordOK, LoopOK, WorldOK
<1>4. ASSUME NEW s \in Strategies, markHealthy(s) PROVE Types'
  <2>1. st' \in [Strategies -> State]
    BY <1>4 DEF markHealthy, LoopOK, State
  <2> QED BY <1>4, <2>1 DEF markHealthy, human, record, world, RecordOK, LoopOK, WorldOK
<1>5. ASSUME NEW s \in Strategies, applyReapDone(s) PROVE Types'
  BY <1>5 DEF applyReapDone, human, record, RecordOK, LoopOK, WorldOK
<1> QED BY <1>1, <1>2, <1>3, <1>4, <1>5 DEF Event

\* A request to delete a slot.
LEMMA ReapTypes ==
  ASSUME Types, NEW s \in Strategies, handleReapOp(s)
  PROVE  Types'
  BY BoundAssumption DEF handleReapOp, record, Types, RecordOK, LoopOK, WorldOK

\* Starting what ran before.
LEMMA startProcessTypes ==
  ASSUME Types, NEW s \in Strategies, desired[s] # None, NEW rec \in State, startProcess(s, rec)
  PROVE  st' \in [Strategies -> State] /\ proc' \in [Pids -> Process \cup {None}]
<1>1. desired[s].mounts \in SUBSET Volumes
  BY DesiredSpec DEF Specs
<1>2. CASE volumeWriterConflict(s, desired[s].mounts)
  BY <1>2 DEF startProcess, Types, LoopOK, WorldOK
<1>3. CASE ~volumeWriterConflict(s, desired[s].mounts)
  <2>1. PICK p \in SparePids :
          /\ st' = [st EXCEPT ![s] = [rec EXCEPT !.proc = p, !.stopping = FALSE]]
          /\ proc' = Started(s, p)
    BY <1>3 DEF startProcess
  <2>2. p \in Pids /\ [rec EXCEPT !.proc = p, !.stopping = FALSE] \in State
    BY DEF SparePids, State
  <2>3. [strat |-> s, mounts |-> desired[s].mounts, alive |-> TRUE] \in Process
    BY <1>1 DEF Process
  <2> QED BY <2>1, <2>2, <2>3 DEF Started, Types, LoopOK, WorldOK
<1> QED BY <1>2, <1>3

\* Beginning a deploy.
LEMMA beginDeployTypes ==
  ASSUME Types, NEW s \in Strategies, desired[s] # None, NEW rec \in State, beginDeploy(s, rec)
  PROVE  st' \in [Strategies -> State] /\ worker' \in [Workers -> Task \cup {Idle}]
<1>1. desired[s] \in Specs /\ desired[s].art \in Arts
  BY DesiredSpec DEF Specs
<1>2. CASE volumeWriterConflict(s, desired[s].mounts)
  <2>1. [rec EXCEPT !.failed = TRUE] \in State
    BY DEF State
  <2> QED BY <1>2, <2>1 DEF beginDeploy, Types, LoopOK, WorldOK
<1>3. CASE ~volumeWriterConflict(s, desired[s].mounts)
  <2>1. PICK w \in SpareWorkers :
          /\ st' = [st EXCEPT ![s] = [rec EXCEPT !.inflight =
                       [art |-> desired[s].art, by |-> w, checking |-> FALSE]]]
          /\ worker' = [worker EXCEPT ![w] = [step |-> "fetch", strat |-> s, spec |-> desired[s],
                          old |-> rec.proc, proc |-> None, cancelled |-> FALSE]]
    BY <1>3 DEF beginDeploy
  <2>2. w \in Workers /\ [art |-> desired[s].art, by |-> w, checking |-> FALSE] \in Op
    BY <1>1 DEF SpareWorkers, Op
  <2>3. [rec EXCEPT !.inflight = [art |-> desired[s].art, by |-> w, checking |-> FALSE]] \in State
    BY <2>2 DEF State
  <2>4. [step |-> "fetch", strat |-> s, spec |-> desired[s], old |-> rec.proc, proc |-> None,
         cancelled |-> FALSE] \in Task
    BY <1>1 DEF Task, State
  <2> QED BY <2>1, <2>2, <2>3, <2>4 DEF Types, LoopOK, WorldOK
<1> QED BY <1>2, <1>3

\* The pass over the volumes.
LEMMA reconcileVolumesTypes ==
  ASSUME Types, reconcileVolumes
  PROVE  Types'
<1>1. dir' \subseteq Volumes
  BY DEF reconcileVolumes, Types, LoopOK, WorldOK
<1> QED BY <1>1 DEF reconcileVolumes, human, record, Types, RecordOK, LoopOK, WorldOK

\* The record a pass works on, with the mounts of the spec.
LEMMA MountedState ==
  ASSUME Types, NEW s \in Strategies, desired[s] # None
  PROVE  [st[s] EXCEPT !.mounts = desired[s].mounts] \in State
<1>1. desired[s].mounts \subseteq Volumes /\ st[s] \in State
  BY DesiredSpec DEF Specs, Types, LoopOK
<1> QED BY <1>1 DEF State

\* The pass over a strategy that is desired.
LEMMA reconcileOneTypes ==
  ASSUME Types, NEW s \in Strategies, desired[s] # None, reconcileOne(s)
  PROVE  /\ st' \in [Strategies -> State]
         /\ worker' \in [Workers -> Task \cup {Idle}]
         /\ proc' \in [Pids -> Process \cup {None}] /\ draining' \subseteq Pids
<1> DEFINE rec == [st[s] EXCEPT !.mounts = desired[s].mounts]
<1>1. rec \in State
  BY MountedState
<1>2. /\ st \in [Strategies -> State] /\ worker \in [Workers -> Task \cup {Idle}]
      /\ proc \in [Pids -> Process \cup {None}] /\ draining \subseteq Pids
  BY DEF Types, LoopOK, WorldOK
<1>3. st' = [st EXCEPT ![s] = rec] => st' \in [Strategies -> State]
  BY <1>1, <1>2
<1>4. \/ st' = [st EXCEPT ![s] = rec] /\ UNCHANGED <<worker, proc, draining>>
      \/ reconcileStopped(s, rec) /\ UNCHANGED proc
      \/ startProcess(s, rec) /\ UNCHANGED <<worker, draining>>
      \/ beginDeploy(s, rec) /\ UNCHANGED <<proc, draining>>
  BY DEF reconcileOne
<1>5. CASE st' = [st EXCEPT ![s] = rec] /\ UNCHANGED <<worker, proc, draining>>
  BY <1>2, <1>3, <1>5
<1>6. CASE reconcileStopped(s, rec) /\ UNCHANGED proc
  <2>1. [rec EXCEPT !.inflight = None, !.stopping = rec.proc # None] \in State
    BY <1>1 DEF State
  <2>2. worker' \in [Workers -> Task \cup {Idle}]
    BY <1>6, CancelledTypes DEF reconcileStopped
  <2>3. rec.proc \in Pids \cup {None}
    BY <1>1 DEF State
  <2> HIDE DEF rec
  <2> QED BY <1>2, <1>6, <2>1, <2>2, <2>3 DEF reconcileStopped
<1>7. CASE startProcess(s, rec) /\ UNCHANGED <<worker, draining>>
  BY <1>1, <1>2, <1>7, startProcessTypes
<1>8. CASE beginDeploy(s, rec) /\ UNCHANGED <<proc, draining>>
  BY <1>1, <1>2, <1>8, beginDeployTypes
<1> QED BY <1>4, <1>5, <1>6, <1>7, <1>8

\* The pass over any strategy.
LEMMA reconcileTypes ==
  ASSUME Types, NEW s \in Strategies, reconcile(s)
  PROVE  Types'
<1>1. /\ st \in [Strategies -> State] /\ worker \in [Workers -> Task \cup {Idle}]
      /\ proc \in [Pids -> Process \cup {None}] /\ draining \subseteq Pids /\ known \subseteq Strategies
  BY DEF Types, LoopOK, WorldOK
<1>2. CASE desired[s] # None
  <2>1. reconcileOne(s) /\ known' = known \cup {s}
    BY <1>2 DEF reconcile
  <2> QED BY <1>1, <1>2, <2>1, reconcileOneTypes
          DEF reconcile, human, record, Types, RecordOK, LoopOK, WorldOK
<1>3. CASE desired[s] = None /\ s \in known
  <2>1. retireStrategy(s) /\ UNCHANGED proc
    BY <1>3 DEF reconcile
  <2>2. worker' \in [Workers -> Task \cup {Idle}]
    BY <2>1, CancelledTypes DEF retireStrategy
  <2>3. NewState \in State /\ [st[s] EXCEPT !.inflight = None, !.stopping = TRUE] \in State
        /\ st[s].proc \in Pids \cup {None}
    BY <1>1 DEF NewState, State
  <2>4. st' \in [Strategies -> State] /\ draining' \subseteq Pids /\ known' \subseteq Strategies
    BY <1>1, <2>1, <2>3 DEF retireStrategy
  <2> QED BY <1>1, <2>1, <2>2, <2>4 DEF reconcile, human, record, Types, RecordOK, LoopOK, WorldOK
<1>4. CASE desired[s] = None /\ s \notin known
  BY <1>4 DEF reconcile, human, record, Types, RecordOK, LoopOK, WorldOK
<1> QED BY <1>2, <1>3, <1>4

----------------------------------------------------------------------------
(* Types: goroutines and processes *)

\* A step of a deploy worker.
LEMMA runDeployTypes ==
  ASSUME Types, NEW w \in Workers, runDeploy(w)
  PROVE  Types'
<1>1. worker[w] \in Task
  BY DEF runDeploy, Running, Types, WorldOK
<1>2. \A step \in {"fetch", "drain", "switch", "start", "up", "failed"} :
        To(w, step) => worker' \in [Workers -> Task \cup {Idle}]
  <2>1. \A step \in {"fetch", "drain", "switch", "start", "up", "failed"} :
          [worker[w] EXCEPT !.step = step] \in Task
    BY <1>1 DEF Task
  <2> QED BY <2>1 DEF To, Types, WorldOK
<1>3. End(w) => worker' \in [Workers -> Task \cup {Idle}]
  BY DEF End, Types, WorldOK
<1>4. \A p \in Pids : Alive(p) => [proc EXCEPT ![p].alive = FALSE] \in [Pids -> Process \cup {None}]
  BY DEF Alive, Process, Types, WorldOK
<1>5. worker[w].strat \in Strategies /\ worker[w].old \in Pids \cup {None}
  BY <1>1 DEF Task
<1>6. /\ worker' \in [Workers -> Task \cup {Idle}]
      /\ proc' \in [Pids -> Process \cup {None}] /\ slot' \subseteq Strategies
  <2>1. CASE Fetch(w)
    BY <1>2, <1>3, <1>5, <2>1 DEF Fetch, Types, WorldOK
  <2>2. CASE DrainOld(w)
    <3>1. [worker[w] EXCEPT !.step = "switch", !.old = None] \in Task
      BY <1>1 DEF Task
    <3>2. worker' \in [Workers -> Task \cup {Idle}]
      BY <1>3, <2>2, <3>1 DEF DrainOld, Types, WorldOK
    <3>3. proc' \in [Pids -> Process \cup {None}]
      BY <1>4, <1>5, <2>2 DEF DrainOld, Alive, Types, WorldOK
    <3> QED BY <2>2, <3>2, <3>3 DEF DrainOld, Types, WorldOK
  <2>3. CASE SwitchTo(w)
    BY <1>2, <2>3 DEF SwitchTo, Types, WorldOK
  <2>4. CASE StartNew(w)
    <3>1. PICK p \in SparePids :
            /\ proc' = [proc EXCEPT ![p] = [strat |-> worker[w].strat, mounts |-> worker[w].spec.mounts,
                                            alive |-> TRUE]]
            /\ worker' = [worker EXCEPT ![w] = [@ EXCEPT !.step = "up", !.proc = p]]
      BY <2>4 DEF StartNew
    <3>2. [worker[w] EXCEPT !.step = "up", !.proc = p] \in Task
      BY <1>1 DEF Task, SparePids
    <3>3. [strat |-> worker[w].strat, mounts |-> worker[w].spec.mounts, alive |-> TRUE] \in Process
      BY <1>1 DEF Task, Specs, Process
    <3> QED BY <2>4, <3>1, <3>2, <3>3 DEF StartNew, SparePids, Types, WorldOK
  <2>5. CASE DropEvent(w)
    BY <1>3, <2>5 DEF DropEvent, Types, WorldOK
  <2> QED BY <2>1, <2>2, <2>3, <2>4, <2>5 DEF runDeploy
<1>7. Quiet
  BY DEF runDeploy, Fetch, DrainOld, SwitchTo, StartNew, DropEvent
<1> QED BY <1>6, <1>7 DEF Quiet, human, record, loop, Types, RecordOK, LoopOK, WorldOK

\* Processes end, slots are deleted.
LEMMA WorldTypes ==
  ASSUME Types,
         \/ \E p \in Pids : Drain(p) \/ Exit(p)
         \/ \E s \in Strategies : runReap(s)
  PROVE  Types'
<1>1. ASSUME NEW p \in Pids, Drain(p) \/ Exit(p) PROVE Types'
  <2>1. proc' \in [Pids -> Process \cup {None}]
    BY <1>1 DEF Drain, Exit, Alive, Process, Types, WorldOK
  <2>2. events' \in 0..MaxEvents
    BY <1>1, BoundAssumption DEF Drain, Exit, human, Types, RecordOK
  <2> QED BY <1>1, <2>1, <2>2
          DEF Drain, Exit, human, record, loop, Types, RecordOK, LoopOK, WorldOK
<1>2. ASSUME NEW s \in Strategies, runReap(s) PROVE Types'
  BY <1>2 DEF runReap, human, record, loop, Types, RecordOK, LoopOK, WorldOK
<1> QED BY <1>1, <1>2

LEMMA InitTypes == Init => Types
<1> SUFFICES ASSUME Init PROVE Types
  OBVIOUS
<1>1. RecordOK
  BY StoredAssumption, BoundAssumption DEF Init, RecordOK
<1>2. LoopOK
  <2>1. NewState \in State
    BY DEF NewState, State
  <2>2. \A s \in Strategies : StoredSpecs[s] # None =>
          [NewState EXCEPT !.mounts = StoredSpecs[s].mounts] \in State
    BY <2>1, StoredAssumption DEF State, Specs
  <2> QED BY <2>1, <2>2, StoredAssumption DEF Init, LoopOK
<1>3. WorldOK
  BY StoredAssumption DEF Init, WorldOK
<1> QED BY <1>1, <1>2, <1>3 DEF Types

LEMMA StepTypes == Types /\ [Next]_vars => Types'
<1> SUFFICES ASSUME Types, [Next]_vars PROVE Types'
  OBVIOUS
<1>1. CASE \E c \in Callers :
             Ask(c) \/ Apply(c) \/ CreateVolume(c) \/ AskDeleteVolume(c) \/ DeleteVolume(c)
  BY <1>1, VerbTypes
<1>2. CASE \E s \in Strategies : handleReapOp(s)
  BY <1>2, ReapTypes
<1>3. CASE Event
  BY <1>3, EventTypes
<1>4. CASE Pass
  BY <1>4, reconcileVolumesTypes, reconcileTypes DEF Pass
<1>5. CASE Goroutine \/ \E p \in Pids : Exit(p)
  BY <1>5, runDeployTypes, WorldTypes DEF Goroutine
<1>6. CASE UNCHANGED vars
  BY <1>6 DEF vars, human, record, loop, world, Types, RecordOK, LoopOK, WorldOK
<1> QED BY <1>1, <1>2, <1>3, <1>4, <1>5, <1>6 DEF Next

\* Every variable of the control plane and the agent keeps its type, for any
\* strategies, volumes, verbs and haste: in particular nobody drains a process
\* that is none, and no result is applied to a deploy that is none.
THEOREM TypeCorrect == Spec => []TypeOK
<1>1. Types => TypeOK
  BY DEF Types, RecordOK, LoopOK, WorldOK, TypeOK
<1> QED BY <1>1, InitTypes, StepTypes, PTL DEF Spec

----------------------------------------------------------------------------
(* What is stored can be carried out *)

\* Two requests are never served at a time (the store is locked for each half of
\* a verb only, so nothing in the code ensures this).
OneCaller == \A c, d \in Callers : c = d

\* What a verb read still holds when it writes: the volumes it mounts are there,
\* the volume it deletes is mounted by nobody.
Fresh(c) ==
  call[c] # None =>
    IF call[c].kind = "DeleteVolume" THEN ~volumeOccupied(call[c].vol)
    ELSE call[c].next # None => call[c].next.mounts \subseteq inventory

PlacedInv == Types /\ Placed /\ \A c \in Callers : Fresh(c)

\* Whatever a verb asks for mounts volumes the machine has.
LEMMA AsksMounts ==
  ASSUME Types, Placed, NEW kind, NEW s \in Strategies, NEW next \in Specs \cup {None},
         Asks(kind, s, next), next # None
  PROVE  next.mounts \subseteq inventory /\ kind # "DeleteVolume"
<1>1. assigned[s] # None => assigned[s] \in Specs /\ assigned[s].mounts \subseteq inventory
  BY DEF Types, RecordOK, Placed
<1>2. kind # "DeleteVolume"
  BY DEF Asks
<1>3. \/ ApplyAssignment(s, next) \/ Deploy(s, next) \/ Rollback(s, next)
      \/ setRunState(s, next, TRUE) \/ setRunState(s, next, FALSE)
      \/ SetSchedule(s, next)
  BY DEF Asks, Undeploy
<1>4. next.mounts \subseteq inventory
  <2>1. CASE ApplyAssignment(s, next)
    BY <2>1 DEF ApplyAssignment, validateAssignmentMounts
  <2>2. CASE Deploy(s, next)
    BY <1>1, <2>2 DEF Deploy, Specs
  <2>3. CASE Rollback(s, next) \/ setRunState(s, next, TRUE) \/ setRunState(s, next, FALSE)
    BY <1>1, <2>3 DEF Rollback, setRunState, Specs
  <2>4. CASE SetSchedule(s, next)
    BY <1>1, <2>4 DEF SetSchedule
  <2> QED BY <1>3, <2>1, <2>2, <2>3, <2>4
<1> QED BY <1>2, <1>4

\* The read of a verb.
LEMMA AskPlaced ==
  ASSUME OneCaller, PlacedInv, NEW c \in Callers, Ask(c) \/ AskDeleteVolume(c)
  PROVE  Placed' /\ \A d \in Callers : Fresh(d)'
<1>1. UNCHANGED <<assigned, inventory>>
  BY DEF Ask, AskDeleteVolume, record
<1>2. Placed'
  BY <1>1 DEF PlacedInv, Placed
<1>3. CASE Ask(c)
  <2>1. PICK kind \in VerbKinds, s \in Strategies, next \in Specs \cup {None} :
          Asks(kind, s, next) /\ call' = [call EXCEPT ![c] = [kind |-> kind, strat |-> s, next |-> next]]
    BY <1>3 DEF Ask
  <2>2. call'[c] = [kind |-> kind, strat |-> s, next |-> next]
    BY <2>1 DEF PlacedInv, Types, RecordOK
  <2>3. kind # "DeleteVolume"
    BY <2>1 DEF Asks
  <2>4. next # None => next.mounts \subseteq inventory
    BY <2>1, AsksMounts DEF PlacedInv
  <2> QED BY <1>1, <1>2, <2>2, <2>3, <2>4 DEF Fresh, OneCaller
<1>4. CASE AskDeleteVolume(c)
  <2>1. PICK v \in inventory :
          ~volumeOccupied(v) /\ call' = [call EXCEPT ![c] = [kind |-> "DeleteVolume", vol |-> v]]
    BY <1>4 DEF AskDeleteVolume
  <2>2. call'[c] = [kind |-> "DeleteVolume", vol |-> v]
    BY <2>1 DEF PlacedInv, Types, RecordOK
  <2> QED BY <1>1, <1>2, <2>1, <2>2 DEF Fresh, OneCaller, volumeOccupied
<1> QED BY <1>3, <1>4

\* The write of an assignment: who else runs on its volumes is looked for again.
LEMMA ApplyPlaced ==
  ASSUME OneCaller, PlacedInv, NEW c \in Callers, Apply(c)
  PROVE  Placed' /\ \A d \in Callers : Fresh(d)'
<1> DEFINE s == call[c].strat
           next == call[c].next
<1>1. /\ assigned \in [Strategies -> Specs \cup {None}] /\ s \in Strategies
      /\ next \in Specs \cup {None} /\ UNCHANGED inventory
  BY DEF PlacedInv, Types, RecordOK, Apply, Call
<1>2. \A d \in Callers : Fresh(d)'
  BY DEF Apply, Fresh, OneCaller, PlacedInv, Types, RecordOK
<1>3. CASE next # None /\ ~next.stopped /\ LiveWriterConflict(s, next.mounts)
  BY <1>1, <1>2, <1>3 DEF Apply, Placed, PlacedInv
<1>4. CASE ~(next # None /\ ~next.stopped /\ LiveWriterConflict(s, next.mounts))
  <2>1. assigned' = [assigned EXCEPT ![s] = next]
    BY <1>4 DEF Apply, SetAssignment
  <2>2. next # None => next.mounts \subseteq inventory
    BY DEF Apply, PlacedInv, Fresh
  <2>3. next # None /\ ~next.stopped =>
          \A o \in Strategies \ {s} : assigned[o] # None /\ ~assigned[o].stopped =>
            assigned[o].mounts \cap next.mounts = {}
    BY <1>4 DEF LiveWriterConflict
  <2> HIDE DEF s, next
  <2> QED BY <1>1, <1>2, <2>1, <2>2, <2>3 DEF Placed, PlacedInv
<1> QED BY <1>3, <1>4

\* Volumes come and go.
LEMMA VolumePlaced ==
  ASSUME OneCaller, PlacedInv, NEW c \in Callers, CreateVolume(c) \/ DeleteVolume(c)
  PROVE  Placed' /\ \A d \in Callers : Fresh(d)'
<1>1. CASE CreateVolume(c)
  BY <1>1 DEF CreateVolume, Begins, Placed, PlacedInv, Fresh, OneCaller
<1>2. CASE DeleteVolume(c)
  <2>1. ~volumeOccupied(call[c].vol)
    BY <1>2 DEF DeleteVolume, PlacedInv, Fresh
  <2>2. Placed'
    BY <1>2, <2>1 DEF DeleteVolume, volumeOccupied, Placed, PlacedInv
  <2>3. \A d \in Callers : Fresh(d)'
    BY <1>2 DEF DeleteVolume, Fresh, OneCaller, PlacedInv, Types, RecordOK
  <2> QED BY <2>2, <2>3
<1> QED BY <1>1, <1>2

\* The agent writes nothing into the record.
LEMMA OthersKeepRecord ==
  ASSUME [Next]_vars,
         ~ \E c \in Callers :
             Ask(c) \/ Apply(c) \/ CreateVolume(c) \/ AskDeleteVolume(c) \/ DeleteVolume(c)
  PROVE  UNCHANGED <<assigned, inventory, call>>
<1>1. CASE Event
  BY <1>1 DEF Event, applyDesired, handleExit, applyWorkerEvent, markHealthy, applyReapDone, human, record
<1>2. CASE Pass
  BY <1>2 DEF Pass, reconcileVolumes, reconcile, human, record
<1>3. CASE Goroutine
  BY <1>3 DEF Goroutine, runDeploy, Fetch, DrainOld, SwitchTo, StartNew, DropEvent, Quiet, Drain,
              runReap, human, record
<1>4. CASE (\E s \in Strategies : handleReapOp(s)) \/ \E p \in Pids : Exit(p)
  BY <1>4 DEF handleReapOp, Exit, record
<1>5. CASE UNCHANGED vars
  BY <1>5 DEF vars, human, record
<1> QED BY <1>1, <1>2, <1>3, <1>4, <1>5 DEF Next

LEMMA PlacedInit == Init => PlacedInv
<1> SUFFICES ASSUME Init PROVE Placed /\ \A c \in Callers : Fresh(c)
  BY InitTypes DEF PlacedInv
<1> QED BY StoredAssumption DEF Init, Placed, Fresh

LEMMA PlacedNext ==
  ASSUME OneCaller, PlacedInv, [Next]_vars
  PROVE  PlacedInv'
<1> SUFFICES Placed' /\ \A c \in Callers : Fresh(c)'
  BY StepTypes DEF PlacedInv
<1>1. CASE \E c \in Callers :
             Ask(c) \/ Apply(c) \/ CreateVolume(c) \/ AskDeleteVolume(c) \/ DeleteVolume(c)
  BY <1>1, AskPlaced, ApplyPlaced, VolumePlaced
<1>2. CASE UNCHANGED <<assigned, inventory, call>>
  BY <1>2 DEF PlacedInv, Placed, Fresh, volumeOccupied
<1> QED BY <1>1, <1>2, OthersKeepRecord

\* Whatever sequence of verbs is served, one at a time: what is assigned mounts
\* volumes of the inventory, and no two assignments that are not halted share one
\* (validateAssignmentMounts, liveWriterConflict, volumeOccupied).
THEOREM PlacedOneAtATime == ASSUME OneCaller PROVE Spec => []Placed
<1>1. Init => PlacedInv
  BY PlacedInit
<1>2. PlacedInv /\ [Next]_vars => PlacedInv'
  BY PlacedNext
<1> QED BY <1>1, <1>2, PTL DEF Spec, PlacedInv

----------------------------------------------------------------------------
(* One writer, on a disk that stays: the deploys *)

Of(w, s)  == Running(w) /\ worker[w].strat = s
Wants(spec) == spec # None /\ ~spec.stopped

\* The deploy a strategy has in flight is its own, of what its record says, and
\* still wanted.
InHand ==
  \A s \in Strategies, w \in Workers : st[s].inflight # None /\ st[s].inflight.by = w /\ Running(w) =>
    /\ worker[w].strat = s /\ worker[w].spec.art = st[s].inflight.art
    /\ ~worker[w].cancelled /\ ~st[s].inflight.checking

\* A goroutine that is still wanted is the deploy its strategy has in flight.
Answered ==
  \A w \in Workers : Running(w) /\ ~worker[w].cancelled =>
    /\ st[worker[w].strat].inflight # None
    /\ st[worker[w].strat].inflight.by = w

\* What a withdrawn goroutine still has to say is not taken for another's: where
\* its artifact is deployed, to be deployed by the agent, or asked for by the
\* record, no goroutine of it is withdrawn.
ToldApart ==
  \A s \in Strategies, w \in Workers : Of(w, s) =>
    /\ st[s].inflight # None /\ worker[w].spec.art = st[s].inflight.art => ~worker[w].cancelled
    /\ Wants(desired[s]) /\ worker[w].spec.art = desired[s].art => ~worker[w].cancelled
    /\ Wants(assigned[s]) /\ worker[w].spec.art = assigned[s].art =>
         ~worker[w].cancelled /\ Wants(desired[s])

\* Nothing is deployed that is not desired; what is not known is new.
Desired == \A s \in Strategies : desired[s] = None => st[s].inflight = None
UnknownIsNew == \A s \in Strategies \ known : st[s] = NewState

\* A goroutine that reports a process reports its own.
Reports ==
  \A w \in Workers : Running(w) =>
    /\ worker[w].step = "up" => worker[w].proc # None
    /\ worker[w].proc # None =>
         /\ worker[w].step = "up"
         /\ proc[worker[w].proc] # None
         /\ proc[worker[w].proc].strat = worker[w].strat
         /\ proc[worker[w].proc].mounts = worker[w].spec.mounts

DeployInv == InHand /\ Answered /\ ToldApart /\ Desired /\ UnknownIsNew /\ Reports

\* Withdrawing deploys changes nothing else about a goroutine.
LEMMA CancelledFields ==
  ASSUME Types, NEW S, NEW w \in Workers
  PROVE  /\ (Cancelled(S)[w] # Idle) <=> Running(w)
         /\ ~Running(w) => Cancelled(S)[w] = worker[w]
         /\ Running(w) =>
              /\ Cancelled(S)[w].strat = worker[w].strat /\ Cancelled(S)[w].spec = worker[w].spec
              /\ Cancelled(S)[w].step = worker[w].step /\ Cancelled(S)[w].proc = worker[w].proc
              /\ Cancelled(S)[w].old = worker[w].old
              /\ Cancelled(S)[w].cancelled <=>
                   \/ worker[w].cancelled
                   \/ \E s \in S : st[s].inflight # None /\ st[s].inflight.by = w
<1>1. CASE ~Running(w)
  BY <1>1 DEF Cancelled, Running
<1>2. CASE Running(w)
  <2>1. worker[w] \in Task
    BY <1>2 DEF Running, Types, WorldOK
  <2>2. Cancelled(S)[w] = IF \E s \in S : st[s].inflight # None /\ st[s].inflight.by = w
                          THEN [worker[w] EXCEPT !.cancelled = TRUE] ELSE worker[w]
    BY <1>2 DEF Cancelled
  <2>3. Cancelled(S)[w] \in Task
    BY <2>1, <2>2 DEF Task
  <2>4. Cancelled(S)[w] # Idle
    <3>1. Cancelled(S)[w].step # "none"
      BY <2>3 DEF Task
    <3> QED BY <3>1 DEF Idle
  <2> QED BY <1>2, <2>1, <2>2, <2>4 DEF Task
<1> QED BY <1>1, <1>2

\* A task is not the absence of one.
LEMMA TaskRuns ==
  ASSUME NEW t \in Task
  PROVE  t # Idle
<1>1. t.step # "none"
  BY DEF Task
<1> QED BY <1>1 DEF Idle

\* The record of a strategy.
LEMMA Records ==
  ASSUME Types
  PROVE  /\ \A s \in Strategies : st[s] \in State
         /\ \A w \in Workers : Running(w) => worker[w] \in Task
         /\ \A w \in Workers : Running(w) => worker[w].strat \in Strategies /\ worker[w].spec \in Specs
         /\ \A p \in Pids : proc[p] # None => proc[p] \in Process
BY DEF Types, LoopOK, WorldOK, Running, Task

\* A step that leaves the deploys and what is wanted alone.
LEMMA SameDeploys ==
  ASSUME DeployInv, UNCHANGED <<assigned, desired, worker>>,
         \A s \in Strategies \ known' : st'[s] = NewState,
         \A s \in Strategies : st'[s].inflight = st[s].inflight,
         \A p \in Pids : proc[p] # None =>
           proc'[p] # None /\ proc'[p].strat = proc[p].strat /\ proc'[p].mounts = proc[p].mounts,
         Types
  PROVE  DeployInv'
<1>1. InHand' /\ Answered' /\ ToldApart' /\ Desired'
  <2>1. \A w \in Workers : Running(w) => worker[w].strat \in Strategies
    BY Records
  <2> QED BY <2>1 DEF DeployInv, InHand, Answered, ToldApart, Desired, Of, Running, Wants
<1>2. UnknownIsNew'
  BY DEF DeployInv, UnknownIsNew
<1>3. Reports'
  <2>1. \A w \in Workers : Running(w) /\ worker[w].proc # None => worker[w].proc \in Pids
    BY Records DEF Task
  <2> QED BY <2>1 DEF DeployInv, Reports, Running
<1> QED BY <1>1, <1>2, <1>3 DEF DeployInv

\* Deploys are withdrawn: those of strategies in S, which are not wanted as they are.
LEMMA WithdrawnDeploys ==
  ASSUME Types, DeployInv, NEW S \in SUBSET Strategies, worker' = Cancelled(S), UNCHANGED <<assigned, proc>>,
         \A s \in S : st'[s].inflight = None,
         \A s \in Strategies \ S : st'[s].inflight = st[s].inflight,
         \A s \in Strategies : desired'[s] \in {desired[s], assigned[s]},
         \A s \in Strategies \ S : desired'[s] = None => st[s].inflight = None,
         \A s \in S : st[s].inflight # None =>
           /\ Wants(desired'[s]) => desired'[s].art # st[s].inflight.art
           /\ Wants(assigned[s]) => assigned[s].art # st[s].inflight.art \/ ~Wants(desired[s])
  PROVE  InHand' /\ Answered' /\ ToldApart' /\ Desired' /\ Reports'
<1>1. \A w \in Workers : Running(w) => worker[w].strat \in Strategies
  BY Records
<1>2. \A w \in Workers :
        /\ Running(w)' <=> Running(w)
        /\ Running(w) =>
             /\ worker'[w].strat = worker[w].strat /\ worker'[w].spec = worker[w].spec
             /\ worker'[w].step = worker[w].step /\ worker'[w].proc = worker[w].proc
             /\ worker'[w].cancelled <=>
                  worker[w].cancelled \/ \E s \in S : st[s].inflight # None /\ st[s].inflight.by = w
  BY CancelledFields DEF Running
<1>3. \A w \in Workers, s \in S : Running(w) /\ st[s].inflight # None /\ st[s].inflight.by = w =>
        worker[w].strat = s /\ worker[w].spec.art = st[s].inflight.art
  BY DEF DeployInv, InHand
<1>4. InHand'
  BY <1>2, <1>3 DEF DeployInv, InHand
<1>5. Answered'
  BY <1>1, <1>2, <1>3 DEF DeployInv, Answered
<1>6. ToldApart'
  <2> SUFFICES ASSUME NEW s \in Strategies, NEW w \in Workers, Of(w, s)'
               PROVE  /\ st'[s].inflight # None /\ worker'[w].spec.art = st'[s].inflight.art => ~worker'[w].cancelled
                      /\ Wants(desired'[s]) /\ worker'[w].spec.art = desired'[s].art => ~worker'[w].cancelled
                      /\ Wants(assigned[s]) /\ worker'[w].spec.art = assigned[s].art =>
                           ~worker'[w].cancelled /\ Wants(desired'[s])
    BY DEF ToldApart, Wants
  <2>1. Of(w, s)
    BY <1>2 DEF Of
  <2>2. worker'[w].cancelled => \/ worker[w].cancelled
                                \/ s \in S /\ st[s].inflight # None /\ worker[w].spec.art = st[s].inflight.art
    BY <1>2, <1>3, <2>1 DEF Of
  <2>3. worker'[w].spec = worker[w].spec
    BY <1>2, <2>1 DEF Of
  <2>4. /\ st[s].inflight # None /\ worker[w].spec.art = st[s].inflight.art => ~worker[w].cancelled
        /\ Wants(desired[s]) /\ worker[w].spec.art = desired[s].art => ~worker[w].cancelled
        /\ Wants(assigned[s]) /\ worker[w].spec.art = assigned[s].art => ~worker[w].cancelled /\ Wants(desired[s])
    BY <2>1 DEF DeployInv, ToldApart
  <2>5. desired'[s] = desired[s] \/ desired'[s] = assigned[s]
    OBVIOUS
  <2> QED BY <2>2, <2>3, <2>4, <2>5
<1>7. Desired'
  BY DEF DeployInv, Desired
<1>8. Reports'
  BY <1>1, <1>2 DEF DeployInv, Reports
<1> QED BY <1>4, <1>5, <1>6, <1>7, <1>8

LEMMA applyDesiredDeploys ==
  ASSUME Types, DeployInv, applyDesired
  PROVE  DeployInv'
<1> DEFINE gone == {s \in known : st[s].inflight # None
                      /\ (assigned[s] = None \/ assigned[s].art # st[s].inflight.art)}
<1>1. /\ worker' = Cancelled(gone) /\ desired' = assigned /\ UNCHANGED <<assigned, proc, known>>
      /\ gone \in SUBSET Strategies /\ known \subseteq Strategies
  BY DEF applyDesired, human, record, Types, LoopOK
<1>2. \A s \in Strategies : st'[s] = [st[s] EXCEPT !.failed = FALSE,
                                        !.inflight = IF s \in gone THEN None ELSE @]
  BY DEF applyDesired
<1>3. \A s \in Strategies : st'[s].inflight = IF s \in gone THEN None ELSE st[s].inflight
  BY <1>2, Records DEF State
<1>4. \A s \in Strategies \ gone : assigned[s] = None => st[s].inflight = None
  <2>1. NewState.inflight = None
    BY DEF NewState
  <2> QED BY <2>1 DEF DeployInv, UnknownIsNew
<1>5. InHand' /\ Answered' /\ ToldApart' /\ Desired' /\ Reports'
  <2>1. \A s \in gone : st[s].inflight # None /\ (Wants(assigned[s]) => assigned[s].art # st[s].inflight.art)
    BY DEF Wants
  <2> HIDE DEF gone
  <2> QED BY <1>1, <1>3, <1>4, <2>1, WithdrawnDeploys
<1>6. UnknownIsNew'
  <2>1. NewState \in State /\ NewState.inflight = None /\ NewState.failed = FALSE
    BY DEF NewState, State
  <2>2. \A s \in Strategies \ known : st[s] = NewState /\ s \notin gone
    BY DEF DeployInv, UnknownIsNew
  <2>3. \A s \in Strategies \ known : st'[s] = [NewState EXCEPT !.failed = FALSE, !.inflight = None]
    BY <1>2, <2>1, <2>2
  <2>4. [NewState EXCEPT !.failed = FALSE, !.inflight = None] = NewState
    <3> DEFINE n == NewState
    <3>1. n \in State /\ n.inflight = None /\ n.failed = FALSE
      BY <2>1
    <3> HIDE DEF n
    <3>2. [n EXCEPT !.failed = FALSE, !.inflight = None] = n
      BY <3>1 DEF State
    <3> QED BY <3>2 DEF n
  <2> QED BY <1>1, <2>3, <2>4 DEF UnknownIsNew
<1> QED BY <1>5, <1>6 DEF DeployInv

LEMMA handleExitDeploys ==
  ASSUME Types, DeployInv, NEW p \in Pids, handleExit(p)
  PROVE  DeployInv'
<1> DEFINE s == proc[p].strat
<1>1. /\ UNCHANGED <<assigned, desired, worker>> /\ s \in Strategies /\ st \in [Strategies -> State]
      /\ proc \in [Pids -> Process \cup {None}] /\ known \subseteq Strategies
  BY Records DEF handleExit, human, record, Types, LoopOK, WorldOK, Process
<1>2. \/ UNCHANGED <<known, st>>
      \/ /\ st' = [st EXCEPT ![s] = NewState] /\ desired[s] = None /\ known' = known \ {s}
      \/ /\ s \in known /\ st' = [st EXCEPT ![s] = [@ EXCEPT !.proc = None, !.stopping = FALSE]]
         /\ known' = known
  BY DEF handleExit
<1>3. NewState.inflight = None
  BY DEF NewState
<1>4. \A o \in Strategies : st'[o].inflight = st[o].inflight
  <2>1. CASE UNCHANGED <<known, st>>
    BY <2>1
  <2>2. CASE st' = [st EXCEPT ![s] = NewState] /\ desired[s] = None
    <3>1. st[s].inflight = None
      BY <1>1, <2>2 DEF DeployInv, Desired
    <3> QED BY <1>1, <1>3, <2>2, <3>1
  <2>3. CASE st' = [st EXCEPT ![s] = [@ EXCEPT !.proc = None, !.stopping = FALSE]]
    <3>1. [st[s] EXCEPT !.proc = None, !.stopping = FALSE].inflight = st[s].inflight
      BY <1>1 DEF State
    <3> QED BY <1>1, <2>3, <3>1
  <2> QED BY <1>2, <2>1, <2>2, <2>3
<1>5. \A o \in Strategies \ known' : st'[o] = NewState
  BY <1>1, <1>2 DEF DeployInv, UnknownIsNew
<1>6. \A w \in Workers : Running(w) => worker[w].proc # p
  BY DEF handleExit
<1>7. \A q \in Pids \ {p} : proc'[q] = proc[q]
  BY <1>1 DEF handleExit
<1>8. \A w \in Workers : Running(w) => worker[w].strat \in Strategies /\ worker[w].proc \in Pids \cup {None}
  BY Records DEF Task
<1> HIDE DEF s
<1> QED BY <1>1, <1>4, <1>5, <1>6, <1>7, <1>8
        DEF DeployInv, InHand, Answered, ToldApart, Desired, UnknownIsNew, Reports, Of, Running, Wants

LEMMA applyWorkerEventDeploys ==
  ASSUME Types, DeployInv, NEW w \in Workers, applyWorkerEvent(w)
  PROVE  DeployInv'
<1> DEFINE s == worker[w].strat
<1>1. /\ UNCHANGED <<assigned, desired, known, proc>> /\ s \in Strategies /\ st \in [Strategies -> State]
      /\ worker \in [Workers -> Task \cup {Idle}] /\ worker' = [worker EXCEPT ![w] = Idle] /\ Running(w)
      /\ known \subseteq Strategies
  BY Records DEF applyWorkerEvent, human, record, Types, LoopOK, WorldOK
<1>2. Heeded(w) <=> ~worker[w].cancelled
  <2>1. NewState.inflight = None
    BY DEF NewState
  <2> QED BY <1>1, <2>1 DEF Heeded, DeployInv, InHand, Answered, ToldApart, UnknownIsNew, Of
<1>3. Heeded(w) => s \in known /\ st[s].inflight # None /\ st[s].inflight.by = w
  BY <1>1, <1>2 DEF Heeded, DeployInv, Answered
<1>4. \A o \in Strategies : o # s \/ ~Heeded(w) => st'[o] = st[o]
  BY <1>1 DEF applyWorkerEvent
<1>5. Heeded(w) => /\ st'[s].inflight = None \/ /\ st'[s].inflight.by = w /\ st'[s].inflight.art = st[s].inflight.art
                                                /\ st'[s].inflight # None
  <2>1. Heeded(w) => st[s].inflight \in Op /\ st[s] \in State
    BY <1>1, <1>3 DEF State
  <2>2. Heeded(w) => [st[s].inflight EXCEPT !.checking = TRUE] \in Op
    BY <2>1 DEF Op
  <2>3. None \notin Op
    BY NoneAssumption
  <2>4. Heeded(w) => \/ st'[s].inflight = [st[s].inflight EXCEPT !.checking = TRUE]
                     \/ st'[s].inflight = None
    <3>1. CASE Heeded(w) /\ worker[w].step = "up"
      <4>1. st' = [st EXCEPT ![s] = [@ EXCEPT !.running = worker[w].spec.art, !.proc = worker[w].proc,
                                              !.stopping = FALSE, !.inflight.checking = TRUE]]
        BY <3>1 DEF applyWorkerEvent
      <4>2. st'[s].inflight = [st[s].inflight EXCEPT !.checking = TRUE]
        BY <1>1, <2>1, <3>1, <4>1 DEF State
      <4> QED BY <4>2
    <3>2. CASE Heeded(w) /\ worker[w].step # "up"
      <4>1. st' = [st EXCEPT ![s] = [@ EXCEPT !.failed = TRUE, !.stopping = FALSE, !.inflight = None]]
        BY <3>2 DEF applyWorkerEvent
      <4> QED BY <1>1, <2>1, <3>2, <4>1 DEF State
    <3> QED BY <3>1, <3>2
  <2> QED BY <1>3, <2>1, <2>2, <2>3, <2>4 DEF Op
<1>6. \A v \in Workers : /\ v # w => worker'[v] = worker[v]
                         /\ Running(v)' <=> v # w /\ Running(v)
  BY <1>1 DEF Running
<1>7. \A v \in Workers : Running(v) => worker[v].strat \in Strategies
  BY Records
<1> HIDE DEF s
<1>8. InHand'
  BY <1>1, <1>3, <1>4, <1>5, <1>6, <1>7 DEF DeployInv, InHand
<1>9. Answered'
  BY <1>1, <1>2, <1>3, <1>4, <1>5, <1>6, <1>7 DEF DeployInv, Answered
<1>10. ToldApart'
  BY <1>1, <1>3, <1>4, <1>5, <1>6, <1>7 DEF DeployInv, ToldApart, Of, Wants
<1>11. Desired' /\ UnknownIsNew' /\ Reports'
  BY <1>1, <1>3, <1>4, <1>5, <1>6 DEF DeployInv, Desired, UnknownIsNew, Reports
<1> QED BY <1>8, <1>9, <1>10, <1>11 DEF DeployInv

LEMMA markHealthyDeploys ==
  ASSUME Types, DeployInv, NEW s \in Strategies, markHealthy(s)
  PROVE  DeployInv'
<1>1. /\ UNCHANGED <<assigned, desired, known, proc, worker>> /\ st \in [Strategies -> State]
      /\ s \in known /\ st[s].inflight # None /\ st[s].inflight.checking /\ known \subseteq Strategies
  BY DEF markHealthy, human, record, world, Types, LoopOK
<1>2. st'[s].inflight = None /\ \A o \in Strategies \ {s} : st'[o] = st[o]
  BY <1>1 DEF markHealthy, State
<1>3. \A w \in Workers : Running(w) => worker[w].strat \in Strategies
  BY Records
<1>4. \A w \in Workers : st[s].inflight.by = w => ~Running(w)
  BY <1>1 DEF DeployInv, InHand
<1> QED BY <1>1, <1>2, <1>3, <1>4
        DEF DeployInv, InHand, Answered, ToldApart, Desired, UnknownIsNew, Reports, Of, Running, Wants

\* What a pass over a strategy may do to it, as fields of its record.  Others are
\* left alone.
Others(s) == \A o \in Strategies \ {s} : st'[o] = st[o]

\* Nothing to do, a deploy in flight, or a writer in the way.
Keeps(s) ==
  /\ desired[s] # None /\ known' = known \cup {s} /\ UNCHANGED <<worker, proc>> /\ Others(s)
  /\ st'[s].running = st[s].running /\ st'[s].proc = st[s].proc /\ st'[s].inflight = st[s].inflight
  /\ st'[s].mounts = desired[s].mounts

Halts(s) ==
  /\ desired[s] # None /\ desired[s].stopped
  /\ known' = known \cup {s} /\ worker' = Cancelled({s}) /\ UNCHANGED proc /\ Others(s)
  /\ st'[s].running = st[s].running /\ st'[s].proc = st[s].proc /\ st'[s].inflight = None
  /\ st'[s].mounts = desired[s].mounts

Restarts(s, p) ==
  /\ Wants(desired[s]) /\ versionMatches(desired[s], s) /\ volumePresent(desired[s].mounts)
  /\ ~volumeWriterConflict(s, desired[s].mounts) /\ ~Held(s)
  /\ known' = known \cup {s} /\ UNCHANGED worker /\ proc' = Started(s, p) /\ Others(s)
  /\ st'[s].running = st[s].running /\ st'[s].proc = p /\ st'[s].inflight = st[s].inflight
  /\ st'[s].mounts = desired[s].mounts

Redeploys(s, w) ==
  /\ Wants(desired[s]) /\ ~versionMatches(desired[s], s) /\ volumePresent(desired[s].mounts)
  /\ ~volumeWriterConflict(s, desired[s].mounts) /\ ~Held(s) /\ st[s].inflight = None
  /\ known' = known \cup {s} /\ UNCHANGED proc /\ Others(s)
  /\ worker' = [worker EXCEPT ![w] = [step |-> "fetch", strat |-> s, spec |-> desired[s],
                                      old |-> st[s].proc, proc |-> None, cancelled |-> FALSE]]
  /\ st'[s].running = st[s].running /\ st'[s].proc = st[s].proc
  /\ st'[s].inflight = [art |-> desired[s].art, by |-> w, checking |-> FALSE]
  /\ st'[s].mounts = desired[s].mounts

Retires(s) ==
  /\ desired[s] = None /\ s \in known /\ worker' = Cancelled({s}) /\ UNCHANGED proc /\ Others(s)
  /\ \/ st[s].proc = None /\ known' = known \ {s} /\ st'[s] = NewState
     \/ /\ st[s].proc # None /\ known' = known /\ st'[s].inflight = None /\ st'[s].stopping
        /\ st'[s].running = st[s].running /\ st'[s].proc = st[s].proc /\ st'[s].mounts = st[s].mounts

Skips(s) == desired[s] = None /\ s \notin known /\ UNCHANGED <<known, st, worker, proc>>

LEMMA StartShapes ==
  ASSUME Types, NEW s \in Strategies, NEW rec \in State, startProcess(s, rec), desired[s] # None
  PROVE  /\ Others(s) /\ st'[s].running = rec.running /\ st'[s].inflight = rec.inflight
         /\ st'[s].mounts = rec.mounts
         /\ \/ UNCHANGED proc /\ st'[s].proc = rec.proc
            \/ /\ ~volumeWriterConflict(s, desired[s].mounts)
               /\ \E p \in SparePids : proc' = Started(s, p) /\ st'[s].proc = p
<1>1. st \in [Strategies -> State]
  BY DEF Types, LoopOK
<1>2. CASE volumeWriterConflict(s, desired[s].mounts)
  BY <1>1, <1>2 DEF startProcess, Others
<1>3. CASE ~volumeWriterConflict(s, desired[s].mounts)
  <2>1. PICK p \in SparePids :
          st' = [st EXCEPT ![s] = [rec EXCEPT !.proc = p, !.stopping = FALSE]] /\ proc' = Started(s, p)
    BY <1>3 DEF startProcess
  <2> QED BY <1>1, <1>3, <2>1 DEF Others, State
<1> QED BY <1>2, <1>3

LEMMA DeployShapes ==
  ASSUME Types, NEW s \in Strategies, NEW rec \in State, beginDeploy(s, rec), desired[s] # None
  PROVE  /\ Others(s) /\ st'[s].running = rec.running /\ st'[s].proc = rec.proc
         /\ st'[s].mounts = rec.mounts
         /\ \/ UNCHANGED worker /\ st'[s].inflight = rec.inflight
            \/ /\ ~volumeWriterConflict(s, desired[s].mounts)
               /\ \E w \in SpareWorkers :
                    /\ st'[s].inflight = [art |-> desired[s].art, by |-> w, checking |-> FALSE]
                    /\ worker' = [worker EXCEPT ![w] = [step |-> "fetch", strat |-> s, spec |-> desired[s],
                                      old |-> rec.proc, proc |-> None, cancelled |-> FALSE]]
<1>1. st \in [Strategies -> State]
  BY DEF Types, LoopOK
<1>2. CASE volumeWriterConflict(s, desired[s].mounts)
  BY <1>1, <1>2 DEF beginDeploy, Others, State
<1>3. CASE ~volumeWriterConflict(s, desired[s].mounts)
  <2>1. PICK w \in SpareWorkers :
         /\ st' = [st EXCEPT ![s] = [rec EXCEPT !.inflight =
                      [art |-> desired[s].art, by |-> w, checking |-> FALSE]]]
         /\ worker' = [worker EXCEPT ![w] = [step |-> "fetch", strat |-> s, spec |-> desired[s],
                          old |-> rec.proc, proc |-> None, cancelled |-> FALSE]]
    BY <1>3 DEF beginDeploy
  <2>2. st'[s] = [rec EXCEPT !.inflight = [art |-> desired[s].art, by |-> w, checking |-> FALSE]] /\ Others(s)
    BY <1>1, <2>1 DEF Others
  <2> QED BY <1>3, <2>1, <2>2 DEF State
<1> QED BY <1>2, <1>3

LEMMA PassShapes ==
  ASSUME Types, NEW s \in Strategies, reconcile(s)
  PROVE  /\ \/ Keeps(s) \/ Halts(s) \/ Retires(s) \/ Skips(s)
            \/ \E p \in SparePids : Restarts(s, p)
            \/ \E w \in SpareWorkers : Redeploys(s, w)
         /\ Held(s) /\ desired[s] # None => Keeps(s)
         /\ UNCHANGED <<assigned, desired, inventory, counted, desiredVolumes, reaping, dir, slot>>
<1>1. UNCHANGED <<assigned, desired, inventory, counted, desiredVolumes, reaping, dir, slot>>
  BY DEF reconcile, human, record
<1>2. st \in [Strategies -> State]
  BY DEF Types, LoopOK
<1>3. CASE desired[s] = None /\ s \in known
  <2>1. retireStrategy(s) /\ UNCHANGED proc
    BY <1>3 DEF reconcile
  <2>2. Others(s)
    BY <1>2, <2>1 DEF retireStrategy, Others
  <2>3. CASE st[s].proc = None
    BY <1>1, <1>2, <1>3, <2>1, <2>2, <2>3 DEF retireStrategy, Retires
  <2>4. CASE st[s].proc # None
    <3>1. st'[s] = [st[s] EXCEPT !.inflight = None, !.stopping = TRUE] /\ st[s] \in State
      BY <1>2, <2>1, <2>4 DEF retireStrategy
    <3>2. /\ st'[s].inflight = None /\ st'[s].stopping /\ st'[s].running = st[s].running
          /\ st'[s].proc = st[s].proc /\ st'[s].mounts = st[s].mounts
      BY <3>1 DEF State
    <3> QED BY <1>1, <1>3, <2>1, <2>2, <2>4, <3>2 DEF retireStrategy, Retires
  <2> QED BY <2>3, <2>4
<1>4. CASE desired[s] = None /\ s \notin known
  BY <1>1, <1>4 DEF reconcile, Skips
<1>5. CASE desired[s] # None
  <2> DEFINE rec == [st[s] EXCEPT !.mounts = desired[s].mounts]
  <2>1. reconcileOne(s) /\ known' = known \cup {s}
    BY <1>5 DEF reconcile
  <2>2. /\ rec \in State /\ rec.mounts = desired[s].mounts /\ rec.running = st[s].running
        /\ rec.proc = st[s].proc /\ rec.inflight = st[s].inflight
    BY <1>2, <1>5, MountedState DEF State
  <2>3. \/ st' = [st EXCEPT ![s] = rec] /\ UNCHANGED <<worker, proc, draining>>
        \/ desired[s].stopped /\ ~Held(s) /\ reconcileStopped(s, rec) /\ UNCHANGED proc
        \/ /\ ~desired[s].stopped /\ ~Held(s) /\ startProcess(s, rec) /\ UNCHANGED worker
           /\ versionMatches(desired[s], s) /\ volumePresent(desired[s].mounts)
        \/ /\ ~desired[s].stopped /\ ~Held(s) /\ beginDeploy(s, rec) /\ UNCHANGED proc
           /\ ~versionMatches(desired[s], s) /\ volumePresent(desired[s].mounts) /\ rec.inflight = None
    BY <2>1 DEF reconcileOne
  <2>4. Held(s) => st' = [st EXCEPT ![s] = rec] /\ UNCHANGED <<worker, proc>>
    BY <2>1 DEF reconcileOne
  <2> HIDE DEF rec
  <2>5. st' = [st EXCEPT ![s] = rec] /\ UNCHANGED <<worker, proc>> => Keeps(s)
    BY <1>2, <1>5, <2>1, <2>2 DEF Keeps, Others
  <2>6. CASE desired[s].stopped /\ ~Held(s) /\ reconcileStopped(s, rec) /\ UNCHANGED proc
    <3>1. st'[s] = [rec EXCEPT !.inflight = None, !.stopping = rec.proc # None] /\ Others(s)
      BY <1>2, <2>6 DEF reconcileStopped, Others
    <3>2. /\ st'[s].inflight = None /\ st'[s].running = rec.running
          /\ st'[s].proc = rec.proc /\ st'[s].mounts = rec.mounts
      BY <2>2, <3>1 DEF State
    <3>3. worker' = Cancelled({s})
      BY <2>6 DEF reconcileStopped
    <3>4. Halts(s)
      BY <1>5, <2>1, <2>2, <2>6, <3>1, <3>2, <3>3 DEF Halts
    <3> QED BY <1>1, <2>6, <3>4
  <2>7. CASE /\ ~desired[s].stopped /\ ~Held(s) /\ startProcess(s, rec) /\ UNCHANGED worker
             /\ versionMatches(desired[s], s) /\ volumePresent(desired[s].mounts)
    <3>1. /\ Others(s) /\ st'[s].running = rec.running /\ st'[s].inflight = rec.inflight
          /\ st'[s].mounts = rec.mounts
          /\ \/ UNCHANGED proc /\ st'[s].proc = rec.proc
             \/ /\ ~volumeWriterConflict(s, desired[s].mounts)
                /\ \E p \in SparePids : proc' = Started(s, p) /\ st'[s].proc = p
      BY <1>5, <2>2, <2>7, StartShapes
    <3>2. Keeps(s) \/ \E p \in SparePids : Restarts(s, p)
      BY <1>5, <2>1, <2>2, <2>7, <3>1 DEF Keeps, Restarts, Wants
    <3> QED BY <1>1, <2>7, <3>2
  <2>8. CASE /\ ~desired[s].stopped /\ ~Held(s) /\ beginDeploy(s, rec) /\ UNCHANGED proc
             /\ ~versionMatches(desired[s], s) /\ volumePresent(desired[s].mounts) /\ rec.inflight = None
    <3>1. /\ Others(s) /\ st'[s].running = rec.running /\ st'[s].proc = rec.proc
          /\ st'[s].mounts = rec.mounts
          /\ \/ UNCHANGED worker /\ st'[s].inflight = rec.inflight
             \/ /\ ~volumeWriterConflict(s, desired[s].mounts)
                /\ \E w \in SpareWorkers :
                     /\ st'[s].inflight = [art |-> desired[s].art, by |-> w, checking |-> FALSE]
                     /\ worker' = [worker EXCEPT ![w] = [step |-> "fetch", strat |-> s, spec |-> desired[s],
                                      old |-> rec.proc, proc |-> None, cancelled |-> FALSE]]
      BY <1>5, <2>2, <2>8, DeployShapes
    <3>2. Keeps(s) \/ \E w \in SpareWorkers : Redeploys(s, w)
      BY <1>5, <2>1, <2>2, <2>8, <3>1 DEF Keeps, Redeploys, Wants
    <3> QED BY <1>1, <2>8, <3>2
  <2> QED BY <1>1, <2>3, <2>4, <2>5, <2>6, <2>7, <2>8
<1> QED BY <1>3, <1>4, <1>5

LEMMA SpareNames ==
  ASSUME Types
  PROVE  /\ \A p \in SparePids : p \in Pids /\ proc[p] = None
         /\ \A w \in SpareWorkers : /\ w \in Workers /\ ~Running(w)
                                    /\ \A s \in Strategies : st[s].inflight # None => st[s].inflight.by # w
BY DEF SparePids, SpareWorkers

LEMMA reconcileDeploys ==
  ASSUME Types, DeployInv, NEW s \in Strategies, reconcile(s)
  PROVE  DeployInv'
<1>1. UNCHANGED <<assigned, desired>> /\ known \subseteq Strategies
  BY PassShapes DEF Types, LoopOK
<1>2. CASE Keeps(s) \/ Skips(s)
  <2>1. \A o \in Strategies \ known' : st'[o] = NewState
    BY <1>2 DEF Keeps, Skips, Others, DeployInv, UnknownIsNew
  <2>2. \A o \in Strategies : st'[o].inflight = st[o].inflight
    BY <1>2 DEF Keeps, Skips, Others
  <2> QED BY <1>1, <1>2, <2>1, <2>2, SameDeploys DEF Keeps, Skips
<1>3. ASSUME NEW p \in SparePids, Restarts(s, p) PROVE DeployInv'
  <2>1. \A o \in Strategies \ known' : st'[o] = NewState
    BY <1>3 DEF Restarts, Others, DeployInv, UnknownIsNew
  <2>2. \A o \in Strategies : st'[o].inflight = st[o].inflight
    BY <1>3 DEF Restarts, Others
  <2>3. \A q \in Pids : proc[q] # None => proc'[q] = proc[q]
    BY <1>3, SpareNames DEF Restarts, Started, Types, WorldOK
  <2> QED BY <1>1, <1>3, <2>1, <2>2, <2>3, SameDeploys DEF Restarts
<1>4. CASE Halts(s) \/ Retires(s)
  <2>1. /\ ~Wants(desired[s]) /\ worker' = Cancelled({s}) /\ UNCHANGED proc
        /\ \A o \in Strategies \ {s} : st'[o] = st[o]
    BY <1>4 DEF Halts, Retires, Others, Wants
  <2>2. st'[s].inflight = None
    BY <1>4 DEF Halts, Retires, NewState
  <2>3. \A o \in Strategies \ {s} : desired'[o] = None => st[o].inflight = None
    BY <1>1 DEF DeployInv, Desired
  <2>4. InHand' /\ Answered' /\ ToldApart' /\ Desired' /\ Reports'
    BY <1>1, <2>1, <2>2, <2>3, WithdrawnDeploys
  <2>5. UnknownIsNew'
    <3>1. \A o \in Strategies \ {s} : o \in known' <=> o \in known
      BY <1>4 DEF Halts, Retires
    <3>2. s \notin known' => st'[s] = NewState
      BY <1>4 DEF Halts, Retires
    <3> QED BY <2>1, <3>1, <3>2 DEF DeployInv, UnknownIsNew
  <2> QED BY <2>4, <2>5 DEF DeployInv
<1>5. ASSUME NEW w \in SpareWorkers, Redeploys(s, w) PROVE DeployInv'
  <2> DEFINE task == [step |-> "fetch", strat |-> s, spec |-> desired[s],
                      old |-> st[s].proc, proc |-> None, cancelled |-> FALSE]
             op   == [art |-> desired[s].art, by |-> w, checking |-> FALSE]
  <2>1. /\ worker' = [worker EXCEPT ![w] = task] /\ w \in Workers /\ ~Running(w)
        /\ worker \in [Workers -> Task \cup {Idle}] /\ UNCHANGED proc
        /\ \A o \in Strategies : st[o].inflight # None => st[o].inflight.by # w
    BY <1>5, SpareNames DEF Redeploys, Types, WorldOK
  <2>2. /\ task \in Task /\ op \in Op /\ op # None /\ task # Idle
    <3>1. desired[s] \in Specs /\ desired[s].art \in Arts /\ st[s].proc \in Pids \cup {None}
      BY <1>5, DesiredSpec, Records DEF Redeploys, Wants, Specs, State
    <3>2. task \in Task /\ op \in Op
      BY <2>1, <3>1 DEF Task, Op
    <3> QED BY <3>2, TaskRuns, NoneAssumption
  <2>3. /\ st'[s].inflight = op /\ \A o \in Strategies \ {s} : st'[o] = st[o]
        /\ Wants(desired[s]) /\ st[s].inflight = None /\ known' = known \cup {s}
    BY <1>5 DEF Redeploys, Others
  <2>4. /\ task.strat = s /\ task.spec = desired[s] /\ ~task.cancelled /\ task.proc = None /\ task.step = "fetch"
        /\ op.art = desired[s].art /\ op.by = w /\ ~op.checking
    OBVIOUS
  <2> HIDE DEF task, op
  <2>5. \A v \in Workers : /\ v # w => worker'[v] = worker[v] /\ (Running(v)' <=> Running(v))
                           /\ v = w => worker'[v] = task /\ Running(v)'
    BY <2>1, <2>2 DEF Running
  <2>6. \A v \in Workers : Running(v) => worker[v].strat \in Strategies
    BY Records
  <2>7. InHand'
    BY <2>1, <2>2, <2>3, <2>4, <2>5 DEF DeployInv, InHand
  <2>8. Answered'
    BY <2>1, <2>2, <2>3, <2>4, <2>5, <2>6 DEF DeployInv, Answered
  <2>9. ToldApart'
    <3> SUFFICES ASSUME NEW o \in Strategies, NEW v \in Workers, Of(v, o)'
                 PROVE  /\ st'[o].inflight # None /\ worker'[v].spec.art = st'[o].inflight.art => ~worker'[v].cancelled
                        /\ Wants(desired[o]) /\ worker'[v].spec.art = desired[o].art => ~worker'[v].cancelled
                        /\ Wants(assigned[o]) /\ worker'[v].spec.art = assigned[o].art =>
                             ~worker'[v].cancelled /\ Wants(desired[o])
      BY <1>1 DEF ToldApart, Wants
    <3>1. CASE v = w
      BY <2>3, <2>4, <2>5, <3>1 DEF Of
    <3>2. CASE v # w
      <4>1. Of(v, o) /\ worker'[v] = worker[v]
        BY <2>5, <3>2 DEF Of
      <4> QED BY <2>3, <2>4, <4>1 DEF DeployInv, ToldApart
    <3> QED BY <3>1, <3>2
  <2>10. Desired' /\ UnknownIsNew'
    BY <1>1, <2>3 DEF DeployInv, Desired, UnknownIsNew, Wants
  <2>11. Reports'
    BY <2>1, <2>4, <2>5 DEF DeployInv, Reports
  <2> QED BY <2>7, <2>8, <2>9, <2>10, <2>11 DEF DeployInv
<1> QED BY <1>2, <1>3, <1>4, <1>5, PassShapes

\* What a step of a goroutine does to it: the one it is, or none any more.
LEMMA WorkerShapes ==
  ASSUME Types, NEW w \in Workers, runDeploy(w)
  PROVE  /\ Running(w) /\ \A v \in Workers \ {w} : worker'[v] = worker[v]
         /\ UNCHANGED <<human, loop, draining, reaping, dir>> /\ slot \subseteq slot'
         /\ \/ worker'[w] = Idle /\ worker[w].cancelled
            \/ /\ worker'[w] \in Task /\ worker'[w].strat = worker[w].strat
               /\ worker'[w].spec = worker[w].spec /\ worker'[w].cancelled = worker[w].cancelled
               /\ \/ /\ worker'[w].step \in {"drain", "switch", "failed"} /\ worker'[w].proc = worker[w].proc
                     /\ worker[w].step \in {"fetch", "drain", "switch"}
                  \/ /\ worker[w].step = "switch" /\ worker'[w].step = "start" /\ worker'[w].proc = worker[w].proc
                     /\ worker[w].strat \in slot
                     /\ ~volumeWriterConflict(worker[w].strat, worker[w].spec.mounts)
                  \/ /\ worker[w].step = "start" /\ worker'[w].step = "up"
                     /\ worker'[w].proc \in SparePids
                     /\ proc'[worker'[w].proc] = [strat |-> worker[w].strat, mounts |-> worker[w].spec.mounts,
                                                  alive |-> TRUE]
         /\ \A p \in Pids : proc[p] # None => /\ proc'[p] # None /\ proc'[p].strat = proc[p].strat
                                              /\ proc'[p].mounts = proc[p].mounts
         /\ \A p \in Pids : proc'[p] # None /\ proc[p] = None => worker'[w].step = "up" /\ p = worker'[w].proc
<1>1. /\ Running(w) /\ worker[w] \in Task /\ worker \in [Workers -> Task \cup {Idle}]
      /\ proc \in [Pids -> Process \cup {None}] /\ UNCHANGED <<human, loop, draining, reaping, dir>>
  BY Records DEF runDeploy, Fetch, DrainOld, SwitchTo, StartNew, DropEvent, Quiet, Types, WorldOK
<1>2. ASSUME NEW step \in {"fetch", "drain", "switch", "start", "up", "failed"}, To(w, step)
      PROVE  /\ worker'[w] \in Task /\ worker'[w].strat = worker[w].strat /\ worker'[w].proc = worker[w].proc
             /\ worker'[w].spec = worker[w].spec /\ worker'[w].cancelled = worker[w].cancelled
             /\ worker'[w].step = step /\ \A v \in Workers \ {w} : worker'[v] = worker[v]
  BY <1>1, <1>2 DEF To, Task
<1>3. End(w) => worker'[w] = Idle /\ \A v \in Workers \ {w} : worker'[v] = worker[v]
  BY <1>1 DEF End
<1>4. CASE Fetch(w)
  BY <1>1, <1>2, <1>3, <1>4 DEF Fetch
<1>5. CASE DrainOld(w)
  <2>1. \A p \in Pids : /\ proc[p] # None => /\ proc'[p] # None /\ proc'[p].strat = proc[p].strat
                                             /\ proc'[p].mounts = proc[p].mounts
                        /\ proc[p] = None => proc'[p] = None
    <3>1. \A p \in Pids : proc[p] # None =>
            /\ [proc[p] EXCEPT !.alive = FALSE] \in Process
            /\ [proc[p] EXCEPT !.alive = FALSE].strat = proc[p].strat
            /\ [proc[p] EXCEPT !.alive = FALSE].mounts = proc[p].mounts
      BY <1>1 DEF Process
    <3>2. \/ proc' = proc
          \/ /\ proc[worker[w].old] # None
             /\ proc' = [proc EXCEPT ![worker[w].old] = [@ EXCEPT !.alive = FALSE]]
      BY <1>5 DEF DrainOld, Alive
    <3>3. ASSUME NEW p \in Pids
          PROVE  proc'[p] = proc[p] \/ (proc[p] # None /\ proc'[p] = [proc[p] EXCEPT !.alive = FALSE])
      BY <1>1, <3>2
    <3> QED BY <3>1, <3>3, NoneAssumption
  <2>2. CASE worker[w].cancelled
    BY <1>1, <1>3, <1>5, <2>1, <2>2 DEF DrainOld
  <2>3. CASE ~worker[w].cancelled
    <3>1. worker' = [worker EXCEPT ![w] = [@ EXCEPT !.step = "switch", !.old = None]]
      BY <1>5, <2>3 DEF DrainOld
    <3>2. /\ worker'[w] \in Task /\ worker'[w].strat = worker[w].strat /\ worker'[w].proc = worker[w].proc
          /\ worker'[w].spec = worker[w].spec /\ worker'[w].cancelled = worker[w].cancelled
          /\ worker'[w].step = "switch" /\ \A v \in Workers \ {w} : worker'[v] = worker[v]
      BY <1>1, <3>1 DEF Task
    <3> QED BY <1>1, <1>5, <2>1, <3>2 DEF DrainOld
  <2> QED BY <2>2, <2>3
<1>6. CASE SwitchTo(w)
  BY <1>1, <1>2, <1>6 DEF SwitchTo
<1>7. CASE StartNew(w)
  <2>1. PICK p \in SparePids :
       /\ proc' = [proc EXCEPT ![p] = [strat |-> worker[w].strat, mounts |-> worker[w].spec.mounts,
                                       alive |-> TRUE]]
       /\ worker' = [worker EXCEPT ![w] = [@ EXCEPT !.step = "up", !.proc = p]]
    BY <1>7 DEF StartNew
  <2>2. p \in Pids /\ proc[p] = None
    BY SpareNames
  <2>3. /\ worker'[w] \in Task /\ worker'[w].strat = worker[w].strat /\ worker'[w].proc = p
        /\ worker'[w].spec = worker[w].spec /\ worker'[w].cancelled = worker[w].cancelled
        /\ worker'[w].step = "up" /\ \A v \in Workers \ {w} : worker'[v] = worker[v]
    BY <1>1, <2>1, <2>2 DEF Task
  <2>4. /\ proc'[p] = [strat |-> worker[w].strat, mounts |-> worker[w].spec.mounts, alive |-> TRUE]
        /\ \A q \in Pids : proc[q] # None => proc'[q] = proc[q]
        /\ \A q \in Pids : proc'[q] # None /\ proc[q] = None => q = p
    BY <1>1, <2>1, <2>2
  <2> QED BY <1>1, <1>7, <2>3, <2>4 DEF StartNew
<1>8. CASE DropEvent(w)
  BY <1>1, <1>3, <1>8 DEF DropEvent
<1> QED BY <1>4, <1>5, <1>6, <1>7, <1>8 DEF runDeploy

LEMMA runDeployDeploys ==
  ASSUME Types, DeployInv, NEW w \in Workers, runDeploy(w)
  PROVE  DeployInv'
<1>1. /\ Running(w) /\ \A v \in Workers \ {w} : worker'[v] = worker[v]
      /\ UNCHANGED <<assigned, desired, known, st>>
      /\ \/ worker'[w] = Idle /\ worker[w].cancelled
         \/ /\ worker'[w] \in Task /\ worker'[w].strat = worker[w].strat
            /\ worker'[w].spec = worker[w].spec /\ worker'[w].cancelled = worker[w].cancelled
  BY WorkerShapes DEF human, record, loop
<1>2. \A v \in Workers : Running(v)' =>
        /\ Running(v) /\ worker'[v].strat = worker[v].strat
        /\ worker'[v].spec = worker[v].spec /\ worker'[v].cancelled = worker[v].cancelled
  BY <1>1 DEF Running
<1>3. InHand' /\ Answered' /\ ToldApart' /\ Desired' /\ UnknownIsNew'
  BY <1>1, <1>2
     DEF DeployInv, InHand, Answered, ToldApart, Desired, UnknownIsNew, Of, Wants
<1>4. Reports'
  <2> SUFFICES ASSUME NEW v \in Workers, Running(v)'
               PROVE  /\ worker'[v].step = "up" => worker'[v].proc # None
                      /\ worker'[v].proc # None =>
                           /\ worker'[v].step = "up" /\ proc'[worker'[v].proc] # None
                           /\ proc'[worker'[v].proc].strat = worker'[v].strat
                           /\ proc'[worker'[v].proc].mounts = worker'[v].spec.mounts
    BY DEF Reports
  <2>1. Running(v) /\ worker[v] \in Task
    BY <1>2, Records
  <2>2. /\ worker[v].step = "up" => worker[v].proc # None
        /\ worker[v].proc # None =>
             /\ worker[v].step = "up" /\ proc[worker[v].proc] # None
             /\ proc[worker[v].proc].strat = worker[v].strat
             /\ proc[worker[v].proc].mounts = worker[v].spec.mounts
             /\ worker[v].proc \in Pids
    BY <2>1 DEF DeployInv, Reports, Task
  <2>3. \A p \in Pids : proc[p] # None => /\ proc'[p] # None /\ proc'[p].strat = proc[p].strat
                                          /\ proc'[p].mounts = proc[p].mounts
    BY WorkerShapes
  <2>4. CASE v # w
    BY <1>1, <2>2, <2>3, <2>4
  <2>5. CASE v = w
    <3>1. worker'[w] # Idle
      BY <2>5 DEF Running
    <3>2. CASE /\ worker'[w].step \in {"drain", "switch", "failed"} /\ worker'[w].proc = worker[w].proc
               /\ worker[w].step \in {"fetch", "drain", "switch"}
      BY <2>2, <2>5, <3>2
    <3>3. CASE worker[w].step = "switch" /\ worker'[w].step = "start" /\ worker'[w].proc = worker[w].proc
      BY <2>2, <2>5, <3>3
    <3>4. CASE /\ worker'[w].step = "up" /\ worker'[w].proc \in SparePids
               /\ proc'[worker'[w].proc] = [strat |-> worker[w].strat, mounts |-> worker[w].spec.mounts,
                                            alive |-> TRUE]
      <4>1. worker[w].strat \in Strategies /\ worker[w].spec.mounts \in SUBSET Volumes
        BY <2>1, <2>5 DEF Task, Specs
      <4>2. proc'[worker'[w].proc] \in Process
        BY <3>4, <4>1 DEF Process
      <4>3. worker'[w].proc \in Pids /\ worker'[w].proc # None
        BY <3>4, NoneAssumption, SpareNames
      <4>4. proc'[worker'[w].proc] # None
        BY <4>2, NoneAssumption
      <4>5. /\ proc'[worker'[w].proc].strat = worker[w].strat
            /\ proc'[worker'[w].proc].mounts = worker[w].spec.mounts
        BY <3>4
      <4> QED BY <1>1, <2>5, <3>1, <3>4, <4>3, <4>4, <4>5
    <3> QED BY <3>1, <3>2, <3>3, <3>4, WorkerShapes
  <2> QED BY <2>4, <2>5
<1> QED BY <1>3, <1>4 DEF DeployInv

\* A process ends: nothing else about it changes.
LEMMA EndShapes ==
  ASSUME Types, NEW p \in Pids, Drain(p) \/ Exit(p)
  PROVE  /\ UNCHANGED <<assigned, previous, inventory, counted, loop, worker, reaping, dir, slot>>
         /\ \A q \in Pids :
              /\ proc'[q] # None <=> proc[q] # None
              /\ proc[q] # None => proc'[q].strat = proc[q].strat /\ proc'[q].mounts = proc[q].mounts
<1>1. /\ proc[p] \in Process /\ proc' = [proc EXCEPT ![p].alive = FALSE]
      /\ proc \in [Pids -> Process \cup {None}]
  BY DEF Drain, Exit, Alive, Types, WorldOK
<1>2. /\ [proc[p] EXCEPT !.alive = FALSE] \in Process
      /\ [proc[p] EXCEPT !.alive = FALSE].strat = proc[p].strat
      /\ [proc[p] EXCEPT !.alive = FALSE].mounts = proc[p].mounts
  BY <1>1 DEF Process
<1>3. \A q \in Pids : proc'[q] = IF q = p THEN [proc[p] EXCEPT !.alive = FALSE] ELSE proc[q]
  BY <1>1
<1>4. UNCHANGED <<assigned, previous, inventory, counted, loop, worker, reaping, dir, slot>>
  BY DEF Drain, Exit, human, record
<1> QED BY <1>1, <1>2, <1>3, <1>4, NoneAssumption

\* The write of an assignment, as its strategy sees it: nobody is withdrawing from
\* one that is wanted, and its mounts are those in use.
LEMMA WriteShapes ==
  ASSUME Types, NEW c \in Callers, Apply(c), Haste = {}
  PROVE  /\ UNCHANGED <<inventory, counted, desired, desiredVolumes, known, st, world, pc, todo>>
         /\ \/ UNCHANGED assigned
            \/ \E s \in Strategies, next \in Specs \cup {None} :
                 /\ assigned' = [assigned EXCEPT ![s] = next]
                 /\ next # None => \A m \in InUse(s) : m = next.mounts
                 /\ Wants(next) => Unsettled(s, next.mounts) = {} /\ ~Withdrawing(s)
<1> DEFINE s == call[c].strat
           next == call[c].next
<1>1. s \in Strategies /\ next \in Specs \cup {None}
  BY DEF Types, RecordOK, Apply, Call
<1>2. UNCHANGED assigned \/ (Patient(s, next) /\ assigned' = [assigned EXCEPT ![s] = next])
  BY DEF Apply, SetAssignment
<1>3. UNCHANGED <<inventory, counted, desired, desiredVolumes, known, st, world, pc, todo>>
  BY DEF Apply
<1> HIDE DEF s, next
<1>4. Patient(s, next) => /\ next # None => \A m \in InUse(s) : m = next.mounts
                          /\ Wants(next) => Unsettled(s, next.mounts) = {} /\ ~Withdrawing(s)
  BY DEF Patient, Wants
<1> QED BY <1>1, <1>2, <1>3, <1>4

LEMMA ApplyDeploys ==
  ASSUME Types, DeployInv, NEW c \in Callers, Apply(c), Haste = {}
  PROVE  DeployInv'
<1>1. UNCHANGED <<desired, known, st, worker, proc>>
  BY WriteShapes DEF world
<1>2. CASE UNCHANGED assigned
  BY <1>1, <1>2 DEF DeployInv, InHand, Answered, ToldApart, Desired, UnknownIsNew, Reports, Of, Running
<1>3. ASSUME NEW s \in Strategies, NEW next \in Specs \cup {None},
             assigned' = [assigned EXCEPT ![s] = next], Wants(next) => ~Withdrawing(s)
      PROVE  DeployInv'
  <2>1. \A o \in Strategies : assigned'[o] = IF o = s THEN next ELSE assigned[o]
    BY <1>3 DEF Types, RecordOK
  <2>2. Wants(next) => \A w \in Workers : Of(w, s) => ~worker[w].cancelled /\ Wants(desired[s])
    BY <1>3 DEF Withdrawing, Of, Wants
  <2>3. ToldApart'
    BY <1>1, <2>1, <2>2 DEF DeployInv, ToldApart, Of, Running
  <2> QED BY <1>1, <2>3 DEF DeployInv, InHand, Answered, Desired, UnknownIsNew, Reports, Running
<1> QED BY <1>2, <1>3, WriteShapes

LEMMA DeployInit == Init => DeployInv
<1> SUFFICES ASSUME Init PROVE DeployInv
  OBVIOUS
<1>1. \A w \in Workers : ~Running(w)
  BY DEF Init, Running
<1>2. \A s \in Strategies : /\ StoredSpecs[s] = None => st[s] = NewState
                            /\ StoredSpecs[s] # None => st[s] = [NewState EXCEPT !.mounts = StoredSpecs[s].mounts]
  BY DEF Init
<1>3. \A s \in Strategies : st[s].inflight = None
  <2>1. NewState \in State /\ NewState.inflight = None
    BY DEF NewState, State
  <2>2. \A m : [NewState EXCEPT !.mounts = m].inflight = None
    BY <2>1 DEF State
  <2> QED BY <1>2, <2>1, <2>2
<1>4. known = {s \in Strategies : StoredSpecs[s] # None}
  BY DEF Init
<1> QED BY <1>1, <1>2, <1>3, <1>4
        DEF DeployInv, InHand, Answered, ToldApart, Desired, UnknownIsNew, Reports, Of

LEMMA DeployNext ==
  ASSUME Types, DeployInv, Haste = {}, [Next]_vars
  PROVE  DeployInv'
<1>1. \A s \in Strategies \ known : st[s] = NewState
  BY DEF DeployInv, UnknownIsNew
<1>2. CASE \E c \in Callers : Apply(c)
  BY <1>2, ApplyDeploys
<1>3. CASE UNCHANGED <<assigned, desired, known, st, worker, proc>>
  BY <1>1, <1>3, SameDeploys
<1>4. CASE Event
  <2>1. ASSUME NEW s \in Strategies, applyReapDone(s) PROVE DeployInv'
    BY <1>3, <2>1 DEF applyReapDone, human, record
  <2> QED BY <1>4, <2>1, applyDesiredDeploys, handleExitDeploys, applyWorkerEventDeploys, markHealthyDeploys
          DEF Event
<1>5. CASE Pass
  <2>1. CASE reconcileVolumes
    BY <1>3, <2>1 DEF reconcileVolumes, human, record
  <2> QED BY <1>5, <2>1, reconcileDeploys DEF Pass
<1>6. CASE Goroutine
  <2>1. ASSUME NEW p \in Pids, Drain(p) PROVE DeployInv'
    BY <1>1, <2>1, EndShapes, SameDeploys DEF loop
  <2>2. ASSUME NEW s \in Strategies, runReap(s) PROVE DeployInv'
    BY <1>3, <2>2 DEF runReap, human, record, loop
  <2> QED BY <1>6, <2>1, <2>2, runDeployDeploys DEF Goroutine
<1>7. ASSUME NEW p \in Pids, Exit(p) PROVE DeployInv'
  BY <1>1, <1>7, EndShapes, SameDeploys DEF loop
<1>8. ASSUME NEW c \in Callers, Ask(c) \/ CreateVolume(c) \/ AskDeleteVolume(c) \/ DeleteVolume(c)
      PROVE  DeployInv'
  BY <1>3, <1>8 DEF Ask, CreateVolume, AskDeleteVolume, DeleteVolume, record, loop, world
<1>9. ASSUME NEW s \in Strategies, handleReapOp(s) PROVE DeployInv'
  BY <1>3, <1>9 DEF handleReapOp, record
<1>10. CASE UNCHANGED vars
  BY <1>3, <1>10 DEF vars, human, record, loop, world
<1> QED BY <1>2, <1>4, <1>5, <1>6, <1>7, <1>8, <1>9, <1>10 DEF Next

----------------------------------------------------------------------------
(* One writer, on a disk that stays: what is mounted *)

SameMounts(s, m) ==
  /\ \A p \in Pids : proc[p] # None /\ proc[p].strat = s => proc[p].mounts = m
  /\ \A w \in Workers : Of(w, s) => worker[w].spec.mounts = m

\* What a strategy's processes and deploys mount is what its assignment says,
\* before and after the agent hears of it.
MountsKept ==
  \A s \in Strategies :
    /\ desired[s] # None => SameMounts(s, desired[s].mounts)
    /\ assigned[s] # None => /\ SameMounts(s, assigned[s].mounts)
                             /\ desired[s] # None => desired[s].mounts = assigned[s].mounts

\* The process a strategy is said to run is its own, and mounts what is noted; the
\* deploy in flight will start one that does.
Installed ==
  \A s \in Strategies : st[s].proc # None =>
    /\ proc[st[s].proc] # None
    /\ proc[st[s].proc].strat = s
    /\ proc[st[s].proc].mounts = st[s].mounts

Brings ==
  \A s \in Strategies, w \in Workers : st[s].inflight # None /\ st[s].inflight.by = w /\ Running(w) =>
    worker[w].spec.mounts = st[s].mounts

MountInv == MountsKept /\ Installed /\ Brings

\* What a process or a deploy that was not there mounts.
Expected(s, m) ==
  \/ \E w \in Workers : Of(w, s) /\ worker[w].spec.mounts = m
  \/ desired[s] # None /\ m = desired[s].mounts

LEMMA KeptMounts ==
  ASSUME MountsKept, UNCHANGED <<assigned, desired>>,
         \A p \in Pids : proc'[p] # None =>
           \/ proc[p] # None /\ proc'[p].strat = proc[p].strat /\ proc'[p].mounts = proc[p].mounts
           \/ Expected(proc'[p].strat, proc'[p].mounts),
         \A w \in Workers : Running(w)' =>
           \/ Running(w) /\ worker'[w].strat = worker[w].strat /\ worker'[w].spec = worker[w].spec
           \/ Expected(worker'[w].strat, worker'[w].spec.mounts)
  PROVE  MountsKept'
<1>1. ASSUME NEW s \in Strategies, NEW m, SameMounts(s, m), desired[s] # None => desired[s].mounts = m
      PROVE  SameMounts(s, m)'
  BY <1>1 DEF SameMounts, Expected, Of
<1> QED BY <1>1 DEF MountsKept

\* The mounts a strategy counts as having are those of its process.
LEMMA RunsOn ==
  ASSUME Types, MountInv, NEW s \in Strategies, st[s].proc # None
  PROVE  /\ proc[st[s].proc] # None /\ proc[st[s].proc].strat = s
         /\ mountNames(s) = st[s].mounts /\ proc[st[s].proc].mounts = st[s].mounts
         /\ assigned[s] # None => assigned[s].mounts = st[s].mounts
         /\ desired[s] # None => desired[s].mounts = st[s].mounts
<1>1. st[s].proc \in Pids
  BY Records DEF State
<1> QED BY <1>1 DEF MountInv, MountsKept, Installed, SameMounts, mountNames

\* Those it has a deploy in flight with are those of its goroutine.
LEMMA DeploysOn ==
  ASSUME Types, DeployInv, MountInv, NEW s \in Strategies, st[s].inflight # None
  PROVE  /\ desired[s] # None /\ mountNames(s) = desired[s].mounts
         /\ assigned[s] # None => assigned[s].mounts = desired[s].mounts
         /\ \A w \in Workers : Of(w, s) => worker[w].spec.mounts = desired[s].mounts
<1>1. desired[s] # None
  BY DEF DeployInv, Desired
<1> QED BY <1>1 DEF MountInv, MountsKept, SameMounts, mountNames

\* The record, the agent's view, or neither changes; no process or deploy begins.
LEMMA SameMountInv ==
  ASSUME Types, MountInv, UNCHANGED <<assigned, desired>>,
         \A p \in Pids : proc'[p] # None =>
           proc[p] # None /\ proc'[p].strat = proc[p].strat /\ proc'[p].mounts = proc[p].mounts,
         \A w \in Workers : Running(w)' =>
           Running(w) /\ worker'[w].strat = worker[w].strat /\ worker'[w].spec = worker[w].spec,
         \A s \in Strategies :
           /\ st'[s].proc # None => st'[s].proc = st[s].proc /\ st'[s].mounts = st[s].mounts /\ proc'[st[s].proc] # None
           /\ st'[s].inflight # None => /\ st[s].inflight # None /\ st'[s].inflight.by = st[s].inflight.by
                                        /\ st'[s].mounts = st[s].mounts
  PROVE  MountInv'
<1>1. MountsKept'
  BY KeptMounts DEF MountInv
<1>2. Installed'
  <2>1. \A s \in Strategies : st[s].proc # None => st[s].proc \in Pids
    BY Records DEF State
  <2> QED BY <2>1 DEF MountInv, Installed
<1>3. Brings'
  BY DEF MountInv, Brings
<1> QED BY <1>1, <1>2, <1>3 DEF MountInv

LEMMA applyDesiredMounts ==
  ASSUME Types, DeployInv, MountInv, applyDesired
  PROVE  MountInv'
<1> DEFINE gone == {s \in known : st[s].inflight # None
                      /\ (assigned[s] = None \/ assigned[s].art # st[s].inflight.art)}
<1>1. worker' = Cancelled(gone) /\ desired' = assigned /\ UNCHANGED <<assigned, proc>>
  BY DEF applyDesired, human, record
<1>2. \A s \in Strategies : st'[s] = [st[s] EXCEPT !.failed = FALSE,
                                        !.inflight = IF s \in gone THEN None ELSE @]
  BY DEF applyDesired
<1>3. \A s \in Strategies : /\ st'[s].inflight \in {st[s].inflight, None}
                            /\ st'[s].proc = st[s].proc /\ st'[s].mounts = st[s].mounts
  BY <1>2, Records DEF State
<1> HIDE DEF gone
<1>4. \A w \in Workers : Running(w)' =>
        Running(w) /\ worker'[w].strat = worker[w].strat /\ worker'[w].spec = worker[w].spec
  BY <1>1, CancelledFields DEF Running
<1>5. \A s \in Strategies : \A m : SameMounts(s, m) => SameMounts(s, m)'
  BY <1>1, <1>4 DEF SameMounts, Of
<1>6. MountsKept'
  BY <1>1, <1>5 DEF MountInv, MountsKept
<1>7. Installed' /\ Brings'
  BY <1>1, <1>3, <1>4 DEF MountInv, Installed, Brings
<1> QED BY <1>6, <1>7 DEF MountInv

LEMMA handleExitMounts ==
  ASSUME Types, DeployInv, MountInv, NEW p \in Pids, handleExit(p)
  PROVE  MountInv'
<1> DEFINE s == proc[p].strat
<1>1. /\ UNCHANGED <<assigned, desired, worker>> /\ s \in Strategies /\ st \in [Strategies -> State]
      /\ proc \in [Pids -> Process \cup {None}] /\ proc' = [proc EXCEPT ![p] = None]
  BY Records DEF handleExit, human, record, Types, LoopOK, WorldOK, Process
<1>2. \/ UNCHANGED st /\ ~(s \in known /\ st[s].proc = p)
      \/ st[s].proc = p /\ st' = [st EXCEPT ![s] = NewState]
      \/ st[s].proc = p /\ st' = [st EXCEPT ![s] = [@ EXCEPT !.proc = None, !.stopping = FALSE]]
  BY DEF handleExit
<1>3. NewState.inflight = None /\ NewState.proc = None
  BY DEF NewState
<1>4. \A rec \in State : LET r == [rec EXCEPT !.proc = None, !.stopping = FALSE]
                         IN r.proc = None /\ r.inflight = rec.inflight /\ r.mounts = rec.mounts
  BY DEF State
<1>5. st[s].proc = p => s \in known
  BY <1>1, <1>3, NoneAssumption DEF DeployInv, UnknownIsNew
<1>6. \A o \in Strategies \ {s} : st'[o] = st[o]
  BY <1>1, <1>2
<1>7. \A o \in Strategies \ {s} : st[o].proc # p
  BY NoneAssumption DEF MountInv, Installed
<1>8. st'[s].proc # None => st'[s] = st[s] /\ st[s].proc # p
  <2>1. CASE UNCHANGED st /\ ~(s \in known /\ st[s].proc = p)
    BY <1>5, <2>1
  <2>2. CASE st' = [st EXCEPT ![s] = NewState]
    BY <1>1, <1>3, <2>2
  <2>3. CASE st' = [st EXCEPT ![s] = [@ EXCEPT !.proc = None, !.stopping = FALSE]]
    <3>1. st'[s] = [st[s] EXCEPT !.proc = None, !.stopping = FALSE] /\ st[s] \in State
      BY <1>1, <2>3
    <3> QED BY <1>4, <3>1
  <2> QED BY <1>2, <2>1, <2>2, <2>3
<1>9. st'[s].inflight # None => st'[s].inflight = st[s].inflight /\ st'[s].mounts = st[s].mounts
  BY <1>1, <1>2, <1>3, <1>4
<1>10. \A q \in Pids : proc'[q] = IF q = p THEN None ELSE proc[q]
  BY <1>1
<1>11. \A o \in Strategies : st[o].proc # None => st[o].proc \in Pids /\ proc[st[o].proc] # None
  BY Records DEF State, MountInv, Installed
<1> HIDE DEF s
<1>12. \A o \in Strategies :
           /\ st'[o].proc # None => st'[o].proc = st[o].proc /\ st'[o].mounts = st[o].mounts /\ proc'[st[o].proc] # None
           /\ st'[o].inflight # None => /\ st[o].inflight # None /\ st'[o].inflight.by = st[o].inflight.by
                                        /\ st'[o].mounts = st[o].mounts
  BY <1>6, <1>7, <1>8, <1>9, <1>10, <1>11
<1> QED BY <1>1, <1>10, <1>12, SameMountInv DEF Running

\* An event of a goroutine: heeded if it is the deploy in flight, and then it
\* installs a process, or fails the deploy.
LEMMA EventShapes ==
  ASSUME Types, DeployInv, NEW w \in Workers, applyWorkerEvent(w)
  PROVE  LET s == worker[w].strat
         IN /\ UNCHANGED <<assigned, desired, desiredVolumes, inventory, counted, known, proc, reaping, dir, slot>>
            /\ Running(w) /\ s \in Strategies /\ worker' = [worker EXCEPT ![w] = Idle]
            /\ \A o \in Strategies \ {s} : st'[o] = st[o]
            /\ st'[s].mounts = st[s].mounts
            /\ \/ UNCHANGED st /\ worker[w].cancelled
               \/ /\ ~worker[w].cancelled /\ st[s].inflight # None /\ st[s].inflight.by = w
                  /\ worker[w].step = "up" /\ worker[w].proc \in Pids
                  /\ st'[s].running = worker[w].spec.art /\ st'[s].proc = worker[w].proc
                  /\ st'[s].inflight # None /\ st'[s].inflight.by = w
               \/ /\ ~worker[w].cancelled /\ st'[s].inflight = None
                  /\ st'[s].running = st[s].running /\ st'[s].proc = st[s].proc
<1> DEFINE s == worker[w].strat
<1>1. /\ UNCHANGED <<assigned, desired, desiredVolumes, inventory, counted, known, proc, reaping, dir, slot>>
      /\ Running(w) /\ s \in Strategies /\ worker' = [worker EXCEPT ![w] = Idle]
      /\ st \in [Strategies -> State] /\ worker[w] \in Task
  BY Records DEF applyWorkerEvent, human, record, Types, LoopOK
<1>2. Heeded(w) <=> ~worker[w].cancelled
  <2>1. NewState.inflight = None
    BY DEF NewState
  <2>2. known \subseteq Strategies
    BY DEF Types, LoopOK
  <2> QED BY <1>1, <2>1, <2>2 DEF Heeded, DeployInv, InHand, Answered, ToldApart, UnknownIsNew, Of
<1>3. ~worker[w].cancelled => st[s].inflight # None /\ st[s].inflight.by = w
  BY <1>1 DEF DeployInv, Answered
<1>4. CASE worker[w].cancelled
  BY <1>1, <1>2, <1>4 DEF applyWorkerEvent
<1>5. CASE ~worker[w].cancelled /\ worker[w].step = "up"
  <2>1. st' = [st EXCEPT ![s] = [@ EXCEPT !.running = worker[w].spec.art, !.proc = worker[w].proc,
                                          !.stopping = FALSE, !.inflight.checking = TRUE]]
    BY <1>2, <1>5 DEF applyWorkerEvent
  <2>2. st[s] \in State /\ st[s].inflight \in Op
    BY <1>1, <1>3, <1>5 DEF State
  <2>3. /\ st'[s].inflight = [st[s].inflight EXCEPT !.checking = TRUE] /\ st'[s].mounts = st[s].mounts
        /\ st'[s].running = worker[w].spec.art /\ st'[s].proc = worker[w].proc
        /\ \A o \in Strategies \ {s} : st'[o] = st[o]
    BY <1>1, <2>1, <2>2 DEF State
  <2>4. [st[s].inflight EXCEPT !.checking = TRUE] \in Op
    BY <2>2 DEF Op
  <2>5. st'[s].inflight # None /\ st'[s].inflight.by = w
    BY <1>3, <1>5, <2>2, <2>3, <2>4, NoneAssumption DEF Op
  <2>6. worker[w].proc \in Pids
    BY <1>1, <1>5 DEF DeployInv, Reports, Task
  <2> QED BY <1>1, <1>3, <1>5, <2>3, <2>5, <2>6
<1>6. CASE ~worker[w].cancelled /\ worker[w].step # "up"
  <2>1. st' = [st EXCEPT ![s] = [@ EXCEPT !.failed = TRUE, !.stopping = FALSE, !.inflight = None]]
    BY <1>2, <1>6 DEF applyWorkerEvent
  <2>2. /\ st'[s].inflight = None /\ st'[s].mounts = st[s].mounts
        /\ st'[s].running = st[s].running /\ st'[s].proc = st[s].proc
        /\ \A o \in Strategies \ {s} : st'[o] = st[o]
    BY <1>1, <2>1 DEF State
  <2> QED BY <1>1, <1>3, <1>6, <2>2
<1> QED BY <1>4, <1>5, <1>6

LEMMA applyWorkerEventMounts ==
  ASSUME Types, DeployInv, MountInv, NEW w \in Workers, applyWorkerEvent(w)
  PROVE  MountInv'
<1> DEFINE s == worker[w].strat
<1>1. /\ UNCHANGED <<assigned, desired, proc>> /\ Running(w) /\ s \in Strategies
      /\ \A o \in Strategies \ {s} : st'[o] = st[o]
      /\ st'[s].mounts = st[s].mounts
      /\ \/ UNCHANGED st /\ worker[w].cancelled
         \/ /\ ~worker[w].cancelled /\ st[s].inflight # None /\ st[s].inflight.by = w
            /\ worker[w].step = "up" /\ worker[w].proc \in Pids
            /\ st'[s].proc = worker[w].proc
            /\ st'[s].inflight # None /\ st'[s].inflight.by = w
         \/ st'[s].inflight = None /\ st'[s].proc = st[s].proc
  BY EventShapes
<1>2. \A v \in Workers : Running(v)' => Running(v) /\ v # w /\ worker'[v] = worker[v]
  BY EventShapes DEF Running, Types, WorldOK
<1> HIDE DEF s
<1>3. MountsKept'
  BY <1>1, <1>2, KeptMounts DEF MountInv
<1>4. Brings'
  BY <1>1, <1>2 DEF MountInv, Brings
<1>5. Installed'
  <2>1. st'[s].proc # st[s].proc /\ st'[s].proc # None =>
          /\ proc[st'[s].proc] # None /\ proc[st'[s].proc].strat = s
          /\ proc[st'[s].proc].mounts = st[s].mounts
    BY <1>1 DEF DeployInv, Reports, MountInv, Brings, s
  <2> QED BY <1>1, <2>1 DEF MountInv, Installed
<1> QED BY <1>3, <1>4, <1>5 DEF MountInv

LEMMA reconcileMounts ==
  ASSUME Types, DeployInv, MountInv, NEW s \in Strategies, reconcile(s)
  PROVE  MountInv'
<1>1. UNCHANGED <<assigned, desired>>
  BY PassShapes
<1>2. \A o \in Strategies : st[o].proc # None =>
        /\ st[o].proc \in Pids /\ proc[st[o].proc] # None /\ proc[st[o].proc].strat = o
        /\ proc[st[o].proc].mounts = st[o].mounts
        /\ desired[o] # None => desired[o].mounts = st[o].mounts
  BY Records, RunsOn DEF State
<1>3. \A o \in Strategies, w \in Workers : st[o].inflight # None /\ st[o].inflight.by = w /\ Running(w) =>
        worker[w].spec.mounts = st[o].mounts /\ desired[o].mounts = st[o].mounts
  <2>1. \A o \in Strategies, w \in Workers : st[o].inflight # None /\ st[o].inflight.by = w /\ Running(w) => Of(w, o)
    BY DEF DeployInv, InHand, Of
  <2> QED BY <2>1, DeploysOn DEF MountInv, Brings
<1>4. CASE Keeps(s)
  <2>1. MountsKept'
    BY <1>1, <1>4, KeptMounts DEF MountInv, Keeps, Running
  <2>2. Installed'
    BY <1>2, <1>4 DEF Keeps, Others, Installed
  <2>3. Brings'
    BY <1>3, <1>4 DEF Keeps, Others, Brings, Running
  <2> QED BY <2>1, <2>2, <2>3 DEF MountInv
<1>5. CASE Skips(s)
  BY <1>1, <1>5 DEF Skips, MountInv, MountsKept, SameMounts, Of, Running, Installed, Brings
<1>6. CASE Halts(s) \/ Retires(s)
  <2>1. \A w \in Workers : Running(w)' =>
          Running(w) /\ worker'[w].strat = worker[w].strat /\ worker'[w].spec = worker[w].spec
    BY <1>6, CancelledFields DEF Halts, Retires, Running
  <2>2. UNCHANGED proc /\ \A o \in Strategies \ {s} : st'[o] = st[o]
    BY <1>6 DEF Halts, Retires, Others
  <2>3. st'[s].inflight = None /\ (st'[s].proc # None => st'[s].proc = st[s].proc /\ st'[s].mounts = st[s].mounts)
    BY <1>2, <1>6 DEF Halts, Retires, NewState
  <2>4. MountsKept'
    BY <1>1, <2>1, <2>2, KeptMounts DEF MountInv
  <2>5. Installed'
    BY <1>2, <2>2, <2>3 DEF Installed
  <2>6. Brings'
    BY <2>1, <2>2, <2>3 DEF MountInv, Brings
  <2> QED BY <2>4, <2>5, <2>6 DEF MountInv
<1>7. ASSUME NEW p \in SparePids, Restarts(s, p) PROVE MountInv'
  <2> DEFINE new == [strat |-> s, mounts |-> desired[s].mounts, alive |-> TRUE]
  <2>1. /\ \A q \in Pids : proc'[q] = IF q = p THEN new ELSE proc[q]
        /\ p \in Pids /\ proc[p] = None /\ new # None /\ desired[s] # None /\ UNCHANGED worker
    <3>1. desired[s].mounts \in SUBSET Volumes /\ desired[s] # None
      BY <1>7, DesiredSpec DEF Restarts, Wants, Specs
    <3>2. new \in Process
      BY <3>1 DEF Process
    <3> QED BY <1>7, <3>1, <3>2, SpareNames, NoneAssumption DEF Restarts, Started, Types, WorldOK
  <2>2. new.strat = s /\ new.mounts = desired[s].mounts
    OBVIOUS
  <2> HIDE DEF new
  <2>3. MountsKept'
    BY <1>1, <2>1, <2>2, KeptMounts DEF MountInv, Expected, Running
  <2>4. Installed'
    BY <1>2, <1>7, <2>1, <2>2 DEF Restarts, Others, Installed
  <2>5. Brings'
    BY <1>3, <1>7 DEF Restarts, Others, Brings, Running
  <2> QED BY <2>3, <2>4, <2>5 DEF MountInv
<1>8. ASSUME NEW w \in SpareWorkers, Redeploys(s, w) PROVE MountInv'
  <2> DEFINE task == [step |-> "fetch", strat |-> s, spec |-> desired[s],
                      old |-> st[s].proc, proc |-> None, cancelled |-> FALSE]
  <2>1. /\ \A v \in Workers : worker'[v] = IF v = w THEN task ELSE worker[v]
        /\ w \in Workers /\ ~Running(w) /\ desired[s] # None /\ UNCHANGED proc
        /\ \A o \in Strategies : st[o].inflight # None => st[o].inflight.by # w
    BY <1>8, SpareNames DEF Redeploys, Types, WorldOK, Wants
  <2>2. task.strat = s /\ task.spec = desired[s]
    OBVIOUS
  <2>3. st'[s].inflight.by = w /\ st'[s].mounts = desired[s].mounts /\ st'[s].proc = st[s].proc
        /\ \A o \in Strategies \ {s} : st'[o] = st[o]
    BY <1>8 DEF Redeploys, Others
  <2> HIDE DEF task
  <2>4. MountsKept'
    BY <1>1, <2>1, <2>2, KeptMounts DEF MountInv, Expected, Running
  <2>5. Installed'
    BY <1>2, <2>1, <2>3 DEF Installed
  <2>6. Brings'
    BY <1>3, <2>1, <2>2, <2>3 DEF Brings, Running
  <2> QED BY <2>4, <2>5, <2>6 DEF MountInv
<1> QED BY <1>4, <1>5, <1>6, <1>7, <1>8, PassShapes

LEMMA runDeployMounts ==
  ASSUME Types, DeployInv, MountInv, NEW w \in Workers, runDeploy(w)
  PROVE  MountInv'
<1>1. /\ Running(w) /\ \A v \in Workers \ {w} : worker'[v] = worker[v]
      /\ UNCHANGED <<assigned, desired, st>>
      /\ \/ worker'[w] = Idle
         \/ worker'[w].strat = worker[w].strat /\ worker'[w].spec = worker[w].spec
  BY WorkerShapes DEF human, record, loop
<1>2. \A p \in Pids : proc[p] # None => /\ proc'[p] # None /\ proc'[p].strat = proc[p].strat
                                        /\ proc'[p].mounts = proc[p].mounts
  BY WorkerShapes
<1>3. \A p \in Pids : proc'[p] # None /\ proc[p] = None =>
        proc'[p].strat = worker[w].strat /\ proc'[p].mounts = worker[w].spec.mounts
  <2>1. ASSUME NEW p \in Pids, proc'[p] # None, proc[p] = None
        PROVE  proc'[p].strat = worker[w].strat /\ proc'[p].mounts = worker[w].spec.mounts
    <3>1. worker'[w].step = "up" /\ p = worker'[w].proc
      BY <2>1, WorkerShapes
    <3>2. CASE worker'[w] = Idle
      BY <3>1, <3>2 DEF Idle
    <3>3. CASE worker'[w] # Idle
      <4>1. \/ worker'[w].step \in {"drain", "switch", "failed"}
            \/ worker'[w].step = "start"
            \/ proc'[worker'[w].proc] = [strat |-> worker[w].strat, mounts |-> worker[w].spec.mounts,
                                         alive |-> TRUE]
        BY <3>3, WorkerShapes
      <4> QED BY <3>1, <4>1
    <3> QED BY <3>2, <3>3
  <2> QED BY <2>1
<1>4. \A v \in Workers : Running(v)' =>
        Running(v) /\ worker'[v].strat = worker[v].strat /\ worker'[v].spec = worker[v].spec
  BY <1>1 DEF Running
<1>5. MountsKept'
  BY <1>1, <1>2, <1>3, <1>4, KeptMounts DEF MountInv, Expected, Of
<1>6. \A s \in Strategies : st[s].proc # None => st[s].proc \in Pids
  BY Records DEF State
<1>7. Installed' /\ Brings'
  BY <1>1, <1>2, <1>4, <1>6 DEF MountInv, Installed, Brings
<1> QED BY <1>5, <1>7 DEF MountInv

LEMMA ApplyMounts ==
  ASSUME Types, MountInv, NEW c \in Callers, Apply(c), Haste = {}
  PROVE  MountInv'
<1>1. UNCHANGED <<desired, st, worker, proc>>
  BY WriteShapes DEF world
<1>2. \A s \in Strategies : \A m : SameMounts(s, m) => SameMounts(s, m)'
  BY <1>1 DEF SameMounts, Of, Running
<1>3. Installed' /\ Brings'
  BY <1>1 DEF MountInv, Installed, Brings, Running
<1>4. CASE UNCHANGED assigned
  BY <1>1, <1>2, <1>3, <1>4 DEF MountInv, MountsKept
<1>5. ASSUME NEW s \in Strategies, NEW next \in Specs \cup {None},
             assigned' = [assigned EXCEPT ![s] = next], next # None => \A m \in InUse(s) : m = next.mounts
      PROVE  MountInv'
  <2>1. \A o \in Strategies : assigned'[o] = IF o = s THEN next ELSE assigned[o]
    BY <1>5 DEF Types, RecordOK
  <2>2. next # None => /\ SameMounts(s, next.mounts)
                       /\ desired[s] # None => desired[s].mounts = next.mounts
    BY <1>5 DEF InUse, SameMounts, Of, Running
  <2>3. MountsKept'
    BY <1>1, <1>2, <2>1, <2>2 DEF MountInv, MountsKept
  <2> QED BY <1>3, <2>3 DEF MountInv
<1> QED BY <1>4, <1>5, WriteShapes

LEMMA MountInit == Init => MountInv
<1> SUFFICES ASSUME Init PROVE MountInv
  OBVIOUS
<1>1. \A w \in Workers : ~Running(w)
  BY DEF Init, Running
<1>2. \A s \in Strategies : /\ StoredSpecs[s] = None => st[s] = NewState
                            /\ StoredSpecs[s] # None => st[s] = [NewState EXCEPT !.mounts = StoredSpecs[s].mounts]
  BY DEF Init
<1>3. \A s \in Strategies : st[s].proc = None
  <2>1. NewState \in State /\ NewState.proc = None
    BY DEF NewState, State
  <2>2. \A m : [NewState EXCEPT !.mounts = m].proc = None
    BY <2>1 DEF State
  <2> QED BY <1>2, <2>1, <2>2
<1>4. \A p \in Pids : proc[p] = None
  BY DEF Init
<1>5. desired = assigned
  BY DEF Init
<1> QED BY <1>1, <1>3, <1>4, <1>5 DEF MountInv, MountsKept, SameMounts, Installed, Brings, Of

LEMMA MountNext ==
  ASSUME Types, DeployInv, MountInv, Haste = {}, [Next]_vars
  PROVE  MountInv'
<1>1. \A s \in Strategies : st[s].proc # None => st[s].proc \in Pids /\ proc[st[s].proc] # None
  BY Records DEF State, MountInv, Installed
<1>2. CASE \E c \in Callers : Apply(c)
  BY <1>2, ApplyMounts
<1>3. CASE UNCHANGED <<assigned, desired, st, worker, proc>>
  BY <1>1, <1>3, SameMountInv DEF Running
<1>4. CASE Event
  <2>1. ASSUME NEW s \in Strategies, applyReapDone(s) PROVE MountInv'
    BY <1>3, <2>1 DEF applyReapDone, human, record
  <2>2. ASSUME NEW s \in Strategies, markHealthy(s) PROVE MountInv'
    <3>1. UNCHANGED <<assigned, desired, proc, worker>> /\ st \in [Strategies -> State]
      BY <2>2 DEF markHealthy, human, record, world, Types, LoopOK
    <3>2. /\ st'[s].inflight = None /\ st'[s].proc = st[s].proc /\ st'[s].mounts = st[s].mounts
          /\ \A o \in Strategies \ {s} : st'[o] = st[o]
      BY <2>2, <3>1 DEF markHealthy, State
    <3> QED BY <1>1, <3>1, <3>2, SameMountInv DEF Running
  <2> QED BY <1>4, <2>1, <2>2, applyDesiredMounts, handleExitMounts, applyWorkerEventMounts DEF Event
<1>5. CASE Pass
  <2>1. CASE reconcileVolumes
    BY <1>3, <2>1 DEF reconcileVolumes, human, record
  <2> QED BY <1>5, <2>1, reconcileMounts DEF Pass
<1>6. ASSUME NEW p \in Pids, Drain(p) \/ Exit(p) PROVE MountInv'
  <2>1. UNCHANGED <<assigned, desired, st, worker>>
    BY <1>6, EndShapes DEF loop
  <2> QED BY <1>1, <1>6, <2>1, EndShapes, SameMountInv DEF Running
<1>7. CASE Goroutine
  <2>1. ASSUME NEW s \in Strategies, runReap(s) PROVE MountInv'
    BY <1>3, <2>1 DEF runReap, human, record, loop
  <2> QED BY <1>6, <1>7, <2>1, runDeployMounts DEF Goroutine
<1>8. ASSUME NEW c \in Callers, Ask(c) \/ CreateVolume(c) \/ AskDeleteVolume(c) \/ DeleteVolume(c)
      PROVE  MountInv'
  BY <1>3, <1>8 DEF Ask, CreateVolume, AskDeleteVolume, DeleteVolume, record, loop, world
<1>9. ASSUME NEW s \in Strategies, handleReapOp(s) PROVE MountInv'
  BY <1>3, <1>9 DEF handleReapOp, record
<1>10. CASE UNCHANGED vars
  BY <1>3, <1>10 DEF vars, human, record, loop, world
<1> QED BY <1>2, <1>4, <1>5, <1>6, <1>7, <1>8, <1>9, <1>10 DEF Next

----------------------------------------------------------------------------
(* One writer, on a disk that stays: the writers *)

Overlap(s, mounts) == mountNames(s) \cap mounts # {}

\* At most one strategy the agent wants running mounts a volume.
WantsOne ==
  \A s, o \in Strategies : s # o /\ Wants(desired[s]) /\ Wants(desired[o]) =>
    desired[s].mounts \cap desired[o].mounts = {}

\* A strategy whose volume the record gives to another has no deploy in flight, and
\* will begin none.
GivesWay ==
  \A s, o \in Strategies : s # o /\ Wants(assigned[o]) /\ Overlap(s, assigned[o].mounts) =>
    /\ st[s].inflight = None
    /\ Wants(desired[s]) => versionMatches(desired[s], s)

\* One whose volume the agent gives to another has none either.
GaveWay ==
  \A s, o \in Strategies : s # o /\ Wants(desired[o]) /\ Overlap(s, desired[o].mounts) =>
    st[s].inflight = None

DeploysOne ==
  \A s, o \in Strategies : s # o /\ st[s].inflight # None /\ st[o].inflight # None =>
    ~Overlap(s, mountNames(o))

\* From its second look at the writers on, a deploy that is still wanted will start,
\* or has started, the only writer.
About(w) == Running(w) /\ ~worker[w].cancelled /\ worker[w].step \in {"start", "up"}

StartsAlone ==
  \A w \in Workers : About(w) =>
    \A o \in Strategies : o # worker[w].strat /\ Overlap(o, worker[w].spec.mounts) => st[o].proc = None

RunsAlone ==
  \A s, o \in Strategies : s # o /\ st[s].proc # None /\ st[o].proc # None =>
    ~Overlap(s, mountNames(o))

WriterInv == WantsOne /\ GivesWay /\ GaveWay /\ DeploysOne /\ StartsAlone /\ RunsAlone

\* A step after which nobody writes who did not before.
LEMMA QuieterWriters ==
  ASSUME WriterInv, UNCHANGED <<assigned, desired>>,
         \A s \in Strategies :
           /\ mountNames(s)' \in {mountNames(s), {}}
           /\ st'[s].inflight # None => st[s].inflight # None
           /\ st'[s].proc # None => st[s].proc # None
           /\ st'[s].running = st[s].running \/ ~Wants(desired[s]),
         \A w \in Workers : About(w)' =>
           About(w) /\ worker'[w].strat = worker[w].strat /\ worker'[w].spec = worker[w].spec
  PROVE  WriterInv'
<1>1. WantsOne'
  BY DEF WriterInv, WantsOne, Wants
<1>2. \A s \in Strategies : \A m : Overlap(s, m)' => Overlap(s, m)
  BY DEF Overlap
<1>3. \A s, o \in Strategies : Overlap(s, mountNames(o))' => Overlap(s, mountNames(o))
  BY DEF Overlap
<1>4. GivesWay'
  BY <1>2 DEF WriterInv, GivesWay, Wants, versionMatches
<1>5. GaveWay'
  BY <1>2 DEF WriterInv, GaveWay, Wants
<1>6. DeploysOne' /\ RunsAlone'
  BY <1>3 DEF WriterInv, DeploysOne, RunsAlone
<1>7. StartsAlone'
  BY <1>2 DEF WriterInv, StartsAlone
<1> QED BY <1>1, <1>4, <1>5, <1>6, <1>7 DEF WriterInv

LEMMA applyDesiredWriters ==
  ASSUME Types, Placed, DeployInv, MountInv, WriterInv, applyDesired
  PROVE  WriterInv'
<1> DEFINE gone == {s \in known : st[s].inflight # None
                      /\ (assigned[s] = None \/ assigned[s].art # st[s].inflight.art)}
<1>1. worker' = Cancelled(gone) /\ desired' = assigned /\ UNCHANGED assigned
  BY DEF applyDesired, human, record
<1>2. \A s \in Strategies : st'[s] = [st[s] EXCEPT !.failed = FALSE,
                                        !.inflight = IF s \in gone THEN None ELSE @]
  BY DEF applyDesired
<1>3. \A s \in Strategies :
        /\ st'[s].inflight \in {st[s].inflight, None} /\ st'[s].proc = st[s].proc
        /\ st'[s].mounts = st[s].mounts /\ st'[s].running = st[s].running
        /\ st'[s].inflight # None => assigned[s] # None
  <2>1. \A s \in Strategies \ known : st[s].inflight = None
    BY DEF DeployInv, UnknownIsNew, NewState
  <2>2. \A s \in Strategies :
          /\ st'[s].inflight = IF s \in gone THEN None ELSE st[s].inflight
          /\ st'[s].proc = st[s].proc /\ st'[s].mounts = st[s].mounts /\ st'[s].running = st[s].running
    BY <1>2, Records DEF State
  <2> QED BY <2>1, <2>2
<1> HIDE DEF gone
<1>4. \A w \in Workers : About(w)' =>
        About(w) /\ worker'[w].strat = worker[w].strat /\ worker'[w].spec = worker[w].spec
  BY <1>1, CancelledFields DEF About, Running
<1>5. \A s \in Strategies : st[s].proc # None => mountNames(s)' = mountNames(s)
  BY <1>1, <1>3, RunsOn DEF mountNames
<1>6. \A s \in Strategies : st'[s].inflight # None => st[s].inflight # None /\ mountNames(s)' = mountNames(s)
  BY <1>1, <1>3, DeploysOn DEF mountNames
<1>7. WantsOne'
  BY <1>1 DEF Placed, WantsOne, Wants
<1>8. \A s, o \in Strategies : s # o /\ Wants(assigned[o]) /\ Overlap(s, assigned[o].mounts)' =>
        st'[s].inflight = None
  <2>1. \A s, o \in Strategies : st'[s].inflight # None /\ Overlap(s, assigned[o].mounts)' =>
          Overlap(s, assigned[o].mounts)
    BY <1>1, <1>6 DEF Overlap
  <2> QED BY <1>6, <2>1 DEF WriterInv, GivesWay
<1>9. GaveWay'
  BY <1>1, <1>8 DEF GaveWay, Wants
<1>10. GivesWay'
  <2> SUFFICES ASSUME NEW s \in Strategies, NEW o \in Strategies, s # o, Wants(assigned[o]),
                      Overlap(s, assigned[o].mounts)'
               PROVE  st'[s].inflight = None /\ ~Wants(assigned[s])
    BY <1>1 DEF GivesWay, Wants
  <2>1. Wants(assigned[s]) => mountNames(s)' = assigned[s].mounts
    BY <1>1 DEF mountNames, Wants
  <2>2. Wants(assigned[s]) => assigned[s].mounts \cap assigned[o].mounts # {}
    BY <1>1, <2>1 DEF Overlap
  <2> QED BY <1>8, <2>2 DEF Placed, Wants
<1>11. DeploysOne'
  BY <1>6 DEF WriterInv, DeploysOne, Overlap
<1>12. RunsAlone'
  BY <1>3, <1>5 DEF WriterInv, RunsAlone, Overlap
<1>13. StartsAlone'
  <2> SUFFICES ASSUME NEW w \in Workers, About(w)', NEW o \in Strategies, o # worker'[w].strat,
                      Overlap(o, worker[w].spec.mounts)', st[o].proc # None
               PROVE  FALSE
    BY <1>3, <1>4 DEF StartsAlone, Overlap
  <2>1. Overlap(o, worker[w].spec.mounts)
    BY <1>4, <1>5 DEF Overlap
  <2> QED BY <1>4, <2>1 DEF WriterInv, StartsAlone
<1> QED BY <1>7, <1>9, <1>10, <1>11, <1>12, <1>13 DEF WriterInv

LEMMA handleExitWriters ==
  ASSUME Types, DeployInv, WriterInv, NEW p \in Pids, handleExit(p)
  PROVE  WriterInv'
<1> DEFINE s == proc[p].strat
<1>1. /\ UNCHANGED <<assigned, desired, worker>> /\ s \in Strategies /\ st \in [Strategies -> State]
  BY Records DEF handleExit, human, record, Types, LoopOK, Process
<1>2. \/ UNCHANGED st
      \/ desired[s] = None /\ st' = [st EXCEPT ![s] = NewState]
      \/ st' = [st EXCEPT ![s] = [@ EXCEPT !.proc = None, !.stopping = FALSE]]
  BY DEF handleExit
<1>3. NewState.inflight = None /\ NewState.proc = None /\ NewState.mounts = {}
  BY DEF NewState
<1>4. \A rec \in State : LET r == [rec EXCEPT !.proc = None, !.stopping = FALSE]
                         IN r.proc = None /\ r.inflight = rec.inflight /\ r.mounts = rec.mounts /\ r.running = rec.running
  BY DEF State
<1>5. \A o \in Strategies : \/ st'[o] = st[o]
                            \/ /\ st'[o].proc = None /\ st'[o].inflight = st[o].inflight
                               /\ st'[o].mounts = st[o].mounts /\ st'[o].running = st[o].running
                            \/ desired[o] = None /\ st'[o] = NewState
  <2>1. CASE UNCHANGED st
    BY <2>1
  <2>2. CASE desired[s] = None /\ st' = [st EXCEPT ![s] = NewState]
    BY <1>1, <2>2
  <2>3. CASE st' = [st EXCEPT ![s] = [@ EXCEPT !.proc = None, !.stopping = FALSE]]
    <3>1. st'[s] = [st[s] EXCEPT !.proc = None, !.stopping = FALSE] /\ st[s] \in State
          /\ \A o \in Strategies \ {s} : st'[o] = st[o]
      BY <1>1, <2>3
    <3>2. /\ st'[s].proc = None /\ st'[s].inflight = st[s].inflight
          /\ st'[s].mounts = st[s].mounts /\ st'[s].running = st[s].running
      BY <1>4, <3>1
    <3> HIDE DEF s
    <3> QED BY <3>1, <3>2
  <2> QED BY <1>2, <2>1, <2>2, <2>3
<1> HIDE DEF s
<1>6. \A o \in Strategies :
           /\ mountNames(o)' \in {mountNames(o), {}}
           /\ st'[o].inflight # None => st[o].inflight # None
           /\ st'[o].proc # None => st[o].proc # None
           /\ st'[o].running = st[o].running \/ ~Wants(desired[o])
  BY <1>1, <1>3, <1>5 DEF mountNames, Wants
<1> QED BY <1>1, <1>6, QuieterWriters DEF About, Running

LEMMA markHealthyWriters ==
  ASSUME Types, WriterInv, NEW s \in Strategies, markHealthy(s)
  PROVE  WriterInv'
<1>1. UNCHANGED <<assigned, desired, proc, worker>> /\ st \in [Strategies -> State]
  BY DEF markHealthy, human, record, world, Types, LoopOK
<1>2. /\ st'[s].inflight = None /\ st'[s].proc = st[s].proc /\ st'[s].mounts = st[s].mounts
      /\ st'[s].running = st[s].running /\ \A o \in Strategies \ {s} : st'[o] = st[o]
  BY <1>1 DEF markHealthy, State
<1>3. \A o \in Strategies :
           /\ mountNames(o)' \in {mountNames(o), {}}
           /\ st'[o].inflight # None => st[o].inflight # None
           /\ st'[o].proc # None => st[o].proc # None
           /\ st'[o].running = st[o].running \/ ~Wants(desired[o])
  BY <1>1, <1>2 DEF mountNames
<1> QED BY <1>1, <1>3, QuieterWriters DEF About, Running

LEMMA applyWorkerEventWriters ==
  ASSUME Types, DeployInv, MountInv, WriterInv, NEW w \in Workers, applyWorkerEvent(w)
  PROVE  WriterInv'
<1> DEFINE s == worker[w].strat
<1>1. /\ UNCHANGED <<assigned, desired>> /\ Running(w) /\ s \in Strategies
      /\ \A o \in Strategies \ {s} : st'[o] = st[o]
      /\ st'[s].mounts = st[s].mounts
  BY EventShapes
<1>2. \A v \in Workers : Running(v)' => Running(v) /\ v # w /\ worker'[v] = worker[v]
  BY EventShapes DEF Running, Types, WorldOK
<1>3. \A o \in Strategies : mountNames(o)' = mountNames(o)
  BY <1>1 DEF mountNames
<1>4. CASE \/ UNCHANGED st
           \/ st'[s].inflight = None /\ st'[s].running = st[s].running /\ st'[s].proc = st[s].proc
  <2>1. \A o \in Strategies :
           /\ mountNames(o)' \in {mountNames(o), {}}
           /\ st'[o].inflight # None => st[o].inflight # None
           /\ st'[o].proc # None => st[o].proc # None
           /\ st'[o].running = st[o].running \/ ~Wants(desired[o])
    BY <1>1, <1>3, <1>4
  <2> QED BY <1>1, <1>2, <2>1, QuieterWriters DEF About
<1>5. CASE /\ ~worker[w].cancelled /\ st[s].inflight # None /\ worker[w].step = "up"
           /\ st'[s].inflight # None
  <2>1. About(w) /\ worker[w].spec.mounts = mountNames(s)
    BY <1>1, <1>5, DeploysOn DEF About, Of
  <2>2. WantsOne'
    BY <1>1 DEF WriterInv, WantsOne, Wants
  <2>3. \A o \in Strategies : st'[o].inflight = None <=> st[o].inflight = None
    BY <1>1, <1>5
  <2>4. GivesWay' /\ GaveWay' /\ DeploysOne'
    BY <1>1, <1>3, <1>5, <2>3
       DEF WriterInv, GivesWay, GaveWay, DeploysOne, Overlap, Wants, versionMatches
  <2>5. \A v \in Workers : About(v)' => About(v) /\ v # w /\ worker'[v] = worker[v]
    BY <1>2 DEF About
  <2>6. StartsAlone'
    <3> SUFFICES ASSUME NEW v \in Workers, About(v), v # w, NEW o \in Strategies, o # worker[v].strat,
                        Overlap(o, worker[v].spec.mounts)
                 PROVE  st'[o].proc = None
      BY <1>3, <2>5 DEF StartsAlone, Overlap
    <3>1. worker[v].strat \in Strategies /\ st[worker[v].strat].inflight # None
          /\ st[worker[v].strat].inflight.by = v
      BY Records DEF About, DeployInv, Answered
    <3>2. st[s].inflight.by = w
      BY <1>1, <1>5 DEF DeployInv, Answered
    <3>3. worker[v].spec.mounts = mountNames(worker[v].strat)
      BY <3>1, DeploysOn DEF About, Of
    <3>4. o # s
      BY <1>1, <1>5, <3>1, <3>2, <3>3 DEF WriterInv, DeploysOne
    <3> QED BY <1>1, <3>4 DEF WriterInv, StartsAlone
  <2>7. RunsAlone'
    <3>1. \A o \in Strategies \ {s} : Overlap(o, mountNames(s)) => st[o].proc = None
      BY <2>1 DEF WriterInv, StartsAlone
    <3>2. \A o \in Strategies : Overlap(s, mountNames(o)) => Overlap(o, mountNames(s))
      BY DEF Overlap
    <3> QED BY <1>1, <1>3, <3>1, <3>2 DEF WriterInv, RunsAlone, Overlap
  <2> QED BY <2>2, <2>4, <2>6, <2>7 DEF WriterInv
<1> QED BY <1>4, <1>5, EventShapes

LEMMA reconcileWriters ==
  ASSUME Types, DeployInv, MountInv, WriterInv, NEW s \in Strategies, reconcile(s)
  PROVE  WriterInv'
<1>1. UNCHANGED <<assigned, desired>>
  BY PassShapes
<1>2. CASE Keeps(s) \/ Halts(s) \/ Retires(s) \/ Skips(s)
  <2>1. /\ \A o \in Strategies \ {s} : st'[o] = st[o]
        /\ \/ st'[s].inflight \in {st[s].inflight, None} /\ st'[s].proc = st[s].proc /\ st'[s].running = st[s].running
           \/ st'[s] = NewState /\ desired[s] = None
        /\ desired[s] = None => st'[s].mounts = st[s].mounts \/ st'[s] = NewState
    BY <1>2 DEF Keeps, Halts, Retires, Skips, Others
  <2>2. NewState.inflight = None /\ NewState.proc = None /\ NewState.mounts = {}
    BY DEF NewState
  <2>3. \A o \in Strategies :
           /\ mountNames(o)' \in {mountNames(o), {}}
           /\ st'[o].inflight # None => st[o].inflight # None
           /\ st'[o].proc # None => st[o].proc # None
           /\ st'[o].running = st[o].running \/ ~Wants(desired[o])
    BY <1>1, <2>1, <2>2 DEF mountNames, Wants
  <2>4. worker' = worker \/ worker' = Cancelled({s})
    BY <1>2 DEF Keeps, Halts, Retires, Skips
  <2>5. \A w \in Workers : About(w)' =>
          About(w) /\ worker'[w].strat = worker[w].strat /\ worker'[w].spec = worker[w].spec
    BY <2>4, CancelledFields DEF About, Running
  <2> QED BY <1>1, <2>3, <2>5, QuieterWriters
<1>3. ASSUME NEW p \in SparePids, Restarts(s, p) PROVE WriterInv'
  <2>1. /\ UNCHANGED worker /\ \A o \in Strategies \ {s} : st'[o] = st[o]
        /\ st'[s].inflight = st[s].inflight /\ st'[s].running = st[s].running
        /\ Wants(desired[s]) /\ ~volumeWriterConflict(s, desired[s].mounts)
    BY <1>3 DEF Restarts, Others
  <2>2. \A o \in Strategies : mountNames(o)' = mountNames(o)
    BY <1>1, <2>1 DEF mountNames, Wants
  <2>3. mountNames(s) = desired[s].mounts
    BY <2>1 DEF mountNames, Wants
  <2>4. WantsOne' /\ GivesWay' /\ GaveWay' /\ DeploysOne'
    BY <1>1, <2>1, <2>2
       DEF WriterInv, WantsOne, GivesWay, GaveWay, DeploysOne, Overlap, Wants, versionMatches
  <2>5. RunsAlone'
    <3>1. \A o \in Strategies \ {s} : st[o].proc # None => mountNames(o) \cap mountNames(s) = {}
      <4>1. \A o \in Strategies \ known : st[o].proc = None
        BY DEF DeployInv, UnknownIsNew, NewState
      <4> QED BY <2>1, <2>3, <4>1 DEF volumeWriterConflict
    <3> QED BY <2>1, <2>2, <3>1 DEF WriterInv, RunsAlone, Overlap
  <2>6. StartsAlone'
    <3> SUFFICES ASSUME NEW w \in Workers, About(w), s # worker[w].strat, Overlap(s, worker[w].spec.mounts)
                 PROVE  FALSE
      BY <2>1, <2>2 DEF WriterInv, StartsAlone, About, Running, Overlap
    <3> DEFINE o == worker[w].strat
    <3>1. o \in Strategies /\ st[o].inflight # None
      BY Records DEF About, DeployInv, Answered
    <3>2. worker[w].spec.mounts = mountNames(o)
      BY <3>1, DeploysOn DEF About, Of
    <3>3. Overlap(o, desired[s].mounts)
      BY <2>3, <3>2 DEF Overlap
    <3> QED BY <2>1, <3>1, <3>3 DEF WriterInv, GaveWay
  <2> QED BY <2>4, <2>5, <2>6 DEF WriterInv
<1>4. ASSUME NEW w \in SpareWorkers, Redeploys(s, w) PROVE WriterInv'
  <2> DEFINE task == [step |-> "fetch", strat |-> s, spec |-> desired[s],
                      old |-> st[s].proc, proc |-> None, cancelled |-> FALSE]
  <2>1. /\ \A v \in Workers : worker'[v] = IF v = w THEN task ELSE worker[v]
        /\ \A o \in Strategies \ {s} : st'[o] = st[o]
        /\ st'[s].proc = st[s].proc /\ st'[s].running = st[s].running
        /\ Wants(desired[s]) /\ ~versionMatches(desired[s], s)
    BY <1>4, SpareNames DEF Redeploys, Others, Types, WorldOK
  <2>2. task.step = "fetch"
    OBVIOUS
  <2> HIDE DEF task
  <2>3. \A o \in Strategies : mountNames(o)' = mountNames(o)
    BY <1>1, <2>1 DEF mountNames, Wants
  <2>4. mountNames(s) = desired[s].mounts
    BY <2>1 DEF mountNames, Wants
  <2>5. WantsOne'
    BY <1>1 DEF WriterInv, WantsOne, Wants
  <2>6. RunsAlone' 
    BY <2>1, <2>3 DEF WriterInv, RunsAlone, Overlap
  <2>7. StartsAlone'
    <3>1. \A v \in Workers : About(v)' => About(v) /\ worker'[v] = worker[v]
      BY <2>1, <2>2 DEF About, Running
    <3> QED BY <2>1, <2>3, <3>1 DEF WriterInv, StartsAlone, Overlap
  <2>8. \A o \in Strategies \ {s} : Wants(assigned[o]) => ~Overlap(s, assigned[o].mounts)
    BY <2>1 DEF WriterInv, GivesWay
  <2>9. \A o \in Strategies \ {s} : Wants(desired[o]) => ~Overlap(s, desired[o].mounts)
    BY <2>1, <2>4 DEF WriterInv, WantsOne, Overlap
  <2>10. \A o \in Strategies \ {s} : st[o].inflight # None => ~Overlap(o, mountNames(s))
    BY <2>1, <2>4 DEF WriterInv, GaveWay
  <2>11. \A o \in Strategies \ {s} : st[o].inflight # None => ~Overlap(s, mountNames(o))
    BY <2>10 DEF Overlap
  <2>12. GivesWay'
    BY <1>1, <2>1, <2>3, <2>8 DEF WriterInv, GivesWay, Overlap, Wants, versionMatches
  <2>13. GaveWay'
    BY <1>1, <2>1, <2>3, <2>9 DEF WriterInv, GaveWay, Overlap, Wants
  <2>14. DeploysOne'
    BY <2>1, <2>3, <2>10, <2>11 DEF WriterInv, DeploysOne, Overlap
  <2> QED BY <2>5, <2>6, <2>7, <2>12, <2>13, <2>14 DEF WriterInv
<1> QED BY <1>2, <1>3, <1>4, PassShapes

LEMMA runDeployWriters ==
  ASSUME Types, DeployInv, WriterInv, NEW w \in Workers, runDeploy(w)
  PROVE  WriterInv'
<1>1. /\ Running(w) /\ \A v \in Workers \ {w} : worker'[v] = worker[v]
      /\ UNCHANGED <<assigned, desired, known, st>>
      /\ \/ worker'[w] = Idle
         \/ /\ worker'[w].strat = worker[w].strat /\ worker'[w].spec = worker[w].spec
            /\ worker'[w].cancelled = worker[w].cancelled
            /\ \/ worker'[w].step \in {"drain", "switch", "failed"}
               \/ /\ worker[w].step = "switch" /\ worker'[w].step = "start"
                  /\ ~volumeWriterConflict(worker[w].strat, worker[w].spec.mounts)
               \/ worker[w].step = "start" /\ worker'[w].step = "up"
  BY WorkerShapes DEF human, record, loop
<1>2. \A o \in Strategies : mountNames(o)' = mountNames(o)
  BY <1>1 DEF mountNames
<1>3. \A v \in Workers \ {w} : About(v)' => About(v)
  BY <1>1 DEF About, Running
<1>4. CASE ~(worker[w].step = "switch" /\ About(w)')
  <2>1. About(w)' => About(w) /\ worker'[w].strat = worker[w].strat /\ worker'[w].spec = worker[w].spec
    BY <1>1, <1>4 DEF About, Running
  <2>2. \A o \in Strategies :
           /\ mountNames(o)' \in {mountNames(o), {}}
           /\ st'[o].inflight # None => st[o].inflight # None
           /\ st'[o].proc # None => st[o].proc # None
           /\ st'[o].running = st[o].running \/ ~Wants(desired[o])
    BY <1>1, <1>2
  <2> QED BY <1>1, <1>3, <2>1, <2>2, QuieterWriters
<1>5. CASE worker[w].step = "switch" /\ About(w)'
  <2>1. /\ worker'[w].strat = worker[w].strat /\ worker'[w].spec = worker[w].spec
        /\ ~volumeWriterConflict(worker[w].strat, worker[w].spec.mounts)
    BY <1>1, <1>5 DEF About, Running
  <2>2. \A o \in Strategies : o # worker[w].strat /\ Overlap(o, worker[w].spec.mounts) => st[o].proc = None
    <3>1. \A o \in Strategies \ known : st[o].proc = None
      BY DEF DeployInv, UnknownIsNew, NewState
    <3> QED BY <2>1, <3>1 DEF volumeWriterConflict, Overlap
  <2>3. StartsAlone'
    BY <1>1, <1>2, <1>3, <2>1, <2>2 DEF WriterInv, StartsAlone, Overlap
  <2>4. WantsOne' /\ GivesWay' /\ GaveWay' /\ DeploysOne' /\ RunsAlone'
    BY <1>1, <1>2
       DEF WriterInv, WantsOne, GivesWay, GaveWay, DeploysOne, RunsAlone, Overlap, Wants, versionMatches
  <2> QED BY <2>3, <2>4 DEF WriterInv
<1> QED BY <1>4, <1>5

LEMMA ApplyWriters ==
  ASSUME Types, WriterInv, NEW c \in Callers, Apply(c), Haste = {}
  PROVE  WriterInv'
<1>1. UNCHANGED <<desired, known, st, worker>>
  BY WriteShapes DEF world
<1>2. \A o \in Strategies : mountNames(o)' = mountNames(o)
  BY <1>1 DEF mountNames
<1>3. WantsOne' /\ GaveWay' /\ DeploysOne' /\ StartsAlone' /\ RunsAlone'
  BY <1>1, <1>2
     DEF WriterInv, WantsOne, GaveWay, DeploysOne, StartsAlone, RunsAlone, Overlap, Wants, About, Running
<1>4. CASE UNCHANGED assigned
  BY <1>1, <1>2, <1>3, <1>4 DEF WriterInv, GivesWay, Overlap, Wants, versionMatches
<1>5. ASSUME NEW s \in Strategies, NEW next \in Specs \cup {None},
             assigned' = [assigned EXCEPT ![s] = next], Wants(next) => Unsettled(s, next.mounts) = {}
      PROVE  WriterInv'
  <2>1. \A o \in Strategies : assigned'[o] = IF o = s THEN next ELSE assigned[o]
    BY <1>5 DEF Types, RecordOK
  <2>2. Wants(next) => \A o \in Strategies : o # s /\ Overlap(o, next.mounts) =>
          st[o].inflight = None /\ (Wants(desired[o]) => versionMatches(desired[o], o))
    BY <1>5 DEF Unsettled, Overlap, Wants
  <2>3. GivesWay'
    BY <1>1, <1>2, <2>1, <2>2 DEF WriterInv, GivesWay, Overlap, Wants, versionMatches
  <2> QED BY <1>3, <2>3 DEF WriterInv
<1> QED BY <1>4, <1>5, WriteShapes

LEMMA WriterInit == Init => WriterInv
<1> SUFFICES ASSUME Init PROVE WriterInv
  OBVIOUS
<1>1. \A w \in Workers : ~Running(w)
  BY DEF Init, Running
<1>2. \A s \in Strategies : st[s].proc = None /\ st[s].inflight = None
  <2>1. \A s \in Strategies : /\ StoredSpecs[s] = None => st[s] = NewState
                              /\ StoredSpecs[s] # None => st[s] = [NewState EXCEPT !.mounts = StoredSpecs[s].mounts]
    BY DEF Init
  <2>2. NewState \in State /\ NewState.proc = None /\ NewState.inflight = None
    BY DEF NewState, State
  <2>3. \A m : LET r == [NewState EXCEPT !.mounts = m] IN r.proc = None /\ r.inflight = None
    BY <2>2 DEF State
  <2> QED BY <2>1, <2>2, <2>3
<1>3. \A s \in Strategies : ~Wants(desired[s]) /\ ~Wants(assigned[s])
  BY StoredAssumption DEF Init, Wants
<1> QED BY <1>1, <1>2, <1>3
        DEF WriterInv, WantsOne, GivesWay, GaveWay, DeploysOne, StartsAlone, RunsAlone, About

LEMMA WriterNext ==
  ASSUME Types, Placed, DeployInv, MountInv, WriterInv, Haste = {}, [Next]_vars
  PROVE  WriterInv'
<1>1. CASE \E c \in Callers : Apply(c)
  BY <1>1, ApplyWriters
<1>2. CASE UNCHANGED <<assigned, desired, st, worker>>
  <2>1. \A o \in Strategies :
           /\ mountNames(o)' \in {mountNames(o), {}}
           /\ st'[o].inflight # None => st[o].inflight # None
           /\ st'[o].proc # None => st[o].proc # None
           /\ st'[o].running = st[o].running \/ ~Wants(desired[o])
    BY <1>2 DEF mountNames
  <2> QED BY <1>2, <2>1, QuieterWriters DEF About, Running
<1>3. CASE Event
  <2>1. ASSUME NEW s \in Strategies, applyReapDone(s) PROVE WriterInv'
    BY <1>2, <2>1 DEF applyReapDone, human, record
  <2> QED BY <1>3, <2>1, applyDesiredWriters, handleExitWriters, applyWorkerEventWriters, markHealthyWriters
          DEF Event
<1>4. CASE Pass
  <2>1. CASE reconcileVolumes
    BY <1>2, <2>1 DEF reconcileVolumes, human, record
  <2> QED BY <1>4, <2>1, reconcileWriters DEF Pass
<1>5. ASSUME NEW p \in Pids, Drain(p) \/ Exit(p) PROVE WriterInv'
  <2>1. UNCHANGED <<assigned, desired, st, worker>>
    BY <1>5, EndShapes DEF loop
  <2> QED BY <1>2, <2>1
<1>6. CASE Goroutine
  <2>1. ASSUME NEW s \in Strategies, runReap(s) PROVE WriterInv'
    BY <1>2, <2>1 DEF runReap, human, record, loop
  <2> QED BY <1>5, <1>6, <2>1, runDeployWriters DEF Goroutine
<1>7. ASSUME NEW c \in Callers, Ask(c) \/ CreateVolume(c) \/ AskDeleteVolume(c) \/ DeleteVolume(c)
      PROVE  WriterInv'
  BY <1>2, <1>7 DEF Ask, CreateVolume, AskDeleteVolume, DeleteVolume, record, loop, world
<1>8. ASSUME NEW s \in Strategies, handleReapOp(s) PROVE WriterInv'
  BY <1>2, <1>8 DEF handleReapOp, record
<1>9. CASE UNCHANGED vars
  BY <1>2, <1>9 DEF vars, human, record, loop, world
<1> QED BY <1>1, <1>3, <1>4, <1>5, <1>6, <1>7, <1>8, <1>9 DEF Next

\* Who is answered for mounts what its strategy counts as mounting, and is its
\* process or its deploy.
LEMMA OwnedMounts ==
  ASSUME Types, DeployInv, MountInv, NEW p \in Pids, Owned(p)
  PROVE  LET s == proc[p].strat
         IN /\ s \in Strategies /\ proc[p].mounts = mountNames(s)
            /\ \/ st[s].proc = p
               \/ st[s].inflight # None /\ \E w \in Workers : About(w) /\ Of(w, s) /\ worker[w].proc = p
<1>1. p # None /\ proc[p] \in Process
  BY NoneAssumption DEF Owned, Alive, Types, WorldOK
<1>2. CASE st[proc[p].strat].proc = p
  BY <1>1, <1>2, RunsOn DEF Process
<1>3. ASSUME NEW w \in Workers, Running(w), worker[w].proc = p, ~worker[w].cancelled
      PROVE  LET s == proc[p].strat
             IN /\ s \in Strategies /\ proc[p].mounts = mountNames(s)
                /\ st[s].inflight # None /\ About(w) /\ Of(w, s) /\ worker[w].proc = p
  <2>1. /\ worker[w].step = "up" /\ proc[p].strat = worker[w].strat
        /\ proc[p].mounts = worker[w].spec.mounts
    BY <1>1, <1>3 DEF DeployInv, Reports
  <2>2. worker[w].strat \in Strategies /\ st[worker[w].strat].inflight # None
    BY <1>3, Records DEF DeployInv, Answered
  <2>3. worker[w].spec.mounts = mountNames(worker[w].strat)
    BY <1>3, <2>2, DeploysOn DEF Of
  <2> QED BY <1>3, <2>1, <2>2, <2>3 DEF About, Of
<1> QED BY <1>2, <1>3 DEF Owned

LEMMA WritersOne ==
  ASSUME Types, DeployInv, MountInv, WriterInv
  PROVE  OneWriter
<1> SUFFICES ASSUME NEW p \in Pids, NEW q \in Pids, Owned(p), Owned(q), proc[p].strat # proc[q].strat
             PROVE  proc[p].mounts \cap proc[q].mounts = {}
  BY DEF OneWriter
<1> DEFINE s == proc[p].strat
           o == proc[q].strat
<1>1. /\ s \in Strategies /\ proc[p].mounts = mountNames(s)
      /\ \/ st[s].proc = p
         \/ st[s].inflight # None /\ \E w \in Workers : About(w) /\ Of(w, s) /\ worker[w].proc = p
  BY OwnedMounts
<1>2. /\ o \in Strategies /\ proc[q].mounts = mountNames(o)
      /\ \/ st[o].proc = q
         \/ st[o].inflight # None /\ \E w \in Workers : About(w) /\ Of(w, o) /\ worker[w].proc = q
  BY OwnedMounts
<1>3. p # None /\ q # None
  BY DEF Owned, Alive
<1> HIDE DEF s, o
<1>4. s # o
  BY DEF s, o
<1>5. ASSUME NEW x \in Strategies, NEW y \in Strategies, x # y, st[x].inflight # None,
             \E w \in Workers : About(w) /\ Of(w, x),
             st[y].proc # None
      PROVE  ~Overlap(y, mountNames(x))
  BY <1>5, DeploysOn DEF WriterInv, StartsAlone, Of
<1> QED BY <1>1, <1>2, <1>3, <1>4, <1>5 DEF WriterInv, DeploysOne, RunsAlone, Overlap

WritersInv == PlacedInv /\ DeployInv /\ MountInv /\ WriterInv

LEMMA WritersStart == Init => WritersInv
BY PlacedInit, DeployInit, MountInit, WriterInit DEF WritersInv

LEMMA WritersStep ==
  ASSUME OneCaller, Haste = {}, WritersInv, [Next]_vars
  PROVE  WritersInv'
<1>1. Types /\ Placed /\ PlacedInv /\ DeployInv /\ MountInv /\ WriterInv
  BY DEF WritersInv, PlacedInv
<1>2. PlacedInv' /\ DeployInv' /\ MountInv' /\ WriterInv'
  BY <1>1, PlacedNext, DeployNext, MountNext, WriterNext
<1> QED BY <1>2 DEF WritersInv

\* Where verbs are served one at a time and operators wait for a strategy to be
\* still before they move its volumes, no two strategies ever have processes of
\* theirs on one volume ("One live writer per volume": liveWriterConflict in the
\* control plane, volumeWriterConflict where the agent starts or deploys).
THEOREM OneWriterPerVolume == ASSUME OneCaller, Haste = {} PROVE Spec => []OneWriter
<1>1. Init => WritersInv
  BY WritersStart
<1>2. WritersInv /\ [Next]_vars => WritersInv'
  BY WritersStep
<1>3. WritersInv => OneWriter
  BY WritersOne DEF WritersInv, PlacedInv
<1> QED BY <1>1, <1>2, <1>3, PTL DEF Spec

----------------------------------------------------------------------------
(* What processes stand on *)

\* A machine that has volumes counts its changes of them, so the agent hears of
\* them: what the agent desires mounts volumes of the list it was sent.
Counts == inventory # {} => counted
Listed ==
  \A s \in Strategies : desired[s] # None =>
    /\ desiredVolumes = None => desired[s].mounts = {}
    /\ desiredVolumes # None => desired[s].mounts \subseteq desiredVolumes

\* Directories of volumes: those of a deploy that is wanted, and of a process.
DeploysOnDisk == \A w \in Workers : Running(w) /\ ~worker[w].cancelled => worker[w].spec.mounts \subseteq dir
RunsOnDisk    == \A s \in Strategies : st[s].proc # None => st[s].mounts \subseteq dir

\* A slot under deletion has nothing in it, and nothing comes to run there.
Emptied ==
  \A s \in Strategies : reaping[s] # "no" =>
    st[s].proc = None /\ st[s].inflight = None /\ st[s].running = None

\* What has been deployed, runs, or is about to, has its slot.
HasSlot ==
  \A s \in Strategies :
    \/ s \in slot
    \/ /\ st[s].running = None /\ st[s].proc = None
       /\ \A w \in Workers : Of(w, s) => ~About(w)

\* Between passes, what is known and not desired has a process that is stopping:
\* one without was forgotten by the pass.
Forgotten ==
  \A s \in Strategies :
    desired[s] = None /\ s \in known /\ (pc = "select" \/ (pc = "pass" /\ s \notin todo)) =>
      st[s].proc # None /\ st[s].stopping

DiskInv == Counts /\ Listed /\ DeploysOnDisk /\ RunsOnDisk /\ Emptied /\ HasSlot /\ Forgotten

LEMMA NewStateFields ==
  /\ NewState.running = None /\ NewState.proc = None /\ NewState.inflight = None
  /\ NewState.mounts = {} /\ ~NewState.stopping /\ NewState \in State
BY DEF NewState, State

\* A step that takes nothing from the disk, and starts nothing.
LEMMA QuieterDisk ==
  ASSUME DiskInv, UNCHANGED <<inventory, counted, desired, desiredVolumes, reaping>>,
         dir \subseteq dir', slot \subseteq slot',
         \A s \in Strategies :
           /\ st'[s].running # None => st[s].running # None
           /\ st'[s].proc # None => st[s].proc # None /\ st'[s].mounts = st[s].mounts
           /\ st'[s].inflight # None => st[s].inflight # None,
         \A w \in Workers : Running(w)' /\ ~worker'[w].cancelled =>
           /\ Running(w) /\ ~worker[w].cancelled
           /\ worker'[w].strat = worker[w].strat /\ worker'[w].spec = worker[w].spec,
         \A w \in Workers : About(w)' => About(w)
  PROVE  Counts' /\ Listed' /\ DeploysOnDisk' /\ RunsOnDisk' /\ Emptied' /\ HasSlot'
<1>1. Counts' /\ Listed'
  BY DEF DiskInv, Counts, Listed
<1>2. DeploysOnDisk' /\ RunsOnDisk'
  BY DEF DiskInv, DeploysOnDisk, RunsOnDisk
<1>3. Emptied'
  BY DEF DiskInv, Emptied
<1>4. HasSlot'
  <2>1. \A w \in Workers : About(w)' => worker'[w].strat = worker[w].strat
    BY DEF About
  <2>2. \A s \in Strategies, w \in Workers : Of(w, s)' /\ About(w)' => Of(w, s) /\ About(w)
    BY <2>1 DEF Of, About
  <2> QED BY <2>2 DEF DiskInv, HasSlot
<1> QED BY <1>1, <1>2, <1>3, <1>4

LEMMA applyDesiredDisk ==
  ASSUME Types, Placed, DiskInv, applyDesired
  PROVE  DiskInv'
<1> DEFINE gone == {s \in known : st[s].inflight # None
                      /\ (assigned[s] = None \/ assigned[s].art # st[s].inflight.art)}
<1>1. /\ worker' = Cancelled(gone) /\ desired' = assigned /\ pc' = "volumes"
      /\ desiredVolumes' = IF counted THEN inventory ELSE None
      /\ UNCHANGED <<assigned, inventory, counted, proc, reaping, dir, slot>>
  BY DEF applyDesired, human, record
<1>2. \A s \in Strategies : st'[s] = [st[s] EXCEPT !.failed = FALSE,
                                        !.inflight = IF s \in gone THEN None ELSE @]
  BY DEF applyDesired
<1>3. \A s \in Strategies : /\ st'[s].inflight \in {st[s].inflight, None}
                            /\ st'[s].proc = st[s].proc /\ st'[s].mounts = st[s].mounts
                            /\ st'[s].running = st[s].running
  BY <1>2, Records DEF State
<1> HIDE DEF gone
<1>4. \A w \in Workers : Running(w)' /\ ~worker'[w].cancelled =>
        /\ Running(w) /\ ~worker[w].cancelled /\ worker'[w].strat = worker[w].strat
        /\ worker'[w].spec = worker[w].spec /\ worker'[w].step = worker[w].step
  BY <1>1, CancelledFields DEF Running
<1>5. Counts' /\ Listed'
  <2>1. inventory # None
    BY NoneAssumption DEF Types, RecordOK
  <2>2. \A s \in Strategies : assigned[s] # None => assigned[s].mounts \subseteq inventory
    BY DEF Placed
  <2>3. Counts'
    BY <1>1 DEF DiskInv, Counts
  <2>4. CASE counted
    BY <1>1, <2>1, <2>2, <2>3, <2>4 DEF Listed
  <2>5. CASE ~counted
    BY <1>1, <2>2, <2>3, <2>5 DEF DiskInv, Counts, Listed
  <2> QED BY <2>4, <2>5, <2>3
<1>6. DeploysOnDisk' /\ RunsOnDisk'
  BY <1>1, <1>3, <1>4 DEF DiskInv, DeploysOnDisk, RunsOnDisk
<1>7. Emptied'
  BY <1>1, <1>3 DEF DiskInv, Emptied
<1>8. HasSlot'
  BY <1>1, <1>3, <1>4 DEF DiskInv, HasSlot, Of, About
<1>9. Forgotten'
  BY <1>1 DEF Forgotten
<1> QED BY <1>5, <1>6, <1>7, <1>8, <1>9 DEF DiskInv

LEMMA handleExitDisk ==
  ASSUME Types, DiskInv, NEW p \in Pids, handleExit(p)
  PROVE  DiskInv'
<1> DEFINE s == proc[p].strat
<1>1. /\ UNCHANGED <<inventory, counted, desired, desiredVolumes, worker, reaping, dir, slot>>
      /\ s \in Strategies /\ st \in [Strategies -> State] /\ pc' = "volumes"
  BY Records DEF handleExit, human, record, Types, LoopOK, Process
<1>2. \/ UNCHANGED st
      \/ st' = [st EXCEPT ![s] = NewState]
      \/ st' = [st EXCEPT ![s] = [@ EXCEPT !.proc = None, !.stopping = FALSE]]
  BY DEF handleExit
<1>3. \A rec \in State : LET r == [rec EXCEPT !.proc = None, !.stopping = FALSE]
                         IN r.proc = None /\ r.inflight = rec.inflight /\ r.mounts = rec.mounts
                            /\ r.running = rec.running
  BY DEF State
<1> HIDE DEF s
<1>4. \A o \in Strategies :
           /\ st'[o].running # None => st[o].running # None
           /\ st'[o].proc # None => st[o].proc # None /\ st'[o].mounts = st[o].mounts
           /\ st'[o].inflight # None => st[o].inflight # None
  <2>1. CASE UNCHANGED st
    BY <2>1
  <2>2. CASE st' = [st EXCEPT ![s] = NewState]
    BY <1>1, <2>2, NewStateFields
  <2>3. CASE st' = [st EXCEPT ![s] = [@ EXCEPT !.proc = None, !.stopping = FALSE]]
    <3>1. \A o \in Strategies : st'[o] = IF o = s THEN [st[o] EXCEPT !.proc = None, !.stopping = FALSE] ELSE st[o]
      BY <1>1, <2>3
    <3>2. st'[s].proc = None /\ st'[s].inflight = st[s].inflight /\ st'[s].running = st[s].running
      BY <1>1, <1>3, <3>1
    <3> QED BY <3>1, <3>2
  <2> QED BY <1>2, <2>1, <2>2, <2>3
<1>5. Counts' /\ Listed' /\ DeploysOnDisk' /\ RunsOnDisk' /\ Emptied' /\ HasSlot'
  BY <1>1, <1>4, QuieterDisk DEF Running, About
<1>6. Forgotten'
  BY <1>1 DEF Forgotten
<1> QED BY <1>5, <1>6 DEF DiskInv

LEMMA markHealthyDisk ==
  ASSUME Types, DiskInv, NEW s \in Strategies, markHealthy(s)
  PROVE  DiskInv'
<1>1. /\ UNCHANGED <<inventory, counted, desired, desiredVolumes, worker, reaping, dir, slot>>
      /\ st \in [Strategies -> State] /\ pc' = "volumes" /\ st' = [st EXCEPT ![s].inflight = None]
  BY DEF markHealthy, human, record, world, Types, LoopOK
<1>2. \A o \in Strategies : /\ st'[o].inflight \in {st[o].inflight, None} /\ st'[o].mounts = st[o].mounts
                            /\ st'[o].running = st[o].running /\ st'[o].proc = st[o].proc
  BY <1>1 DEF State
<1>3. Counts' /\ Listed' /\ DeploysOnDisk' /\ RunsOnDisk' /\ Emptied' /\ HasSlot'
  BY <1>1, <1>2, QuieterDisk DEF Running, About
<1>4. Forgotten'
  BY <1>1 DEF Forgotten
<1> QED BY <1>3, <1>4 DEF DiskInv

LEMMA applyWorkerEventDisk ==
  ASSUME Types, DeployInv, MountInv, DiskInv, NEW w \in Workers, applyWorkerEvent(w)
  PROVE  DiskInv'
<1> DEFINE s == worker[w].strat
<1>1. /\ UNCHANGED <<inventory, counted, desired, desiredVolumes, reaping, dir, slot>>
      /\ Running(w) /\ s \in Strategies
      /\ \A o \in Strategies \ {s} : st'[o] = st[o]
      /\ st'[s].mounts = st[s].mounts
      /\ \/ UNCHANGED st
         \/ /\ ~worker[w].cancelled /\ st[s].inflight # None /\ st[s].inflight.by = w
            /\ worker[w].step = "up"
         \/ st'[s].inflight = None /\ st'[s].running = st[s].running /\ st'[s].proc = st[s].proc
  BY EventShapes
<1>2. \A v \in Workers : Running(v)' => Running(v) /\ v # w /\ worker'[v] = worker[v]
  BY EventShapes DEF Running, Types, WorldOK
<1>3. pc' = "volumes"
  BY DEF applyWorkerEvent
<1>4. Forgotten'
  BY <1>3 DEF Forgotten
<1> HIDE DEF s
<1>5. CASE \A o \in Strategies : /\ st'[o].running = st[o].running /\ st'[o].proc = st[o].proc
                                 /\ st'[o].inflight # None => st[o].inflight # None
  <2>1. \A o \in Strategies : st'[o].mounts = st[o].mounts
    BY <1>1
  <2>2. Counts' /\ Listed' /\ DeploysOnDisk' /\ RunsOnDisk' /\ Emptied' /\ HasSlot'
    BY <1>1, <1>2, <1>5, <2>1, QuieterDisk DEF Running, About
  <2> QED BY <1>4, <2>2 DEF DiskInv
<1>6. CASE ~worker[w].cancelled /\ st[s].inflight # None /\ st[s].inflight.by = w /\ worker[w].step = "up"
  <2>1. Counts' /\ Listed'
    BY <1>1 DEF DiskInv, Counts, Listed
  <2>2. DeploysOnDisk'
    BY <1>1, <1>2 DEF DiskInv, DeploysOnDisk
  <2>3. st[s].mounts \subseteq dir
    BY <1>1, <1>6 DEF DiskInv, DeploysOnDisk, MountInv, Brings
  <2>4. RunsOnDisk'
    BY <1>1, <2>3 DEF DiskInv, RunsOnDisk
  <2>5. Emptied'
    BY <1>1, <1>6 DEF DiskInv, Emptied
  <2>6. s \in slot
    <3>1. About(w) /\ Of(w, s)
      BY <1>1, <1>6 DEF About, Of, s
    <3> QED BY <1>1, <3>1 DEF DiskInv, HasSlot
  <2>7. HasSlot'
    <3>1. \A o \in Strategies, v \in Workers : Of(v, o)' /\ About(v)' => Of(v, o) /\ About(v)
      BY <1>2 DEF Of, About
    <3> QED BY <1>1, <2>6, <3>1 DEF DiskInv, HasSlot
  <2> QED BY <1>4, <2>1, <2>2, <2>4, <2>5, <2>7 DEF DiskInv
<1> QED BY <1>1, <1>5, <1>6

\* The directories that go are those of volumes that left the list, and that no
\* process stands on.
LEMMA reconcileVolumesDisk ==
  ASSUME Types, DeployInv, MountInv, DiskInv, reconcileVolumes
  PROVE  DiskInv'
<1>1. /\ UNCHANGED <<inventory, counted, desired, desiredVolumes, known, st, worker, proc, reaping, slot>>
      /\ pc' = "pass" /\ todo' = Strategies
      /\ dir' = IF desiredVolumes = None THEN dir ELSE (dir \ Removable) \cup desiredVolumes
  BY DEF reconcileVolumes, human, record
<1>2. Counts' /\ Listed' /\ Emptied' /\ HasSlot'
  BY <1>1 DEF DiskInv, Counts, Listed, Emptied, HasSlot, Of, About, Running
<1>3. Forgotten'
  BY <1>1 DEF Forgotten
<1>4. DeploysOnDisk'
  <2> SUFFICES ASSUME NEW w \in Workers, Running(w), ~worker[w].cancelled
               PROVE  worker[w].spec.mounts \subseteq dir'
    BY <1>1 DEF DeploysOnDisk, Running
  <2>1. worker[w].spec.mounts \subseteq dir
    BY DEF DiskInv, DeploysOnDisk
  <2>2. worker[w].strat \in Strategies /\ st[worker[w].strat].inflight # None
    BY Records DEF DeployInv, Answered
  <2>3. desired[worker[w].strat] # None /\ worker[w].spec.mounts = desired[worker[w].strat].mounts
    BY <2>2, DeploysOn DEF Of
  <2>4. desiredVolumes # None => worker[w].spec.mounts \subseteq desiredVolumes
    BY <2>2, <2>3 DEF DiskInv, Listed
  <2> QED BY <1>1, <2>1, <2>4
<1>5. RunsOnDisk'
  <2> SUFFICES ASSUME NEW s \in Strategies, st[s].proc # None PROVE st[s].mounts \subseteq dir'
    BY <1>1 DEF RunsOnDisk
  <2>1. st[s].mounts \subseteq dir
    BY DEF DiskInv, RunsOnDisk
  <2>2. s \in known
    BY NewStateFields DEF DeployInv, UnknownIsNew
  <2>3. st[s].mounts = mountNames(s)
    BY RunsOn
  <2>4. st[s].mounts \subseteq runningVolumeMounts
    BY <2>2, <2>3 DEF runningVolumeMounts
  <2> QED BY <1>1, <2>1, <2>4 DEF Removable
<1> QED BY <1>2, <1>3, <1>4, <1>5 DEF DiskInv

LEMMA reconcileDisk ==
  ASSUME Types, DeployInv, MountInv, DiskInv, NEW s \in Strategies, reconcile(s)
  PROVE  DiskInv'
<1>1. /\ UNCHANGED <<desired, inventory, counted, desiredVolumes, reaping, dir, slot>>
      /\ Held(s) /\ desired[s] # None => Keeps(s)
  BY PassShapes
<1>2. \A o \in Strategies : st[o].proc # None /\ desired[o] # None => desired[o].mounts = st[o].mounts
  BY RunsOn
<1>3. Counts' /\ Listed'
  BY <1>1 DEF DiskInv, Counts, Listed
<1>4. Forgotten'
  <2>1. /\ pc = "pass" /\ todo' = todo \ {s} /\ pc' = IF todo = {s} THEN "select" ELSE "pass"
    BY DEF reconcile
  <2>2. /\ \A o \in Strategies \ {s} : st'[o] = st[o] /\ (o \in known' <=> o \in known)
        /\ desired[s] = None /\ s \in known' => st'[s].proc # None /\ st'[s].stopping
    <3>1. ASSUME NEW p \in SparePids, Restarts(s, p)
          PROVE  /\ \A o \in Strategies \ {s} : st'[o] = st[o] /\ (o \in known' <=> o \in known)
                 /\ desired[s] # None
      BY <3>1 DEF Restarts, Others, Wants
    <3>2. ASSUME NEW w \in SpareWorkers, Redeploys(s, w)
          PROVE  /\ \A o \in Strategies \ {s} : st'[o] = st[o] /\ (o \in known' <=> o \in known)
                 /\ desired[s] # None
      BY <3>2 DEF Redeploys, Others, Wants
    <3>3. CASE Keeps(s) \/ Halts(s)
      BY <3>3 DEF Keeps, Halts, Others
    <3>4. CASE Retires(s)
      BY <3>4 DEF Retires, Others
    <3>5. CASE Skips(s)
      BY <3>5 DEF Skips
    <3> QED BY <3>1, <3>2, <3>3, <3>4, <3>5, PassShapes
  <2>3. \A o \in Strategies \ {s} : pc' = "select" \/ o \notin todo' => o \notin todo
    BY <2>1
  <2> SUFFICES ASSUME NEW o \in Strategies, desired[o] = None, o \in known',
                      pc' = "select" \/ (pc' = "pass" /\ o \notin todo')
               PROVE  st'[o].proc # None /\ st'[o].stopping
    BY <1>1 DEF Forgotten
  <2>4. CASE o = s
    BY <2>2, <2>4
  <2>5. CASE o # s
    BY <2>1, <2>2, <2>3, <2>5 DEF DiskInv, Forgotten
  <2> QED BY <2>4, <2>5
<1>5. CASE Keeps(s) \/ Halts(s) \/ Retires(s) \/ Skips(s)
  <2>1. /\ \A o \in Strategies \ {s} : st'[o] = st[o]
        /\ st'[s].running # None => st[s].running # None
        /\ st'[s].proc # None => st[s].proc # None /\ st'[s].mounts = st[s].mounts
        /\ st'[s].inflight # None => st[s].inflight # None
    BY <1>2, <1>5, NewStateFields DEF Keeps, Halts, Retires, Skips, Others
  <2>2. worker' = worker \/ worker' = Cancelled({s})
    BY <1>5 DEF Keeps, Halts, Retires, Skips
  <2>3. \A w \in Workers : Running(w)' /\ ~worker'[w].cancelled =>
          /\ Running(w) /\ ~worker[w].cancelled /\ worker'[w].strat = worker[w].strat
          /\ worker'[w].spec = worker[w].spec /\ worker'[w].step = worker[w].step
    BY <2>2, CancelledFields DEF Running
  <2>4. \A w \in Workers : About(w)' => About(w)
    BY <2>3 DEF About
  <2>5. Counts' /\ Listed' /\ DeploysOnDisk' /\ RunsOnDisk' /\ Emptied' /\ HasSlot'
    BY <1>1, <2>1, <2>3, <2>4, QuieterDisk
  <2> QED BY <1>4, <2>5 DEF DiskInv
<1>6. ASSUME NEW p \in SparePids, Restarts(s, p) PROVE DiskInv'
  <2>1. /\ UNCHANGED worker /\ \A o \in Strategies \ {s} : st'[o] = st[o]
        /\ st'[s].running = st[s].running /\ st'[s].inflight = st[s].inflight
        /\ st'[s].mounts = desired[s].mounts /\ desired[s].mounts \subseteq dir
        /\ Wants(desired[s]) /\ versionMatches(desired[s], s) /\ ~Held(s)
    BY <1>6 DEF Restarts, Others, volumePresent
  <2>2. DeploysOnDisk' /\ RunsOnDisk' /\ Emptied'
    BY <1>1, <2>1 DEF DiskInv, DeploysOnDisk, RunsOnDisk, Emptied, Held, Running
  <2>3. s \in slot
    <3>1. st[s].running # None
      BY <2>1, DesiredSpec, NoneAssumption DEF versionMatches, Wants, Specs
    <3> QED BY <3>1 DEF DiskInv, HasSlot
  <2>4. HasSlot'
    BY <1>1, <2>1, <2>3 DEF DiskInv, HasSlot, Of, About, Running
  <2> QED BY <1>3, <1>4, <2>2, <2>4 DEF DiskInv
<1>7. ASSUME NEW w \in SpareWorkers, Redeploys(s, w) PROVE DiskInv'
  <2> DEFINE task == [step |-> "fetch", strat |-> s, spec |-> desired[s],
                      old |-> st[s].proc, proc |-> None, cancelled |-> FALSE]
  <2>1. /\ \A v \in Workers : worker'[v] = IF v = w THEN task ELSE worker[v]
        /\ \A o \in Strategies \ {s} : st'[o] = st[o]
        /\ st'[s].proc = st[s].proc /\ st'[s].running = st[s].running /\ st'[s].mounts = desired[s].mounts
        /\ desired[s] # None /\ desired[s].mounts \subseteq dir /\ ~Held(s)
    BY <1>7, SpareNames DEF Redeploys, Others, Types, WorldOK, Wants, volumePresent
  <2>2. task.step = "fetch" /\ task.spec = desired[s]
    OBVIOUS
  <2> HIDE DEF task
  <2>3. DeploysOnDisk'
    BY <1>1, <2>1, <2>2 DEF DiskInv, DeploysOnDisk, Running
  <2>4. RunsOnDisk' /\ Emptied'
    BY <1>1, <2>1 DEF DiskInv, RunsOnDisk, Emptied, Held
  <2>5. \A v \in Workers, o \in Strategies : Of(v, o)' /\ About(v)' => Of(v, o) /\ About(v)
    BY <2>1, <2>2 DEF Of, About, Running
  <2>6. HasSlot'
    BY <1>1, <2>1, <2>5 DEF DiskInv, HasSlot
  <2> QED BY <1>3, <1>4, <2>3, <2>4, <2>6 DEF DiskInv
<1> QED BY <1>5, <1>6, <1>7, PassShapes

LEMMA runDeployDisk ==
  ASSUME Types, DiskInv, NEW w \in Workers, runDeploy(w)
  PROVE  DiskInv'
<1>1. /\ Running(w) /\ \A v \in Workers \ {w} : worker'[v] = worker[v]
      /\ UNCHANGED <<inventory, counted, desired, desiredVolumes, known, st, pc, todo, reaping, dir>>
      /\ slot \subseteq slot'
      /\ \/ worker'[w] = Idle
         \/ /\ worker'[w].strat = worker[w].strat /\ worker'[w].spec = worker[w].spec
            /\ worker'[w].cancelled = worker[w].cancelled
            /\ \/ worker'[w].step \in {"drain", "switch", "failed"}
               \/ worker'[w].step = "start" /\ worker[w].strat \in slot
               \/ worker[w].step = "start" /\ worker'[w].step = "up"
  BY WorkerShapes DEF human, record, loop
<1>2. Counts' /\ Listed' /\ RunsOnDisk' /\ Emptied' /\ Forgotten'
  BY <1>1 DEF DiskInv, Counts, Listed, RunsOnDisk, Emptied, Forgotten
<1>3. DeploysOnDisk'
  BY <1>1 DEF DiskInv, DeploysOnDisk, Running
<1>4. HasSlot'
  <2>1. \A v \in Workers, s \in Strategies : Of(v, s)' /\ About(v)' => Of(v, s) /\ (About(v) \/ s \in slot)
    BY <1>1 DEF Of, About, Running
  <2> QED BY <1>1, <2>1 DEF DiskInv, HasSlot
<1> QED BY <1>2, <1>3, <1>4 DEF DiskInv

\* A slot is deleted where nothing has run, runs, or is about to.
LEMMA ReapsDisk ==
  ASSUME Types, DeployInv, DiskInv, NEW s \in Strategies,
         handleReapOp(s) \/ applyReapDone(s) \/ runReap(s)
  PROVE  DiskInv'
<1>1. /\ UNCHANGED <<inventory, counted, desired, desiredVolumes, known, st, worker, dir>>
      /\ reaping \in [Strategies -> {"no", "run", "done"}]
  BY DEF handleReapOp, applyReapDone, runReap, human, record, loop, Types, WorldOK
<1>2. Counts' /\ Listed' /\ DeploysOnDisk' /\ RunsOnDisk'
  BY <1>1 DEF DiskInv, Counts, Listed, DeploysOnDisk, RunsOnDisk, Running
<1>3. Forgotten'
  BY <1>1 DEF handleReapOp, applyReapDone, runReap, loop, DiskInv, Forgotten
<1>4. CASE handleReapOp(s)
  <2>1. /\ reaping' = [reaping EXCEPT ![s] = "run"] /\ UNCHANGED slot /\ pc = "select" /\ ~reapReject(s)
    BY <1>4 DEF handleReapOp
  <2>2. s \notin known
    BY <2>1 DEF reapReject, DiskInv, Forgotten
  <2>3. st[s].proc = None /\ st[s].inflight = None /\ st[s].running = None
    BY <2>2, NewStateFields DEF DeployInv, UnknownIsNew
  <2>4. Emptied'
    BY <1>1, <2>1, <2>3 DEF DiskInv, Emptied
  <2>5. HasSlot'
    BY <1>1, <2>1 DEF DiskInv, HasSlot, Of, About, Running
  <2> QED BY <1>2, <1>3, <2>4, <2>5 DEF DiskInv
<1>5. CASE applyReapDone(s)
  <2>1. reaping' = [reaping EXCEPT ![s] = "no"] /\ UNCHANGED slot
    BY <1>5 DEF applyReapDone
  <2>2. Emptied' /\ HasSlot'
    BY <1>1, <2>1 DEF DiskInv, Emptied, HasSlot, Of, About, Running
  <2> QED BY <1>2, <1>3, <2>2 DEF DiskInv
<1>6. CASE runReap(s)
  <2>1. reaping[s] = "run" /\ reaping' = [reaping EXCEPT ![s] = "done"] /\ slot \ {s} \subseteq slot'
    BY <1>6 DEF runReap
  <2>2. st[s].proc = None /\ st[s].inflight = None /\ st[s].running = None
    BY <2>1 DEF DiskInv, Emptied
  <2>3. \A w \in Workers : Of(w, s) => ~About(w)
    BY <2>2 DEF Of, About, DeployInv, Answered
  <2>4. Emptied'
    BY <1>1, <2>1, <2>2 DEF DiskInv, Emptied
  <2>5. HasSlot'
    BY <1>1, <2>1, <2>2, <2>3 DEF DiskInv, HasSlot, Of, About, Running
  <2> QED BY <1>2, <1>3, <2>4, <2>5 DEF DiskInv
<1> QED BY <1>4, <1>5, <1>6

LEMMA DiskInit == Init => DiskInv
<1> SUFFICES ASSUME Init PROVE DiskInv
  OBVIOUS
<1>1. \A w \in Workers : ~Running(w)
  BY DEF Init, Running
<1>2. \A s \in Strategies : st[s].proc = None /\ st[s].inflight = None /\ st[s].running = None
  <2>1. \A s \in Strategies : /\ StoredSpecs[s] = None => st[s] = NewState
                              /\ StoredSpecs[s] # None => st[s] = [NewState EXCEPT !.mounts = StoredSpecs[s].mounts]
    BY DEF Init
  <2>2. \A m : LET r == [NewState EXCEPT !.mounts = m]
               IN r.proc = None /\ r.inflight = None /\ r.running = None
    BY NewStateFields DEF State
  <2> QED BY <2>1, <2>2, NewStateFields
<1>3. Counts
  BY DEF Init, Counts
<1>4. Listed
  <2>1. StoredVolumes # None
    BY StoredAssumption, NoneAssumption
  <2> QED BY <2>1, StoredAssumption DEF Init, Listed
<1>5. Forgotten
  BY DEF Init, Forgotten
<1>6. Emptied
  BY DEF Init, Emptied
<1> QED BY <1>1, <1>2, <1>3, <1>4, <1>5, <1>6 DEF DiskInv, DeploysOnDisk, RunsOnDisk, HasSlot, Of

LEMMA DiskNext ==
  ASSUME Types, Placed, DeployInv, MountInv, DiskInv, [Next]_vars
  PROVE  DiskInv'
<1>1. CASE /\ UNCHANGED <<desired, desiredVolumes, known, st, pc, todo, worker, reaping, dir, slot>>
           /\ inventory' # {} => counted'
  BY <1>1
     DEF DiskInv, Counts, Listed, DeploysOnDisk, RunsOnDisk, Emptied, HasSlot, Forgotten, Of, About, Running
<1>2. ASSUME NEW c \in Callers, Ask(c) \/ Apply(c) \/ CreateVolume(c) \/ AskDeleteVolume(c) \/ DeleteVolume(c)
      PROVE  DiskInv'
  <2>1. UNCHANGED <<desired, desiredVolumes, known, st, pc, todo, worker, reaping, dir, slot>>
    BY <1>2 DEF Ask, Apply, CreateVolume, AskDeleteVolume, DeleteVolume, loop, world
  <2>2. inventory' # {} => counted'
    BY <1>2 DEF Ask, Apply, CreateVolume, AskDeleteVolume, DeleteVolume, record, DiskInv, Counts
  <2> QED BY <1>1, <2>1, <2>2
<1>3. CASE Event
  BY <1>3, applyDesiredDisk, handleExitDisk, applyWorkerEventDisk, markHealthyDisk, ReapsDisk DEF Event
<1>4. CASE Pass
  BY <1>4, reconcileVolumesDisk, reconcileDisk DEF Pass
<1>5. ASSUME NEW p \in Pids, Drain(p) \/ Exit(p) PROVE DiskInv'
  <2>1. UNCHANGED <<inventory, counted, desired, desiredVolumes, known, st, pc, todo, worker, reaping, dir, slot>>
    BY <1>5, EndShapes DEF loop
  <2> QED BY <1>1, <2>1 DEF DiskInv, Counts
<1>6. CASE Goroutine
  BY <1>5, <1>6, runDeployDisk, ReapsDisk DEF Goroutine
<1>7. ASSUME NEW s \in Strategies, handleReapOp(s) PROVE DiskInv'
  BY <1>7, ReapsDisk
<1>8. CASE UNCHANGED vars
  BY <1>1, <1>8 DEF vars, human, record, loop, world, DiskInv, Counts
<1> QED BY <1>2, <1>3, <1>4, <1>5, <1>6, <1>7, <1>8 DEF Next

LEMMA DiskStands ==
  ASSUME Types, DeployInv, MountInv, DiskInv
  PROVE  StandsOnDisk
<1> SUFFICES ASSUME NEW p \in Pids, Owned(p) PROVE proc[p].mounts \subseteq dir /\ proc[p].strat \in slot
  BY DEF StandsOnDisk
<1>1. p # None /\ proc[p] # None /\ proc[p] \in Process
  BY NoneAssumption, Records DEF Owned, Alive
<1>2. CASE st[proc[p].strat].proc = p
  <2>1. proc[p].strat \in Strategies /\ proc[p].mounts = st[proc[p].strat].mounts
    BY <1>1, <1>2, RunsOn DEF Process
  <2> QED BY <1>1, <1>2, <2>1 DEF DiskInv, RunsOnDisk, HasSlot
<1>3. ASSUME NEW w \in Workers, Running(w), worker[w].proc = p, ~worker[w].cancelled
      PROVE  proc[p].mounts \subseteq dir /\ proc[p].strat \in slot
  <2>1. /\ worker[w].step = "up" /\ proc[p].strat = worker[w].strat /\ worker[w].strat \in Strategies
        /\ proc[p].mounts = worker[w].spec.mounts
    BY <1>1, <1>3, Records DEF DeployInv, Reports
  <2>2. About(w) /\ Of(w, proc[p].strat)
    BY <1>3, <2>1 DEF About, Of
  <2> QED BY <1>3, <2>1, <2>2 DEF DiskInv, DeploysOnDisk, HasSlot
<1> QED BY <1>2, <1>3 DEF Owned

\* No process the agent answers for loses the directory of a volume it mounts or
\* its slot, where verbs are served one at a time and operators wait for a
\* strategy to be still before they move its volumes (reconcileVolumes spares
\* runningVolumeMounts, reapReject what runs, Hold what is under deletion).
THEOREM ProcessesStandOnDisk == ASSUME OneCaller, Haste = {} PROVE Spec => []StandsOnDisk
<1> DEFINE Inv == PlacedInv /\ DeployInv /\ MountInv /\ DiskInv
<1>1. Init => Inv
  BY PlacedInit, DeployInit, MountInit, DiskInit
<1>2. Inv /\ [Next]_vars => Inv'
  BY PlacedNext, DeployNext, MountNext, DiskNext DEF PlacedInv
<1>3. Inv => StandsOnDisk
  BY DiskStands DEF PlacedInv
<1> QED BY <1>1, <1>2, <1>3, PTL DEF Spec

=============================================================================
