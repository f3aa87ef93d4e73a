---------------------------- MODULE AgentProofs ----------------------------
(* Type correctness of Agent, and its invariants that hold for every value *)
(* of the constants: histories, fault kinds, bounds.                       *)
EXTENDS Agent, SequenceTheorems, TLAPS

----------------------------------------------------------------------------
(* Strengthening *)

\* Nothing names a release, and nothing starts one, before `current` first
\* points at one: what makes a started process have a binary.
SwitchedFirst ==
  current = None =>
    /\ st.running = None /\ st.prev = None
    /\ file # None => file.running = None /\ file.prev = None
    /\ \A i \in Ctx : deploys[i].pc \notin {"start", "report"}
    /\ \A k \in 1..Len(workerCh) : workerCh[k].phase # "HEALTH_CHECKING"

\* A deploy is in flight only for a strategy the agent still wants.
InflightWanted == st.inflight # None => desired # None

\* The strategy record of a process exists, and the process has a watcher.
ProcWatched == st.proc # 0 => known /\ st.proc \in watched

Inv == TypeOK /\ SwitchedFirst /\ InflightWanted /\ ProcWatched

----------------------------------------------------------------------------
(* Sequences *)

\* Overwriting an element, in or out of range, keeps a sequence one.
LEMMA SeqExcept ==
  ASSUME NEW S, NEW q \in Seq(S), NEW i, NEW e, i \in 1..Len(q) => e \in S
  PROVE  /\ [q EXCEPT ![i] = e] \in Seq(S)
         /\ Len([q EXCEPT ![i] = e]) = Len(q)
<1>1. CASE i \in 1..Len(q)
  BY <1>1, ExceptSeq
<1>2. CASE i \notin 1..Len(q)
  <2>1. [q EXCEPT ![i] = e] = q
    BY <1>2
  <2> QED BY <2>1
<1> QED BY <1>1, <1>2

\* Cancelling a context changes no deploy's type, position or progress.
LEMMA CancelType ==
  ASSUME TypeOK, NEW s \in StrategyState
  PROVE  /\ WithCancel(s) \in Seq(Deploy)
         /\ Len(WithCancel(s)) = Len(deploys)
         /\ \A i \in Ctx : WithCancel(s)[i].pc = deploys[i].pc
<1>1. CASE s.inflight = None
  BY <1>1 DEF WithCancel, TypeOK
<1>2. CASE s.inflight # None
  <2> DEFINE c == s.inflight.ctx
             l == deploys[c].late \/ Committed(c)
             e == [deploys[c] EXCEPT !.cancelled = TRUE, !.late = l]
  <2>1. WithCancel(s) = [deploys EXCEPT ![c] = e]
    BY <1>2 DEF WithCancel
  <2>2. c \in 1..Len(deploys) => e \in Deploy /\ e.pc = deploys[c].pc
    <3>1. c \in 1..Len(deploys) => deploys[c] \in Deploy
      BY DEF TypeOK
    <3> QED BY <3>1 DEF Deploy
  <2> HIDE DEF c, e
  <2>3. [deploys EXCEPT ![c] = e] \in Seq(Deploy) /\ Len([deploys EXCEPT ![c] = e]) = Len(deploys)
    BY <2>2, SeqExcept DEF TypeOK
  <2>4. \A i \in Ctx : [deploys EXCEPT ![c] = e][i] = IF i = c THEN e ELSE deploys[i]
    BY DEF Ctx, TypeOK
  <2> QED BY <2>1, <2>2, <2>3, <2>4 DEF Ctx
<1> QED BY <1>1, <1>2

\* Stopping a process leaves the list of processes and what they run.
LEMMA KilledType ==
  ASSUME TypeOK, NEW p \in Nat
  PROVE  /\ Killed(p) \in Seq(Process)
         /\ Len(Killed(p)) = Len(procs)
<1>1. CASE p = 0
  BY <1>1 DEF Killed, TypeOK
<1>2. CASE p # 0
  <2> DEFINE e == [procs[p] EXCEPT !.alive = FALSE]
  <2>1. Killed(p) = [procs EXCEPT ![p] = e]
    BY <1>2 DEF Killed
  <2>2. p \in 1..Len(procs) => e \in Process
    <3>1. p \in 1..Len(procs) => procs[p] \in Process
      BY DEF TypeOK
    <3> QED BY <3>1 DEF Process
  <2> HIDE DEF e
  <2>3. procs \in Seq(Process)
    BY DEF TypeOK
  <2>4. [procs EXCEPT ![p] = e] \in Seq(Process) /\ Len([procs EXCEPT ![p] = e]) = Len(procs)
    BY <2>2, <2>3, SeqExcept
  <2> QED BY <2>1, <2>4
<1> QED BY <1>1, <1>2

----------------------------------------------------------------------------
(* The records the handlers build *)

\* newStrategyState is a strategy record without artifact, process or deploy.
LEMMA NewStateType == NewState \in StrategyState
BY DEF NewState, StrategyState, Phases, MaybeArtifact, MaybeConfig

\* markHealthy returns a strategy record and touches neither process nor release.
LEMMA MarkedHealthyType ==
  ASSUME TypeOK, NEW s \in StrategyState
  PROVE  /\ MarkedHealthy(s) \in StrategyState
         /\ MarkedHealthy(s).proc = s.proc /\ MarkedHealthy(s).inflight = None
         /\ MarkedHealthy(s).running = s.running /\ MarkedHealthy(s).prev = s.prev
BY DEF MarkedHealthy, StrategyState, Phases, TypeOK

\* installProcess returns a strategy record that holds the process and its mode.
LEMMA InstallType ==
  ASSUME NEW s \in StrategyState, NEW p \in Nat, NEW c \in BOOLEAN
  PROVE  /\ Install(s, p, c) \in StrategyState
         /\ Install(s, p, c).proc = p /\ Install(s, p, c).inflight = s.inflight
         /\ Install(s, p, c).running = s.running /\ Install(s, p, c).prev = s.prev
BY DEF Install, StrategyState

\* What a rollback on record s hands back has the types of the state.
LEMMA RollbackType ==
  ASSUME Inv, NEW s \in StrategyState, NEW w \in SUBSET Nat, desired # None,
         s.prev # None => current # None, s.running # None => current # None,
         beginRollback(s, w)
  PROVE  /\ deploys' \in Seq(Deploy) /\ Len(deploys') = Len(deploys)
         /\ \A i \in Ctx : deploys'[i].pc = deploys[i].pc
         /\ st' \in StrategyState /\ procs' \in Seq(Process)
         /\ watched' \in SUBSET Nat /\ current' \in MaybeArtifact /\ faults' \in Nat
         /\ current' = None => current = None /\ st'.running = None /\ st'.prev = None
         /\ st'.inflight = None
         /\ st'.proc # 0 => st'.proc \in watched'
<1> DEFINE bad    == IF s.inflight # None THEN s.inflight.art.version ELSE desired.art.version
           bare   == [s EXCEPT !.inflight = None, !.lastBad = bad, !.proc = 0]
           back   == [bare EXCEPT !.running = s.prev, !.runCfg = s.prevCfg]
           failed(r) == [r EXCEPT !.phase = "FAILED", !.failedAtGen = generation]
           pid    == Len(procs) + 1
           rolled == [Install(back, pid, desired.capture)
                      EXCEPT !.phase = "ROLLED_BACK", !.crashes = 0, !.blocked = FALSE]
<1>1. bad \in Versions
  BY DEF Inv, TypeOK, StrategyState, Inflight, Specs, Versions
<1>2. bare \in StrategyState /\ bare.inflight = None /\ bare.proc = 0
      /\ bare.running = s.running /\ bare.prev = s.prev
  <2> HIDE DEF bad
  <2> QED BY <1>1 DEF StrategyState
<1>3. back \in StrategyState /\ back.inflight = None /\ back.proc = 0 /\ back.prev = s.prev
  <2> HIDE DEF bare
  <2> QED BY <1>2 DEF StrategyState
<1>4. \A r \in StrategyState :
        /\ failed(r) \in StrategyState
        /\ failed(r).proc = r.proc /\ failed(r).inflight = r.inflight
        /\ failed(r).running = r.running /\ failed(r).prev = r.prev
  BY DEF Inv, TypeOK, StrategyState, Phases
<1>5. pid \in Nat \ {0}
  BY DEF Inv, TypeOK
<1>6. rolled \in StrategyState /\ rolled.proc = pid /\ rolled.inflight = None
  <2>1. desired.capture \in BOOLEAN
    BY DEF Inv, TypeOK, Specs
  <2> DEFINE inst == Install(back, pid, desired.capture)
  <2>2. inst \in StrategyState /\ inst.proc = pid /\ inst.inflight = None
    <3> HIDE DEF back, pid
    <3> QED BY <1>3, <1>5, <2>1, InstallType
  <2> HIDE DEF inst
  <2>3. [inst EXCEPT !.phase = "ROLLED_BACK", !.crashes = 0, !.blocked = FALSE] \in StrategyState
    BY <2>2 DEF StrategyState, Phases
  <2>4. /\ [inst EXCEPT !.phase = "ROLLED_BACK", !.crashes = 0, !.blocked = FALSE].proc = inst.proc
        /\ [inst EXCEPT !.phase = "ROLLED_BACK", !.crashes = 0, !.blocked = FALSE].inflight = inst.inflight
    BY <2>2 DEF StrategyState
  <2> QED BY <2>2, <2>3, <2>4 DEF inst
<1>7. deploys' = WithCancel(s)
  BY DEF beginRollback
<1>8. Killed(s.proc) \in Seq(Process) /\ Len(Killed(s.proc)) = Len(procs)
  BY KilledType DEF Inv, StrategyState
<1>9. \A k \in FaultKinds : Fault(k) => faults' \in Nat
  BY DEF Fault, Inv, TypeOK
<1>10. /\ deploys' \in Seq(Deploy) /\ Len(deploys') = Len(deploys)
       /\ \A i \in Ctx : deploys'[i].pc = deploys[i].pc
  BY <1>7, CancelType DEF Inv
<1> HIDE DEF bad, bare, back, failed, pid, rolled
<1>11. CASE s.prev = None /\ st' = failed(bare) /\ procs' = Killed(s.proc) /\ watched' = w
            /\ UNCHANGED <<current, faults>>
  BY <1>11, <1>2, <1>4, <1>8, <1>10 DEF Inv, TypeOK
<1>12. CASE s.prev # None /\ Fault("switch") /\ st' = failed(bare)
            /\ procs' = Killed(s.proc) /\ watched' = w /\ UNCHANGED current
  BY <1>12, <1>2, <1>4, <1>8, <1>9, <1>10 DEF Inv, TypeOK, FaultKinds
<1>13. CASE s.prev # None /\ (Fault("build") \/ Fault("start")) /\ current' = s.prev
            /\ st' = failed(back) /\ procs' = Killed(s.proc) /\ watched' = w
  <2>1. s.prev \in MaybeArtifact
    BY DEF StrategyState
  <2> QED BY <1>13, <1>3, <1>4, <1>8, <1>9, <1>10, <2>1 DEF FaultKinds
<1>14. CASE /\ s.prev # None /\ current' = s.prev
            /\ procs' = Append(Killed(s.proc), [alive |-> TRUE, art |-> s.prev, ctx |-> 0])
            /\ st' = rolled /\ watched' = w \cup {pid} /\ UNCHANGED faults
  <2>1. s.prev \in Artifacts
    BY <1>14 DEF StrategyState, MaybeArtifact
  <2>2. [alive |-> TRUE, art |-> s.prev, ctx |-> 0] \in Process
    BY <2>1 DEF Process
  <2>3. procs' \in Seq(Process)
    BY <1>8, <1>14, <2>2, AppendProperties
  <2>4. watched' \in SUBSET Nat /\ st'.proc \in watched'
    BY <1>5, <1>6, <1>14
  <2> QED BY <1>6, <1>10, <1>14, <2>1, <2>3, <2>4 DEF Inv, TypeOK, MaybeArtifact
<1> QED
  BY <1>11, <1>12, <1>13, <1>14 DEF beginRollback, bad, bare, back, failed, pid, rolled
\* Taking a deploy out of flight changes nothing else of the record.
LEMMA DroppedType ==
  ASSUME NEW s \in StrategyState
  PROVE  /\ [s EXCEPT !.inflight = None] \in StrategyState
         /\ [s EXCEPT !.inflight = None].inflight = None
         /\ [s EXCEPT !.inflight = None].proc = s.proc
         /\ [s EXCEPT !.inflight = None].running = s.running
         /\ [s EXCEPT !.inflight = None].prev = s.prev
BY DEF StrategyState

\* spawnDrain keeps process, release and deploy of the record it drains.
LEMMA DrainType ==
  ASSUME Inv, NEW s \in StrategyState, spawnDrain(s)
  PROVE  /\ st' \in StrategyState /\ draining' \in SUBSET Nat
         /\ st'.proc = s.proc /\ st'.inflight = s.inflight
         /\ st'.running = s.running /\ st'.prev = s.prev
<1>1. s.proc \in Nat
  BY DEF StrategyState
<1> QED BY <1>1 DEF spawnDrain, StrategyState, Phases, Inv, TypeOK

----------------------------------------------------------------------------
(* The control plane and the snapshot *)

\* A write of the assignment touches the control plane alone.
LEMMA PublishStep ==
  ASSUME Inv, Publish
  PROVE  Inv'
<1>1. cpSpec' \in Specs \cup {None} /\ cpGen' \in Nat
  <2>1. cpGen + 1 \in 1..Len(History)
    BY AgentAssumption DEF Publish, MaxGen, Inv, TypeOK
  <2>2. History[cpGen + 1] \subseteq Specs \cup {None}
    BY <2>1, AgentAssumption
  <2> QED BY <2>2 DEF Publish, Inv, TypeOK
<1>2. TypeOK'
  BY <1>1 DEF Publish, envVars, Inv, TypeOK
<1> QED BY <1>2 DEF Publish, envVars, Inv, SwitchedFirst, InflightWanted, ProcWatched, Ctx

\* The snapshot withdraws the deploy of a strategy it no longer has.
LEMMA ApplyDesiredStep ==
  ASSUME Inv, applyDesired
  PROVE  Inv'
<1>1. /\ deploys' \in Seq(Deploy) /\ Len(deploys') = Len(deploys)
      /\ \A i \in Ctx : deploys'[i].pc = deploys[i].pc
  BY CancelType DEF applyDesired, Inv, TypeOK
<1>2. /\ st' \in StrategyState /\ st'.proc = st.proc
      /\ st'.running = st.running /\ st'.prev = st.prev
  BY DroppedType DEF applyDesired, Inv, TypeOK
<1>3. st'.inflight # None => desired' # None
  BY DroppedType DEF applyDesired, Withdraws, Inv, TypeOK
<1>4. TypeOK'
  BY <1>1, <1>2 DEF applyDesired, cpVars, envVars, Inv, TypeOK
<1>5. SwitchedFirst'
  BY <1>1, <1>2 DEF applyDesired, envVars, Inv, SwitchedFirst, Ctx
<1> QED BY <1>2, <1>3, <1>4, <1>5 DEF applyDesired, envVars, Inv, InflightWanted, ProcWatched

----------------------------------------------------------------------------
(* The deploy worker *)

\* One deploy's record is in the type of deploys.
LEMMA DeployType ==
  ASSUME Inv, NEW i \in Ctx
  PROVE  deploys[i] \in Deploy /\ i \in Nat
BY DEF Inv, TypeOK, Ctx

\* What every worker step leaves alone, and the type of what it moves.
LEMMA WorkerAtType ==
  ASSUME Inv, NEW i \in Ctx, NEW pc, NEW next \in WorkerPc, WorkerAt(i, pc, next)
  PROVE  /\ deploys' \in Seq(Deploy) /\ Len(deploys') = Len(deploys)
         /\ \A j \in Ctx : deploys'[j].pc = IF j = i THEN next ELSE deploys[j].pc
<1> DEFINE e == [deploys[i] EXCEPT !.pc = next]
<1>1. deploys' = [deploys EXCEPT ![i] = e]
  BY DEF WorkerAt
<1>2. deploys \in Seq(Deploy) /\ i \in 1..Len(deploys)
  BY DEF Inv, TypeOK, Ctx
<1>3. deploys[i] \in Deploy
  BY <1>2
<1>4. e \in Deploy /\ e.pc = next
  BY <1>3 DEF Deploy
<1> HIDE DEF e
<1> QED BY <1>1, <1>2, <1>4, ExceptSeq DEF Ctx

\* An event names the artifact, config and mode of its deploy.
LEMMA EventType ==
  ASSUME Inv, NEW i \in Ctx, NEW pid \in Nat,
         NEW ph \in {"DOWNLOADING", "VERIFYING", "DRAINING", "SWITCHING", "HEALTH_CHECKING",
                     "FAILED", "ROLLING_BACK"}
  PROVE  Event(i, ph, pid) \in WorkerEvent /\ Event(i, ph, pid).phase = ph
<1>1. deploys[i] \in Deploy /\ i \in Nat
  BY DeployType
<1> QED BY <1>1 DEF Event, WorkerEvent, Deploy

\* Sending keeps the channel typed, and free of a start when it was and none
\* is sent.
LEMMA SendType ==
  ASSUME Inv, NEW i, NEW ev \in WorkerEvent, Send(i, <<ev>>)
  PROVE  /\ workerCh' \in Seq(WorkerEvent)
         /\ (\A k \in 1..Len(workerCh) : workerCh[k].phase # "HEALTH_CHECKING")
              /\ ev.phase # "HEALTH_CHECKING"
            => \A k \in 1..Len(workerCh') : workerCh'[k].phase # "HEALTH_CHECKING"
<1>1. workerCh \in Seq(WorkerEvent)
  BY DEF Inv, TypeOK
<1>2. CASE UNCHANGED workerCh
  BY <1>1, <1>2
<1>3. CASE workerCh' = workerCh \o <<ev>>
  <2>1. workerCh' = Append(workerCh, ev)
    BY <1>1, <1>3, AppendIsConcat
  <2> QED BY <1>1, <2>1, AppendProperties
<1> QED BY <1>2, <1>3 DEF Send

\* A worker step that starts nothing keeps the invariant.
LEMMA QuietWorkerStep ==
  ASSUME Inv, NEW i \in Ctx, NEW pc, NEW next \in WorkerPc \ {"start", "report"},
         WorkerAt(i, pc, next),
         workerCh' \in Seq(WorkerEvent),
         (\A k \in 1..Len(workerCh) : workerCh[k].phase # "HEALTH_CHECKING")
           => \A k \in 1..Len(workerCh') : workerCh'[k].phase # "HEALTH_CHECKING",
         procs' \in Seq(Process), UNCHANGED current, faults' \in Nat
  PROVE  Inv'
<1>1. /\ deploys' \in Seq(Deploy) /\ Len(deploys') = Len(deploys)
      /\ \A j \in Ctx : deploys'[j].pc = IF j = i THEN next ELSE deploys[j].pc
  BY WorkerAtType
<1>2. TypeOK'
  BY <1>1 DEF WorkerAt, cpVars, Inv, TypeOK
<1>3. SwitchedFirst'
  BY <1>1 DEF WorkerAt, Inv, SwitchedFirst, Ctx
<1> QED BY <1>2, <1>3 DEF WorkerAt, Inv, InflightWanted, ProcWatched

\* A step that reports a failure of its own ends the worker.
LEMMA WorkerFailsStep ==
  ASSUME Inv, NEW i \in Ctx, NEW pc, NEW kind \in FaultKinds, WorkerFails(i, pc, kind)
  PROVE  Inv'
<1>1. Event(i, "FAILED", 0) \in WorkerEvent /\ Event(i, "FAILED", 0).phase = "FAILED"
  BY EventType
<1>2. Send(i, <<Event(i, "FAILED", 0)>>)
  BY DEF WorkerFails
<1>3. /\ workerCh' \in Seq(WorkerEvent)
      /\ (\A k \in 1..Len(workerCh) : workerCh[k].phase # "HEALTH_CHECKING")
           => \A k \in 1..Len(workerCh') : workerCh'[k].phase # "HEALTH_CHECKING"
  BY <1>1, <1>2, SendType
<1>4. faults' \in Nat /\ procs' \in Seq(Process)
  BY DEF WorkerFails, Fault, Inv, TypeOK
<1>5. WorkerAt(i, pc, "done") /\ UNCHANGED current
  BY DEF WorkerFails
<1> QED BY <1>3, <1>4, <1>5, QuietWorkerStep DEF WorkerPc

\* A step that announces progress, or nothing, and starts nothing.
LEMMA ProgressStep ==
  ASSUME Inv, NEW i \in Ctx, NEW pc, NEW next \in WorkerPc \ {"start", "report"},
         NEW ph \in {"DOWNLOADING", "VERIFYING", "DRAINING", "SWITCHING", "FAILED", "ROLLING_BACK"},
         WorkerAt(i, pc, next), Send(i, <<Event(i, ph, 0)>>),
         UNCHANGED <<procs, current>>, faults' \in Nat
  PROVE  Inv'
<1>1. Event(i, ph, 0) \in WorkerEvent /\ Event(i, ph, 0).phase = ph
  BY EventType
<1>2. /\ workerCh' \in Seq(WorkerEvent)
      /\ (\A k \in 1..Len(workerCh) : workerCh[k].phase # "HEALTH_CHECKING")
           => \A k \in 1..Len(workerCh') : workerCh'[k].phase # "HEALTH_CHECKING"
  BY <1>1, SendType
<1>3. procs' \in Seq(Process)
  BY DEF Inv, TypeOK
<1> QED BY <1>2, <1>3, QuietWorkerStep

\* A worker that announces its download has nothing started yet.
LEMMA AnnounceStep ==
  ASSUME Inv, NEW i \in Ctx, Announce(i)
  PROVE  Inv'
<1> DEFINE next == IF deploys[i].cancelled THEN "done" ELSE "download"
<1>1. next \in WorkerPc \ {"start", "report"}
  BY DEF WorkerPc
<1>2. /\ WorkerAt(i, "announce", next) /\ Send(i, <<Event(i, "DOWNLOADING", 0)>>)
      /\ UNCHANGED <<procs, current>> /\ faults' \in Nat
  BY DEF Announce, Inv, TypeOK
<1> HIDE DEF next
<1> QED BY <1>1, <1>2, ProgressStep

\* Download, failed or not, leaves processes and `current` alone.
LEMMA DownloadStep ==
  ASSUME Inv, NEW i \in Ctx, Download(i)
  PROVE  Inv'
<1>1. CASE /\ WorkerAt(i, "download", "verify") /\ Send(i, <<Event(i, "VERIFYING", 0)>>)
           /\ UNCHANGED <<procs, current, faults>>
  BY <1>1, ProgressStep DEF WorkerPc, Inv, TypeOK
<1>2. CASE WorkerFails(i, "download", "download")
  BY <1>2, WorkerFailsStep DEF FaultKinds
<1>3. CASE /\ WorkerAt(i, "download", "done") /\ Send(i, <<Event(i, "FAILED", 0)>>)
           /\ UNCHANGED <<procs, current, faults>>
  BY <1>3, ProgressStep DEF WorkerPc, Inv, TypeOK
<1> QED BY <1>1, <1>2, <1>3 DEF Download

\* So does verification.
LEMMA VerifyStep ==
  ASSUME Inv, NEW i \in Ctx, Verify(i)
  PROVE  Inv'
<1>1. CASE /\ WorkerAt(i, "verify", "drain") /\ Send(i, <<Event(i, "DRAINING", 0)>>)
           /\ UNCHANGED <<procs, current, faults>>
  BY <1>1, ProgressStep DEF WorkerPc, Inv, TypeOK
<1>2. CASE WorkerFails(i, "verify", "verify")
  BY <1>2, WorkerFailsStep DEF FaultKinds
<1> QED BY <1>1, <1>2 DEF Verify

\* gracefulStop of the old process.
LEMMA DrainOldStep ==
  ASSUME Inv, NEW i \in Ctx, DrainOld(i)
  PROVE  Inv'
<1>1. deploys[i].old \in Nat
  BY DeployType DEF Deploy
<1>2. procs' \in Seq(Process)
  BY <1>1, KilledType DEF DrainOld, Inv
<1>3. /\ WorkerAt(i, "drain", "check") /\ UNCHANGED current
      /\ workerCh' = workerCh /\ workerCh' \in Seq(WorkerEvent) /\ faults' \in Nat
  BY DEF DrainOld, Inv, TypeOK
<1> QED BY <1>2, <1>3, QuietWorkerStep DEF WorkerPc

\* A withdrawn worker ends before the switch.
LEMMA CheckWithdrawnStep ==
  ASSUME Inv, NEW i \in Ctx, CheckWithdrawn(i)
  PROVE  Inv'
<1> DEFINE next == IF deploys[i].cancelled THEN "done" ELSE "switch"
<1>1. next \in WorkerPc \ {"start", "report"}
  BY DEF WorkerPc
<1>2. Event(i, "SWITCHING", 0) \in WorkerEvent /\ Event(i, "SWITCHING", 0).phase = "SWITCHING"
  BY EventType
<1>3. /\ workerCh' \in Seq(WorkerEvent)
      /\ (\A k \in 1..Len(workerCh) : workerCh[k].phase # "HEALTH_CHECKING")
           => \A k \in 1..Len(workerCh') : workerCh'[k].phase # "HEALTH_CHECKING"
  <2>1. workerCh \in Seq(WorkerEvent)
    BY DEF Inv, TypeOK
  <2>2. workerCh' = workerCh \/ workerCh' = Append(workerCh, Event(i, "SWITCHING", 0))
    BY DEF CheckWithdrawn
  <2> QED BY <1>2, <2>1, <2>2, AppendProperties
<1>4. /\ WorkerAt(i, "check", next) /\ UNCHANGED current
      /\ procs' \in Seq(Process) /\ faults' \in Nat
  BY DEF CheckWithdrawn, Inv, TypeOK
<1> HIDE DEF next
<1> QED BY <1>1, <1>3, <1>4, QuietWorkerStep

\* The switch makes `current` name a release: from here on something may start.
LEMMA SwitchToStep ==
  ASSUME Inv, NEW i \in Ctx, SwitchTo(i)
  PROVE  Inv'
<1>1. CASE WorkerAt(i, "switch", "start") /\ current' = deploys[i].art
           /\ UNCHANGED <<workerCh, procs, faults>>
  <2>1. deploys[i].art \in Artifacts
    BY DeployType DEF Deploy
  <2>2. current' # None /\ current' \in MaybeArtifact
    BY <1>1, <2>1, AgentAssumption DEF MaybeArtifact
  <2>3. deploys' \in Seq(Deploy)
    BY <1>1, WorkerAtType DEF WorkerPc
  <2>4. TypeOK'
    BY <1>1, <2>2, <2>3 DEF WorkerAt, cpVars, Inv, TypeOK
  <2> QED BY <1>1, <2>2, <2>4 DEF WorkerAt, Inv, SwitchedFirst, InflightWanted, ProcWatched
<1>2. CASE WorkerFails(i, "switch", "switch")
  BY <1>2, WorkerFailsStep DEF FaultKinds
<1> QED BY <1>1, <1>2 DEF SwitchTo

\* A worker starts a process only after its switch, on a real release.
LEMMA StartNewStep ==
  ASSUME Inv, NEW i \in Ctx, StartNew(i)
  PROVE  Inv'
<1>1. CASE WorkerAt(i, "start", "report") /\ procs' = Append(procs, NewProc(i))
           /\ UNCHANGED <<workerCh, current, faults>>
  <2>1. current # None /\ current \in Artifacts
    BY <1>1 DEF WorkerAt, Inv, TypeOK, SwitchedFirst, MaybeArtifact
  <2>2. NewProc(i) \in Process
    BY <2>1 DEF NewProc, Process, Ctx, Inv, TypeOK
  <2>3. procs' \in Seq(Process)
    BY <1>1, <2>2, AppendProperties DEF Inv, TypeOK
  <2>4. deploys' \in Seq(Deploy)
    BY <1>1, WorkerAtType DEF WorkerPc
  <2>5. TypeOK'
    BY <1>1, <2>3, <2>4 DEF WorkerAt, cpVars, Inv, TypeOK
  <2> QED BY <1>1, <2>1, <2>5 DEF WorkerAt, Inv, SwitchedFirst, InflightWanted, ProcWatched
<1>2. CASE WorkerFails(i, "start", "build")
  BY <1>2, WorkerFailsStep DEF FaultKinds
<1>3. CASE /\ WorkerAt(i, "start", "done") /\ Fault("start")
           /\ Send(i, <<Event(i, "ROLLING_BACK", 0)>>) /\ UNCHANGED <<procs, current>>
  <2>1. faults' \in Nat
    BY <1>3 DEF Fault, Inv, TypeOK
  <2> QED BY <1>3, <2>1, ProgressStep DEF WorkerPc
<1> QED BY <1>1, <1>2, <1>3 DEF StartNew

\* The process a worker reports is one it started.
LEMMA ReportStartedStep ==
  ASSUME Inv, NEW i \in Ctx, ReportStarted(i)
  PROVE  Inv'
<1>1. PICK p \in Pid : Send(i, <<Event(i, "HEALTH_CHECKING", p)>>)
  BY DEF ReportStarted
<1>2. p \in Nat
  BY DEF Pid, Inv, TypeOK
<1>3. workerCh' \in Seq(WorkerEvent)
  BY <1>1, <1>2, EventType, SendType
<1>4. deploys' \in Seq(Deploy)
  BY WorkerAtType DEF ReportStarted, WorkerPc
<1>5. TypeOK'
  BY <1>3, <1>4 DEF ReportStarted, WorkerAt, cpVars, Inv, TypeOK
<1>6. current # None
  BY DEF ReportStarted, WorkerAt, Inv, SwitchedFirst
<1> QED
  BY <1>5, <1>6 DEF ReportStarted, WorkerAt, Inv, SwitchedFirst, InflightWanted, ProcWatched

\* No step of a deploy worker breaks the invariant.
LEMMA WorkerKeepsInv ==
  ASSUME Inv, NEW i \in Ctx, WorkerStep(i)
  PROVE  Inv'
BY AnnounceStep, DownloadStep, VerifyStep, DrainOldStep, CheckWithdrawnStep, SwitchToStep,
   StartNewStep, ReportStartedStep DEF WorkerStep

----------------------------------------------------------------------------
(* The main loop's events *)

\* The record the invariant knows.
LEMMA StType ==
  ASSUME Inv
  PROVE  /\ st \in StrategyState /\ st.proc \in Nat
         /\ st.prev # None => current # None
         /\ st.running # None => current # None
BY DEF Inv, TypeOK, StrategyState, SwitchedFirst

\* A rollback, from an event or the health window, keeps the invariant: no
\* deploy is left in flight and the process put back is watched.
LEMMA RollbackStep ==
  ASSUME Inv, NEW s \in StrategyState, NEW w \in SUBSET Nat, desired # None,
         s.prev # None => current # None, s.running # None => current # None,
         beginRollback(s, w),
         loop' \in {"select", "reconcile", "persist", "down"},
         workerCh' \in Seq(WorkerEvent),
         (\A k \in 1..Len(workerCh) : workerCh[k].phase # "HEALTH_CHECKING")
           => \A k \in 1..Len(workerCh') : workerCh'[k].phase # "HEALTH_CHECKING",
         ServeRest, known, UNCHANGED <<known, draining, probing>>
  PROVE  Inv'
<1>1. /\ deploys' \in Seq(Deploy) /\ Len(deploys') = Len(deploys)
      /\ \A i \in Ctx : deploys'[i].pc = deploys[i].pc
  BY RollbackType
<1>2. /\ st' \in StrategyState /\ procs' \in Seq(Process)
      /\ watched' \in SUBSET Nat /\ current' \in MaybeArtifact /\ faults' \in Nat
  BY RollbackType
<1>3. current' = None => current = None /\ st'.running = None /\ st'.prev = None
  BY RollbackType
<1>4. st'.inflight = None /\ (st'.proc # 0 => st'.proc \in watched')
  BY RollbackType
<1>5. TypeOK'
  BY <1>1, <1>2 DEF ServeRest, cpVars, Inv, TypeOK
<1>6. SwitchedFirst'
  BY <1>1, <1>3 DEF ServeRest, Inv, SwitchedFirst, Ctx
<1> QED BY <1>4, <1>5, <1>6 DEF Inv, InflightWanted, ProcWatched

\* A step that switches no release and sends no start keeps the invariant if the
\* record it leaves does.
LEMMA RecordStep ==
  ASSUME Inv,
         loop' \in {"select", "reconcile", "persist", "down"}, known' \in BOOLEAN,
         st' \in StrategyState, watched' \in SUBSET Nat, draining' \in SUBSET Nat,
         probing' \in SUBSET Nat, faults' \in Nat, observedGenA' \in Nat,
         deploys' \in Seq(Deploy), Len(deploys') = Len(deploys),
         \A i \in Ctx : deploys'[i].pc = deploys[i].pc,
         procs' \in Seq(Process), workerCh' \in Seq(WorkerEvent),
         (\A k \in 1..Len(workerCh) : workerCh[k].phase # "HEALTH_CHECKING")
           => \A k \in 1..Len(workerCh') : workerCh'[k].phase # "HEALTH_CHECKING",
         UNCHANGED <<cpVars, desired, generation, current, file, restarts>>,
         current = None => st'.running = None /\ st'.prev = None,
         st'.inflight # None => desired # None,
         st'.proc # 0 => known' /\ st'.proc \in watched'
  PROVE  Inv'
<1>1. TypeOK'
  BY DEF cpVars, Inv, TypeOK
<1>2. SwitchedFirst'
  BY DEF Inv, SwitchedFirst, Ctx
<1> QED BY <1>1, <1>2 DEF Inv, InflightWanted, ProcWatched

\* The record an exit that is not a crash loop leaves.
LEMMA ExitedType ==
  ASSUME Inv, NEW s \in StrategyState, NEW c \in Nat, NEW b \in BOOLEAN
  PROVE  LET r == [s EXCEPT !.crashes = c, !.blocked = b] IN
         /\ r \in StrategyState /\ Demoted(r) \in StrategyState
         /\ r.proc = s.proc /\ Demoted(r).proc = s.proc
         /\ r.running = s.running /\ Demoted(r).running = s.running
         /\ r.prev = s.prev /\ Demoted(r).prev = s.prev
         /\ r.inflight = s.inflight /\ Demoted(r).inflight = s.inflight
<1> DEFINE r == [s EXCEPT !.crashes = c, !.blocked = b]
<1>1. /\ r \in StrategyState /\ r.proc = s.proc /\ r.running = s.running
      /\ r.prev = s.prev /\ r.inflight = s.inflight
  BY DEF StrategyState
<1> HIDE DEF r
<1>2. /\ Demoted(r) \in StrategyState /\ Demoted(r).proc = r.proc
      /\ Demoted(r).running = r.running /\ Demoted(r).prev = r.prev
      /\ Demoted(r).inflight = r.inflight
  BY <1>1 DEF Demoted, StrategyState, Phases
<1> QED BY <1>1, <1>2 DEF r

\* The exit of the process the record holds clears it before anything else; the
\* one watcher given up is that of a process the record no longer holds.
LEMMA HandleExitStep ==
  ASSUME Inv, NEW p \in Pid, handleExit(p)
  PROVE  Inv'
<1> DEFINE gone == [st EXCEPT !.proc = 0]
           w    == watched \ {p}
<1>1. /\ gone \in StrategyState /\ gone.proc = 0 /\ gone.running = st.running
      /\ gone.prev = st.prev /\ gone.inflight = st.inflight
  BY StType DEF StrategyState
<1>2. w \in SUBSET Nat
  BY DEF Inv, TypeOK
<1>3. /\ loop' = "reconcile" /\ ServeRest /\ UNCHANGED <<workerCh, draining, probing>>
      /\ draining' \in SUBSET Nat /\ probing' \in SUBSET Nat /\ observedGenA' \in Nat
      /\ workerCh' \in Seq(WorkerEvent)
  BY DEF handleExit, Serve, ServeRest, Inv, TypeOK
<1>4. CASE (~known \/ st.proc # p) /\ watched' = w
           /\ UNCHANGED <<st, known, deploys, procs, current, faults>>
  BY <1>2, <1>3, <1>4, RecordStep
  DEF ServeRest, Inv, TypeOK, SwitchedFirst, InflightWanted, ProcWatched
<1>5. CASE /\ st.stopping \/ desired = None
           /\ known' = (desired # None \/ ~st.stopping)
           /\ st' = IF known' THEN [gone EXCEPT !.stopping = FALSE] ELSE NewState
           /\ watched' = w /\ UNCHANGED <<deploys, procs, current, faults>>
  <2> DEFINE idle == [gone EXCEPT !.stopping = FALSE]
  <2>1. /\ idle \in StrategyState /\ idle.proc = 0 /\ idle.running = st.running
        /\ idle.prev = st.prev /\ idle.inflight = st.inflight
    <3> HIDE DEF gone
    <3> QED BY <1>1 DEF StrategyState
  <2>2. /\ NewState.proc = 0 /\ NewState.running = None /\ NewState.prev = None
        /\ NewState.inflight = None
    BY DEF NewState
  <2> HIDE DEF idle
  <2>3. /\ st' \in StrategyState /\ st'.proc = 0
        /\ current = None => st'.running = None /\ st'.prev = None
        /\ st'.inflight # None => desired # None
    BY <1>5, <2>1, <2>2, NewStateType, StType DEF idle, Inv, InflightWanted
  <2>4. /\ known' \in BOOLEAN /\ faults' \in Nat /\ deploys' \in Seq(Deploy)
        /\ deploys' = deploys /\ procs' \in Seq(Process)
    BY <1>5 DEF Inv, TypeOK
  <2> QED BY <1>2, <1>3, <1>5, <2>3, <2>4, RecordStep DEF ServeRest
<1>6. CASE /\ known /\ ~st.stopping /\ desired # None
           /\ UnexpectedExit(gone, w) /\ UNCHANGED known
  <2> DEFINE crashed == [gone EXCEPT !.crashes = gone.crashes + 1, !.blocked = TRUE]
             clean   == [gone EXCEPT !.crashes = 0, !.blocked = FALSE]
  <2>1. gone.crashes + 1 \in Nat
    BY <1>1 DEF StrategyState
  <2> HIDE DEF gone, w
  <2>2. CASE beginRollback(crashed, w)
    <3>1. /\ crashed \in StrategyState /\ crashed.prev = st.prev
          /\ crashed.running = st.running
      BY <1>1, <2>1, ExitedType
    <3> HIDE DEF crashed
    <3> QED BY <1>2, <1>3, <1>6, <2>2, <3>1, StType, RollbackStep DEF Inv, TypeOK
  <2>3. CASE /\ st' = Demoted(crashed) \/ st' = Demoted(clean)
             /\ watched' = w /\ UNCHANGED <<deploys, procs, current, faults>>
    <3>1. /\ st' \in StrategyState /\ st'.proc = 0 /\ st'.running = st.running
          /\ st'.prev = st.prev /\ st'.inflight = st.inflight
      <4>1. /\ Demoted(crashed) \in StrategyState /\ Demoted(crashed).proc = gone.proc
            /\ Demoted(crashed).running = gone.running
            /\ Demoted(crashed).prev = gone.prev /\ Demoted(crashed).inflight = gone.inflight
        BY <1>1, <2>1, ExitedType
      <4>2. /\ Demoted(clean) \in StrategyState /\ Demoted(clean).proc = gone.proc
            /\ Demoted(clean).running = gone.running
            /\ Demoted(clean).prev = gone.prev /\ Demoted(clean).inflight = gone.inflight
        <5>1. 0 \in Nat /\ FALSE \in BOOLEAN
          OBVIOUS
        <5> QED BY <1>1, <5>1, ExitedType
      <4> HIDE DEF crashed, clean
      <4> QED BY <1>1, <2>3, <4>1, <4>2
    <3>2. /\ known' \in BOOLEAN /\ faults' \in Nat /\ deploys' \in Seq(Deploy)
          /\ deploys' = deploys /\ procs' \in Seq(Process)
      BY <1>6, <2>3 DEF Inv, TypeOK
    <3> QED BY <1>2, <1>3, <1>6, <2>3, <3>1, <3>2, StType, RecordStep DEF ServeRest
  <2> QED BY <1>6, <2>2, <2>3 DEF UnexpectedExit
<1> QED BY <1>4, <1>5, <1>6 DEF handleExit

\* Each worker event, heeded or stale.  A start is reported only once `current`
\* points somewhere, and its process is watched as soon as it is installed.
LEMMA ApplyWorkerEventStep ==
  ASSUME Inv, applyWorkerEvent
  PROVE  Inv'
<1> DEFINE ev == Head(workerCh)
           progress == [st EXCEPT !.phase = ev.phase]
<1>1. /\ ev \in WorkerEvent /\ workerCh' \in Seq(WorkerEvent)
      /\ ev = workerCh[1] /\ 1 \in 1..Len(workerCh)
      /\ \A k \in 1..Len(workerCh') : workerCh'[k] = workerCh[k+1] /\ k+1 \in 1..Len(workerCh)
  BY HeadTailProperties DEF applyWorkerEvent, Inv, TypeOK
<1>2. (\A k \in 1..Len(workerCh) : workerCh[k].phase # "HEALTH_CHECKING")
        => \A k \in 1..Len(workerCh') : workerCh'[k].phase # "HEALTH_CHECKING"
  BY <1>1
<1>3. /\ loop' = "reconcile" /\ ServeRest /\ UNCHANGED <<known, draining, probing>>
      /\ known' \in BOOLEAN /\ draining' \in SUBSET Nat /\ probing' \in SUBSET Nat
      /\ observedGenA' \in Nat
  BY DEF applyWorkerEvent, Serve, ServeRest, Inv, TypeOK
<1>4. ev.phase \in Phases =>
        /\ progress \in StrategyState /\ progress.proc = st.proc
        /\ progress.running = st.running /\ progress.prev = st.prev
        /\ progress.inflight = st.inflight
  <2> HIDE DEF ev
  <2> QED BY StType DEF StrategyState
<1>5. CASE UNCHANGED <<st, deploys, procs, current, watched, faults>>
  BY <1>1, <1>2, <1>3, <1>5, RecordStep
  DEF ServeRest, Inv, TypeOK, SwitchedFirst, InflightWanted, ProcWatched
<1>6. CASE /\ ev.phase \in {"DOWNLOADING", "VERIFYING", "SWITCHING", "DRAINING"}
           /\ st' = [progress EXCEPT !.stopping = progress.stopping \/ ev.phase = "DRAINING"]
           /\ UNCHANGED <<deploys, procs, current, watched, faults>>
  <2>1. ev.phase \in Phases
    BY <1>6 DEF Phases
  <2>2. /\ st' \in StrategyState /\ st'.proc = st.proc /\ st'.running = st.running
        /\ st'.prev = st.prev /\ st'.inflight = st.inflight
    <3> HIDE DEF progress, ev
    <3> QED BY <1>4, <1>6, <2>1 DEF StrategyState
  <2>3. /\ deploys' \in Seq(Deploy) /\ deploys' = deploys /\ procs' \in Seq(Process)
        /\ watched' \in SUBSET Nat /\ faults' \in Nat
    BY <1>6 DEF Inv, TypeOK
  <2>4. /\ current = None => st'.running = None /\ st'.prev = None
        /\ st'.inflight # None => desired # None
        /\ st'.proc # 0 => known' /\ st'.proc \in watched'
    BY <1>3, <1>6, <2>2 DEF Inv, SwitchedFirst, InflightWanted, ProcWatched
  <2> HIDE DEF progress, ev
  <2> QED BY <1>1, <1>2, <1>3, <1>6, <2>2, <2>3, <2>4, RecordStep DEF ServeRest
<1>7. CASE /\ Heeded(ev) /\ ev.phase = "HEALTH_CHECKING"
           /\ st' = [Install(progress, ev.proc, ev.capture)
                       EXCEPT !.running = ev.art, !.runCfg = ev.cfg, !.windowOver = FALSE,
                              !.crashes = 0, !.blocked = FALSE]
           /\ watched' = watched \cup {ev.proc}
           /\ UNCHANGED <<deploys, procs, current, faults>>
  <2> DEFINE inst == Install(progress, ev.proc, ev.capture)
  <2>1. current # None
    BY <1>1, <1>7 DEF Inv, SwitchedFirst
  <2>2. /\ ev.proc \in Nat /\ ev.capture \in BOOLEAN
        /\ ev.art \in MaybeArtifact /\ ev.cfg \in MaybeConfig
    BY <1>1 DEF WorkerEvent, MaybeArtifact
  <2>3. /\ inst \in StrategyState /\ inst.proc = ev.proc /\ inst.prev = st.prev
        /\ inst.inflight = st.inflight
    <3> HIDE DEF progress, ev
    <3> QED BY <1>4, <1>7, <2>2, InstallType DEF Phases
  <2>4. /\ st' \in StrategyState /\ st'.proc = ev.proc /\ st'.inflight = st.inflight
    <3> HIDE DEF inst, ev
    <3> QED BY <1>7, <2>2, <2>3 DEF StrategyState, inst
  <2>5. watched' \in SUBSET Nat /\ known' /\ st'.proc \in watched'
    BY <1>3, <1>7, <2>2, <2>4 DEF Heeded, Inv, TypeOK
  <2> HIDE DEF progress, ev, inst
  <2> QED BY <1>1, <1>2, <1>3, <1>7, <2>1, <2>4, <2>5, RecordStep
      DEF ServeRest, Inv, TypeOK, InflightWanted
<1>8. CASE beginRollback(st, watched) /\ Heeded(ev)
  <2>1. known /\ desired # None /\ watched \in SUBSET Nat
    BY <1>8 DEF Heeded, Inv, TypeOK, InflightWanted
  <2> QED BY <1>1, <1>2, <1>3, <1>8, <2>1, StType, RollbackStep
<1>9. CASE /\ ev.phase = "FAILED"
           /\ st' = [progress EXCEPT !.stopping = FALSE, !.failedAtGen = generation,
                                     !.inflight = None]
           /\ UNCHANGED <<deploys, procs, current, watched, faults>>
  <2>1. ev.phase \in Phases
    BY <1>9 DEF Phases
  <2>2. /\ st' \in StrategyState /\ st'.proc = st.proc /\ st'.running = st.running
        /\ st'.prev = st.prev /\ st'.inflight = None
    <3>1. generation \in Nat
      BY DEF Inv, TypeOK
    <3> HIDE DEF progress, ev
    <3> QED BY <1>4, <1>9, <2>1, <3>1 DEF StrategyState
  <2>3. /\ deploys' \in Seq(Deploy) /\ deploys' = deploys /\ procs' \in Seq(Process)
        /\ watched' \in SUBSET Nat /\ faults' \in Nat
    BY <1>9 DEF Inv, TypeOK
  <2>4. /\ current = None => st'.running = None /\ st'.prev = None
        /\ st'.inflight # None => desired # None
        /\ st'.proc # 0 => known' /\ st'.proc \in watched'
    BY <1>3, <1>9, <2>2 DEF Inv, SwitchedFirst, InflightWanted, ProcWatched
  <2> HIDE DEF progress, ev
  <2> QED BY <1>1, <1>2, <1>3, <1>9, <2>2, <2>3, <2>4, RecordStep DEF ServeRest
<1> QED BY <1>5, <1>6, <1>7, <1>8, <1>9 DEF applyWorkerEvent

\* A due restart schedule drains the process and leaves the rest of the record.
LEMMA CronType ==
  ASSUME Inv, NEW s \in StrategyState, tickCron(s)
  PROVE  /\ st' \in StrategyState /\ draining' \in SUBSET Nat /\ faults' \in Nat
         /\ st'.proc = s.proc /\ st'.inflight = s.inflight
         /\ st'.running = s.running /\ st'.prev = s.prev
<1>1. CASE st' = s /\ UNCHANGED <<draining, faults>>
  BY <1>1 DEF Inv, TypeOK
<1>2. CASE Fault("cron") /\ spawnDrain(s)
  <2>1. faults' \in Nat
    BY <1>2 DEF Fault, Inv, TypeOK
  <2> QED BY <1>2, <2>1, DrainType
<1> QED BY <1>1, <1>2 DEF tickCron

\* The periodic tick promotes, fails or rolls back within the invariant.
LEMMA TickStep ==
  ASSUME Inv, Tick
  PROVE  Inv'
<1>1. /\ loop' = "reconcile" /\ ServeRest /\ UNCHANGED <<known, workerCh>>
      /\ known' \in BOOLEAN /\ observedGenA' \in Nat /\ workerCh' \in Seq(WorkerEvent)
  BY DEF Tick, Serve, ServeRest, Inv, TypeOK
<1>2. CASE /\ known /\ WindowRollsBack /\ beginRollback(st, watched)
           /\ UNCHANGED <<probing, draining>>
  <2>1. desired # None /\ watched \in SUBSET Nat
    BY <1>2 DEF WindowRollsBack, Inv, TypeOK
  <2> QED BY <1>1, <1>2, <2>1, StType, RollbackStep
<1>3. CASE /\ failHealthWindow
           /\ UNCHANGED <<procs, current, watched, faults, probing, draining>>
  <2>1. /\ st' \in StrategyState /\ st'.proc = st.proc /\ st'.inflight = None
        /\ st'.running = st.running /\ st'.prev = st.prev
    <3>1. generation \in Nat
      BY DEF Inv, TypeOK
    <3> QED BY <1>3, <3>1, StType DEF failHealthWindow, StrategyState, Phases
  <2>2. /\ deploys' \in Seq(Deploy) /\ Len(deploys') = Len(deploys)
        /\ \A i \in Ctx : deploys'[i].pc = deploys[i].pc
    BY <1>3, CancelType, StType DEF failHealthWindow, Inv
  <2>3. /\ procs' \in Seq(Process) /\ watched' \in SUBSET Nat /\ faults' \in Nat
        /\ probing' \in SUBSET Nat /\ draining' \in SUBSET Nat
    BY <1>3 DEF Inv, TypeOK
  <2>4. /\ current = None => st'.running = None /\ st'.prev = None
        /\ st'.proc # 0 => known' /\ st'.proc \in watched'
    BY <1>1, <1>3, <2>1 DEF Inv, SwitchedFirst, ProcWatched
  <2> QED BY <1>1, <1>3, <2>1, <2>2, <2>3, <2>4, RecordStep DEF ServeRest
\* The three branches that end in tickCron, on a record s like st.
<1>4. ASSUME NEW s \in StrategyState, tickCron(s),
             s.proc = st.proc, s.running = st.running, s.prev = st.prev,
             s.inflight # None => st.inflight # None,
             probing' \in SUBSET Nat, UNCHANGED <<deploys, procs, current, watched>>
      PROVE  Inv'
  <2>1. /\ st' \in StrategyState /\ draining' \in SUBSET Nat /\ faults' \in Nat
        /\ st'.proc = s.proc /\ st'.inflight = s.inflight
        /\ st'.running = s.running /\ st'.prev = s.prev
    BY <1>4, CronType
  <2>2. /\ deploys' \in Seq(Deploy) /\ deploys' = deploys /\ procs' \in Seq(Process)
        /\ watched' \in SUBSET Nat
    BY <1>4 DEF Inv, TypeOK
  <2>3. /\ current = None => st'.running = None /\ st'.prev = None
        /\ st'.inflight # None => desired # None
        /\ st'.proc # 0 => known' /\ st'.proc \in watched'
    BY <1>1, <1>4, <2>1 DEF Inv, SwitchedFirst, InflightWanted, ProcWatched
  <2> QED BY <1>1, <1>4, <2>1, <2>2, <2>3, RecordStep DEF ServeRest
<1>5. CASE /\ tickCron(MarkedHealthy(st))
           /\ UNCHANGED <<deploys, procs, current, watched, probing>>
  BY <1>4, <1>5, MarkedHealthyType, StType DEF Inv, TypeOK
<1>6. CASE /\ Probe /\ tickCron([st EXCEPT !.probing = TRUE])
           /\ UNCHANGED <<deploys, procs, current, watched>>
  <2> DEFINE s == [st EXCEPT !.probing = TRUE]
  <2>1. /\ s \in StrategyState /\ s.proc = st.proc /\ s.running = st.running
        /\ s.prev = st.prev /\ s.inflight = st.inflight
    BY StType DEF StrategyState
  <2>2. probing' \in SUBSET Nat
    BY <1>6, StType DEF Probe, Inv, TypeOK
  <2> HIDE DEF s
  <2>3. tickCron(s)
    BY <1>6 DEF s
  <2> QED BY <1>4, <1>6, <2>1, <2>2, <2>3
<1>7. CASE tickCron(st) /\ UNCHANGED <<deploys, procs, current, watched, probing>>
  BY <1>4, <1>7, StType DEF Inv, TypeOK
<1> QED BY <1>2, <1>3, <1>5, <1>6, <1>7 DEF Tick

\* A late or early probe result moves no process.
LEMMA ApplyHealthResultStep ==
  ASSUME Inv, NEW p \in Pid, applyHealthResult(p)
  PROVE  Inv'
<1> DEFINE s == [st EXCEPT !.probing = FALSE]
<1>1. /\ s \in StrategyState /\ s.proc = st.proc /\ s.running = st.running
      /\ s.prev = st.prev /\ s.inflight = st.inflight
  BY StType DEF StrategyState
<1>2. st' = st \/ st' = MarkedHealthy(s) \/ st' = s
  BY DEF applyHealthResult
<1> HIDE DEF s
<1>3. /\ st' \in StrategyState /\ st'.proc = st.proc /\ st'.running = st.running
      /\ st'.prev = st.prev /\ (st'.inflight # None => st.inflight # None)
  BY <1>1, <1>2, StType, MarkedHealthyType DEF Inv
<1>4. /\ loop' = "reconcile" /\ ServeRest
      /\ UNCHANGED <<known, deploys, workerCh, procs, current, watched, faults, draining>>
      /\ known' \in BOOLEAN /\ observedGenA' \in Nat /\ workerCh' \in Seq(WorkerEvent)
      /\ deploys' \in Seq(Deploy) /\ procs' \in Seq(Process) /\ watched' \in SUBSET Nat
      /\ faults' \in Nat /\ draining' \in SUBSET Nat /\ probing' \in SUBSET Nat
  BY DEF applyHealthResult, Serve, ServeRest, Inv, TypeOK
<1>5. /\ current = None => st'.running = None /\ st'.prev = None
      /\ st'.inflight # None => desired # None
      /\ st'.proc # 0 => known' /\ st'.proc \in watched'
  BY <1>3, <1>4 DEF Inv, SwitchedFirst, InflightWanted, ProcWatched
<1> QED BY <1>3, <1>4, <1>5, RecordStep DEF ServeRest

----------------------------------------------------------------------------
(* reconcile, one lemma per branch *)

\* What a branch of reconcile leaves: typed, no release named before the first
\* switch, no unwanted deploy, no unwatched process.
Sound ==
  /\ known' \in BOOLEAN /\ st' \in StrategyState
  /\ watched' \in SUBSET Nat /\ draining' \in SUBSET Nat /\ faults' \in Nat
  /\ procs' \in Seq(Process)
  /\ deploys' \in Seq(Deploy)
  /\ current = None =>
       /\ st'.running = None /\ st'.prev = None
       /\ \A i \in 1..Len(deploys') : deploys'[i].pc \notin {"start", "report"}
  /\ st'.inflight # None => desired # None
  /\ st'.proc # 0 => known' /\ st'.proc \in watched'

\* A branch that only edits the record, keeping process, release and deploy.
LEMMA EditedSound ==
  ASSUME Inv, st' \in StrategyState, known' \in BOOLEAN, draining' \in SUBSET Nat,
         st'.proc = st.proc \/ st'.proc = 0,
         current = None => st'.running = None /\ st'.prev = None,
         st'.inflight # None => st.inflight # None,
         deploys' = deploys \/ deploys' = WithCancel(st),
         known' \/ st'.proc = 0,
         UNCHANGED <<procs, watched, faults>>
  PROVE  Sound
<1>1. /\ deploys' \in Seq(Deploy) /\ Len(deploys') = Len(deploys)
      /\ \A i \in Ctx : deploys'[i].pc = deploys[i].pc
  BY CancelType, StType DEF Inv, TypeOK
<1>2. current = None => \A i \in 1..Len(deploys') : deploys'[i].pc \notin {"start", "report"}
  BY <1>1 DEF Inv, SwitchedFirst, Ctx
<1>3. watched' \in SUBSET Nat /\ faults' \in Nat /\ procs' \in Seq(Process)
  BY DEF Inv, TypeOK
<1>4. st'.inflight # None => desired # None
  BY DEF Inv, InflightWanted
<1>5. st'.proc # 0 => known' /\ st'.proc \in watched'
  BY DEF Inv, ProcWatched
<1> QED BY <1>1, <1>2, <1>3, <1>4, <1>5 DEF Sound

\* startProcess runs `current`, which a running artifact says exists, and
\* watches what it starts.
LEMMA StartSound ==
  ASSUME Inv, NEW s \in StrategyState, NEW hc \in BOOLEAN, desired # None,
         s.proc = 0, s.running # None, current # None,
         startProcess(s, hc), known', UNCHANGED <<deploys, draining>>
  PROVE  Sound
<1>1. /\ deploys' \in Seq(Deploy) /\ draining' \in SUBSET Nat /\ known' \in BOOLEAN
      /\ watched \in SUBSET Nat /\ procs \in Seq(Process) /\ generation \in Nat
      /\ desired.capture \in BOOLEAN /\ Len(procs) + 1 \in Nat
  BY DEF Inv, TypeOK, Specs
<1>2. CASE /\ procs' = Append(procs, NewProc(0)) /\ watched' = watched \cup {Len(procs) + 1}
           /\ st' = [Install(s, Len(procs) + 1, desired.capture)
                      EXCEPT !.phase = IF hc THEN "HEALTH_CHECKING" ELSE "HEALTHY",
                             !.windowOver = IF hc THEN FALSE ELSE @,
                             !.observedGen = IF hc THEN @ ELSE generation]
           /\ UNCHANGED faults
  <2> DEFINE inst == Install(s, Len(procs) + 1, desired.capture)
  <2>1. inst \in StrategyState /\ inst.proc = Len(procs) + 1
    BY <1>1, InstallType
  <2> HIDE DEF inst
  <2>2. st' \in StrategyState /\ st'.proc = Len(procs) + 1
    <3> DEFINE ph == IF hc THEN "HEALTH_CHECKING" ELSE "HEALTHY"
               wo == IF hc THEN FALSE ELSE inst.windowOver
               og == IF hc THEN inst.observedGen ELSE generation
    <3>1. st' = [inst EXCEPT !.phase = ph, !.windowOver = wo, !.observedGen = og]
      BY <1>2 DEF inst
    <3>2. ph \in Phases /\ wo \in BOOLEAN /\ og \in Nat
      BY <1>1, <2>1 DEF StrategyState, Phases
    <3> HIDE DEF ph, wo, og
    <3> QED BY <2>1, <3>1, <3>2 DEF StrategyState
  <2>3. NewProc(0) \in Process
    BY DEF NewProc, Process, Inv, TypeOK, MaybeArtifact
  <2>4. procs' \in Seq(Process)
    BY <1>1, <1>2, <2>3, AppendProperties
  <2>5. watched' \in SUBSET Nat /\ st'.proc \in watched' /\ faults' \in Nat
    BY <1>1, <1>2, <2>2 DEF Inv, TypeOK
  <2> QED BY <1>1, <2>2, <2>4, <2>5 DEF Sound
<1>3. CASE /\ Fault("build") \/ Fault("start")
           /\ st' = [s EXCEPT !.phase = "FAILED", !.crashes = s.crashes + 1, !.blocked = TRUE]
           /\ UNCHANGED <<procs, watched>>
  <2>1. st' \in StrategyState /\ st'.proc = 0
    <3>1. s.crashes + 1 \in Nat
      BY DEF StrategyState
    <3> QED BY <1>3, <3>1 DEF StrategyState, Phases
  <2>2. faults' \in Nat
    BY <1>3 DEF Fault, Inv, TypeOK
  <2> QED BY <1>1, <1>3, <2>1, <2>2 DEF Sound
<1> QED BY <1>2, <1>3 DEF startProcess

\* Retiring a removed strategy leaves a sound record.
LEMMA RetireSound ==
  ASSUME Inv, retireStrategy
  PROVE  Sound
<1> DEFINE s == [st EXCEPT !.inflight = None]
<1>1. /\ s \in StrategyState /\ s.inflight = None /\ s.proc = st.proc
      /\ s.running = st.running /\ s.prev = st.prev
  BY StType, DroppedType
<1> HIDE DEF s
<1>2. /\ known /\ deploys' = WithCancel(st) /\ UNCHANGED <<procs, watched, faults>>
      /\ draining \in SUBSET Nat
  BY DEF retireStrategy, Inv, TypeOK
<1>3. CASE st' = NewState /\ known' = FALSE /\ UNCHANGED draining
  <2>1. NewState.proc = 0 /\ NewState.running = None /\ NewState.prev = None /\ NewState.inflight = None
    BY DEF NewState
  <2> QED BY <1>2, <1>3, <2>1, NewStateType, EditedSound
<1>4. CASE st' = s /\ UNCHANGED <<known, draining>>
  BY <1>1, <1>2, <1>4, StType, EditedSound
<1>5. CASE spawnDrain(s) /\ UNCHANGED known
  <2>1. /\ st' \in StrategyState /\ draining' \in SUBSET Nat
        /\ st'.proc = st.proc /\ st'.inflight = None
        /\ st'.running = st.running /\ st'.prev = st.prev
    BY <1>1, <1>5, DrainType
  <2> QED BY <1>2, <1>5, <2>1, StType, EditedSound
<1> QED BY <1>3, <1>4, <1>5 DEF retireStrategy, s

\* Halting a strategy leaves a sound record.
LEMMA StoppedSound ==
  ASSUME Inv, reconcileStopped
  PROVE  Sound
<1> DEFINE s == [st EXCEPT !.inflight = None]
<1>1. /\ s \in StrategyState /\ s.inflight = None /\ s.proc = st.proc
      /\ s.running = st.running /\ s.prev = st.prev
  BY StType, DroppedType
<1> HIDE DEF s
<1>2. /\ known' /\ known' \in BOOLEAN /\ deploys' = WithCancel(st)
      /\ UNCHANGED <<procs, watched, faults>> /\ draining \in SUBSET Nat /\ generation \in Nat
  BY DEF reconcileStopped, Inv, TypeOK
<1>3. CASE /\ st' = [s EXCEPT !.phase = "STOPPED", !.stopping = FALSE, !.observedGen = generation]
           /\ UNCHANGED draining
  <2>1. /\ st' \in StrategyState /\ st'.proc = st.proc /\ st'.inflight = None
        /\ st'.running = st.running /\ st'.prev = st.prev
    BY <1>1, <1>2, <1>3 DEF StrategyState, Phases
  <2> QED BY <1>2, <1>3, <2>1, StType, EditedSound
<1>4. CASE st' = s /\ UNCHANGED draining
  BY <1>1, <1>2, <1>4, StType, EditedSound
<1>5. CASE spawnDrain(s)
  <2>1. /\ st' \in StrategyState /\ draining' \in SUBSET Nat
        /\ st'.proc = st.proc /\ st'.inflight = None
        /\ st'.running = st.running /\ st'.prev = st.prev
    BY <1>1, <1>5, DrainType
  <2> QED BY <1>2, <2>1, StType, EditedSound
<1> QED BY <1>3, <1>4, <1>5 DEF reconcileStopped, s

\* A restart during the health window leaves a sound record.
LEMMA RestartInWindowSound ==
  ASSUME Inv, restartInWindow
  PROVE  Sound
<1>1. /\ desired # None /\ st.proc = 0 /\ st.running # None /\ current # None
      /\ startProcess(st, TRUE) /\ known' /\ UNCHANGED <<deploys, draining>>
  BY StType DEF restartInWindow, Quiet, Matches, versionMatches
<1> QED BY <1>1, StType, StartSound

\* Draining for a mode flip leaves a sound record.
LEMMA DrainForModeSound ==
  ASSUME Inv, drainForMode
  PROVE  Sound
<1>1. /\ spawnDrain(st) /\ known' /\ known' \in BOOLEAN /\ deploys' = deploys
      /\ UNCHANGED <<procs, watched, faults>>
  BY DEF drainForMode, Quiet
<1>2. /\ st' \in StrategyState /\ draining' \in SUBSET Nat
      /\ st'.proc = st.proc /\ st'.inflight = st.inflight
      /\ st'.running = st.running /\ st'.prev = st.prev
  BY <1>1, StType, DrainType
<1> QED BY <1>1, <1>2, StType, EditedSound

\* Relabelling replaces the running artifact's label only.
LEMMA RelabelledType ==
  ASSUME Inv, desired # None
  PROVE  /\ Relabelled(st) \in StrategyState /\ Relabelled(st).running # None
         /\ Relabelled(st).proc = st.proc /\ Relabelled(st).prev = st.prev
         /\ Relabelled(st).inflight = st.inflight
<1>1. desired.art \in Artifacts /\ desired.art # None
  BY AgentAssumption DEF Inv, TypeOK, Specs
<1> QED BY <1>1, StType DEF Relabelled, StrategyState, MaybeArtifact

\* The steady state changes labels and the observed generation only.
LEMMA SteadyStateSound ==
  ASSUME Inv, steadyState
  PROVE  Sound
<1> DEFINE s == Relabelled(st)
<1>1. /\ desired # None /\ current # None /\ known' /\ known' \in BOOLEAN /\ deploys' = deploys
      /\ UNCHANGED <<procs, watched, faults, draining>> /\ draining' \in SUBSET Nat
      /\ st' = [s EXCEPT !.observedGen = generation] /\ generation \in Nat
  BY StType DEF steadyState, Quiet, Free, Matches, versionMatches, Inv, TypeOK
<1>2. s \in StrategyState /\ s.proc = st.proc /\ s.inflight = st.inflight
  BY <1>1, RelabelledType
<1> HIDE DEF s
<1>3. st' \in StrategyState /\ st'.proc = st.proc /\ st'.inflight = st.inflight
  BY <1>1, <1>2 DEF StrategyState
<1> QED BY <1>1, <1>3, EditedSound

\* A crash restart leaves a sound record.
LEMMA RestartSound ==
  ASSUME Inv, restart
  PROVE  Sound
<1>1. /\ desired # None /\ current # None /\ st.proc = 0
      /\ startProcess(Relabelled(st), st.phase = "STOPPED")
      /\ known' /\ UNCHANGED <<deploys, draining>>
  BY StType DEF restart, Quiet, Free, Matches, versionMatches
<1> QED BY <1>1, RelabelledType, StartSound

\* A deploy begun is the one in flight.
LEMMA BeginDeploySound ==
  ASSUME Inv, beginDeploy
  PROVE  Sound
<1> DEFINE i == Len(deploys) + 1
           d == [pc |-> "announce", cancelled |-> FALSE, late |-> FALSE,
                 art |-> desired.art, cfg |-> desired.cfg, capture |-> desired.capture, old |-> st.proc, gen |-> generation]
<1>1. /\ desired # None /\ known' /\ known' \in BOOLEAN
      /\ UNCHANGED <<procs, watched, faults, draining>>
      /\ deploys' = Append(deploys, d)
      /\ st' = [st EXCEPT !.inflight = [ctx |-> i, art |-> desired.art, cfg |-> desired.cfg],
                          !.phase = "PENDING", !.prev = st.running, !.prevCfg = st.runCfg]
  BY DEF beginDeploy, Free
<1>2. /\ deploys \in Seq(Deploy) /\ i \in Nat /\ desired.art \in Artifacts
      /\ desired.cfg \in MaybeConfig /\ desired.capture \in BOOLEAN /\ generation \in Nat
      /\ procs' \in Seq(Process) /\ watched' \in SUBSET Nat /\ faults' \in Nat
      /\ draining' \in SUBSET Nat
  BY <1>1 DEF Inv, TypeOK, Specs
<1>3. d \in Deploy /\ d.pc = "announce"
  BY <1>2, StType DEF Deploy, WorkerPc
<1>4. /\ st' \in StrategyState /\ st'.proc = st.proc
      /\ st'.running = st.running /\ st'.prev = st.running
  <2> HIDE DEF i
  <2> QED BY <1>1, <1>2, StType DEF StrategyState, Inflight, Phases
<1> HIDE DEF d, i
<1>5. /\ deploys' \in Seq(Deploy)
      /\ current = None =>
           \A k \in 1..Len(deploys') : deploys'[k].pc \notin {"start", "report"}
  BY <1>1, <1>2, <1>3, AppendProperties DEF Inv, SwitchedFirst, Ctx, i
<1>6. /\ current = None => st'.running = None /\ st'.prev = None
      /\ st'.proc # 0 => known' /\ st'.proc \in watched'
  BY <1>1, <1>4, StType DEF Inv, ProcWatched
<1> QED BY <1>1, <1>2, <1>4, <1>5, <1>6 DEF Sound

\* A reconcile that waits changes nothing in the record.
LEMMA WaitsSound ==
  ASSUME Inv, reconcileWaits
  PROVE  Sound
<1>1. /\ known' \in BOOLEAN /\ UNCHANGED <<st, deploys, procs, watched, faults, draining>>
      /\ draining' \in SUBSET Nat /\ (known' \/ (~known /\ desired = None))
  BY DEF reconcileWaits, Inv, TypeOK
<1>2. known' \/ st'.proc = 0
  BY <1>1 DEF Inv, ProcWatched
<1> QED BY <1>1, <1>2, StType, EditedSound

\* No branch of reconcile breaks the invariant.
LEMMA ReconcileStep ==
  ASSUME Inv, Reconcile
  PROVE  Inv'
<1>1. Sound
  BY RetireSound, StoppedSound, RestartInWindowSound, DrainForModeSound, SteadyStateSound,
     RestartSound, BeginDeploySound, WaitsSound DEF Reconcile
<1>2. /\ loop' = "persist" /\ UNCHANGED <<cpVars, desired, generation, workerCh, probing, current,
                                        file, restarts>>
      /\ observedGenA' \in Nat
  BY DEF Reconcile, Inv, TypeOK
<1>3. TypeOK'
  BY <1>1, <1>2 DEF Sound, cpVars, Inv, TypeOK
<1>4. SwitchedFirst'
  BY <1>1, <1>2 DEF Sound, Inv, SwitchedFirst, Ctx
<1> QED BY <1>1, <1>2, <1>3, <1>4 DEF Sound, Inv, InflightWanted, ProcWatched
----------------------------------------------------------------------------
(* The supervision file, shutdown, crash and takeover *)

\* What the file saves is typed and names a release only if the record does.
LEMMA SnapshotType ==
  ASSUME Inv
  PROVE  /\ Snapshot \in SupervisionEntry \cup {None}
         /\ Snapshot # None =>
              Snapshot.running = st.running /\ Snapshot.prev = st.prev
BY StType DEF Snapshot, SupervisionEntry, StrategyState

\* The supervision file names what the record names.
LEMMA PersistStep ==
  ASSUME Inv, persistSupervision
  PROVE  Inv'
<1>1. TypeOK'
  BY SnapshotType DEF persistSupervision, cpVars, envVars, Inv, TypeOK
<1>2. SwitchedFirst'
  BY SnapshotType, StType DEF persistSupervision, envVars, Inv, SwitchedFirst, Ctx
<1> QED
  BY <1>1, <1>2 DEF persistSupervision, envVars, Inv, InflightWanted, ProcWatched

\* With the agent every worker, watcher and record is gone; the file it leaves
\* names no release the symlink never pointed at.
LEMMA GoneStep ==
  ASSUME Inv, AgentGone, file' = Snapshot \/ UNCHANGED file
  PROVE  Inv'
<1>1. /\ file' \in SupervisionEntry \cup {None}
      /\ (current = None /\ file' # None) => file'.running = None /\ file'.prev = None
  BY SnapshotType, StType DEF Inv, TypeOK, SwitchedFirst
<1>2. /\ deploys' \in Seq(Deploy)
      /\ \A i \in 1..Len(deploys') : deploys'[i].pc = "done"
  <2>1. deploys' = [i \in 1..Len(deploys) |-> [deploys[i] EXCEPT !.pc = "done"]]
    BY DEF AgentGone, Ctx
  <2>2. deploys \in Seq(Deploy) /\ Len(deploys) \in Nat
    BY DEF Inv, TypeOK
  <2>3. \A i \in 1..Len(deploys) :
          [deploys[i] EXCEPT !.pc = "done"] \in Deploy /\ [deploys[i] EXCEPT !.pc = "done"].pc = "done"
    <3>1. TAKE i \in 1..Len(deploys)
    <3>2. deploys[i] \in Deploy
      BY <2>2, <3>1
    <3> QED BY <3>2 DEF Deploy, WorkerPc
  <2>4. deploys' \in Seq(Deploy) /\ Len(deploys') = Len(deploys)
    BY <2>1, <2>2, <2>3, IsASeq
  <2> QED BY <2>1, <2>3, <2>4
<1>3. /\ st' = NewState /\ known' = FALSE /\ workerCh' = <<>> /\ desired' = None
      /\ UNCHANGED <<cpVars, procs, current, faults>>
      /\ loop' = "down" /\ watched' = {} /\ draining' = {} /\ probing' = {}
      /\ generation' = 0 /\ observedGenA' = 0 /\ restarts' = restarts + 1
  BY DEF AgentGone
<1>4. TypeOK'
  <2>1. workerCh' \in Seq(WorkerEvent)
    BY <1>3, EmptySeq
  <2>2. restarts' \in Nat
    BY <1>3 DEF Inv, TypeOK
  <2>3. watched' \in SUBSET Nat /\ draining' \in SUBSET Nat /\ probing' \in SUBSET Nat
    BY <1>3
  <2> QED BY <1>1, <1>2, <1>3, <2>1, <2>2, <2>3, NewStateType DEF cpVars, Inv, TypeOK
<1>5. /\ NewState.proc = 0 /\ NewState.running = None /\ NewState.prev = None
      /\ NewState.inflight = None
  BY DEF NewState
<1>6. SwitchedFirst'
  BY <1>1, <1>2, <1>3, <1>5 DEF SwitchedFirst, Ctx
<1> QED BY <1>3, <1>4, <1>5, <1>6 DEF Inv, InflightWanted, ProcWatched

\* The record rebuilt from the file, and the watcher of what it adopts.
LEMMA RebuildStep ==
  ASSUME Inv, rebuildActualState
  PROVE  Inv'
<1>1. CASE Adoptable
  <2>1. file \in SupervisionEntry
    BY <1>1 DEF Adoptable, Inv, TypeOK
  <2>2. /\ Adopted \in StrategyState /\ Adopted.proc = file.pid /\ Adopted.inflight = None
        /\ Adopted.running = file.running /\ Adopted.prev = file.prev
    <3>1. NewState \in StrategyState /\ NewState.inflight = None
      BY NewStateType DEF NewState
    <3> QED BY <2>1, <3>1 DEF Adopted, SupervisionEntry, StrategyState
  <2>3. /\ st' = Adopted /\ known' = TRUE /\ watched' = {file.pid} /\ file.pid \in Nat
        /\ loop' = "select"
        /\ UNCHANGED <<cpVars, desired, generation, observedGenA, deploys, workerCh, procs,
                       draining, probing, current, file, faults, restarts>>
    BY <1>1, <2>1 DEF rebuildActualState, AdoptedWatch, SupervisionEntry, Adoptable
  <2>4. TypeOK'
    BY <2>2, <2>3 DEF cpVars, Inv, TypeOK
  <2>5. SwitchedFirst'
    BY <1>1, <2>2, <2>3 DEF Inv, SwitchedFirst, Ctx, Adoptable
  <2> QED BY <2>2, <2>3, <2>4, <2>5 DEF Inv, InflightWanted, ProcWatched
<1>2. CASE ~Adoptable
  <2>1. /\ st' = NewState /\ known' = FALSE /\ watched' = {} /\ loop' = "select"
        /\ UNCHANGED <<cpVars, desired, generation, observedGenA, deploys, workerCh, procs,
                       draining, probing, current, file, faults, restarts>>
    BY <1>2 DEF rebuildActualState, AdoptedWatch, Adoptable
  <2>2. /\ NewState.proc = 0 /\ NewState.running = None /\ NewState.prev = None
        /\ NewState.inflight = None
    BY DEF NewState
  <2>3. TypeOK'
    BY <2>1, NewStateType DEF cpVars, Inv, TypeOK
  <2>4. SwitchedFirst'
    BY <2>1, <2>2 DEF Inv, SwitchedFirst, Ctx
  <2> QED BY <2>1, <2>2, <2>3, <2>4 DEF Inv, InflightWanted, ProcWatched
<1> QED BY <1>1, <1>2

----------------------------------------------------------------------------
(* Processes and time *)

\* A step of the environment that keeps the record's process, release and deploy.
LEMMA EnvStep ==
  ASSUME Inv, EnvRest, st' \in StrategyState, procs' \in Seq(Process),
         draining' \in SUBSET Nat, faults' \in Nat,
         st'.proc = st.proc, st'.inflight = st.inflight,
         st'.running = st.running, st'.prev = st.prev
  PROVE  Inv'
<1>1. TypeOK'
  BY DEF EnvRest, cpVars, Inv, TypeOK
<1>2. SwitchedFirst'
  BY DEF EnvRest, Inv, SwitchedFirst, Ctx
<1> QED BY <1>1, <1>2 DEF EnvRest, Inv, InflightWanted, ProcWatched

\* A process that ends on its own is still watched.
LEMMA ProcessExitsStep ==
  ASSUME Inv, NEW p \in Pid, ProcessExits(p)
  PROVE  Inv'
<1>1. p \in Nat /\ TypeOK
  BY DEF Pid, Inv
<1>2. EnvRest /\ procs' = Killed(p) /\ UNCHANGED <<st, draining>> /\ faults' \in Nat
  BY DEF ProcessExits, Fault, Inv, TypeOK
<1> QED BY <1>1, <1>2, KilledType, StType, EnvStep DEF TypeOK

\* A drained process is still watched.
LEMMA DrainDoneStep ==
  ASSUME Inv, NEW p \in Pid, DrainDone(p)
  PROVE  Inv'
<1>1. p \in Nat /\ TypeOK
  BY DEF Pid, Inv
<1>2. EnvRest /\ procs' = Killed(p) /\ UNCHANGED <<st, faults>> /\ draining' \in SUBSET Nat
  BY DEF DrainDone, Inv, TypeOK
<1> QED BY <1>1, <1>2, KilledType, StType, EnvStep DEF TypeOK

\* The backoff and the health window only set flags.
LEMMA ClockStep ==
  ASSUME Inv, BackoffElapses \/ WindowElapses
  PROVE  Inv'
<1>1. /\ st' \in StrategyState /\ st'.proc = st.proc /\ st'.inflight = st.inflight
      /\ st'.running = st.running /\ st'.prev = st.prev
  BY StType DEF BackoffElapses, WindowElapses, StrategyState
<1>2. /\ EnvRest /\ UNCHANGED <<procs, draining, faults>>
  BY DEF BackoffElapses, WindowElapses
<1>3. procs' \in Seq(Process) /\ draining' \in SUBSET Nat /\ faults' \in Nat
  BY <1>2 DEF Inv, TypeOK
<1> QED BY <1>1, <1>2, <1>3, EnvStep

----------------------------------------------------------------------------
(* The invariant and its consequences *)

\* The agent starts within the invariant.
LEMMA InvInit == Init => Inv
<1> SUFFICES ASSUME Init PROVE Inv
  OBVIOUS
<1>1. /\ NewState.proc = 0 /\ NewState.running = None /\ NewState.prev = None
      /\ NewState.inflight = None
  BY DEF NewState
<1>2. TypeOK
  <2>1. deploys \in Seq(Deploy) /\ workerCh \in Seq(WorkerEvent) /\ procs \in Seq(Process)
    BY EmptySeq DEF Init
  <2>2. st \in StrategyState /\ current \in MaybeArtifact
    BY NewStateType DEF Init, MaybeArtifact
  <2> QED BY <2>1, <2>2 DEF Init, TypeOK
<1> QED BY <1>1, <1>2 DEF Init, Inv, SwitchedFirst, InflightWanted, ProcWatched, Ctx

\* Every step of the agent and of its environment keeps the invariant.
LEMMA InvNext == Inv /\ [Next]_vars => Inv'
<1> SUFFICES ASSUME Inv, [Next]_vars PROVE Inv'
  OBVIOUS
<1>1. CASE Publish
  BY <1>1, PublishStep
<1>2. CASE applyDesired
  BY <1>2, ApplyDesiredStep
<1>3. ASSUME NEW i \in Ctx, WorkerStep(i) PROVE Inv'
  BY <1>3, WorkerKeepsInv
<1>4. CASE applyWorkerEvent
  BY <1>4, ApplyWorkerEventStep
<1>5. ASSUME NEW p \in Pid, handleExit(p) PROVE Inv'
  BY <1>5, HandleExitStep
<1>6. ASSUME NEW p \in Pid, applyHealthResult(p) PROVE Inv'
  BY <1>6, ApplyHealthResultStep
<1>7. ASSUME NEW p \in Pid, ProcessExits(p) PROVE Inv'
  BY <1>7, ProcessExitsStep
<1>8. ASSUME NEW p \in Pid, DrainDone(p) PROVE Inv'
  BY <1>8, DrainDoneStep
<1>9. CASE Tick
  BY <1>9, TickStep
<1>10. CASE Reconcile
  BY <1>10, ReconcileStep
<1>11. CASE persistSupervision
  BY <1>11, PersistStep
<1>12. CASE shutdown \/ Crash
  BY <1>12, GoneStep DEF shutdown, Crash
<1>13. CASE rebuildActualState
  BY <1>13, RebuildStep
<1>14. CASE BackoffElapses \/ WindowElapses
  BY <1>14, ClockStep
<1>15. CASE UNCHANGED vars
  BY <1>15 DEF vars, Inv, TypeOK, SwitchedFirst, InflightWanted, ProcWatched, Ctx
<1> QED
  BY <1>1, <1>2, <1>3, <1>4, <1>5, <1>6, <1>7, <1>8, <1>9, <1>10, <1>11, <1>12, <1>13, <1>14,
     <1>15 DEF Next

\* Inv is inductive.
THEOREM Invariance == Spec => []Inv
BY InvInit, InvNext, PTL DEF Spec

\* Every variable keeps its type for any history, fault budget and number of
\* restarts; in particular no process is started without a release to run, on
\* any path through deploys, rollbacks, restarts and takeovers.
THEOREM TypeCorrect == Spec => []TypeOK
<1>1. Inv => TypeOK
  BY DEF Inv
<1> QED BY Invariance, <1>1, PTL

\* The exit of whatever the agent supervises, started or adopted, will be
\* delivered to it: handleExit gives up a watcher only with the handle, and
\* every handle installed or rebuilt gets one.
THEOREM ExitsAreWatched == Spec => []NoExitIsMissed
<1>1. Inv => NoExitIsMissed
  BY DEF Inv, ProcWatched, NoExitIsMissed
<1> QED BY Invariance, <1>1, PTL


----------------------------------------------------------------------------
(* HEALTHY is never said of a dead process *)

\* What every record the handlers leave is: a process being stopped is not up,
\* and one that is has no deploy in flight and waits for no backoff.
Upright(s) ==
  /\ s.stopping => s.phase \notin {"HEALTH_CHECKING", "HEALTHY"}
  /\ s.phase = "HEALTHY" => s.inflight = None /\ ~s.blocked

\* A strategy the agent does not know has an empty record.
UnknownIsNew == ~known => st = NewState

\* Between a reconcile and the next event, and while an event is waited for.
RestIsUp ==
  loop \in {"select", "persist"} /\ known /\ st.phase = "HEALTHY" => st.proc # 0 \/ Refuses

HealthInv == Upright(st) /\ UnknownIsNew /\ RestIsUp

\* The empty record is upright.
LEMMA NewStateUpright == Upright(NewState) /\ NewState.proc = 0 /\ NewState.phase = "PENDING"
BY DEF NewState, Upright

\* Taking the deploy out of flight keeps a record upright.
LEMMA DroppedUpright ==
  ASSUME NEW s \in StrategyState, Upright(s)
  PROVE  Upright([s EXCEPT !.inflight = None]) /\ [s EXCEPT !.inflight = None].phase = s.phase
BY DEF Upright, StrategyState

\* A drained record is upright whatever it was.
LEMMA DrainUpright ==
  ASSUME NEW s \in StrategyState, spawnDrain(s)
  PROVE  Upright(st') /\ st'.phase = "DRAINING"
BY DEF spawnDrain, Upright, StrategyState

\* So is what a due restart schedule leaves of an upright record.
LEMMA CronUpright ==
  ASSUME NEW s \in StrategyState, Upright(s), tickCron(s)
  PROVE  Upright(st')
BY DrainUpright DEF tickCron

\* A rollback ends FAILED or ROLLED_BACK.
LEMMA RollbackUpright ==
  ASSUME Inv, NEW s \in StrategyState, NEW w, beginRollback(s, w)
  PROVE  Upright(st') /\ st'.phase \in {"FAILED", "ROLLED_BACK"}
<1>1. st'.phase \in {"FAILED", "ROLLED_BACK"}
  BY DEF beginRollback, Install, StrategyState
<1> QED BY <1>1 DEF Upright

\* A start leaves an upright record with a process, unless it fails.
LEMMA StartUpright ==
  ASSUME Inv, NEW s \in StrategyState, NEW hc \in BOOLEAN, s.inflight = None \/ hc, ~s.blocked,
         startProcess(s, hc)
  PROVE  Upright(st') /\ (st'.phase = "HEALTHY" => st'.proc # 0)
<1>1. Len(procs) + 1 \in Nat \ {0}
  BY DEF Inv, TypeOK
<1>2. CASE st' = [Install(s, Len(procs) + 1, desired.capture)
                   EXCEPT !.phase = IF hc THEN "HEALTH_CHECKING" ELSE "HEALTHY",
                          !.windowOver = IF hc THEN FALSE ELSE @,
                          !.observedGen = IF hc THEN @ ELSE generation]
  <2>1. /\ st'.stopping = FALSE /\ st'.inflight = s.inflight /\ st'.blocked = s.blocked
        /\ st'.proc = Len(procs) + 1 /\ st'.phase = IF hc THEN "HEALTH_CHECKING" ELSE "HEALTHY"
    BY <1>2 DEF Install, StrategyState
  <2> QED BY <1>1, <2>1 DEF Upright
<1>3. CASE st' = [s EXCEPT !.phase = "FAILED", !.crashes = @ + 1, !.blocked = TRUE]
  BY <1>3 DEF Upright, StrategyState
<1> QED BY <1>2, <1>3 DEF startProcess

\* A step of the main loop's select leaves an upright record; rest comes after
\* the reconcile that follows.
LEMMA ServedHealth ==
  ASSUME loop' = "reconcile", Upright(st'), UnknownIsNew'
  PROVE  HealthInv'
BY DEF HealthInv, RestIsUp

\* A step that leaves the strategy, its record and the order alone.
LEMMA SameHealth ==
  ASSUME HealthInv, UNCHANGED <<desired, known, st>>,
         loop' = loop \/ (loop = "persist" /\ loop' = "select")
  PROVE  HealthInv'
<1>1. Upright(st)' /\ UnknownIsNew'
  BY DEF HealthInv, Upright, UnknownIsNew, NewState
<1>2. RestIsUp'
  BY DEF HealthInv, RestIsUp, Refuses, Matches, versionMatches, SkipsBadVersion
<1> QED BY <1>1, <1>2 DEF HealthInv

\* A new snapshot is followed by a reconcile.
LEMMA ApplyDesiredHealth ==
  ASSUME Inv, HealthInv, applyDesired
  PROVE  HealthInv'
<1>1. loop' = "reconcile" /\ known' = known
  BY DEF applyDesired
<1>2. Upright(st')
  BY StType, DroppedUpright DEF applyDesired, HealthInv
<1>3. UnknownIsNew'
  BY <1>1 DEF applyDesired, Withdraws, HealthInv, UnknownIsNew, NewState
<1> QED BY <1>1, <1>2, <1>3, ServedHealth

\* Progress, a start, a rollback and a failure all leave an upright record.
LEMMA ApplyWorkerEventHealth ==
  ASSUME Inv, HealthInv, applyWorkerEvent
  PROVE  HealthInv'
<1> DEFINE ev == Head(workerCh)
           progress == [st EXCEPT !.phase = ev.phase]
<1>1. loop' = "reconcile" /\ known' = known
  BY DEF applyWorkerEvent, Serve
<1>2. CASE UNCHANGED st /\ ~Heeded(ev)
  BY <1>1, <1>2, ServedHealth DEF HealthInv, UnknownIsNew, Upright, NewState
<1>3. CASE Heeded(ev) /\ Upright(st')
  BY <1>1, <1>3, ServedHealth DEF Heeded, UnknownIsNew
<1>4. ASSUME ev.phase \in {"DOWNLOADING", "VERIFYING", "SWITCHING", "DRAINING"},
             st' = [progress EXCEPT !.stopping = @ \/ ev.phase = "DRAINING"]
      PROVE  Upright(st')
  <2>1. st'.phase = ev.phase
    BY <1>4, StType DEF StrategyState
  <2> QED BY <1>4, <2>1 DEF Upright
<1>5. ASSUME st' = [Install(progress, ev.proc, ev.capture)
                      EXCEPT !.running = ev.art, !.runCfg = ev.cfg, !.windowOver = FALSE,
                             !.crashes = 0, !.blocked = FALSE],
             ev.phase = "HEALTH_CHECKING"
      PROVE  Upright(st')
  <2>1. st'.phase = "HEALTH_CHECKING" /\ st'.stopping = FALSE
    BY <1>5, StType DEF Install, StrategyState
  <2> QED BY <2>1 DEF Upright
<1>6. ASSUME beginRollback(st, watched) PROVE Upright(st')
  BY <1>6, StType, RollbackUpright
<1>7. ASSUME ev.phase = "FAILED",
             st' = [progress EXCEPT !.stopping = FALSE, !.failedAtGen = generation,
                                    !.inflight = None]
      PROVE  Upright(st')
  <2>1. st'.phase = "FAILED"
    BY <1>7, StType DEF StrategyState
  <2> QED BY <2>1 DEF Upright
<1>8. (UNCHANGED st /\ ~Heeded(ev)) \/ (Heeded(ev) /\ Upright(st'))
  BY <1>4, <1>5, <1>6, <1>7 DEF applyWorkerEvent
<1> QED BY <1>2, <1>3, <1>8

\* The demotion: an exit nobody ordered takes HEALTHY away, and an ordered one
\* finds the record already drained.
LEMMA HandleExitHealth ==
  ASSUME Inv, HealthInv, NEW p \in Pid, handleExit(p)
  PROVE  HealthInv'
<1> DEFINE gone == [st EXCEPT !.proc = 0]
           w    == watched \ {p}
<1>1. loop' = "reconcile" /\ st \in StrategyState /\ Upright(st)
  BY StType DEF handleExit, Serve, HealthInv
<1>2. gone \in StrategyState /\ Upright(gone) /\ gone.stopping = st.stopping
  BY <1>1 DEF Upright, StrategyState
<1>3. CASE UNCHANGED <<st, known>>
  BY <1>1, <1>3, ServedHealth DEF HealthInv, UnknownIsNew, Upright, NewState
<1>4. CASE /\ known' = (desired # None \/ ~st.stopping)
           /\ st' = IF known' THEN [gone EXCEPT !.stopping = FALSE] ELSE NewState
  <2>1. Upright([gone EXCEPT !.stopping = FALSE])
    <3> HIDE DEF gone
    <3> QED BY <1>2 DEF Upright, StrategyState
  <2>2. Upright(st') /\ UnknownIsNew'
    BY <1>4, <2>1, NewStateUpright DEF UnknownIsNew, NewState
  <2> QED BY <1>1, <2>2, ServedHealth
<1>5. CASE known /\ UnexpectedExit(gone, w) /\ UNCHANGED known /\ ~st.stopping
  <2> HIDE DEF gone, w
  <2> DEFINE crashed == [gone EXCEPT !.crashes = gone.crashes + 1, !.blocked = TRUE]
             clean   == [gone EXCEPT !.crashes = 0, !.blocked = FALSE]
  <2>0. gone.crashes + 1 \in Nat /\ ~gone.stopping
    BY <1>2, <1>5 DEF StrategyState
  <2>1. crashed \in StrategyState /\ clean \in StrategyState
        /\ ~crashed.stopping /\ ~clean.stopping
    BY <1>2, <2>0 DEF StrategyState
  <2> HIDE DEF crashed, clean
  <2>2. ASSUME NEW s \in StrategyState, ~s.stopping PROVE Upright(Demoted(s))
    BY <2>2 DEF Demoted, Upright, StrategyState
  <2>3. beginRollback(crashed, w) => Upright(st')
    BY <2>1, RollbackUpright
  <2>4. beginRollback(crashed, w) \/ st' = Demoted(crashed) \/ st' = Demoted(clean)
    BY <1>5 DEF UnexpectedExit, crashed, clean
  <2>5. Upright(st')
    BY <2>1, <2>2, <2>3, <2>4
  <2> QED BY <1>1, <1>5, <2>5, ServedHealth DEF UnknownIsNew
<1> QED BY <1>3, <1>4, <1>5 DEF handleExit

\* The tick promotes only a process that lives in its window.
LEMMA TickHealth ==
  ASSUME Inv, HealthInv, Tick
  PROVE  HealthInv'
<1>1. loop' = "reconcile" /\ known' = known /\ st \in StrategyState /\ Upright(st)
  BY StType DEF Tick, Serve, HealthInv
<1>2. MarkedHealthy(st) \in StrategyState
  BY <1>1, MarkedHealthyType DEF Inv
<1>3. st.phase = "HEALTH_CHECKING" => Upright(MarkedHealthy(st))
  BY <1>1 DEF MarkedHealthy, Upright, StrategyState
<1>4. /\ [st EXCEPT !.probing = TRUE] \in StrategyState
      /\ Upright([st EXCEPT !.probing = TRUE])
  BY <1>1 DEF Upright, StrategyState
<1>5. beginRollback(st, watched) => Upright(st')
  BY <1>1, RollbackUpright
<1>6. failHealthWindow => Upright(st')
  BY <1>1 DEF failHealthWindow, Upright, StrategyState
<1>7. Upright(st')
  BY <1>1, <1>2, <1>3, <1>4, <1>5, <1>6, CronUpright DEF Tick
<1>8. UnknownIsNew'
  <2>1. CASE known
    BY <1>1, <2>1 DEF UnknownIsNew
  <2>2. CASE ~known
    <3>1. tickCron(st)
      BY <2>2 DEF Tick
    <3>2. st' = st
      BY <2>2, <3>1 DEF tickCron, cronCanRun
    <3> QED BY <2>2, <3>2, <1>1 DEF HealthInv, UnknownIsNew, NewState
  <2> QED BY <2>1, <2>2
<1> QED BY <1>1, <1>7, <1>8, ServedHealth

\* A probe's answer promotes the record it finds, dead process or not: the
\* reconcile that follows restarts it.
LEMMA ApplyHealthResultHealth ==
  ASSUME Inv, HealthInv, NEW p \in Pid, applyHealthResult(p)
  PROVE  HealthInv'
<1> DEFINE s == [st EXCEPT !.probing = FALSE]
<1>1. /\ loop' = "reconcile" /\ known' = known /\ st \in StrategyState /\ Upright(st)
      /\ ~known => st' = st
      /\ st' = st \/ st' = s \/ (s.phase = "HEALTH_CHECKING" /\ st' = MarkedHealthy(s))
  BY StType DEF applyHealthResult, Serve, HealthInv
<1>2. s \in StrategyState /\ Upright(s)
  BY <1>1 DEF Upright, StrategyState
<1> HIDE DEF s
<1>3. s.phase = "HEALTH_CHECKING" => Upright(MarkedHealthy(s))
  BY <1>2 DEF MarkedHealthy, Upright, StrategyState
<1>4. Upright(st')
  BY <1>1, <1>2, <1>3
<1>5. UnknownIsNew'
  BY <1>1 DEF HealthInv, UnknownIsNew, NewState
<1> QED BY <1>1, <1>4, <1>5, ServedHealth

\* What a reconcile leaves HEALTHY has a process, or a version it refuses.
LEMMA ReconcileHealth ==
  ASSUME Inv, HealthInv, Reconcile
  PROVE  HealthInv'
<1> DEFINE Up == Upright(st') /\ (known' /\ st'.phase = "HEALTHY" => st'.proc # 0 \/ Refuses')
           s  == [st EXCEPT !.inflight = None]
<1>1. loop' = "persist" /\ desired' = desired /\ st \in StrategyState /\ Upright(st)
  BY StType DEF Reconcile, HealthInv
<1>2. s \in StrategyState /\ Upright(s)
  BY <1>1, DroppedUpright, DroppedType
<1>3. ASSUME retireStrategy \/ reconcileStopped PROVE Up /\ UnknownIsNew'
  <2>1. spawnDrain(s) => Upright(st') /\ st'.phase = "DRAINING"
    BY <1>2, DrainUpright
  <2>2. st' = [s EXCEPT !.phase = "STOPPED", !.stopping = FALSE, !.observedGen = generation]
          => Upright(st') /\ st'.phase = "STOPPED"
    <3> HIDE DEF s
    <3> QED BY <1>2 DEF Upright, StrategyState
  <2>3. \/ st' = NewState /\ known' = FALSE
        \/ st' = s /\ s.stopping /\ known'
        \/ spawnDrain(s) /\ known'
        \/ /\ st' = [s EXCEPT !.phase = "STOPPED", !.stopping = FALSE, !.observedGen = generation]
           /\ known'
    BY <1>3 DEF retireStrategy, reconcileStopped
  <2> HIDE DEF s
  <2> QED BY <1>2, <2>1, <2>2, <2>3, NewStateUpright DEF UnknownIsNew, Upright, NewState
<1>4. ASSUME restartInWindow \/ restart PROVE Up /\ known'
  <2>1. known' /\ ~st.blocked
    BY <1>4 DEF restartInWindow, restart, Quiet, Free
  <2>2. restartInWindow => startProcess(st, TRUE)
    BY DEF restartInWindow
  <2>3. restart => /\ startProcess(Relabelled(st), st.phase = "STOPPED")
                   /\ Relabelled(st) \in StrategyState /\ Relabelled(st).inflight = None
                   /\ ~Relabelled(st).blocked
    BY <1>1, RelabelledType DEF restart, Free, Relabelled, StrategyState
  <2> QED BY <1>1, <1>4, <2>1, <2>2, <2>3, StartUpright
<1>5. ASSUME drainForMode PROVE Up /\ known'
  BY <1>1, <1>5, DrainUpright DEF drainForMode, Quiet
<1>6. ASSUME steadyState PROVE Up /\ known'
  <2>1. st' = [Relabelled(st) EXCEPT !.observedGen = generation] /\ st.proc # 0 /\ known'
    BY <1>6 DEF steadyState, Quiet
  <2> QED BY <1>1, <2>1 DEF Relabelled, Upright, StrategyState
<1>7. ASSUME beginDeploy PROVE Up /\ known'
  <2>1. st'.phase = "PENDING" /\ known'
    BY <1>1, <1>7 DEF beginDeploy, StrategyState
  <2> QED BY <2>1 DEF Upright
<1>8. ASSUME reconcileWaits PROVE Up /\ UnknownIsNew'
  <2>1. st' = st /\ known' = (desired # None) /\ (desired = None => ~known)
    BY <1>8 DEF reconcileWaits
  <2>2. UnknownIsNew'
    BY <2>1 DEF HealthInv, UnknownIsNew, NewState
  <2>3. known' /\ st.phase = "HEALTHY" => st.proc # 0 \/ Refuses
    BY <1>1, <1>8, <2>1 DEF reconcileWaits, Upright, Terminal, Refuses
  <2>4. Refuses' = Refuses
    BY <1>1, <2>1 DEF Refuses, Matches, versionMatches, SkipsBadVersion
  <2> QED BY <1>1, <2>1, <2>2, <2>3, <2>4
<1>9. Up /\ UnknownIsNew'
  BY <1>3, <1>4, <1>5, <1>6, <1>7, <1>8 DEF Reconcile, UnknownIsNew
<1> QED BY <1>1, <1>9 DEF HealthInv, RestIsUp

\* A strategy taken over is up only with the process that was found.
LEMMA RebuildHealth ==
  ASSUME Inv, HealthInv, rebuildActualState
  PROVE  HealthInv'
<1>1. CASE Adoptable
  <2>1. st' = Adopted /\ known' = TRUE /\ file \in SupervisionEntry
    BY <1>1 DEF rebuildActualState, Adoptable, Inv, TypeOK
  <2>2. st'.proc = file.pid /\ ~st'.stopping /\ ~st'.blocked /\ st'.inflight = None
    BY <2>1 DEF Adopted, NewState, SupervisionEntry
  <2>3. file.pid # 0
    BY <1>1 DEF Adoptable, Live, Pid
  <2> QED BY <2>1, <2>2, <2>3 DEF HealthInv, Upright, UnknownIsNew, RestIsUp
<1>2. CASE ~Adoptable
  <2>1. st' = NewState /\ known' = FALSE
    BY <1>2 DEF rebuildActualState
  <2> QED BY <2>1, NewStateUpright DEF HealthInv, UnknownIsNew, RestIsUp, Upright, NewState
<1> QED BY <1>1, <1>2

\* HealthInv holds at the start.
LEMMA HealthInit == Init => HealthInv
BY NewStateUpright DEF Init, HealthInv, UnknownIsNew, RestIsUp, Upright, NewState

\* Every step keeps it.
LEMMA HealthNext == Inv /\ HealthInv /\ [Next]_vars => HealthInv'
<1> SUFFICES ASSUME Inv, HealthInv, [Next]_vars PROVE HealthInv'
  OBVIOUS
<1>1. CASE applyDesired \/ applyWorkerEvent \/ Tick \/ Reconcile \/ rebuildActualState
  BY <1>1, ApplyDesiredHealth, ApplyWorkerEventHealth, TickHealth, ReconcileHealth, RebuildHealth
<1>2. ASSUME NEW i \in Ctx, WorkerStep(i) PROVE HealthInv'
  <2>1. UNCHANGED <<desired, known, st, loop>>
    BY <1>2 DEF WorkerStep, Announce, Download, Verify, DrainOld, CheckWithdrawn, SwitchTo,
                StartNew, ReportStarted, WorkerFails, WorkerAt
  <2> QED BY <2>1, SameHealth
<1>3. ASSUME NEW p \in Pid, handleExit(p) PROVE HealthInv'
  BY <1>3, HandleExitHealth
<1>4. ASSUME NEW p \in Pid, applyHealthResult(p) PROVE HealthInv'
  BY <1>4, ApplyHealthResultHealth
<1>5. ASSUME NEW p \in Pid, ProcessExits(p) \/ DrainDone(p) PROVE HealthInv'
  BY <1>5, SameHealth DEF ProcessExits, DrainDone, EnvRest
<1>6. CASE Publish \/ persistSupervision \/ UNCHANGED vars
  BY <1>6, SameHealth DEF Publish, persistSupervision, vars
<1>7. CASE shutdown \/ Crash
  <2>1. st' = NewState /\ known' = FALSE
    BY <1>7 DEF shutdown, Crash, AgentGone
  <2> QED BY <2>1, NewStateUpright DEF HealthInv, UnknownIsNew, RestIsUp, Upright, NewState
<1>8. CASE BackoffElapses \/ WindowElapses
  <2>1. /\ UNCHANGED <<desired, known, loop>> /\ st \in StrategyState
        /\ \/ st.blocked /\ st' = [st EXCEPT !.blocked = FALSE]
           \/ ~st.windowOver /\ st' = [st EXCEPT !.windowOver = TRUE]
    BY <1>8, StType DEF BackoffElapses, WindowElapses, EnvRest
  <2>2. Upright(st') /\ UnknownIsNew'
    BY <2>1 DEF HealthInv, Upright, UnknownIsNew, NewState, StrategyState
  <2>3. /\ st'.phase = st.phase /\ st'.proc = st.proc /\ st'.running = st.running
        /\ st'.runCfg = st.runCfg /\ st'.lastBad = st.lastBad
    BY <2>1 DEF StrategyState
  <2>4. RestIsUp'
    BY <2>1, <2>3 DEF HealthInv, RestIsUp, Refuses, Matches, versionMatches, SkipsBadVersion
  <2> QED BY <2>2, <2>4 DEF HealthInv
<1> QED BY <1>1, <1>2, <1>3, <1>4, <1>5, <1>6, <1>7, <1>8 DEF Next

\* HEALTHY is never advertised at rest for a dead process, whatever exits, probe
\* answers and takeovers interleave, except for a version the agent refuses.
THEOREM HealthyMeansAlive == Spec => []HealthyIsAlive
<1>1. HealthInv => HealthyIsAlive
  BY DEF HealthInv, RestIsUp, HealthyIsAlive
<1> QED BY Invariance, HealthInit, HealthNext, <1>1, PTL DEF Spec

----------------------------------------------------------------------------
(* Who owns a process: the books of deploys, events and pids *)

Sent(i)     == \E k \in 1..Len(workerCh) : workerCh[k].ctx = i
Finished(i) == deploys[i].pc = "done" /\ ~Sent(i)
LastWord(ev) == ev.phase \in {"HEALTH_CHECKING", "FAILED", "ROLLING_BACK"}

\* Every pid and context number named anywhere has been given out, and the
\* deploy in flight is the last one begun.
Counted ==
  /\ st.proc \in 0..Len(procs)
  /\ draining \subseteq Pid
  /\ \A i \in Ctx : deploys[i].old \in 0..Len(procs)
  /\ \A p \in Pid : procs[p].ctx \in 0..Len(deploys)
  /\ st.inflight # None =>
       /\ Len(deploys) # 0 /\ st.inflight.ctx = Len(deploys)
       /\ st.inflight.art = deploys[Len(deploys)].art
       /\ st.inflight.cfg = deploys[Len(deploys)].cfg

\* A deploy starts one process, as its last step but the report.
StartedOnce ==
  /\ \A p \in Pid : procs[p].ctx # 0 => deploys[procs[p].ctx].pc \in {"report", "done"}
  /\ \A p, q \in Pid : procs[p].ctx = procs[q].ctx /\ procs[p].ctx # 0 => p = q

\* An event is its deploy's, and a start, a failure or a rollback is the last
\* thing a worker says.
EventsKnown ==
  \A k \in 1..Len(workerCh) :
    /\ workerCh[k].ctx \in Ctx
    /\ workerCh[k].art = deploys[workerCh[k].ctx].art
    /\ workerCh[k].cfg = deploys[workerCh[k].ctx].cfg
    /\ workerCh[k].phase = "HEALTH_CHECKING" =>
         workerCh[k].proc \in Pid /\ procs[workerCh[k].proc].ctx = workerCh[k].ctx
    /\ workerCh[k].phase # "HEALTH_CHECKING" => workerCh[k].proc = 0
    /\ LastWord(workerCh[k]) =>
         /\ deploys[workerCh[k].ctx].pc = "done"
         /\ \A l \in 1..Len(workerCh) : k < l => workerCh[l].ctx # workerCh[k].ctx

\* Past its drain a worker has stopped the process it found at the start.
OldStopped ==
  \A i \in Ctx :
    (deploys[i].pc \in {"check", "switch", "start", "report"} \/ \E p \in Pid : procs[p].ctx = i)
      => ~Live(deploys[i].old)

\* A process on its way from its worker is neither supervised nor being stopped.
TransitApart == \A p \in Pid : InTransit(p) => p # st.proc /\ p \notin draining

\* A deploy in flight over a drain is one begun over that process.
DrainUnder == st.inflight # None /\ st.proc \in draining => deploys[st.inflight.ctx].old = st.proc

Books == Counted /\ StartedOnce /\ EventsKnown /\ OldStopped /\ TransitApart /\ DrainUnder
         /\ DrainIsExpected

----------------------------------------------------------------------------
(* What a step of the main loop or of the environment leaves of the books *)

KeepsDeploys ==
  /\ Len(deploys') = Len(deploys)
  /\ \A i \in Ctx :
       /\ deploys'[i].pc = deploys[i].pc /\ deploys'[i].old = deploys[i].old
       /\ deploys'[i].art = deploys[i].art /\ deploys'[i].cfg = deploys[i].cfg
       /\ deploys'[i].gen = deploys[i].gen
       /\ deploys[i].cancelled => deploys'[i].cancelled
       /\ deploys[i].late => deploys'[i].late

\* Processes may die, and the loop may start one.
KeepsProcs ==
  /\ Len(procs') \in Nat /\ Len(procs) <= Len(procs')
  /\ \A p \in Pid : /\ procs'[p].ctx = procs[p].ctx /\ procs'[p].art = procs[p].art
                    /\ procs'[p].alive => procs[p].alive
  /\ \A p \in 1..Len(procs') : p > Len(procs) => procs'[p].ctx = 0

KeepsEvents == workerCh' = workerCh \/ (workerCh # <<>> /\ workerCh' = Tail(workerCh))

\* Cancelling touches no other field, and no other deploy.
LEMMA CancelFrame ==
  ASSUME Inv, NEW s \in StrategyState, deploys' = WithCancel(s)
  PROVE  /\ KeepsDeploys
         /\ \A i \in Ctx : deploys'[i].cancelled =>
              deploys[i].cancelled \/ (s.inflight # None /\ s.inflight.ctx = i)
         /\ \A i \in Ctx : deploys'[i].late =>
              deploys[i].late \/ (s.inflight # None /\ s.inflight.ctx = i /\ Committed(i))
         /\ s.inflight # None /\ s.inflight.ctx \in Ctx =>
              /\ deploys'[s.inflight.ctx].cancelled
              /\ Committed(s.inflight.ctx) => deploys'[s.inflight.ctx].late
<1>1. deploys \in Seq(Deploy)
  BY DEF Inv, TypeOK
<1>2. CASE s.inflight = None
  BY <1>1, <1>2 DEF WithCancel, KeepsDeploys
<1>3. CASE s.inflight # None
  <2> DEFINE c == s.inflight.ctx
             l == deploys[c].late \/ Committed(c)
             e == [deploys[c] EXCEPT !.cancelled = TRUE, !.late = l]
  <2>1. deploys' = [deploys EXCEPT ![c] = e]
    BY <1>3 DEF WithCancel
  <2>2. \A i \in Ctx : deploys[i] \in Deploy
    BY <1>1 DEF Ctx
  <2>3. c \in Ctx => /\ e.pc = deploys[c].pc /\ e.old = deploys[c].old /\ e.art = deploys[c].art
                    /\ e.cfg = deploys[c].cfg /\ e.gen = deploys[c].gen /\ e.cancelled
                    /\ e.late = l
    BY <2>2 DEF Deploy
  <2> HIDE DEF e
  <2>4. Len(deploys') = Len(deploys)
    BY <1>1, <2>1
  <2>5. \A i \in Ctx : deploys'[i] = IF i = c THEN e ELSE deploys[i]
    BY <1>1, <2>1 DEF Ctx
  <2> QED BY <1>3, <2>3, <2>4, <2>5 DEF KeepsDeploys
<1> QED BY <1>2, <1>3

\* Stopping a process touches no other.
LEMMA KilledFrame ==
  ASSUME Inv, NEW p \in Nat, procs' = Killed(p)
  PROVE  /\ KeepsProcs /\ Len(procs') = Len(procs)
         /\ \A q \in Pid : q # p => procs'[q] = procs[q]
         /\ ~Live(p)'
<1>1. procs \in Seq(Process)
  BY DEF Inv, TypeOK
<1>2. CASE p = 0
  BY <1>1, <1>2 DEF Killed, KeepsProcs, Live, Pid
<1>3. CASE p # 0
  <2> DEFINE e == [procs[p] EXCEPT !.alive = FALSE]
  <2>1. procs' = [procs EXCEPT ![p] = e]
    BY <1>3 DEF Killed
  <2>2. \A q \in Pid : procs[q] \in Process
    BY <1>1 DEF Pid
  <2>3. p \in Pid => e.ctx = procs[p].ctx /\ e.art = procs[p].art /\ ~e.alive
    BY <2>2 DEF Process
  <2> HIDE DEF e
  <2>4. Len(procs') = Len(procs) /\ Len(procs) \in Nat
    BY <1>1, <2>1
  <2>5. \A q \in Pid : procs'[q] = IF q = p THEN e ELSE procs[q]
    BY <1>1, <2>1 DEF Pid
  <2>6. ~Live(p)'
    BY <2>3, <2>4, <2>5 DEF Live, Pid
  <2> QED BY <2>3, <2>4, <2>5, <2>6 DEF KeepsProcs, Pid
<1> QED BY <1>2, <1>3

\* A process started by the main loop gets the next pid.
LEMMA StartedFrame ==
  ASSUME Inv, NEW q \in Seq(Process), Len(q) = Len(procs),
         \A p \in Pid : /\ q[p].ctx = procs[p].ctx /\ q[p].art = procs[p].art
                        /\ q[p].alive => procs[p].alive,
         NEW a, procs' = Append(q, [alive |-> TRUE, art |-> a, ctx |-> 0])
  PROVE  /\ KeepsProcs /\ Len(procs') = Len(procs) + 1
         /\ \A p \in Pid : procs'[p] = q[p]
<1>1. procs \in Seq(Process) /\ Len(procs) \in Nat
  BY DEF Inv, TypeOK
<1>2. /\ Len(procs') = Len(procs) + 1 /\ procs'[Len(procs) + 1].ctx = 0
      /\ \A p \in 1..Len(procs) : procs'[p] = q[p]
  BY <1>1
<1> QED BY <1>1, <1>2 DEF KeepsProcs, Pid

\* The sequences behind the books.
LEMMA BooksTypes ==
  ASSUME Inv
  PROVE  /\ Len(deploys) \in Nat /\ Len(procs) \in Nat /\ Len(workerCh) \in Nat
         /\ workerCh \in Seq(WorkerEvent) /\ deploys \in Seq(Deploy) /\ procs \in Seq(Process)
         /\ Pid = 1..Len(procs) /\ Ctx = 1..Len(deploys)
         /\ \A p \in Pid : procs[p].ctx \in Nat
         /\ \A k \in 1..Len(workerCh) : workerCh[k].ctx \in Nat /\ workerCh[k].proc \in Nat
<1>1. /\ workerCh \in Seq(WorkerEvent) /\ deploys \in Seq(Deploy) /\ procs \in Seq(Process)
  BY DEF Inv, TypeOK
<1>2. \A p \in Pid : procs[p] \in Process
  BY <1>1 DEF Pid
<1>3. \A k \in 1..Len(workerCh) : workerCh[k] \in WorkerEvent
  BY <1>1
<1> QED BY <1>1, <1>2, <1>3 DEF Pid, Ctx, Process, WorkerEvent

\* What is left to say was to be said.
LEMMA EventsKept ==
  ASSUME Inv, KeepsEvents
  PROVE  /\ Len(workerCh') \in Nat
         /\ \E d \in {0, 1} : \A k \in 1..Len(workerCh') :
              k + d \in 1..Len(workerCh) /\ workerCh'[k] = workerCh[k + d]
<1>1. workerCh \in Seq(WorkerEvent)
  BY DEF Inv, TypeOK
<1>2. CASE workerCh' = workerCh
  BY <1>1, <1>2
<1>3. CASE workerCh # <<>> /\ workerCh' = Tail(workerCh)
  <2>1. /\ Len(workerCh') = Len(workerCh) - 1 /\ Len(workerCh) \in Nat \ {0}
        /\ \A k \in 1..Len(workerCh') : workerCh'[k] = workerCh[k + 1]
    BY <1>1, <1>3
  <2>2. \A k \in 1..Len(workerCh') : k + 1 \in 1..Len(workerCh)
    BY <2>1
  <2> QED BY <2>1, <2>2
<1> QED BY <1>2, <1>3 DEF KeepsEvents

\* The parts of the books that no record is in.
LEMMA LoopRecords ==
  ASSUME Inv, Books, KeepsDeploys, KeepsProcs, KeepsEvents
  PROVE  /\ StartedOnce' /\ EventsKnown' /\ OldStopped'
         /\ \A i \in Ctx : deploys'[i].old \in 0..Len(procs')
         /\ \A p \in 1..Len(procs') : procs'[p].ctx \in 0..Len(deploys')
         /\ \A p \in 1..Len(procs') : InTransit(p)' => p \in Pid /\ InTransit(p)
<1>1. /\ Len(deploys') = Len(deploys) /\ Len(deploys) \in Nat
      /\ Len(procs) \in Nat /\ Len(procs') \in Nat /\ Len(procs) <= Len(procs')
  BY BooksTypes DEF KeepsDeploys, KeepsProcs
<1>2. \A p \in 1..Len(procs') :
        procs'[p].ctx # 0 => p \in Pid /\ procs'[p].ctx = procs[p].ctx /\ procs'[p].ctx \in Ctx
  <2>1. Pid = 1..Len(procs) /\ Ctx = 1..Len(deploys)
    BY BooksTypes
  <2>2. \A p \in Pid : procs[p].ctx \in 0..Len(deploys)
    BY DEF Books, Counted
  <2> QED BY <1>1, <2>1, <2>2 DEF KeepsProcs
<1>3. StartedOnce'
  <2>1. \A p \in Pid' : procs'[p].ctx # 0 => deploys'[procs'[p].ctx].pc \in {"report", "done"}
    BY <1>2 DEF Books, StartedOnce, KeepsDeploys, Pid
  <2>2. \A p, q \in Pid' : procs'[p].ctx = procs'[q].ctx /\ procs'[p].ctx # 0 => p = q
    BY <1>2 DEF Books, StartedOnce, Pid
  <2> QED BY <2>1, <2>2 DEF StartedOnce
<1>4. PICK d \in {0, 1} : \A k \in 1..Len(workerCh') :
             k + d \in 1..Len(workerCh) /\ workerCh'[k] = workerCh[k + d]
  BY EventsKept
<1>5. EventsKnown'
  <2> SUFFICES ASSUME NEW k \in 1..Len(workerCh')
               PROVE  /\ workerCh'[k].ctx \in Ctx'
                      /\ workerCh'[k].art = deploys'[workerCh'[k].ctx].art
                      /\ workerCh'[k].cfg = deploys'[workerCh'[k].ctx].cfg
                      /\ workerCh'[k].phase = "HEALTH_CHECKING" =>
                           /\ workerCh'[k].proc \in Pid'
                           /\ procs'[workerCh'[k].proc].ctx = workerCh'[k].ctx
                      /\ workerCh'[k].phase # "HEALTH_CHECKING" => workerCh'[k].proc = 0
                      /\ LastWord(workerCh'[k]) =>
                           /\ deploys'[workerCh'[k].ctx].pc = "done"
                           /\ \A l \in 1..Len(workerCh') :
                                k < l => workerCh'[l].ctx # workerCh'[k].ctx
    BY DEF EventsKnown, LastWord
  <2> DEFINE ev == workerCh[k + d]
  <2>1. k + d \in 1..Len(workerCh) /\ workerCh'[k] = ev
    BY <1>4
  <2>2. /\ ev.ctx \in Ctx /\ ev.art = deploys[ev.ctx].art /\ ev.cfg = deploys[ev.ctx].cfg
        /\ ev.phase = "HEALTH_CHECKING" => ev.proc \in Pid /\ procs[ev.proc].ctx = ev.ctx
        /\ ev.phase # "HEALTH_CHECKING" => ev.proc = 0
        /\ LastWord(ev) => deploys[ev.ctx].pc = "done"
    BY <2>1 DEF Books, EventsKnown
  <2>3. LastWord(ev) => \A l \in 1..Len(workerCh) : k + d < l => workerCh[l].ctx # ev.ctx
    BY <2>1 DEF Books, EventsKnown
  <2>4. LastWord(ev) => \A l \in 1..Len(workerCh') : k < l => workerCh'[l].ctx # ev.ctx
    BY <1>4, <2>3, EventsKept
  <2> HIDE DEF ev
  <2>5. ev.ctx \in Ctx' /\ (ev.proc \in Pid => ev.proc \in Pid')
    BY <1>1, <2>2 DEF Ctx, Pid
  <2> QED BY <2>1, <2>2, <2>4, <2>5 DEF KeepsDeploys, KeepsProcs
<1>6. OldStopped'
  <2> SUFFICES ASSUME NEW i \in Ctx, \/ deploys'[i].pc \in {"check", "switch", "start", "report"}
                                     \/ \E p \in Pid' : procs'[p].ctx = i
               PROVE  ~Live(deploys[i].old)'
    BY <1>1 DEF OldStopped, Ctx, KeepsDeploys
  <2>1. i # 0
    BY <1>1 DEF Ctx
  <2>2. ~Live(deploys[i].old) /\ deploys'[i].old = deploys[i].old
    BY <1>2, <2>1 DEF Books, OldStopped, KeepsDeploys, Pid
  <2>3. deploys[i].old \in 0..Len(procs)
    BY DEF Books, Counted
  <2> QED BY <1>1, <2>2, <2>3 DEF Live, KeepsProcs, Pid
<1>7. \A i \in Ctx : deploys'[i].old \in 0..Len(procs')
  BY <1>1 DEF Books, Counted, KeepsDeploys
<1>8. \A p \in 1..Len(procs') : procs'[p].ctx \in 0..Len(deploys')
  BY <1>1, <1>2 DEF Ctx, KeepsProcs, Pid
<1>9. ASSUME NEW p \in 1..Len(procs'), InTransit(p)' PROVE p \in Pid /\ InTransit(p)
  <2>1. p \in Pid /\ procs'[p].ctx = procs[p].ctx /\ procs[p].ctx \in Ctx /\ procs[p].ctx # 0
    BY <1>2, <1>9 DEF InTransit
  <2>2. (\E k \in 1..Len(workerCh') : workerCh'[k].proc = p)
          => \E k \in 1..Len(workerCh) : workerCh[k].proc = p
    BY <1>4
  <2> QED BY <1>9, <2>1, <2>2 DEF InTransit, KeepsDeploys
<1> QED BY <1>3, <1>5, <1>6, <1>7, <1>8, <1>9

\* A step of the main loop or the environment that supervises the same process,
\* none, or one it has just started, keeps the books.
LEMMA LoopBooks ==
  ASSUME Inv, Books, KeepsDeploys, KeepsProcs, KeepsEvents,
         st'.proc \in {0, st.proc} \/ (st'.proc = Len(procs) + 1 /\ Len(procs') = Len(procs) + 1),
         draining' \subseteq draining \cup ({st.proc} \ {0}),
         st'.inflight = None \/ (st'.inflight = st.inflight /\ draining' \subseteq draining),
         known' /\ st.proc \in draining' /\ st'.proc = st.proc
           => st'.stopping \/ \E i \in Ctx : deploys[i].old = st.proc
  PROVE  Books'
<1>1. /\ Len(procs) \in Nat /\ Len(procs') \in Nat /\ Len(procs) <= Len(procs')
      /\ Len(deploys') = Len(deploys) /\ Len(deploys) \in Nat
      /\ Pid = 1..Len(procs) /\ Ctx = 1..Len(deploys)
  BY BooksTypes DEF KeepsDeploys, KeepsProcs
<1>2. st.proc \in 0..Len(procs) /\ draining \subseteq 1..Len(procs)
  BY <1>1 DEF Books, Counted
<1>3. /\ st'.proc \in 0..Len(procs') /\ draining' \subseteq 1..Len(procs)
      /\ st'.proc \in draining' => st'.proc = st.proc
  BY <1>1, <1>2
<1>4. Counted'
  <2>1. st'.inflight # None =>
          /\ Len(deploys') # 0 /\ st'.inflight.ctx = Len(deploys')
          /\ st'.inflight.art = deploys'[Len(deploys')].art
          /\ st'.inflight.cfg = deploys'[Len(deploys')].cfg
    BY <1>1 DEF Books, Counted, KeepsDeploys
  <2>2. draining' \subseteq Pid'
    BY <1>1, <1>3 DEF Pid
  <2>3. /\ \A i \in Ctx' : deploys'[i].old \in 0..Len(procs')
        /\ \A p \in Pid' : procs'[p].ctx \in 0..Len(deploys')
    BY <1>1, LoopRecords DEF Ctx, Pid
  <2> QED BY <1>3, <2>1, <2>2, <2>3 DEF Counted
<1>5. TransitApart'
  <2> SUFFICES ASSUME NEW p \in 1..Len(procs'), InTransit(p)'
               PROVE  p # st'.proc /\ p \notin draining'
    BY DEF TransitApart, Pid
  <2>1. p \in Pid /\ InTransit(p)
    BY LoopRecords
  <2>2. p # st.proc /\ p \notin draining
    BY <2>1 DEF Books, TransitApart
  <2> QED BY <1>1, <2>1, <2>2
<1>6. DrainUnder'
  <2>1. CASE st'.inflight = None
    BY <2>1 DEF DrainUnder
  <2>2. CASE st'.inflight # None /\ st'.proc \in draining'
    <3>1. /\ st'.inflight = st.inflight /\ st'.proc = st.proc /\ st.proc \in draining
          /\ st.inflight.ctx \in Ctx
      BY <1>1, <1>3, <2>2 DEF Books, Counted
    <3> QED BY <3>1 DEF Books, DrainUnder, KeepsDeploys
  <2> QED BY <2>1, <2>2 DEF DrainUnder
<1>7. DrainIsExpected'
  <2> SUFFICES ASSUME known', st'.proc \in draining'
               PROVE  st'.stopping \/ \E i \in Ctx' : deploys'[i].old = st'.proc
    BY DEF DrainIsExpected
  <2>1. st'.stopping \/ \E i \in Ctx : deploys[i].old = st.proc
    BY <1>3
  <2> QED BY <1>1, <1>3, <2>1 DEF KeepsDeploys, Ctx
<1> QED BY <1>4, <1>5, <1>6, <1>7, LoopRecords DEF Books

\* The main loop's part in a step that leaves deploys, events or processes alone.
LEMMA Untouched ==
  ASSUME Inv
  PROVE  /\ deploys' = deploys => KeepsDeploys
         /\ procs' = procs => KeepsProcs
         /\ workerCh' = workerCh => KeepsEvents
BY BooksTypes DEF KeepsDeploys, KeepsProcs, KeepsEvents, Pid

\* Nothing the books are about changes.
LEMMA SameBooks ==
  ASSUME Inv, Books, UNCHANGED <<deploys, procs, workerCh, draining, known>>,
         st'.proc = st.proc, st'.inflight = st.inflight, st'.stopping = st.stopping
  PROVE  Books'
<1>1. KeepsDeploys /\ KeepsProcs /\ KeepsEvents
  BY Untouched
<1>2. known /\ st.proc \in draining => st.stopping \/ \E i \in Ctx : deploys[i].old = st.proc
  BY DEF Books, DrainIsExpected
<1> QED BY <1>1, <1>2, LoopBooks

\* A rollback supervises the process it put back, or none.
LEMMA RollbackFrame ==
  ASSUME Inv, NEW s \in StrategyState, NEW w, beginRollback(s, w), s.proc \in 0..Len(procs)
  PROVE  /\ KeepsDeploys /\ KeepsProcs /\ ~Live(s.proc)' /\ deploys' = WithCancel(s)
         /\ st'.inflight = None
         /\ \/ st'.proc = 0 /\ Len(procs') = Len(procs)
            \/ st'.proc = Len(procs) + 1 /\ Len(procs') = Len(procs) + 1
<1> DEFINE bad    == IF s.inflight # None THEN s.inflight.art.version ELSE desired.art.version
           bare   == [s EXCEPT !.inflight = None, !.lastBad = bad, !.proc = 0]
           back   == [bare EXCEPT !.running = s.prev, !.runCfg = s.prevCfg]
           failed(r) == [r EXCEPT !.phase = "FAILED", !.failedAtGen = generation]
           pid    == Len(procs) + 1
           rolled == [Install(back, pid, desired.capture)
                      EXCEPT !.phase = "ROLLED_BACK", !.crashes = 0, !.blocked = FALSE]
<1>1. deploys' = WithCancel(s) /\ KeepsDeploys
  BY CancelFrame DEF beginRollback
<1>2. s.proc \in Nat
  BY DEF StrategyState
<1>3. CASE procs' = Killed(s.proc) /\ (st' = failed(bare) \/ st' = failed(back))
  <2>1. st'.proc = 0 /\ st'.inflight = None
    BY <1>3 DEF StrategyState
  <2> QED BY <1>1, <1>2, <1>3, <2>1, KilledFrame
<1>4. CASE /\ procs' = Append(Killed(s.proc), [alive |-> TRUE, art |-> s.prev, ctx |-> 0])
           /\ st' = rolled
  <2>1. st'.proc = pid /\ st'.inflight = None
    BY <1>4 DEF StrategyState, Install
  <2> DEFINE q == Killed(s.proc)
  <2>2. /\ q \in Seq(Process) /\ Len(q) = Len(procs)
        /\ \A p \in Pid : /\ q[p].ctx = procs[p].ctx /\ q[p].art = procs[p].art
                          /\ q[p].alive => procs[p].alive
        /\ s.proc \in Pid => ~q[s.proc].alive
    <3>1. procs \in Seq(Process)
      BY DEF Inv, TypeOK
    <3>2. \A p \in Pid : procs[p] \in Process
      BY <3>1 DEF Pid
    <3>3. q \in Seq(Process) /\ Len(q) = Len(procs)
      BY <1>2, KilledType DEF Inv
    <3>4. s.proc # 0 => \A p \in Pid : q[p] = IF p = s.proc THEN [procs[p] EXCEPT !.alive = FALSE]
                                               ELSE procs[p]
      <4> DEFINE e == [procs[s.proc] EXCEPT !.alive = FALSE]
      <4>1. s.proc # 0 => q = [procs EXCEPT ![s.proc] = e]
        BY DEF Killed
      <4> HIDE DEF e, q
      <4>2. s.proc # 0 => \A p \in Pid : q[p] = IF p = s.proc THEN e ELSE procs[p]
        BY <3>1, <4>1 DEF Pid
      <4> QED BY <4>2 DEF e
    <3>5. s.proc = 0 => q = procs
      BY DEF Killed
    <3>6. s.proc = 0 => s.proc \notin Pid
      BY DEF Pid
    <3> HIDE DEF q
    <3> QED BY <3>2, <3>3, <3>4, <3>5, <3>6 DEF Process
  <2>3. procs' = Append(q, [alive |-> TRUE, art |-> s.prev, ctx |-> 0])
    BY <1>4
  <2> HIDE DEF q, rolled
  <2>4. /\ KeepsProcs /\ Len(procs') = Len(procs) + 1
        /\ \A p \in Pid : procs'[p] = q[p]
    BY <2>2, <2>3, StartedFrame
  <2>5. ~Live(s.proc)'
    BY <1>2, <2>2, <2>4 DEF Live, Pid
  <2> QED BY <1>1, <2>1, <2>4, <2>5
<1> QED BY <1>3, <1>4 DEF beginRollback

----------------------------------------------------------------------------
(* The books, step by step *)

\* A record in which at most the deploy in flight was dropped.
LEMMA DroppedBooks ==
  ASSUME Inv, Books, KeepsDeploys, UNCHANGED <<procs, workerCh, draining>>,
         st'.proc = st.proc, st'.stopping = st.stopping, st'.inflight \in {None, st.inflight}
  PROVE  Books'
<1>1. KeepsProcs /\ KeepsEvents
  BY Untouched
<1>2. st.proc \in draining => known
  BY BooksTypes DEF Books, Counted, Inv, ProcWatched
<1>3. st.proc \in draining => st.stopping \/ \E i \in Ctx : deploys[i].old = st.proc
  BY <1>2 DEF Books, DrainIsExpected
<1> QED BY <1>1, <1>3, LoopBooks

\* A snapshot that withdraws a deploy cancels it and drops it.
LEMMA ApplyDesiredBooks ==
  ASSUME Inv, Books, applyDesired
  PROVE  Books'
<1>1. KeepsDeploys /\ UNCHANGED <<procs, workerCh, draining, known>>
  BY StType, CancelFrame, Untouched DEF applyDesired, envVars
<1>2. st'.proc = st.proc /\ st'.stopping = st.stopping /\ st'.inflight \in {None, st.inflight}
  BY StType DEF applyDesired, StrategyState
<1> QED BY <1>1, <1>2, DroppedBooks

\* A drain leaves the record of the process it stops, marked.
LEMMA DrainFrame ==
  ASSUME NEW s \in StrategyState, spawnDrain(s)
  PROVE  /\ st'.proc = s.proc /\ st'.inflight = s.inflight /\ st'.stopping = TRUE
         /\ draining' = draining \cup {s.proc}
BY DEF spawnDrain, StrategyState

\* A drain begun with no deploy in flight keeps the books.
LEMMA DrainBooks ==
  ASSUME Inv, Books, NEW s \in StrategyState, spawnDrain(s), s.proc = st.proc, s.proc # 0,
         s.inflight = None, KeepsDeploys, UNCHANGED <<procs, workerCh>>
  PROVE  Books'
<1>1. KeepsProcs /\ KeepsEvents
  BY Untouched
<1>2. /\ st'.proc = st.proc /\ st'.inflight = None /\ st'.stopping
      /\ draining' = draining \cup ({st.proc} \ {0})
  BY DrainFrame
<1> QED BY <1>1, <1>2, LoopBooks

\* A due restart schedule keeps the books.
LEMMA CronBooks ==
  ASSUME Inv, Books, NEW s \in StrategyState, tickCron(s), s.proc = st.proc,
         s.stopping = st.stopping, s.inflight \in {None, st.inflight},
         UNCHANGED <<deploys, procs, workerCh, known>>
  PROVE  Books'
<1>1. KeepsDeploys
  BY Untouched
<1>2. CASE st' = s /\ UNCHANGED draining
  BY <1>1, <1>2, DroppedBooks
<1>3. CASE cronCanRun(s) /\ spawnDrain(s)
  BY <1>1, <1>3, DrainBooks DEF cronCanRun
<1> QED BY <1>2, <1>3 DEF tickCron

\* A rollback keeps the books: it stops a process no drain was begun for by the
\* same record, and gives the one it starts a new pid.
LEMMA RollbackBooks ==
  ASSUME Inv, Books, NEW s \in StrategyState, NEW w, beginRollback(s, w), s.proc \in {0, st.proc},
         KeepsEvents, UNCHANGED draining
  PROVE  Books'
<1>1. s.proc \in 0..Len(procs) /\ st.proc \in 0..Len(procs) /\ Len(procs) \in Nat
  BY BooksTypes DEF Books, Counted
<1>2. /\ KeepsDeploys /\ KeepsProcs /\ st'.inflight = None
      /\ \/ st'.proc = 0
         \/ st'.proc = Len(procs) + 1 /\ Len(procs') = Len(procs) + 1
  BY <1>1, RollbackFrame
<1>3. 0 \notin draining
  BY BooksTypes DEF Books, Counted
<1>4. st'.proc = st.proc => st.proc \notin draining'
  BY <1>1, <1>2, <1>3
<1> QED BY <1>2, <1>4, LoopBooks

\* The exit clears the handle first.
LEMMA HandleExitBooks ==
  ASSUME Inv, Books, NEW p \in Pid, handleExit(p)
  PROVE  Books'
<1> DEFINE gone == [st EXCEPT !.proc = 0]
           w    == watched \ {p}
<1>1. /\ UNCHANGED <<workerCh, draining>> /\ st \in StrategyState /\ KeepsEvents
      /\ 0 \notin draining
  BY StType, Untouched, BooksTypes DEF handleExit, Books, Counted
<1>2. gone \in StrategyState /\ gone.proc = 0 /\ gone.inflight = st.inflight
  BY <1>1 DEF StrategyState
<1>3. ASSUME st'.proc = 0, st'.inflight \in {None, st.inflight}, UNCHANGED <<deploys, procs>>
      PROVE  Books'
  BY <1>1, <1>3, Untouched, LoopBooks
<1>4. CASE UNCHANGED <<st, known, deploys, procs>>
  BY <1>1, <1>4, SameBooks
<1>5. CASE /\ st' = IF known' THEN [gone EXCEPT !.stopping = FALSE] ELSE NewState
           /\ UNCHANGED <<deploys, procs>>
  <2>1. st'.proc = 0 /\ st'.inflight \in {None, st.inflight}
    <3> HIDE DEF gone
    <3> QED BY <1>2, <1>5 DEF StrategyState, NewState
  <2> QED BY <1>3, <1>5, <2>1
<1>6. CASE UnexpectedExit(gone, w)
  <2> HIDE DEF gone, w
  <2> DEFINE crashed == [gone EXCEPT !.crashes = gone.crashes + 1, !.blocked = TRUE]
             clean   == [gone EXCEPT !.crashes = 0, !.blocked = FALSE]
  <2>1. /\ crashed \in StrategyState /\ crashed.proc = 0
        /\ Demoted(crashed).proc = 0 /\ Demoted(crashed).inflight = st.inflight
        /\ Demoted(clean).proc = 0 /\ Demoted(clean).inflight = st.inflight
    <3>1. gone.crashes + 1 \in Nat
      BY <1>2 DEF StrategyState
    <3>2. /\ crashed \in StrategyState /\ crashed.proc = 0
          /\ Demoted(crashed).proc = 0 /\ Demoted(crashed).inflight = st.inflight
      BY <1>2, <3>1, ExitedType
    <3>3. Demoted(clean).proc = 0 /\ Demoted(clean).inflight = st.inflight
      <4>1. 0 \in Nat /\ FALSE \in BOOLEAN
        OBVIOUS
      <4> QED BY <1>2, <4>1, ExitedType
    <3> QED BY <3>2, <3>3
  <2> HIDE DEF crashed, clean
  <2>2. beginRollback(crashed, w) => Books'
    BY <1>1, <2>1, RollbackBooks
  <2>3. \/ beginRollback(crashed, w)
        \/ (st' = Demoted(crashed) \/ st' = Demoted(clean)) /\ UNCHANGED <<deploys, procs>>
    BY <1>6 DEF UnexpectedExit, crashed, clean
  <2> QED BY <1>3, <2>1, <2>2, <2>3
<1> QED BY <1>4, <1>5, <1>6 DEF handleExit

\* The tick.
LEMMA TickBooks ==
  ASSUME Inv, Books, Tick
  PROVE  Books'
<1>1. UNCHANGED <<workerCh, known>> /\ st \in StrategyState /\ KeepsEvents
  BY StType, Untouched DEF Tick
<1>2. CASE beginRollback(st, watched) /\ UNCHANGED draining
  BY <1>1, <1>2, RollbackBooks
<1>3. CASE failHealthWindow /\ UNCHANGED <<procs, draining>>
  <2>1. /\ KeepsDeploys /\ st'.proc = st.proc /\ st'.stopping = st.stopping
        /\ st'.inflight = None
    BY <1>1, <1>3, CancelFrame DEF failHealthWindow, StrategyState
  <2> QED BY <1>1, <1>3, <2>1, DroppedBooks
<1>4. CASE tickCron(MarkedHealthy(st)) /\ UNCHANGED <<deploys, procs>>
  <2>1. /\ MarkedHealthy(st) \in StrategyState /\ MarkedHealthy(st).proc = st.proc
        /\ MarkedHealthy(st).stopping = st.stopping /\ MarkedHealthy(st).inflight = None
    BY <1>1, MarkedHealthyType DEF Inv, MarkedHealthy, StrategyState
  <2> QED BY <1>1, <1>4, <2>1, CronBooks
<1>5. CASE tickCron([st EXCEPT !.probing = TRUE]) /\ UNCHANGED <<deploys, procs>>
  <2> DEFINE s == [st EXCEPT !.probing = TRUE]
  <2>1. s \in StrategyState /\ s.proc = st.proc /\ s.stopping = st.stopping /\ s.inflight = st.inflight
    BY <1>1 DEF StrategyState
  <2>2. tickCron(s)
    BY <1>5
  <2> HIDE DEF s
  <2> QED BY <1>1, <1>5, <2>1, <2>2, CronBooks
<1>6. CASE tickCron(st) /\ UNCHANGED <<deploys, procs>>
  BY <1>1, <1>6, CronBooks
<1> QED BY <1>2, <1>3, <1>4, <1>5, <1>6 DEF Tick

\* A probe's answer.
LEMMA ApplyHealthResultBooks ==
  ASSUME Inv, Books, NEW p \in Pid, applyHealthResult(p)
  PROVE  Books'
<1> DEFINE s == [st EXCEPT !.probing = FALSE]
<1>1. /\ UNCHANGED <<known, deploys, workerCh, procs, draining>> /\ st \in StrategyState
      /\ st' = st \/ st' = s \/ st' = MarkedHealthy(s)
  BY StType DEF applyHealthResult
<1>2. s \in StrategyState /\ s.proc = st.proc /\ s.stopping = st.stopping /\ s.inflight = st.inflight
  BY <1>1 DEF StrategyState
<1> HIDE DEF s
<1>3. /\ MarkedHealthy(s).proc = st.proc /\ MarkedHealthy(s).stopping = st.stopping
      /\ MarkedHealthy(s).inflight = None
  BY <1>2 DEF MarkedHealthy, StrategyState
<1>4. KeepsDeploys
  BY <1>1, Untouched
<1>5. st'.proc = st.proc /\ st'.stopping = st.stopping /\ st'.inflight \in {None, st.inflight}
  BY <1>1, <1>2, <1>3
<1> QED BY <1>1, <1>4, <1>5, DroppedBooks

\* A start supervises the next pid; a failed one, nothing.
LEMMA StartFrame ==
  ASSUME Inv, NEW s \in StrategyState, NEW hc \in BOOLEAN, startProcess(s, hc), s.proc = 0
  PROVE  /\ KeepsProcs /\ st'.inflight = s.inflight
         /\ \A p \in Pid : procs'[p] = procs[p]
         /\ \/ st'.proc = 0 /\ procs' = procs
            \/ st'.proc = Len(procs) + 1 /\ Len(procs') = Len(procs) + 1
<1>1. CASE /\ procs' = Append(procs, NewProc(0))
           /\ st' = [Install(s, Len(procs) + 1, desired.capture)
                      EXCEPT !.phase = IF hc THEN "HEALTH_CHECKING" ELSE "HEALTHY",
                             !.windowOver = IF hc THEN FALSE ELSE @,
                             !.observedGen = IF hc THEN @ ELSE generation]
  <2>1. st'.proc = Len(procs) + 1 /\ st'.inflight = s.inflight
    BY <1>1 DEF Install, StrategyState
  <2>2. /\ KeepsProcs /\ Len(procs') = Len(procs) + 1
        /\ \A p \in Pid : procs'[p] = procs[p]
    <3>1. procs \in Seq(Process)
      BY BooksTypes
    <3> QED BY <1>1, <3>1, StartedFrame DEF NewProc
  <2> QED BY <2>1, <2>2
<1>2. CASE /\ st' = [s EXCEPT !.phase = "FAILED", !.crashes = @ + 1, !.blocked = TRUE]
           /\ UNCHANGED procs
  <2>1. st'.proc = 0 /\ st'.inflight = s.inflight
    BY <1>2 DEF StrategyState
  <2> QED BY <1>2, <2>1, Untouched
<1> QED BY <1>1, <1>2 DEF startProcess

\* So it keeps the books.
LEMMA StartBooks ==
  ASSUME Inv, Books, NEW s \in StrategyState, NEW hc \in BOOLEAN, startProcess(s, hc),
         s.proc = 0, s.inflight = st.inflight, st.proc = 0, UNCHANGED <<deploys, workerCh, draining>>
  PROVE  Books'
<1>1. 0 \notin draining
  BY BooksTypes DEF Books, Counted
<1>2. KeepsDeploys /\ KeepsEvents
  BY Untouched
<1> QED BY <1>1, <1>2, StartFrame, LoopBooks

\* Retiring and halting drop the deploy in flight before they drain.
LEMMA RetireBooks ==
  ASSUME Inv, Books, retireStrategy \/ reconcileStopped, UNCHANGED workerCh
  PROVE  Books'
<1> DEFINE s == [st EXCEPT !.inflight = None]
<1>1. /\ s \in StrategyState /\ s.proc = st.proc /\ s.inflight = None /\ s.stopping = st.stopping
      /\ 0 \notin draining
  BY StType, DroppedType, BooksTypes DEF Books, Counted, StrategyState
<1>2. KeepsDeploys /\ procs' = procs
  BY StType, CancelFrame DEF retireStrategy, reconcileStopped
<1>3. CASE st' = s /\ UNCHANGED draining
  BY <1>1, <1>2, <1>3, DroppedBooks
<1>4. CASE spawnDrain(s) /\ s.proc # 0
  BY <1>1, <1>2, <1>4, DrainBooks
<1>5. CASE /\ s.proc = 0 /\ UNCHANGED draining
           /\ \/ st' = NewState
              \/ st' = [s EXCEPT !.phase = "STOPPED", !.stopping = FALSE, !.observedGen = generation]
  <2>1. st'.proc = 0 /\ st'.inflight = None
    <3> HIDE DEF s
    <3>1. CASE st' = NewState
      BY <3>1 DEF NewState
    <3>2. CASE st' = [s EXCEPT !.phase = "STOPPED", !.stopping = FALSE, !.observedGen = generation]
      BY <1>1, <1>5, <3>2 DEF StrategyState
    <3> QED BY <1>5, <3>1, <3>2
  <2> QED BY <1>1, <1>2, <1>5, <2>1, Untouched, LoopBooks
<1> QED BY <1>3, <1>4, <1>5 DEF retireStrategy, reconcileStopped

\* A deploy begun is the last one, and is told what it finds running.
LEMMA BeginDeployBooks ==
  ASSUME Inv, Books, beginDeploy, UNCHANGED workerCh
  PROVE  Books'
<1> DEFINE n == Len(deploys) + 1
           d == [pc |-> "announce", cancelled |-> FALSE, late |-> FALSE,
                 art |-> desired.art, cfg |-> desired.cfg, capture |-> desired.capture, old |-> st.proc, gen |-> generation]
<1>1. /\ deploys' = Append(deploys, d) /\ UNCHANGED <<procs, draining>>
      /\ st' = [st EXCEPT !.inflight = [ctx |-> n, art |-> desired.art, cfg |-> desired.cfg],
                          !.phase = "PENDING", !.prev = st.running, !.prevCfg = st.runCfg]
  BY DEF beginDeploy
<1>2. /\ st'.proc = st.proc /\ st'.stopping = st.stopping /\ st'.inflight.ctx = n
      /\ st'.inflight.art = desired.art /\ st'.inflight.cfg = desired.cfg
  <2> HIDE DEF n
  <2> QED BY <1>1, StType DEF StrategyState
<1>3. /\ Len(deploys') = n /\ Len(deploys) \in Nat /\ n \in Nat /\ n # 0
      /\ deploys'[n] = d /\ \A i \in Ctx : deploys'[i] = deploys[i]
  BY <1>1, BooksTypes DEF Ctx
<1>4. Ctx' = Ctx \cup {n} /\ Pid' = Pid /\ n \notin Ctx /\ Pid = 1..Len(procs)
  BY <1>1, <1>3, BooksTypes DEF Ctx, Pid
<1>d. d.pc = "announce" /\ d.old = st.proc /\ d.art = desired.art /\ d.cfg = desired.cfg
  OBVIOUS
<1> HIDE DEF n, d
<1>5. Counted'
  <2>1. \A i \in Ctx' : deploys'[i].old \in 0..Len(procs')
    <3>1. st.proc \in 0..Len(procs) /\ \A i \in Ctx : deploys[i].old \in 0..Len(procs)
      BY DEF Books, Counted
    <3> QED BY <1>1, <1>3, <1>4, <1>d, <3>1
  <2>2. \A p \in Pid' : procs'[p].ctx \in 0..Len(deploys')
    BY <1>1, <1>3, <1>4 DEF Books, Counted, n
  <2>3. st'.proc \in 0..Len(procs') /\ draining' \subseteq Pid'
    BY <1>1, <1>2, <1>4 DEF Books, Counted
  <2>4. /\ Len(deploys') # 0 /\ st'.inflight.ctx = Len(deploys')
        /\ st'.inflight.art = deploys'[Len(deploys')].art
        /\ st'.inflight.cfg = deploys'[Len(deploys')].cfg
    BY <1>2, <1>3, <1>d
  <2> QED BY <2>1, <2>2, <2>3, <2>4 DEF Counted
<1>6. \A p \in Pid : procs[p].ctx # n
  BY <1>3, BooksTypes DEF Books, Counted, n
<1>7. \A p \in Pid : procs[p].ctx # 0 => procs[p].ctx \in Ctx
  BY BooksTypes DEF Books, Counted
<1>8. StartedOnce'
  BY <1>1, <1>3, <1>4, <1>7 DEF Books, StartedOnce
<1>9. EventsKnown'
  <2>1. \A k \in 1..Len(workerCh) : workerCh[k].ctx \in Ctx
    BY DEF Books, EventsKnown
  <2>2. \A i \in Ctx : deploys'[i] = deploys[i] /\ i \in Ctx'
    BY <1>3, <1>4
  <2>3. workerCh' = workerCh /\ procs' = procs /\ Pid' = Pid
    BY <1>1, <1>4
  <2> SUFFICES ASSUME NEW k \in 1..Len(workerCh)
               PROVE  /\ workerCh[k].ctx \in Ctx'
                      /\ workerCh[k].art = deploys'[workerCh[k].ctx].art
                      /\ workerCh[k].cfg = deploys'[workerCh[k].ctx].cfg
                      /\ workerCh[k].phase = "HEALTH_CHECKING" =>
                           workerCh[k].proc \in Pid /\ procs[workerCh[k].proc].ctx = workerCh[k].ctx
                      /\ workerCh[k].phase # "HEALTH_CHECKING" => workerCh[k].proc = 0
                      /\ LastWord(workerCh[k]) =>
                           /\ deploys'[workerCh[k].ctx].pc = "done"
                           /\ \A l \in 1..Len(workerCh) : k < l => workerCh[l].ctx # workerCh[k].ctx
    BY <2>3 DEF EventsKnown, LastWord
  <2> QED BY <2>1, <2>2 DEF Books, EventsKnown
<1>10. OldStopped'
  <2>1. \A i \in Ctx : deploys'[i].old = deploys[i].old /\ deploys'[i].pc = deploys[i].pc
    BY <1>3
  <2>2. \A p : Live(p)' = Live(p)
    BY <1>1, <1>4 DEF Live
  <2>3. deploys'[n].pc = "announce"
    BY <1>3, <1>d
  <2> QED BY <1>1, <1>4, <1>6, <2>1, <2>2, <2>3 DEF Books, OldStopped
<1>11. \A p \in Pid : InTransit(p)' => InTransit(p)
  BY <1>1, <1>3, <1>7 DEF InTransit
<1>12. TransitApart'
  BY <1>1, <1>2, <1>4, <1>11 DEF Books, TransitApart
<1>13. DrainUnder' /\ DrainIsExpected'
  BY <1>1, <1>2, <1>3, <1>4, <1>d DEF DrainUnder, DrainIsExpected
<1> QED BY <1>5, <1>8, <1>9, <1>10, <1>12, <1>13 DEF Books

\* No branch of reconcile breaks the books.
LEMMA ReconcileBooks ==
  ASSUME Inv, Books, Reconcile
  PROVE  Books'
<1>1. workerCh' = workerCh /\ st \in StrategyState
  BY StType DEF Reconcile
<1>2. ASSUME restartInWindow PROVE Books'
  BY <1>1, <1>2, StartBooks DEF restartInWindow, Quiet
<1>3. ASSUME restart PROVE Books'
  <2>1. desired # None /\ st.proc = 0 /\ UNCHANGED <<deploys, draining>>
    BY <1>3 DEF restart, Free, Quiet
  <2> QED BY <1>1, <1>3, <2>1, RelabelledType, StartBooks DEF restart
<1>4. ASSUME drainForMode PROVE Books'
  <2>1. /\ spawnDrain(st) /\ st.proc # 0 /\ st.inflight = None
        /\ UNCHANGED <<deploys, procs>>
    BY <1>4 DEF drainForMode, ModeFlipped, Free, Quiet
  <2> QED BY <1>1, <2>1, Untouched, DrainBooks
<1>5. ASSUME steadyState PROVE Books'
  <2>1. UNCHANGED <<deploys, procs, draining>> /\ desired # None
        /\ st' = [Relabelled(st) EXCEPT !.observedGen = generation]
    BY <1>5 DEF steadyState, Quiet, Free
  <2>2. st'.proc = st.proc /\ st'.stopping = st.stopping /\ st'.inflight = st.inflight
    BY <1>1, <2>1 DEF Relabelled, StrategyState
  <2> QED BY <1>1, <2>1, <2>2, Untouched, DroppedBooks
<1>6. ASSUME reconcileWaits PROVE Books'
  BY <1>1, <1>6, Untouched, DroppedBooks DEF reconcileWaits
<1> QED BY <1>1, <1>2, <1>3, <1>4, <1>5, <1>6, RetireBooks, BeginDeployBooks DEF Reconcile

\* With the agent down nothing is on its way.
DownIsQuiet ==
  loop = "down" => workerCh = <<>> /\ draining = {} /\ \A i \in Ctx : deploys[i].pc = "done"

\* The agent's end stops the worker, and changes nothing else of a deploy.
LEMMA GoneDeploys ==
  ASSUME Inv, AgentGone
  PROVE  /\ Len(deploys') = Len(deploys)
         /\ \A i \in Ctx : /\ deploys'[i].pc = "done" /\ deploys'[i].old = deploys[i].old
                           /\ deploys'[i].cancelled = deploys[i].cancelled
                           /\ deploys'[i].late = deploys[i].late
                           /\ deploys'[i].art = deploys[i].art /\ deploys'[i].cfg = deploys[i].cfg
                           /\ deploys'[i].gen = deploys[i].gen
<1>1. deploys' = [i \in 1..Len(deploys) |-> [deploys[i] EXCEPT !.pc = "done"]]
  BY DEF AgentGone, Ctx
<1>2. deploys \in Seq(Deploy) /\ Len(deploys) \in Nat
  BY BooksTypes
<1>3. \A i \in 1..Len(deploys) :
        /\ [deploys[i] EXCEPT !.pc = "done"] \in Deploy
        /\ [deploys[i] EXCEPT !.pc = "done"].pc = "done"
        /\ [deploys[i] EXCEPT !.pc = "done"].old = deploys[i].old
        /\ [deploys[i] EXCEPT !.pc = "done"].cancelled = deploys[i].cancelled
        /\ [deploys[i] EXCEPT !.pc = "done"].late = deploys[i].late
        /\ [deploys[i] EXCEPT !.pc = "done"].art = deploys[i].art
        /\ [deploys[i] EXCEPT !.pc = "done"].cfg = deploys[i].cfg
        /\ [deploys[i] EXCEPT !.pc = "done"].gen = deploys[i].gen
  <2>1. TAKE i \in 1..Len(deploys)
  <2>2. deploys[i] \in Deploy
    BY <1>2, <2>1
  <2> QED BY <2>2 DEF Deploy, WorkerPc
<1>4. Len(deploys') = Len(deploys)
  BY <1>1, <1>2, <1>3, IsASeq
<1>5. \A i \in 1..Len(deploys) : deploys'[i] = [deploys[i] EXCEPT !.pc = "done"]
  BY <1>1
<1> QED BY <1>3, <1>4, <1>5 DEF Ctx

\* The agent's end ends its workers and forgets its record, not its processes.
LEMMA GoneBooks ==
  ASSUME Inv, Books, AgentGone
  PROVE  Books' /\ DownIsQuiet'
<1>1. /\ workerCh' = <<>> /\ draining' = {} /\ st' = NewState /\ known' = FALSE
      /\ procs' = procs /\ Len(workerCh') = 0
  BY DEF AgentGone
<1>2. /\ Len(deploys') = Len(deploys)
      /\ \A i \in Ctx : /\ deploys'[i].pc = "done" /\ deploys'[i].old = deploys[i].old
                        /\ deploys'[i].cancelled = deploys[i].cancelled
                        /\ deploys'[i].art = deploys[i].art
  BY GoneDeploys
<1>3. Ctx' = Ctx /\ Pid' = Pid
  BY <1>1, <1>2 DEF Ctx, Pid
<1>4. st'.proc = 0 /\ st'.inflight = None /\ Len(procs) \in Nat
  BY <1>1, BooksTypes DEF NewState
<1>5. Counted'
  BY <1>1, <1>2, <1>3, <1>4 DEF Books, Counted
<1>6. StartedOnce'
  <2>1. \A p \in Pid : procs[p].ctx # 0 => procs[p].ctx \in Ctx
    BY BooksTypes DEF Books, Counted
  <2>2. \A p \in Pid : procs[p].ctx # 0 => deploys'[procs[p].ctx].pc = "done"
    BY <1>2, <2>1
  <2> QED BY <1>1, <1>3, <2>2 DEF Books, StartedOnce
<1>7. EventsKnown'
  BY <1>1 DEF EventsKnown
<1>8. OldStopped'
  <2>1. \A p : Live(p)' = Live(p)
    BY <1>1, <1>3 DEF Live
  <2> QED BY <1>1, <1>2, <1>3, <2>1 DEF Books, OldStopped
<1>9. TransitApart'
  <2>1. \A p \in Pid : procs[p].ctx # 0 => procs[p].ctx \in Ctx
    BY BooksTypes DEF Books, Counted
  <2> QED BY <1>1, <1>2, <1>3, <2>1 DEF TransitApart, InTransit
<1>10. DrainUnder' /\ DrainIsExpected' /\ DownIsQuiet'
  BY <1>1, <1>2, <1>3, <1>4 DEF DrainUnder, DrainIsExpected, DownIsQuiet
<1> QED BY <1>5, <1>6, <1>7, <1>8, <1>9, <1>10 DEF Books

\* What a takeover finds alive was never given to anyone else.
LEMMA RebuildBooks ==
  ASSUME Inv, Books, DownIsQuiet, rebuildActualState
  PROVE  Books'
<1>1. /\ UNCHANGED <<deploys, workerCh, procs, draining>>
      /\ workerCh = <<>> /\ draining = {} /\ \A i \in Ctx : deploys[i].pc = "done"
  BY DEF rebuildActualState, DownIsQuiet
<1>2. st'.proc \in 0..Len(procs) /\ st'.inflight = None
  <2>1. CASE Adoptable
    <3>1. st' = Adopted /\ file \in SupervisionEntry /\ file.pid \in Pid
      BY <2>1 DEF rebuildActualState, Adoptable, Live, Inv, TypeOK
    <3>2. Adopted.proc = file.pid /\ Adopted.inflight = None
      BY <3>1 DEF Adopted, NewState, SupervisionEntry
    <3> QED BY <3>1, <3>2, BooksTypes
  <2>2. CASE ~Adoptable
    BY <2>2, BooksTypes DEF rebuildActualState, NewState
  <2> QED BY <2>1, <2>2
<1>3. Ctx' = Ctx /\ Pid' = Pid /\ \A p : Live(p)' = Live(p)
  BY <1>1 DEF Ctx, Pid, Live
<1>4. Counted'
  BY <1>1, <1>2, <1>3 DEF Books, Counted
<1>5. StartedOnce' /\ EventsKnown' /\ OldStopped'
  BY <1>1, <1>3 DEF Books, StartedOnce, EventsKnown, OldStopped, LastWord
<1>6. TransitApart'
  <2>1. \A p \in Pid : procs[p].ctx # 0 => procs[p].ctx \in Ctx
    BY BooksTypes DEF Books, Counted
  <2> QED BY <1>1, <1>3, <2>1 DEF TransitApart, InTransit
<1>7. DrainUnder' /\ DrainIsExpected'
  BY <1>1, <1>2 DEF DrainUnder, DrainIsExpected
<1> QED BY <1>4, <1>5, <1>6, <1>7 DEF Books

\* A process that dies, of itself or drained, changes no book but its own life.
LEMMA DeathBooks ==
  ASSUME Inv, Books, NEW p \in Pid, ProcessExits(p) \/ DrainDone(p)
  PROVE  Books'
<1>1. /\ UNCHANGED <<deploys, workerCh, known, st>> /\ draining' \subseteq draining
      /\ procs' = Killed(p) /\ p \in Nat
  BY BooksTypes DEF ProcessExits, DrainDone, EnvRest
<1>2. KeepsDeploys /\ KeepsProcs /\ KeepsEvents
  BY <1>1, Untouched, KilledFrame
<1>3. known' /\ st.proc \in draining' => st'.stopping \/ \E i \in Ctx : deploys[i].old = st.proc
  BY <1>1 DEF Books, DrainIsExpected
<1> QED BY <1>1, <1>2, <1>3, LoopBooks

\* Neither does the clock.
LEMMA ClockBooks ==
  ASSUME Inv, Books, BackoffElapses \/ WindowElapses
  PROVE  Books'
<1>1. /\ UNCHANGED <<deploys, workerCh, known, procs, draining>>
      /\ st'.proc = st.proc /\ st'.inflight = st.inflight /\ st'.stopping = st.stopping
  BY StType DEF BackoffElapses, WindowElapses, EnvRest, StrategyState
<1> QED BY <1>1, SameBooks

----------------------------------------------------------------------------
(* The workers' part in the books *)

\* A worker's step moves its own program counter, and nothing else of a deploy.
LEMMA WorkerFrame ==
  ASSUME Inv, NEW i \in Ctx, NEW pc, NEW next \in WorkerPc, WorkerAt(i, pc, next)
  PROVE  /\ Len(deploys') = Len(deploys) /\ deploys[i].pc = pc
         /\ \A j \in Ctx : /\ deploys'[j].pc = IF j = i THEN next ELSE deploys[j].pc
                           /\ deploys'[j].old = deploys[j].old
                           /\ deploys'[j].art = deploys[j].art /\ deploys'[j].cfg = deploys[j].cfg
                           /\ deploys'[j].gen = deploys[j].gen
                           /\ deploys'[j].cancelled = deploys[j].cancelled
                           /\ deploys'[j].late = deploys[j].late
         /\ UNCHANGED <<known, st, draining, restarts, generation, desired, loop>>
<1> DEFINE e == [deploys[i] EXCEPT !.pc = next]
<1>1. deploys' = [deploys EXCEPT ![i] = e]
  BY DEF WorkerAt
<1>2. deploys \in Seq(Deploy) /\ i \in 1..Len(deploys)
  BY BooksTypes
<1>3. deploys[i] \in Deploy
  BY <1>2
<1>4. /\ e.pc = next /\ e.old = deploys[i].old /\ e.art = deploys[i].art /\ e.cfg = deploys[i].cfg
      /\ e.cancelled = deploys[i].cancelled /\ e.gen = deploys[i].gen
      /\ e.late = deploys[i].late
  BY <1>3 DEF Deploy
<1> HIDE DEF e
<1>5. Len(deploys') = Len(deploys) /\ \A j \in Ctx : deploys'[j] = IF j = i THEN e ELSE deploys[j]
  BY <1>1, <1>2 DEF Ctx
<1> QED BY <1>4, <1>5 DEF WorkerAt

\* What a worker says is the last event of the channel.
LEMMA AppendedEvent ==
  ASSUME Inv, NEW ev, workerCh' = Append(workerCh, ev)
  PROVE  /\ Len(workerCh') = Len(workerCh) + 1 /\ Len(workerCh) \in Nat
         /\ workerCh'[Len(workerCh) + 1] = ev
         /\ \A k \in 1..Len(workerCh) : workerCh'[k] = workerCh[k]
BY BooksTypes

\* A worker's step keeps the books if a start comes after the old process is
\* dead and the report after the start.
LEMMA WorkerBooks ==
  ASSUME Inv, Books, NEW i \in Ctx, NEW pc \in WorkerPc \ {"done"}, NEW next \in WorkerPc,
         WorkerAt(i, pc, next), NEW ev \in WorkerEvent,
         workerCh' \in {workerCh, Append(workerCh, ev)},
         ev.ctx = i /\ ev.art = deploys[i].art /\ ev.cfg = deploys[i].cfg,
         LastWord(ev) => next = "done",
         ev.phase = "HEALTH_CHECKING" => pc = "report" /\ ev.proc \in Pid /\ procs[ev.proc].ctx = i,
         ev.phase # "HEALTH_CHECKING" => ev.proc = 0,
         pc = "report" => next = "done",
         next = "report" => pc = "start",
         next \in {"check", "switch", "start", "report"}
           => pc \in {"check", "switch", "start"} \/ ~Live(deploys[i].old)',
         Len(procs') \in Nat /\ Len(procs) <= Len(procs'),
         \A p \in Pid : procs'[p].ctx = procs[p].ctx /\ (procs'[p].alive => procs[p].alive),
         \A p \in 1..Len(procs') : p \in Pid \/ /\ p = Len(procs) + 1 /\ procs'[p].ctx = i
                                                /\ pc = "start" /\ next = "report"
  PROVE  Books'
<1>1. /\ Len(deploys') = Len(deploys) /\ deploys[i].pc = pc
      /\ \A j \in Ctx : /\ deploys'[j].pc = IF j = i THEN next ELSE deploys[j].pc
                        /\ deploys'[j].old = deploys[j].old
                        /\ deploys'[j].art = deploys[j].art /\ deploys'[j].cfg = deploys[j].cfg
      /\ UNCHANGED <<known, st, draining>>
  BY WorkerFrame
<1>2. /\ Len(deploys) \in Nat /\ Len(procs) \in Nat /\ Len(workerCh) \in Nat
      /\ Pid = 1..Len(procs) /\ Ctx = 1..Len(deploys) /\ Ctx' = Ctx /\ Pid' = 1..Len(procs')
  BY <1>1, BooksTypes DEF Ctx, Pid
<1>3. Pid \subseteq Pid'
  BY <1>2
<1>4. \A p \in Pid : procs[p].ctx \in 0..Len(deploys)
  BY DEF Books, Counted
<1>5. Counted'
  <2>1. \A p \in Pid' : procs'[p].ctx \in 0..Len(deploys')
    BY <1>1, <1>2, <1>4
  <2>2. st'.proc \in 0..Len(procs') /\ draining' \subseteq Pid'
    BY <1>1, <1>2, <1>3 DEF Books, Counted
  <2>3. \A j \in Ctx' : deploys'[j].old \in 0..Len(procs')
    BY <1>1, <1>2 DEF Books, Counted
  <2>4. st'.inflight # None =>
          /\ Len(deploys') # 0 /\ st'.inflight.ctx = Len(deploys')
          /\ st'.inflight.art = deploys'[Len(deploys')].art
          /\ st'.inflight.cfg = deploys'[Len(deploys')].cfg
    BY <1>1, <1>2 DEF Books, Counted
  <2> QED BY <2>1, <2>2, <2>3, <2>4 DEF Counted
<1>6. \A p \in Pid : procs[p].ctx = i => pc = "report"
  <2>1. i # 0
    BY <1>2
  <2> QED BY <1>1, <2>1 DEF Books, StartedOnce
<1>7. StartedOnce'
  <2>1. \A p \in Pid' : procs'[p].ctx # 0 => deploys'[procs'[p].ctx].pc \in {"report", "done"}
    <3> SUFFICES ASSUME NEW p \in Pid', procs'[p].ctx # 0
                 PROVE  deploys'[procs'[p].ctx].pc \in {"report", "done"}
      OBVIOUS
    <3>1. CASE p \in Pid
      <4>1. procs'[p].ctx \in Ctx /\ procs'[p].ctx = procs[p].ctx
        BY <1>2, <1>4, <3>1
      <4> QED BY <1>1, <1>6, <3>1, <4>1 DEF Books, StartedOnce
    <3>2. CASE p \notin Pid
      BY <1>1, <1>2, <3>2
    <3> QED BY <3>1, <3>2
  <2>2. \A p, q \in Pid' : procs'[p].ctx = procs'[q].ctx /\ procs'[p].ctx # 0 => p = q
    <3> SUFFICES ASSUME NEW p \in Pid', NEW q \in Pid', procs'[p].ctx = procs'[q].ctx,
                        procs'[p].ctx # 0
                 PROVE  p = q
      OBVIOUS
    <3>1. \A r \in Pid' : r \notin Pid => r = Len(procs) + 1 /\ procs'[r].ctx = i /\ pc = "start"
      BY <1>2
    <3>2. \A r \in Pid : procs'[r].ctx = procs[r].ctx /\ (procs'[r].ctx = i => pc = "report")
      BY <1>6
    <3>3. CASE p \in Pid /\ q \in Pid
      BY <3>2, <3>3 DEF Books, StartedOnce
    <3> QED BY <3>1, <3>2, <3>3
  <2> QED BY <2>1, <2>2 DEF StartedOnce
<1>8. /\ \A k \in 1..Len(workerCh) : k \in 1..Len(workerCh') /\ workerCh'[k] = workerCh[k]
      /\ \A k \in 1..Len(workerCh') : k \in 1..Len(workerCh) \/ (k = Len(workerCh) + 1 /\ workerCh'[k] = ev)
      /\ Len(workerCh') \in {Len(workerCh), Len(workerCh) + 1}
  <2>1. CASE workerCh' = workerCh
    BY <1>2, <2>1
  <2>2. CASE workerCh' = Append(workerCh, ev)
    <3>1. /\ Len(workerCh') = Len(workerCh) + 1 /\ Len(workerCh) \in Nat
          /\ workerCh'[Len(workerCh) + 1] = ev
          /\ \A k \in 1..Len(workerCh) : workerCh'[k] = workerCh[k]
      BY <2>2, AppendedEvent
    <3> QED BY <3>1
  <2> QED BY <2>1, <2>2
<1>9. EventsKnown'
  <2> SUFFICES ASSUME NEW k \in 1..Len(workerCh')
               PROVE  /\ workerCh'[k].ctx \in Ctx'
                      /\ workerCh'[k].art = deploys'[workerCh'[k].ctx].art
                      /\ workerCh'[k].cfg = deploys'[workerCh'[k].ctx].cfg
                      /\ workerCh'[k].phase = "HEALTH_CHECKING" =>
                           /\ workerCh'[k].proc \in Pid'
                           /\ procs'[workerCh'[k].proc].ctx = workerCh'[k].ctx
                      /\ workerCh'[k].phase # "HEALTH_CHECKING" => workerCh'[k].proc = 0
                      /\ LastWord(workerCh'[k]) =>
                           /\ deploys'[workerCh'[k].ctx].pc = "done"
                           /\ \A l \in 1..Len(workerCh') :
                                k < l => workerCh'[l].ctx # workerCh'[k].ctx
    BY DEF EventsKnown, LastWord
  <2>1. CASE k \in 1..Len(workerCh)
    <3> DEFINE f == workerCh[k]
    <3>1. /\ f.ctx \in Ctx /\ f.art = deploys[f.ctx].art /\ f.cfg = deploys[f.ctx].cfg
          /\ f.phase = "HEALTH_CHECKING" => f.proc \in Pid /\ procs[f.proc].ctx = f.ctx
          /\ f.phase # "HEALTH_CHECKING" => f.proc = 0
          /\ LastWord(f) => deploys[f.ctx].pc = "done"
      BY <2>1 DEF Books, EventsKnown
    <3>2. LastWord(f) => \A l \in 1..Len(workerCh) : k < l => workerCh[l].ctx # f.ctx
      BY <2>1 DEF Books, EventsKnown
    <3>3. workerCh'[k] = f
      BY <1>8, <2>1
    <3>4. LastWord(f) => f.ctx # i
      BY <1>1, <3>1
    <3> HIDE DEF f
    <3>5. LastWord(f) => \A l \in 1..Len(workerCh') : k < l => workerCh'[l].ctx # f.ctx
      BY <1>8, <3>2, <3>4
    <3>6. LastWord(f) => deploys'[f.ctx].pc = "done"
      BY <1>1, <3>1, <3>4
    <3>7. deploys'[f.ctx].art = deploys[f.ctx].art /\ deploys'[f.ctx].cfg = deploys[f.ctx].cfg
      BY <1>1, <3>1
    <3>8. f.ctx \in Ctx' /\ (f.proc \in Pid => f.proc \in Pid' /\ procs'[f.proc].ctx = procs[f.proc].ctx)
      BY <1>2, <1>3, <3>1
    <3> QED BY <3>1, <3>3, <3>5, <3>6, <3>7, <3>8
  <2>2. CASE k = Len(workerCh) + 1 /\ workerCh'[k] = ev
    <3>1. \A l \in 1..Len(workerCh') : ~(k < l)
      BY <1>2, <1>8, <2>2
    <3>2. i \in Ctx' /\ (ev.proc \in Pid => ev.proc \in Pid' /\ procs'[ev.proc].ctx = procs[ev.proc].ctx)
      BY <1>2, <1>3
    <3> QED BY <1>1, <2>2, <3>1, <3>2
  <2> QED BY <1>8, <2>1, <2>2
<1>10. \A p : Live(p)' /\ p \in Pid => Live(p)
  BY <1>2 DEF Live
<1>11. OldStopped'
  <2> SUFFICES ASSUME NEW j \in Ctx, \/ deploys'[j].pc \in {"check", "switch", "start", "report"}
                                     \/ \E p \in Pid' : procs'[p].ctx = j
               PROVE  ~Live(deploys[j].old)'
    BY <1>1, <1>2 DEF OldStopped
  <2>1. deploys[j].old \in 0..Len(procs)
    BY DEF Books, Counted
  <2>2. ~Live(deploys[j].old) => ~Live(deploys[j].old)'
    <3>2. deploys'[j].old = deploys[j].old
      BY <1>1
    <3> DEFINE o == deploys[j].old
    <3>3. o \in 0..Len(procs) /\ deploys'[j].old = o
      BY <2>1, <3>2
    <3> HIDE DEF o
    <3>4. (o \in 1..Len(procs') /\ procs'[o].alive) => (o \in 1..Len(procs) /\ procs[o].alive)
      BY <1>2, <3>3
    <3> QED BY <1>2, <3>3, <3>4 DEF Live, o
  <2>3. CASE j # i
    <3>1. deploys[j].pc \in {"check", "switch", "start", "report"} \/ \E p \in Pid : procs[p].ctx = j
      BY <1>1, <1>2, <2>3
    <3> QED BY <2>2, <3>1 DEF Books, OldStopped
  <2>4. CASE j = i /\ (pc \in {"check", "switch", "start", "report"} \/ \E p \in Pid : procs[p].ctx = i)
    BY <1>1, <2>2, <2>4 DEF Books, OldStopped
  <2>5. CASE j = i /\ pc \notin {"check", "switch", "start", "report"}
    <3>1. \A p \in Pid' : procs'[p].ctx # i
      BY <1>2, <1>6, <2>5
    <3>2. next \in {"check", "switch", "start", "report"}
      BY <1>1, <1>2, <2>5, <3>1
    <3> QED BY <2>5, <3>2
  <2> QED BY <2>3, <2>4, <2>5
<1>12. TransitApart'
  <2> SUFFICES ASSUME NEW p \in Pid', InTransit(p)'
               PROVE  p # st.proc /\ p \notin draining
    BY <1>1 DEF TransitApart
  <2>1. CASE p \in Pid
    <3>1. procs'[p].ctx = procs[p].ctx /\ procs[p].ctx # 0 /\ procs[p].ctx \in Ctx
      BY <1>2, <1>4, <2>1 DEF InTransit
    <3>2. CASE deploys'[procs[p].ctx].pc = "report"
      <4>1. deploys[procs[p].ctx].pc = "report"
        BY <1>1, <1>6, <2>1, <3>1, <3>2
      <4> QED BY <2>1, <3>1, <4>1 DEF Books, TransitApart, InTransit
    <3>3. CASE \E k \in 1..Len(workerCh') : workerCh'[k].proc = p
      <4>1. PICK k \in 1..Len(workerCh') : workerCh'[k].proc = p
        BY <3>3
      <4>2. CASE k \in 1..Len(workerCh)
        BY <1>8, <2>1, <3>1, <4>1, <4>2 DEF Books, TransitApart, InTransit
      <4>3. CASE workerCh'[k] = ev
        <5>1. p # 0
          BY <1>2, <2>1
        <5>2. procs[p].ctx = i /\ pc = "report"
          BY <4>1, <4>3, <5>1
        <5> QED BY <1>1, <2>1, <3>1, <5>2 DEF Books, TransitApart, InTransit
      <4> QED BY <1>8, <4>1, <4>2, <4>3
    <3> QED BY <2>1, <3>1, <3>2, <3>3 DEF InTransit
  <2>2. CASE p \notin Pid
    <3>1. p = Len(procs) + 1
      BY <1>2, <2>2
    <3>2. st.proc \in 0..Len(procs) /\ draining \subseteq 1..Len(procs)
      BY <1>2 DEF Books, Counted
    <3> QED BY <1>2, <3>1, <3>2
  <2> QED BY <2>1, <2>2
<1>13. DrainUnder' /\ DrainIsExpected'
  <2>1. st'.inflight # None => st.inflight.ctx \in Ctx
    BY <1>1, <1>2 DEF Books, Counted
  <2> QED BY <1>1, <1>2, <2>1 DEF Books, DrainUnder, DrainIsExpected
<1> QED BY <1>5, <1>7, <1>9, <1>11, <1>12, <1>13 DEF Books

\* An event carries its deploy's number, artifact and config.
LEMMA EventFields ==
  ASSUME NEW i, NEW pid, NEW ph
  PROVE  /\ Event(i, ph, pid).phase = ph /\ Event(i, ph, pid).proc = pid
         /\ Event(i, ph, pid).ctx = i /\ Event(i, ph, pid).art = deploys[i].art
         /\ Event(i, ph, pid).cfg = deploys[i].cfg
BY DEF Event

\* It gets through, or is dropped when the deploy is cancelled.
LEMMA SentEvent ==
  ASSUME Inv, NEW i \in Ctx, NEW pid \in Nat,
         NEW ph \in {"DOWNLOADING", "VERIFYING", "DRAINING", "SWITCHING", "HEALTH_CHECKING",
                     "FAILED", "ROLLING_BACK"},
         Send(i, <<Event(i, ph, pid)>>)
  PROVE  /\ workerCh' \in {workerCh, Append(workerCh, Event(i, ph, pid))}
         /\ ~deploys[i].cancelled => workerCh' = Append(workerCh, Event(i, ph, pid))
<1> DEFINE ev == Event(i, ph, pid)
<1>1. ev \in WorkerEvent
  BY EventType
<1>2. workerCh \o <<ev>> = Append(workerCh, ev)
  BY <1>1, BooksTypes, AppendIsConcat
<1>3. Send(i, <<ev>>)
  OBVIOUS
<1> HIDE DEF ev
<1>4. /\ workerCh' \in {workerCh, Append(workerCh, ev)}
      /\ ~deploys[i].cancelled => workerCh' = Append(workerCh, ev)
  BY <1>2, <1>3 DEF Send
<1> QED BY <1>4 DEF ev

\* A step that says something in passing, or its last word.
LEMMA SayingBooks ==
  ASSUME Inv, Books, NEW i \in Ctx, NEW pc \in WorkerPc \ {"done", "report"},
         NEW next \in WorkerPc \ {"report"}, WorkerAt(i, pc, next),
         NEW ph \in {"DOWNLOADING", "VERIFYING", "DRAINING", "SWITCHING", "FAILED", "ROLLING_BACK"},
         workerCh' \in {workerCh, Append(workerCh, Event(i, ph, 0))},
         ph \in {"FAILED", "ROLLING_BACK"} => next = "done",
         next \in {"check", "switch", "start"} => pc \in {"check", "switch", "start"},
         procs' = procs
  PROVE  Books'
<1> DEFINE ev == Event(i, ph, 0)
<1>1. /\ ev \in WorkerEvent /\ ev.phase = ph /\ ev.proc = 0 /\ ev.ctx = i
      /\ ev.art = deploys[i].art /\ ev.cfg = deploys[i].cfg
  BY EventType, EventFields
<1>2. Len(procs) \in Nat /\ Pid = 1..Len(procs)
  BY BooksTypes
<1>3. LastWord(ev) => next = "done"
  BY <1>1 DEF LastWord
<1>4. workerCh' \in {workerCh, Append(workerCh, ev)}
  OBVIOUS
<1> HIDE DEF ev
<1> QED BY <1>1, <1>2, <1>3, <1>4, WorkerBooks

\* A step that fails says so, and ends.
LEMMA FailingBooks ==
  ASSUME Inv, Books, NEW i \in Ctx, NEW pc \in WorkerPc \ {"done", "report"}, NEW kind,
         WorkerFails(i, pc, kind)
  PROVE  Books'
<1>1. WorkerAt(i, pc, "done") /\ procs' = procs /\ Send(i, <<Event(i, "FAILED", 0)>>)
  BY DEF WorkerFails
<1>2. workerCh' \in {workerCh, Append(workerCh, Event(i, "FAILED", 0))}
  BY <1>1, SentEvent
<1>3. "done" \in WorkerPc
  BY DEF WorkerPc
<1> QED BY <1>1, <1>2, <1>3, SayingBooks

\* No worker breaks the books: a start comes after the old process is dead.
LEMMA WorkerStepBooks ==
  ASSUME Inv, Books, NEW i \in Ctx, WorkerStep(i)
  PROVE  Books'
<1> USE DEF WorkerPc
<1>1. CASE Announce(i)
  <2> DEFINE next == IF deploys[i].cancelled THEN "done" ELSE "download"
  <2>1. /\ WorkerAt(i, "announce", next) /\ procs' = procs
        /\ workerCh' \in {workerCh, Append(workerCh, Event(i, "DOWNLOADING", 0))}
    BY <1>1, SentEvent DEF Announce
  <2>2. next \in {"done", "download"}
    OBVIOUS
  <2> HIDE DEF next
  <2> QED BY <2>1, <2>2, SayingBooks
<1>2. CASE Download(i)
  <2>1. CASE WorkerFails(i, "download", "download")
    BY <2>1, FailingBooks
  <2>2. CASE /\ WorkerAt(i, "download", "verify") /\ Send(i, <<Event(i, "VERIFYING", 0)>>)
             /\ procs' = procs
    <3>1. workerCh' \in {workerCh, Append(workerCh, Event(i, "VERIFYING", 0))}
      BY <2>2, SentEvent
    <3> QED BY <2>2, <3>1, SayingBooks
  <2>3. CASE /\ WorkerAt(i, "download", "done") /\ Send(i, <<Event(i, "FAILED", 0)>>)
             /\ procs' = procs
    <3>1. workerCh' \in {workerCh, Append(workerCh, Event(i, "FAILED", 0))}
      BY <2>3, SentEvent
    <3> QED BY <2>3, <3>1, SayingBooks
  <2> QED BY <1>2, <2>1, <2>2, <2>3 DEF Download
<1>3. CASE Verify(i)
  <2>1. CASE WorkerFails(i, "verify", "verify")
    BY <2>1, FailingBooks
  <2>2. CASE /\ WorkerAt(i, "verify", "drain") /\ Send(i, <<Event(i, "DRAINING", 0)>>)
             /\ procs' = procs
    <3>1. workerCh' \in {workerCh, Append(workerCh, Event(i, "DRAINING", 0))}
      BY <2>2, SentEvent
    <3> QED BY <2>2, <3>1, SayingBooks
  <2> QED BY <1>3, <2>1, <2>2 DEF Verify
<1>4. CASE DrainOld(i)
  <2> DEFINE ev == Event(i, "SWITCHING", 0)
  <2>1. WorkerAt(i, "drain", "check") /\ procs' = Killed(deploys[i].old) /\ workerCh' = workerCh
    BY <1>4 DEF DrainOld
  <2>2. deploys[i].old \in Nat /\ deploys'[i].old = deploys[i].old
    BY <2>1, WorkerFrame, DeployType DEF Deploy
  <2>3. KeepsProcs /\ Len(procs') = Len(procs) /\ ~Live(deploys[i].old)'
    <3> DEFINE o == deploys[i].old
    <3>1. KeepsProcs /\ Len(procs') = Len(procs) /\ ~Live(o)'
      <4>1. ASSUME NEW q \in Nat, procs' = Killed(q)
            PROVE  KeepsProcs /\ Len(procs') = Len(procs) /\ (~(q \in Pid' /\ procs'[q].alive))
        BY <4>1, KilledFrame DEF Live
      <4>2. deploys'[i].old \in Nat /\ procs' = Killed(deploys'[i].old)
        BY <2>1, <2>2
      <4> QED BY <4>1, <4>2 DEF Live
    <3> QED BY <3>1
  <2>4. /\ ev \in WorkerEvent /\ ev.phase = "SWITCHING" /\ ev.proc = 0 /\ ev.ctx = i
        /\ ev.art = deploys[i].art /\ ev.cfg = deploys[i].cfg
    BY EventType, EventFields
  <2>5. ~LastWord(ev)
    BY <2>4 DEF LastWord
  <2>6. Len(procs') \in Nat /\ Len(procs) \in Nat /\ Pid = 1..Len(procs)
    BY <2>3, BooksTypes DEF KeepsProcs
  <2> HIDE DEF ev
  <2> QED BY <2>1, <2>3, <2>4, <2>5, <2>6, WorkerBooks DEF KeepsProcs
<1>5. CASE CheckWithdrawn(i)
  <2> DEFINE next == IF deploys[i].cancelled THEN "done" ELSE "switch"
  <2>1. /\ WorkerAt(i, "check", next) /\ procs' = procs
        /\ workerCh' \in {workerCh, Append(workerCh, Event(i, "SWITCHING", 0))}
    BY <1>5 DEF CheckWithdrawn
  <2>2. next \in {"done", "switch"}
    OBVIOUS
  <2> HIDE DEF next
  <2> QED BY <2>1, <2>2, SayingBooks
<1>6. CASE SwitchTo(i)
  <2>1. CASE WorkerFails(i, "switch", "switch")
    BY <2>1, FailingBooks
  <2>2. CASE WorkerAt(i, "switch", "start") /\ UNCHANGED <<workerCh, procs>>
    BY <2>2, SayingBooks
  <2> QED BY <1>6, <2>1, <2>2 DEF SwitchTo
<1>7. CASE StartNew(i)
  <2>1. CASE WorkerFails(i, "start", "build")
    BY <2>1, FailingBooks
  <2>2. CASE /\ WorkerAt(i, "start", "done") /\ Send(i, <<Event(i, "ROLLING_BACK", 0)>>)
             /\ procs' = procs
    <3>1. workerCh' \in {workerCh, Append(workerCh, Event(i, "ROLLING_BACK", 0))}
      BY <2>2, SentEvent
    <3> QED BY <2>2, <3>1, SayingBooks
  <2>3. CASE /\ WorkerAt(i, "start", "report") /\ procs' = Append(procs, NewProc(i))
             /\ UNCHANGED workerCh
    <3> DEFINE ev == Event(i, "SWITCHING", 0)
    <3>1. /\ ev \in WorkerEvent /\ ev.phase = "SWITCHING" /\ ev.proc = 0 /\ ev.ctx = i
          /\ ev.art = deploys[i].art /\ ev.cfg = deploys[i].cfg
      BY EventType, EventFields
    <3>2. ~LastWord(ev)
      BY <3>1 DEF LastWord
    <3>3. /\ Len(procs') = Len(procs) + 1 /\ procs'[Len(procs) + 1].ctx = i
          /\ Len(procs) \in Nat /\ Pid = 1..Len(procs)
          /\ \A p \in Pid : procs'[p] = procs[p]
      BY <2>3, BooksTypes DEF NewProc
    <3>4. \A p \in 1..Len(procs') : p \in Pid \/ p = Len(procs) + 1
      BY <3>3
    <3> HIDE DEF ev
    <3> QED BY <2>3, <3>1, <3>2, <3>3, <3>4, WorkerBooks
  <2> QED BY <1>7, <2>1, <2>2, <2>3 DEF StartNew
<1>8. CASE ReportStarted(i)
  <2>1. PICK p \in Pid : procs[p].ctx = i /\ Send(i, <<Event(i, "HEALTH_CHECKING", p)>>)
    BY <1>8 DEF ReportStarted
  <2> DEFINE ev == Event(i, "HEALTH_CHECKING", p)
  <2>2. WorkerAt(i, "report", "done") /\ procs' = procs
    BY <1>8 DEF ReportStarted
  <2>3. /\ ev \in WorkerEvent /\ ev.phase = "HEALTH_CHECKING" /\ ev.proc = p /\ ev.ctx = i
        /\ ev.art = deploys[i].art /\ ev.cfg = deploys[i].cfg
        /\ workerCh' \in {workerCh, Append(workerCh, ev)}
    <3>1. p \in Nat
      BY BooksTypes
    <3>2. workerCh' \in {workerCh, Append(workerCh, Event(i, "HEALTH_CHECKING", p))}
      BY <2>1, <3>1, SentEvent
    <3>3. Event(i, "HEALTH_CHECKING", p) \in WorkerEvent
      BY <3>1, EventType
    <3> QED BY <3>2, <3>3, EventFields
  <2>4. Len(procs) \in Nat /\ Pid = 1..Len(procs)
    BY BooksTypes
  <2> HIDE DEF ev
  <2> QED BY <2>1, <2>2, <2>3, <2>4, WorkerBooks
<1> QED BY <1>1, <1>2, <1>3, <1>4, <1>5, <1>6, <1>7, <1>8 DEF WorkerStep

----------------------------------------------------------------------------
(* The main loop hears a worker *)

\* Serving an event takes it off the channel.
LEMMA ServedEvent ==
  ASSUME Inv, applyWorkerEvent
  PROVE  /\ KeepsEvents /\ Head(workerCh) = workerCh[1] /\ 1 \in 1..Len(workerCh)
         /\ Head(workerCh) \in WorkerEvent
         /\ Len(workerCh') = Len(workerCh) - 1
         /\ \A k \in 1..Len(workerCh') : workerCh'[k] = workerCh[k + 1] /\ k + 1 \in 1..Len(workerCh)
<1>1. workerCh \in Seq(WorkerEvent) /\ workerCh # <<>> /\ workerCh' = Tail(workerCh)
  BY DEF applyWorkerEvent, Inv, TypeOK
<1> QED BY <1>1, HeadTailProperties DEF KeepsEvents

\* What is installed was on its way until now, and is not any more.
LEMMA InstalledBooks ==
  ASSUME Inv, Books, applyWorkerEvent, Head(workerCh).phase = "HEALTH_CHECKING",
         UNCHANGED <<deploys, procs>>, st'.proc = Head(workerCh).proc, st'.inflight = st.inflight
  PROVE  Books'
<1> DEFINE ev == Head(workerCh)
<1>1. /\ KeepsEvents /\ ev = workerCh[1] /\ 1 \in 1..Len(workerCh)
      /\ Len(workerCh') = Len(workerCh) - 1 /\ Len(workerCh) \in Nat
      /\ \A k \in 1..Len(workerCh') : workerCh'[k] = workerCh[k + 1] /\ k + 1 \in 1..Len(workerCh)
  BY ServedEvent, BooksTypes
<1>2. KeepsDeploys /\ KeepsProcs /\ draining' = draining
  BY Untouched DEF applyWorkerEvent
<1>3. /\ ev.ctx \in Ctx /\ ev.proc \in Pid /\ procs[ev.proc].ctx = ev.ctx
      /\ deploys[ev.ctx].pc = "done"
      /\ \A l \in 1..Len(workerCh) : 1 < l => workerCh[l].ctx # ev.ctx
  BY <1>1 DEF Books, EventsKnown, LastWord
<1>4. Ctx' = Ctx /\ Pid' = Pid /\ Pid = 1..Len(procs) /\ Ctx = 1..Len(deploys)
  BY BooksTypes DEF Ctx, Pid
<1> PICK p \in Pid : p = ev.proc
  BY <1>3
<1>5. InTransit(p)
  BY <1>1, <1>3, <1>4 DEF InTransit
<1>6. p \notin draining
  BY <1>5 DEF Books, TransitApart
<1>7. ~InTransit(p)'
  <2> SUFFICES ASSUME NEW k \in 1..Len(workerCh'), workerCh'[k].proc = p
               PROVE  FALSE
    BY <1>3 DEF InTransit
  <2>1. workerCh[k + 1].proc = p /\ k + 1 \in 1..Len(workerCh)
    BY <1>1
  <2>2. p # 0
    BY <1>4, BooksTypes
  <2>3. workerCh[k + 1].ctx = ev.ctx
    BY <1>3, <2>1, <2>2 DEF Books, EventsKnown
  <2> QED BY <1>1, <1>3, <2>1, <2>3
<1> HIDE DEF ev
<1>8. st'.proc = p
  BY DEF ev
<1>9. Counted'
  BY <1>2, <1>4, <1>8, BooksTypes DEF Books, Counted, KeepsDeploys
<1>10. StartedOnce' /\ EventsKnown' /\ OldStopped'
  BY <1>1, <1>2, LoopRecords
<1>11. TransitApart'
  <2>1. \A q \in Pid : InTransit(q)' => InTransit(q)
    BY <1>1, <1>2, <1>4, LoopRecords
  <2> QED BY <1>2, <1>4, <1>7, <1>8, <2>1 DEF Books, TransitApart
<1>12. DrainUnder' /\ DrainIsExpected'
  BY <1>2, <1>6, <1>8 DEF DrainUnder, DrainIsExpected
<1> QED BY <1>9, <1>10, <1>11, <1>12 DEF Books

\* No event breaks the books, heeded or stale.
LEMMA ApplyWorkerEventBooks ==
  ASSUME Inv, Books, applyWorkerEvent
  PROVE  Books'
<1> DEFINE ev == Head(workerCh)
           progress == [st EXCEPT !.phase = ev.phase]
<1>1. KeepsEvents /\ UNCHANGED <<known, draining>> /\ st \in StrategyState /\ ev \in WorkerEvent
  BY StType, ServedEvent DEF applyWorkerEvent
<1>2. /\ progress.proc = st.proc /\ progress.inflight = st.inflight
      /\ progress.stopping = st.stopping
  <2> HIDE DEF ev
  <2> QED BY <1>1 DEF StrategyState
<1>3. known /\ st.proc \in draining => st.stopping \/ \E i \in Ctx : deploys[i].old = st.proc
  BY DEF Books, DrainIsExpected
<1>4. CASE UNCHANGED <<st, deploys, procs>>
  BY <1>1, <1>3, <1>4, Untouched, LoopBooks
<1>5. CASE /\ st' = [progress EXCEPT !.stopping = progress.stopping \/ ev.phase = "DRAINING"]
           /\ UNCHANGED <<deploys, procs>>
  <2>1. st'.proc = st.proc /\ st'.inflight = st.inflight /\ (st.stopping => st'.stopping)
    <3>1. DOMAIN progress = DOMAIN st /\ "stopping" \in DOMAIN st
      BY <1>1 DEF StrategyState
    <3> HIDE DEF progress, ev
    <3> QED BY <1>1, <1>2, <1>5, <3>1 DEF StrategyState
  <2> QED BY <1>1, <1>3, <1>5, <2>1, Untouched, LoopBooks
<1>6. CASE /\ Heeded(ev) /\ ev.phase = "HEALTH_CHECKING"
           /\ st' = [Install(progress, ev.proc, ev.capture)
                       EXCEPT !.running = ev.art, !.runCfg = ev.cfg, !.windowOver = FALSE,
                              !.crashes = 0, !.blocked = FALSE]
           /\ UNCHANGED <<deploys, procs>>
  <2> DEFINE inst == Install(progress, ev.proc, ev.capture)
  <2>1. inst \in StrategyState /\ inst.proc = ev.proc /\ inst.inflight = st.inflight
    <3>1. progress \in StrategyState
      <4> HIDE DEF ev
      <4> QED BY <1>1, <1>6 DEF StrategyState, Phases
    <3>2. ev.proc \in Nat /\ ev.capture \in BOOLEAN
      BY <1>1 DEF WorkerEvent
    <3> HIDE DEF progress, ev
    <3> QED BY <1>2, <3>1, <3>2, InstallType
  <2>2. st'.proc = ev.proc /\ st'.inflight = st.inflight
    <3> HIDE DEF inst, ev
    <3> QED BY <1>6, <2>1 DEF StrategyState, inst
  <2> QED BY <1>6, <2>2, InstalledBooks
<1>7. CASE beginRollback(st, watched)
  BY <1>1, <1>7, RollbackBooks
<1>8. CASE /\ Heeded(ev)
           /\ st' = [progress EXCEPT !.stopping = FALSE, !.failedAtGen = generation,
                                     !.inflight = None]
           /\ UNCHANGED <<deploys, procs>>
  <2>1. st'.proc = st.proc /\ st'.inflight = None
    <3>1. DOMAIN progress = DOMAIN st /\ "inflight" \in DOMAIN st
      BY <1>1 DEF StrategyState
    <3> HIDE DEF progress, ev
    <3> QED BY <1>1, <1>2, <1>8, <3>1 DEF StrategyState
  <2>2. st.inflight # None /\ st.inflight.ctx \in Ctx
    BY <1>8, BooksTypes DEF Heeded, Books, Counted
  <2>3. st.proc \in draining => \E i \in Ctx : deploys[i].old = st.proc
    BY <2>2 DEF Books, DrainUnder
  <2> QED BY <1>1, <1>8, <2>1, <2>3, Untouched, LoopBooks
<1> QED BY <1>4, <1>5, <1>6, <1>7, <1>8 DEF applyWorkerEvent

----------------------------------------------------------------------------
(* The books are kept *)

\* They start empty.
LEMMA BooksInit == Init => Books /\ DownIsQuiet
BY DEF Init, Books, Counted, StartedOnce, EventsKnown, OldStopped, TransitApart, DrainUnder,
       DrainIsExpected, DownIsQuiet, NewState, Pid, Ctx

\* Nothing starts while the agent is down.
LEMMA QuietNext == Inv /\ Books /\ DownIsQuiet /\ [Next]_vars => DownIsQuiet'
<1> SUFFICES ASSUME Inv, Books, DownIsQuiet, [Next]_vars, loop' = "down"
             PROVE  workerCh' = <<>> /\ draining' = {} /\ \A i \in Ctx' : deploys'[i].pc = "done"
  BY DEF DownIsQuiet
<1>1. CASE shutdown \/ Crash
  BY <1>1, GoneBooks DEF shutdown, Crash, DownIsQuiet
<1>2. CASE UNCHANGED <<loop, deploys, workerCh>> /\ draining' \subseteq draining
  BY <1>2 DEF DownIsQuiet, Ctx
<1>3. CASE Publish \/ BackoffElapses \/ WindowElapses \/ UNCHANGED vars
  BY <1>2, <1>3 DEF Publish, BackoffElapses, WindowElapses, EnvRest, envVars, vars
<1>4. ASSUME NEW p \in Pid, ProcessExits(p) \/ DrainDone(p)
      PROVE  workerCh' = <<>> /\ draining' = {} /\ \A i \in Ctx' : deploys'[i].pc = "done"
  BY <1>2, <1>4 DEF ProcessExits, DrainDone, EnvRest
<1>5. ASSUME NEW i \in Ctx, WorkerStep(i) PROVE FALSE
  <2>1. loop # "down" /\ loop' = loop
    BY <1>5 DEF WorkerStep, Announce, Download, Verify, DrainOld, CheckWithdrawn, SwitchTo,
                StartNew, ReportStarted, WorkerFails, WorkerAt
  <2> QED BY <2>1
<1>6. ASSUME NEW p \in Pid, handleExit(p) \/ applyHealthResult(p) PROVE FALSE
  BY <1>6 DEF handleExit, applyHealthResult, Serve
<1>7. CASE applyDesired \/ applyWorkerEvent \/ Tick \/ Reconcile \/ persistSupervision
           \/ rebuildActualState
  BY <1>7 DEF applyDesired, applyWorkerEvent, Tick, Serve, Reconcile, persistSupervision,
              rebuildActualState
<1> QED BY <1>1, <1>3, <1>4, <1>5, <1>6, <1>7 DEF Next

\* Every step keeps them.
LEMMA BooksNext == Inv /\ Books /\ DownIsQuiet /\ [Next]_vars => Books'
<1> SUFFICES ASSUME Inv, Books, DownIsQuiet, [Next]_vars PROVE Books'
  OBVIOUS
<1>1. CASE applyDesired \/ applyWorkerEvent \/ Tick \/ Reconcile \/ rebuildActualState
  BY <1>1, ApplyDesiredBooks, ApplyWorkerEventBooks, TickBooks, ReconcileBooks, RebuildBooks
<1>2. ASSUME NEW i \in Ctx, WorkerStep(i) PROVE Books'
  BY <1>2, WorkerStepBooks
<1>3. ASSUME NEW p \in Pid, handleExit(p) PROVE Books'
  BY <1>3, HandleExitBooks
<1>4. ASSUME NEW p \in Pid, applyHealthResult(p) PROVE Books'
  BY <1>4, ApplyHealthResultBooks
<1>5. ASSUME NEW p \in Pid, ProcessExits(p) \/ DrainDone(p) PROVE Books'
  BY <1>5, DeathBooks
<1>6. CASE Publish \/ persistSupervision \/ UNCHANGED vars
  <2>1. UNCHANGED <<deploys, procs, workerCh, draining, known, st>>
    BY <1>6 DEF Publish, persistSupervision, envVars, vars
  <2> QED BY <2>1, SameBooks
<1>7. CASE shutdown \/ Crash
  BY <1>7, GoneBooks DEF shutdown, Crash
<1>8. CASE BackoffElapses \/ WindowElapses
  BY <1>8, ClockBooks
<1> QED BY <1>1, <1>2, <1>3, <1>4, <1>5, <1>6, <1>7, <1>8 DEF Next

\* The books hold throughout.
THEOREM BooksKept == Spec => [](Books /\ DownIsQuiet)
<1>1. Inv /\ Books /\ DownIsQuiet /\ [Next]_vars => (Books /\ DownIsQuiet)'
  BY BooksNext, QuietNext
<1> QED BY Invariance, BooksInit, <1>1, PTL DEF Spec

\* The exit of a process the agent is stopping is never counted as a crash,
\* unless a deploy was begun over that process: whatever deploys, rollbacks, cron
\* restarts, mode flips and halts interleave with its drain.
THEOREM DrainsAreExpected == Spec => []DrainIsExpected
<1>1. Books => DrainIsExpected
  BY DEF Books
<1> QED BY BooksKept, <1>1, PTL

----------------------------------------------------------------------------
(* What becomes of a deploy *)

\* What a step may do to the deploys: nothing, cancel the one in flight, move one
\* worker, begin one, or end with the agent.
LEMMA DeployCases ==
  ASSUME Inv, [Next]_vars
  PROVE  \/ /\ KeepsEvents
            /\ deploys' = deploys \/ \E s \in StrategyState : deploys' = WithCancel(s)
         \/ \E i \in Ctx : WorkerStep(i)
         \/ beginDeploy /\ workerCh' = workerCh
         \/ AgentGone
<1> DEFINE kept == /\ KeepsEvents
                   /\ deploys' = deploys \/ \E s \in StrategyState : deploys' = WithCancel(s)
<1>1. st \in StrategyState
  BY StType
<1>2. ASSUME NEW p \in Pid, handleExit(p) PROVE kept
  <2>1. workerCh' = workerCh
    BY <1>2 DEF handleExit
  <2>2. CASE deploys' = deploys
    BY <2>1, <2>2 DEF KeepsEvents
  <2>3. CASE UnexpectedExit([st EXCEPT !.proc = 0], watched \ {p})
    <3> DEFINE gone == [st EXCEPT !.proc = 0]
               crashed == [gone EXCEPT !.crashes = gone.crashes + 1, !.blocked = TRUE]
    <3>1. gone \in StrategyState
      BY <1>1 DEF StrategyState
    <3>2. gone.crashes + 1 \in Nat
      BY <3>1 DEF StrategyState
    <3> HIDE DEF gone
    <3>3. crashed \in StrategyState
      BY <3>1, <3>2 DEF StrategyState
    <3>4. beginRollback(crashed, watched \ {p}) \/ deploys' = deploys
      BY <2>3 DEF UnexpectedExit, gone
    <3> HIDE DEF crashed
    <3>5. deploys' = WithCancel(crashed) \/ deploys' = deploys
      BY <3>4 DEF beginRollback
    <3> QED BY <2>1, <3>3, <3>5 DEF KeepsEvents
  <2> QED BY <1>2, <2>2, <2>3 DEF handleExit
<1>3. CASE applyDesired \/ Tick
  <2>1. (deploys' = deploys \/ deploys' = WithCancel(st)) /\ workerCh' = workerCh
    BY <1>3 DEF applyDesired, Tick, failHealthWindow, beginRollback
  <2> QED BY <1>1, <2>1 DEF KeepsEvents
<1>4. CASE applyWorkerEvent
  <2>1. deploys' = deploys \/ deploys' = WithCancel(st)
    BY <1>4 DEF applyWorkerEvent, beginRollback
  <2> QED BY <1>1, <1>4, <2>1, ServedEvent
<1>5. CASE Reconcile
  <2>1. deploys' = deploys \/ deploys' = WithCancel(st) \/ beginDeploy
    BY <1>5 DEF Reconcile, retireStrategy, reconcileStopped, restartInWindow, drainForMode,
                 steadyState, restart, reconcileWaits, Quiet
  <2>2. workerCh' = workerCh
    BY <1>5 DEF Reconcile
  <2> QED BY <1>1, <2>1, <2>2 DEF KeepsEvents
<1>6. ASSUME NEW p \in Pid, applyHealthResult(p) \/ ProcessExits(p) \/ DrainDone(p) PROVE kept
  BY <1>6 DEF applyHealthResult, ProcessExits, DrainDone, EnvRest, KeepsEvents
<1>7. CASE Publish \/ persistSupervision \/ rebuildActualState \/ BackoffElapses \/ WindowElapses
           \/ UNCHANGED vars
  BY <1>7 DEF Publish, persistSupervision, rebuildActualState, BackoffElapses,
              WindowElapses, EnvRest, vars, KeepsEvents
<1>8. CASE shutdown \/ Crash
  BY <1>8 DEF shutdown, Crash
<1> QED BY <1>2, <1>3, <1>4, <1>5, <1>6, <1>7, <1>8 DEF Next

\* No deploy is forgotten, or called on again.
LEMMA DeploysKept ==
  ASSUME Inv, [Next]_vars
  PROVE  /\ Len(deploys) <= Len(deploys') /\ Len(deploys') \in Nat
         /\ \A i \in Ctx : /\ deploys'[i].art = deploys[i].art /\ deploys'[i].cfg = deploys[i].cfg
                           /\ deploys'[i].gen = deploys[i].gen
                           /\ deploys[i].cancelled => deploys'[i].cancelled
                           /\ deploys[i].late => deploys'[i].late
<1> DEFINE goal == /\ Len(deploys) <= Len(deploys') /\ Len(deploys') \in Nat
                   /\ \A i \in Ctx : /\ deploys'[i].art = deploys[i].art
                                     /\ deploys'[i].cfg = deploys[i].cfg
                                     /\ deploys'[i].gen = deploys[i].gen
                                     /\ deploys[i].cancelled => deploys'[i].cancelled
                                     /\ deploys[i].late => deploys'[i].late
<1>1. deploys \in Seq(Deploy) /\ Len(deploys) \in Nat /\ Ctx = 1..Len(deploys)
  BY BooksTypes
<1>2. ASSUME KeepsDeploys PROVE goal
  BY <1>1, <1>2 DEF KeepsDeploys
<1>3. ASSUME deploys' = deploys PROVE goal
  BY <1>2, <1>3, Untouched
<1>4. ASSUME NEW s \in StrategyState, deploys' = WithCancel(s) PROVE goal
  BY <1>2, <1>4, CancelFrame
<1>5. ASSUME NEW i \in Ctx, WorkerStep(i) PROVE goal
  <2>1. PICK pc, next \in WorkerPc : WorkerAt(i, pc, next)
    BY <1>5 DEF WorkerStep, Announce, Download, Verify, DrainOld, CheckWithdrawn, SwitchTo,
                StartNew, ReportStarted, WorkerFails, WorkerPc
  <2> QED BY <1>1, <2>1, WorkerFrame
<1>6. CASE AgentGone
  BY <1>1, <1>6, GoneDeploys
<1>7. CASE beginDeploy
  <2>1. PICK d : deploys' = Append(deploys, d)
    BY <1>7 DEF beginDeploy
  <2> QED BY <1>1, <2>1
<1> QED BY <1>3, <1>4, <1>5, <1>6, <1>7, DeployCases

----------------------------------------------------------------------------
(* Withdrawn late *)

\* Worker i has moved `current`, and the main loop has not heard of the process.
Told(i)  == \E k \in 1..Len(workerCh) : workerCh[k].ctx = i /\ workerCh[k].phase = "HEALTH_CHECKING"
Moved(i) == deploys[i].pc \in {"start", "report"} \/ Told(i)

\* A deploy cancelled once its worker was committed is known to be late.
LateKnown == \A i \in Ctx : deploys[i].cancelled /\ Committed(i) => deploys[i].late

\* The commitment is the switch to come, or made.
LEMMA CommittedIs == \A i : Committed(i) <=> deploys[i].pc = "switch" \/ Moved(i)
BY DEF Committed, Moved, Told

\* A worker's step tells of nobody else's start, and of its own only by saying so.
LEMMA SaidMoves ==
  ASSUME Inv, NEW i \in Ctx, NEW pc, NEW next \in WorkerPc, WorkerAt(i, pc, next),
         NEW ev, ev.ctx = i, workerCh' \in {workerCh, Append(workerCh, ev)}
  PROVE  /\ deploys[i].pc = pc /\ deploys'[i].pc = next /\ Ctx' = Ctx
         /\ \A j \in Ctx : j # i => Moved(j)' = Moved(j) /\ deploys'[j].pc = deploys[j].pc
         /\ Told(i) => Told(i)'
         /\ ev.phase # "HEALTH_CHECKING" => Told(i)' = Told(i)
         /\ workerCh' = Append(workerCh, ev) /\ ev.phase = "HEALTH_CHECKING" => Told(i)'
<1>1. /\ Len(deploys') = Len(deploys) /\ deploys[i].pc = pc
      /\ \A j \in Ctx : deploys'[j].pc = IF j = i THEN next ELSE deploys[j].pc
  BY WorkerFrame
<1>2. /\ \A k \in 1..Len(workerCh) : k \in 1..Len(workerCh') /\ workerCh'[k] = workerCh[k]
      /\ \A k \in 1..Len(workerCh') : k \in 1..Len(workerCh) \/ workerCh'[k] = ev
      /\ workerCh' = Append(workerCh, ev) =>
           Len(workerCh) + 1 \in 1..Len(workerCh') /\ workerCh'[Len(workerCh) + 1] = ev
  <2>1. CASE workerCh' = workerCh
    <3>1. Len(workerCh) # Len(Append(workerCh, ev))
      BY BooksTypes
    <3> QED BY <2>1, <3>1
  <2>2. CASE workerCh' = Append(workerCh, ev)
    <3>1. /\ Len(workerCh') = Len(workerCh) + 1 /\ Len(workerCh) \in Nat
          /\ workerCh'[Len(workerCh) + 1] = ev
          /\ \A k \in 1..Len(workerCh) : workerCh'[k] = workerCh[k]
      BY <2>2, AppendedEvent
    <3> QED BY <3>1
  <2> QED BY <2>1, <2>2
<1>3. Told(i) => Told(i)'
  BY <1>2 DEF Told
<1>4. \A j : j # i \/ ev.phase # "HEALTH_CHECKING" => (Told(j)' <=> Told(j))
  BY <1>2 DEF Told
<1>5. \A j \in Ctx : j # i => Moved(j)' = Moved(j)
  BY <1>1, <1>4 DEF Moved
<1>6. workerCh' = Append(workerCh, ev) /\ ev.phase = "HEALTH_CHECKING" => Told(i)'
  BY <1>2 DEF Told
<1>7. Ctx' = Ctx
  BY <1>1 DEF Ctx
<1>8. ev.phase # "HEALTH_CHECKING" => Told(i)' = Told(i)
  BY <1>4 DEF Told
<1> QED BY <1>1, <1>3, <1>5, <1>6, <1>7, <1>8

\* How a worker's step moves `current` and starts processes: the switch points it
\* at the deploy's own release, the start runs what it points at, and a start is
\* forgotten only if it failed or its deploy was cancelled.
Strides(i) ==
  /\ Committed(i)' => Committed(i) \/ ~deploys[i].cancelled
  /\ Moved(i)' => Moved(i) \/ (deploys[i].pc = "switch" /\ current' = deploys[i].art)
  /\ Moved(i) => Moved(i)' \/ deploys[i].cancelled \/ Fault("build") \/ Fault("start")
  /\ current' = current \/ (deploys[i].pc = "switch" /\ Moved(i)' /\ current' = deploys[i].art)
  /\ Len(procs) <= Len(procs') /\ Len(procs') \in Nat
  /\ \A p \in Pid : /\ procs'[p].art = procs[p].art /\ procs'[p].ctx = procs[p].ctx
                    /\ procs'[p].alive => procs[p].alive
  /\ \A p \in 1..Len(procs') :
       p \notin Pid => procs'[p].ctx = i /\ procs'[p].art = current /\ deploys[i].pc = "start"

LEMMA WorkerMoves ==
  ASSUME Inv, Books, NEW i \in Ctx, WorkerStep(i)
  PROVE  /\ \A j \in Ctx : j # i => Moved(j)' = Moved(j) /\ deploys'[j].pc = deploys[j].pc
         /\ Strides(i)
<1> DEFINE apart == \A j \in Ctx : j # i => Moved(j)' = Moved(j) /\ deploys'[j].pc = deploys[j].pc
<1> USE DEF WorkerPc
<1>1. Len(procs) \in Nat /\ Pid = 1..Len(procs)
  BY BooksTypes
<1>2. ASSUME NEW pc \in WorkerPc \ {"start", "report"},
             NEW next \in WorkerPc \ {"start", "report"}, WorkerAt(i, pc, next),
             next = "switch" => ~deploys[i].cancelled,
             NEW ev, ev.ctx = i, ev.phase # "HEALTH_CHECKING",
             workerCh' \in {workerCh, Append(workerCh, ev)},
             procs' = procs \/ \E p \in Nat : procs' = Killed(p), current' = current
      PROVE  apart /\ Strides(i)
  <2>1. apart /\ Moved(i)' = Moved(i)
    BY <1>2, SaidMoves DEF Moved
  <2>2. Committed(i)' => Committed(i) \/ ~deploys[i].cancelled
    <3>1. Committed(i)' <=> deploys'[i].pc = "switch" \/ Moved(i)'
      BY DEF Committed, Moved, Told
    <3> QED BY <1>2, <2>1, <3>1, SaidMoves, CommittedIs
  <2>3. /\ Len(procs') = Len(procs)
        /\ \A p \in Pid : /\ procs'[p].art = procs[p].art /\ procs'[p].ctx = procs[p].ctx
                          /\ procs'[p].alive => procs[p].alive
    BY <1>2, Untouched, KilledFrame DEF KeepsProcs
  <2> QED BY <1>1, <1>2, <2>1, <2>2, <2>3 DEF Strides
<1>3. ASSUME NEW pc \in WorkerPc \ {"start", "report"}, NEW next \in WorkerPc \ {"start", "report"},
             WorkerAt(i, pc, next), next = "switch" => ~deploys[i].cancelled,
             NEW ph \in {"DOWNLOADING", "VERIFYING", "DRAINING", "SWITCHING", "FAILED"},
             \/ Send(i, <<Event(i, ph, 0)>>) \/ workerCh' = workerCh
             \/ workerCh' = Append(workerCh, Event(i, ph, 0)),
             procs' = procs \/ \E p \in Nat : procs' = Killed(p), current' = current
      PROVE  apart /\ Strides(i)
  <2> DEFINE ev == Event(i, ph, 0)
  <2>1. ev.ctx = i /\ ev.phase # "HEALTH_CHECKING"
    BY <1>3, EventFields
  <2>2. workerCh' \in {workerCh, Append(workerCh, ev)}
    BY <1>3, SentEvent
  <2> HIDE DEF ev
  <2> QED BY <1>2, <1>3, <2>1, <2>2
<1>4. CASE Announce(i)
  BY <1>3, <1>4 DEF Announce
<1>5. CASE Download(i)
  BY <1>3, <1>5 DEF Download, WorkerFails
<1>6. CASE Verify(i)
  BY <1>3, <1>6 DEF Verify, WorkerFails
<1>7. CASE DrainOld(i)
  <2>1. deploys[i] \in Deploy
    BY BooksTypes
  <2>2. deploys[i].old \in Nat
    BY <2>1 DEF Deploy
  <2> QED BY <1>3, <1>7, <2>2 DEF DrainOld
<1>8. CASE CheckWithdrawn(i)
  BY <1>3, <1>8 DEF CheckWithdrawn
<1>9. CASE SwitchTo(i)
  <2>1. CASE WorkerFails(i, "switch", "switch")
    BY <1>3, <2>1 DEF WorkerFails
  <2>2. CASE WorkerAt(i, "switch", "start") /\ current' = deploys[i].art /\ UNCHANGED <<workerCh, procs>>
    <3>1. apart /\ deploys'[i].pc = "start" /\ deploys[i].pc = "switch"
      <4> PICK ev : ev = [ctx |-> i]
        OBVIOUS
      <4>1. ev.ctx = i
        OBVIOUS
      <4> QED BY <2>2, <4>1, SaidMoves
    <3>2. Moved(i)' /\ Committed(i)
      BY <3>1 DEF Moved, Committed
    <3> QED BY <1>1, <2>2, <3>1, <3>2 DEF Strides
  <2> QED BY <1>9, <2>1, <2>2 DEF SwitchTo
<1>10. CASE StartNew(i)
  <2>1. deploys[i].pc = "start" /\ Moved(i) /\ Committed(i) /\ current' = current
    BY <1>10 DEF StartNew, WorkerFails, WorkerAt, Moved, Committed
  <2>2. ASSUME WorkerAt(i, "start", "done"), Fault("build") \/ Fault("start"), procs' = procs,
               NEW ph \in {"FAILED", "ROLLING_BACK"}, Send(i, <<Event(i, ph, 0)>>)
        PROVE  apart /\ Strides(i)
    <3> DEFINE ev == Event(i, ph, 0)
    <3>1. ev.ctx = i
      BY EventFields
    <3>2. workerCh' \in {workerCh, Append(workerCh, ev)}
      BY <2>2, SentEvent
    <3> HIDE DEF ev
    <3>3. apart
      BY <2>2, <3>1, <3>2, SaidMoves
    <3> QED BY <1>1, <2>1, <2>2, <3>3 DEF Strides
  <2>3. CASE /\ WorkerAt(i, "start", "report") /\ procs' = Append(procs, NewProc(i))
             /\ UNCHANGED workerCh
    <3>1. apart /\ deploys'[i].pc = "report"
      <4> PICK ev : ev = [ctx |-> i]
        OBVIOUS
      <4>1. ev.ctx = i
        OBVIOUS
      <4> QED BY <2>3, <4>1, SaidMoves
    <3>2. Moved(i)'
      BY <3>1 DEF Moved
    <3>3. /\ Len(procs') = Len(procs) + 1 /\ procs'[Len(procs) + 1].ctx = i
          /\ procs'[Len(procs) + 1].art = current
          /\ \A p \in Pid : procs'[p] = procs[p]
      BY <1>1, <2>3, BooksTypes DEF NewProc
    <3>4. \A p \in 1..Len(procs') : p \in Pid \/ p = Len(procs) + 1
      BY <1>1, <3>3
    <3> QED BY <1>1, <2>1, <3>1, <3>2, <3>3, <3>4 DEF Strides
  <2> QED BY <1>10, <2>2, <2>3 DEF StartNew, WorkerFails
<1>11. CASE ReportStarted(i)
  <2>1. PICK p \in Pid : procs[p].ctx = i /\ Send(i, <<Event(i, "HEALTH_CHECKING", p)>>)
    BY <1>11 DEF ReportStarted
  <2> DEFINE ev == Event(i, "HEALTH_CHECKING", p)
  <2>2. WorkerAt(i, "report", "done") /\ procs' = procs /\ current' = current
    BY <1>11 DEF ReportStarted
  <2>3. /\ ev.phase = "HEALTH_CHECKING" /\ ev.ctx = i
        /\ workerCh' \in {workerCh, Append(workerCh, ev)}
        /\ ~deploys[i].cancelled => workerCh' = Append(workerCh, ev)
    <3>1. p \in Nat
      BY <1>1
    <3>2. /\ workerCh' \in {workerCh, Append(workerCh, ev)}
          /\ ~deploys[i].cancelled => workerCh' = Append(workerCh, ev)
      BY <2>1, <3>1, SentEvent
    <3> QED BY <3>2, EventFields
  <2> HIDE DEF ev
  <2>4. apart /\ deploys[i].pc = "report" /\ (~deploys[i].cancelled => Told(i)')
    BY <2>2, <2>3, SaidMoves
  <2>5. Moved(i) /\ Committed(i) /\ (~deploys[i].cancelled => Moved(i)')
    BY <2>4 DEF Moved, Committed
  <2> QED BY <1>1, <2>2, <2>4, <2>5 DEF Strides
<1> QED BY <1>4, <1>5, <1>6, <1>7, <1>8, <1>9, <1>10, <1>11 DEF WorkerStep

\* A late deploy is known to be: its cancellation saw the commitment, and a
\* cancelled worker does not commit.
LEMMA LateNext == Inv /\ Books /\ LateKnown /\ [Next]_vars => LateKnown'
<1> SUFFICES ASSUME Inv, Books, LateKnown, [Next]_vars, NEW i \in Ctx',
                    deploys'[i].cancelled, Committed(i)'
             PROVE  deploys'[i].late
  BY DEF LateKnown
<1>1. /\ Ctx = 1..Len(deploys) /\ Len(deploys) \in Nat /\ Ctx' = 1..Len(deploys')
      /\ deploys \in Seq(Deploy)
  BY BooksTypes DEF Ctx
<1>2. i \in Ctx /\ deploys[i].cancelled /\ Committed(i) => deploys'[i].late
  BY DeploysKept DEF LateKnown
<1>3. ASSUME KeepsEvents, KeepsDeploys, i \in Ctx PROVE Committed(i)
  <2>1. PICK d \in {0, 1} : \A k \in 1..Len(workerCh') :
               k + d \in 1..Len(workerCh) /\ workerCh'[k] = workerCh[k + d]
    BY <1>3, EventsKept
  <2> QED BY <1>3, <2>1 DEF Committed, KeepsDeploys
<1>4. CASE KeepsEvents /\ deploys' = deploys
  BY <1>1, <1>2, <1>3, <1>4, Untouched
<1>5. ASSUME KeepsEvents, NEW s \in StrategyState, deploys' = WithCancel(s)
      PROVE  deploys'[i].late
  <2>1. KeepsDeploys /\ i \in Ctx
    BY <1>1, <1>5, CancelFrame DEF KeepsDeploys
  <2>2. Committed(i)
    BY <1>3, <1>5, <2>1
  <2>3. CASE s.inflight = None \/ s.inflight.ctx # i
    <3>1. deploys'[i] = deploys[i]
      BY <1>1, <1>5, <2>1, <2>3 DEF WithCancel
    <3> QED BY <1>2, <2>1, <2>2, <3>1
  <2>4. CASE s.inflight # None /\ s.inflight.ctx = i
    <3> DEFINE e == [deploys[i] EXCEPT !.cancelled = TRUE, !.late = deploys[i].late \/ Committed(i)]
    <3>1. deploys' = [deploys EXCEPT ![i] = e]
      BY <1>5, <2>4 DEF WithCancel
    <3>2. deploys[i] \in Deploy
      BY <1>1, <2>1
    <3>3. e.late
      BY <2>2, <3>2 DEF Deploy
    <3> HIDE DEF e
    <3> QED BY <1>1, <2>1, <3>1, <3>3
  <2> QED BY <2>3, <2>4
<1>6. ASSUME NEW j \in Ctx, WorkerStep(j) PROVE deploys'[i].late
  <2>1. PICK pc, next \in WorkerPc : WorkerAt(j, pc, next)
    BY <1>6 DEF WorkerStep, Announce, Download, Verify, DrainOld, CheckWithdrawn, SwitchTo,
                StartNew, ReportStarted, WorkerFails, WorkerPc
  <2>2. i \in Ctx /\ deploys[i].cancelled
    BY <1>1, <2>1, WorkerFrame
  <2>3. Committed(i)
    <3>1. i # j => Moved(i)' = Moved(i) /\ deploys'[i].pc = deploys[i].pc
      BY <1>6, <2>2, WorkerMoves
    <3>2. Committed(i)' <=> deploys'[i].pc = "switch" \/ Moved(i)'
      BY DEF Committed, Moved, Told
    <3>3. i = j => Committed(i)
      BY <1>6, <2>2, WorkerMoves DEF Strides
    <3> QED BY <3>1, <3>2, <3>3, CommittedIs
  <2> QED BY <1>2, <2>2, <2>3
<1>7. CASE beginDeploy /\ workerCh' = workerCh
  <2>1. PICK d : deploys' = Append(deploys, d) /\ d.cancelled = FALSE
    BY <1>7 DEF beginDeploy
  <2>2. i \in Ctx /\ deploys'[i] = deploys[i]
    BY <1>1, <2>1
  <2>3. Committed(i)
    BY <1>7, <2>2 DEF Committed
  <2> QED BY <1>2, <2>2, <2>3
<1>8. CASE AgentGone
  <2>1. i \in Ctx /\ deploys'[i].pc = "done"
    BY <1>1, <1>8, GoneDeploys
  <2>2. workerCh' = <<>>
    BY <1>8 DEF AgentGone
  <2> QED BY <2>1, <2>2 DEF Committed
<1> QED BY <1>4, <1>5, <1>6, <1>7, <1>8, DeployCases

THEOREM LateIsKnown == Spec => []LateKnown
<1>1. Init => LateKnown
  BY DEF Init, LateKnown, Ctx
<1> QED BY Invariance, BooksKept, LateNext, <1>1, PTL DEF Spec

----------------------------------------------------------------------------
(* One deploy at a time, and no process lost *)

InFlight(i) == st.inflight # None /\ st.inflight.ctx = i

\* While no deploy can be mistaken for another, a deploy that is neither in
\* flight nor cancelled has said its last word; so has the one in flight once it
\* is being checked; until then the agent holds the process that deploy found.
Accounted == \A i \in Ctx : ~deploys[i].cancelled /\ ~InFlight(i) => Finished(i)
Checked   == \A i \in Ctx : InFlight(i) /\ st.phase = "HEALTH_CHECKING" => Finished(i)
OldHeld   == \A i \in Ctx : InFlight(i) /\ ~Finished(i) => st.proc \in {0, deploys[i].old}

Clear == Accounted /\ Checked /\ OldHeld

Held ==
  restarts > 0 \/
  \A p \in Pid : procs[p].alive =>
    (known /\ st.proc = p) \/ InTransit(p) \/ WithdrawnLate(p)

\* A down agent has been stopped.
DownIsStopped == loop = "down" => restarts > 0

Ownership == DownIsStopped /\ (Mistakable \/ (Clear /\ Held))

\* A worker that has said its last word has nothing more to say.
LEMMA FinishedStays ==
  ASSUME Inv, KeepsDeploys, KeepsEvents, NEW i \in Ctx, Finished(i)
  PROVE  Finished(i)' /\ i \in Ctx'
<1>1. PICK d \in {0, 1} : \A k \in 1..Len(workerCh') :
             k + d \in 1..Len(workerCh) /\ workerCh'[k] = workerCh[k + d]
  BY EventsKept
<1>2. ~Sent(i)'
  BY <1>1 DEF Finished, Sent
<1> QED BY <1>2 DEF Finished, KeepsDeploys, Ctx

\* A step of the main loop keeps deploys apart when it drops the one in flight
\* only cancelled or finished, calls it checked only when it was, and supervises
\* something else only after its last word.
LEMMA LoopClear ==
  ASSUME Inv, Books, Clear, KeepsEvents, NEW s \in StrategyState, s.inflight = st.inflight,
         \/ deploys' = deploys /\ st'.inflight = st.inflight
         \/ deploys' = deploys /\ st'.inflight = None /\ \A i \in Ctx : InFlight(i) => Finished(i)'
         \/ deploys' = WithCancel(s) /\ st'.inflight = None,
         st'.inflight # None /\ st'.phase = "HEALTH_CHECKING" => st.phase = "HEALTH_CHECKING",
         \A i \in Ctx : st'.inflight # None /\ InFlight(i)
           => st'.proc \in {0, st.proc} \/ Finished(i)
  PROVE  Clear'
<1>1. /\ KeepsDeploys
      /\ \A i \in Ctx : deploys[i].cancelled => deploys'[i].cancelled
      /\ \A i \in Ctx : deploys'[i].old = deploys[i].old
  BY CancelFrame, Untouched DEF KeepsDeploys
<1>2. Ctx' = Ctx
  BY <1>1 DEF KeepsDeploys, Ctx
<1>3. \A i \in Ctx : Finished(i) => Finished(i)'
  BY <1>1, FinishedStays
<1>4. \A i \in Ctx : InFlight(i)' => InFlight(i) /\ st'.inflight # None /\ deploys' = deploys
  BY DEF InFlight
<1>5. Accounted'
  <2> SUFFICES ASSUME NEW i \in Ctx, ~deploys'[i].cancelled, ~InFlight(i)' PROVE Finished(i)'
    BY <1>2 DEF Accounted
  <2>1. CASE ~InFlight(i)
    BY <1>1, <1>3, <2>1 DEF Clear, Accounted
  <2>2. CASE InFlight(i)
    <3>1. st'.inflight = None
      BY <2>2 DEF InFlight
    <3>2. CASE deploys' = WithCancel(s)
      <4>1. s.inflight # None /\ s.inflight.ctx = i
        BY <2>2 DEF InFlight
      <4> QED BY <3>2, <4>1, CancelFrame
    <3>3. st.inflight # None
      BY <2>2 DEF InFlight
    <3> QED BY <2>2, <3>1, <3>2, <3>3
  <2> QED BY <2>1, <2>2
<1>6. Checked'
  BY <1>2, <1>3, <1>4 DEF Clear, Checked
<1>7. OldHeld'
  BY <1>1, <1>2, <1>3, <1>4 DEF Clear, OldHeld
<1> QED BY <1>5, <1>6, <1>7 DEF Clear

\* A step of the main loop loses no process when it lets go of one only dead or
\* to a drain, and supervises what it starts.
LEMMA LoopHeld ==
  ASSUME Inv, Books, Held, KeepsDeploys, KeepsProcs, restarts' = restarts,
         \A p \in Pid : InTransit(p) => InTransit(p)' \/ WithdrawnLate(p) \/ (known' /\ st'.proc = p),
         known => st.proc \notin Pid \/ ~procs'[st.proc].alive \/ (known' /\ st'.proc = st.proc),
         \A p \in 1..Len(procs') : p \notin Pid => known' /\ st'.proc = p
  PROVE  Held'
<1>1. CASE restarts > 0
  BY <1>1 DEF Held
<1>2. CASE ~(restarts > 0)
  <2> SUFFICES ASSUME NEW p \in Pid', procs'[p].alive
               PROVE  (known /\ st.proc = p)' \/ InTransit(p)' \/ WithdrawnLate(p)'
    BY DEF Held
  <2>1. CASE p \notin Pid
    BY <2>1 DEF Pid
  <2>2. CASE p \in Pid
    <3>1. procs[p].alive /\ procs'[p].ctx = procs[p].ctx
      BY <2>2 DEF KeepsProcs
    <3>2. WithdrawnLate(p) => WithdrawnLate(p)'
      <4>1. procs[p].ctx # 0 => procs[p].ctx \in Ctx
        BY <2>2, BooksTypes DEF Books, Counted
      <4> QED BY <3>1, <4>1 DEF WithdrawnLate, KeepsDeploys
    <3> QED BY <1>2, <2>2, <3>1, <3>2 DEF Held
  <2> QED BY <2>1, <2>2
<1> QED BY <1>1, <1>2

\* With deploys and the channel as they were, so is what is on its way.
LEMMA TransitStays ==
  ASSUME Inv, Books, KeepsDeploys, KeepsProcs, workerCh' = workerCh, NEW p \in Pid, InTransit(p)
  PROVE  InTransit(p)'
<1>1. procs[p].ctx \in Ctx /\ procs'[p].ctx = procs[p].ctx
  BY BooksTypes DEF Books, Counted, InTransit, KeepsProcs
<1> QED BY <1>1 DEF InTransit, KeepsDeploys

\* The two together, for a step that hears no worker.
LEMMA LoopOwns ==
  ASSUME Inv, Books, Clear, Held, workerCh' = workerCh, KeepsProcs, restarts' = restarts,
         NEW s \in StrategyState, s.inflight = st.inflight,
         \/ deploys' = deploys /\ st'.inflight = st.inflight
         \/ deploys' = deploys /\ st'.inflight = None /\ \A i \in Ctx : InFlight(i) => Finished(i)
         \/ deploys' = WithCancel(s) /\ st'.inflight = None,
         st'.inflight # None /\ st'.phase = "HEALTH_CHECKING" => st.phase = "HEALTH_CHECKING",
         \A i \in Ctx : st'.inflight # None /\ InFlight(i)
           => st'.proc \in {0, st.proc} \/ Finished(i),
         known => st.proc \notin Pid \/ ~procs'[st.proc].alive \/ (known' /\ st'.proc = st.proc),
         \A p \in 1..Len(procs') : p \notin Pid => known' /\ st'.proc = p
  PROVE  Clear' /\ Held'
<1>1. KeepsEvents /\ KeepsDeploys
  BY Untouched, CancelFrame
<1>2. \A i \in Ctx : Finished(i) => Finished(i)'
  BY <1>1, FinishedStays
<1>3. Clear'
  BY <1>1, <1>2, LoopClear
<1>4. \A p \in Pid : InTransit(p) => InTransit(p)'
  BY <1>1, TransitStays
<1> QED BY <1>1, <1>3, <1>4, LoopHeld

\* A step that leaves processes and what is supervised alone, or marks a drain.
LEMMA StillOwns ==
  ASSUME Inv, Books, Clear, Held, UNCHANGED <<workerCh, procs, restarts>>,
         known' = known, st'.proc = st.proc,
         NEW s \in StrategyState, s.inflight = st.inflight,
         \/ deploys' = deploys /\ st'.inflight = st.inflight
         \/ deploys' = deploys /\ st'.inflight = None /\ \A i \in Ctx : InFlight(i) => Finished(i)
         \/ deploys' = WithCancel(s) /\ st'.inflight = None,
         st'.inflight # None /\ st'.phase = "HEALTH_CHECKING" => st.phase = "HEALTH_CHECKING"
  PROVE  Clear' /\ Held'
<1>1. KeepsProcs /\ Pid = 1..Len(procs)
  BY Untouched, BooksTypes
<1> QED BY <1>1, LoopOwns

\* A snapshot cancels what it withdraws.
LEMMA ApplyDesiredOwns ==
  ASSUME Inv, Books, Clear, Held, applyDesired
  PROVE  Clear' /\ Held'
<1>1. /\ UNCHANGED <<workerCh, procs, restarts, draining, known>> /\ st \in StrategyState
      /\ \/ deploys' = WithCancel(st) /\ st' = [st EXCEPT !.inflight = None]
         \/ UNCHANGED <<deploys, st>>
  BY StType DEF applyDesired, envVars
<1>2. /\ st'.proc = st.proc /\ st'.phase = st.phase
      /\ \/ deploys' = deploys /\ st'.inflight = st.inflight
         \/ deploys' = WithCancel(st) /\ st'.inflight = None
  BY <1>1 DEF StrategyState
<1> QED BY <1>1, <1>2, StillOwns

\* A rollback: the process it stops is the one supervised, or that one is dead.
LEMMA RollbackLetsGo ==
  ASSUME Inv, Books, NEW s \in StrategyState, NEW w, beginRollback(s, w),
         s.proc = st.proc \/ (s.proc = 0 /\ ~Live(st.proc))
  PROVE  /\ KeepsDeploys /\ KeepsProcs /\ deploys' = WithCancel(s) /\ st'.inflight = None
         /\ st.proc \in Pid => ~procs'[st.proc].alive
         /\ \A p \in 1..Len(procs') : p \notin Pid => st'.proc = p
<1>1. s.proc \in 0..Len(procs) /\ st.proc \in 0..Len(procs) /\ Len(procs) \in Nat
  BY BooksTypes DEF Books, Counted
<1>2. /\ KeepsDeploys /\ KeepsProcs /\ ~Live(s.proc)' /\ deploys' = WithCancel(s)
      /\ st'.inflight = None
      /\ \/ st'.proc = 0 /\ Len(procs') = Len(procs)
         \/ st'.proc = Len(procs) + 1 /\ Len(procs') = Len(procs) + 1
  BY <1>1, RollbackFrame
<1>3. Pid = 1..Len(procs) /\ Pid' = 1..Len(procs')
  BY BooksTypes DEF Pid
<1>4. st.proc \in Pid => ~procs'[st.proc].alive
  <2>1. CASE ~Live(st.proc)
    BY <1>2, <2>1 DEF Live, KeepsProcs
  <2>2. CASE s.proc = st.proc
    <3> DEFINE q == s.proc
    <3>1. q \in 0..Len(procs) /\ ~(q \in 1..Len(procs') /\ procs'[q].alive)
      BY <1>1, <1>2, <1>3 DEF Live
    <3>2. q = st.proc
      BY <2>2
    <3> HIDE DEF q
    <3> QED BY <1>1, <1>2, <1>3, <3>1, <3>2
  <2> QED BY <2>1, <2>2
<1>5. \A p \in 1..Len(procs') : p \notin Pid => st'.proc = p
  BY <1>1, <1>2, <1>3
<1> QED BY <1>2, <1>4, <1>5

\* So it loses none.
LEMMA RollbackOwns ==
  ASSUME Inv, Books, Clear, Held, NEW s \in StrategyState, NEW w, beginRollback(s, w),
         s.inflight = st.inflight, UNCHANGED <<workerCh, restarts, draining>>, known,
         known' = known, s.proc = st.proc \/ (s.proc = 0 /\ ~Live(st.proc))
  PROVE  Clear' /\ Held'
BY RollbackLetsGo, LoopOwns

\* The process whose exit is served is dead.
LEMMA HandleExitOwns ==
  ASSUME Inv, Books, Clear, Held, NEW p \in Pid, handleExit(p)
  PROVE  Clear' /\ Held'
<1> DEFINE gone == [st EXCEPT !.proc = 0]
           w    == watched \ {p}
<1>1. UNCHANGED <<workerCh, draining, restarts>> /\ st \in StrategyState /\ ~procs[p].alive
  BY StType DEF handleExit, ServeRest
<1>2. gone \in StrategyState /\ gone.proc = 0 /\ gone.inflight = st.inflight /\ gone.phase = st.phase
  BY <1>1 DEF StrategyState
<1>3. Pid = 1..Len(procs)
  BY BooksTypes
<1>4. CASE UNCHANGED <<st, known, deploys, procs>>
  BY <1>1, <1>4, StillOwns
<1> DEFINE same == /\ st'.proc = 0 /\ UNCHANGED <<deploys, procs>> /\ st.proc = p
                   /\ st'.inflight = st.inflight
                   /\ st'.phase = "HEALTH_CHECKING" => st.phase = "HEALTH_CHECKING"
<1>5. ASSUME same PROVE Clear' /\ Held'
  BY <1>1, <1>3, <1>5, Untouched, LoopOwns
<1>6. CASE /\ st.proc = p /\ known /\ (st.stopping \/ desired = None)
           /\ known' = (desired # None \/ ~st.stopping)
           /\ st' = IF known' THEN [gone EXCEPT !.stopping = FALSE] ELSE NewState
           /\ UNCHANGED <<deploys, procs>>
  <2>1. CASE known'
    <3>1. st'.proc = 0 /\ st'.inflight = st.inflight /\ st'.phase = st.phase
      <4> HIDE DEF gone
      <4> QED BY <1>2, <1>6, <2>1 DEF StrategyState
    <3> QED BY <1>5, <1>6, <3>1
  <2>2. CASE ~known'
    <3>1. desired = None /\ st' = NewState
      BY <1>6, <2>2
    <3>2. st.inflight = None
      BY <3>1 DEF Inv, InflightWanted
    <3> QED BY <1>5, <1>6, <3>1, <3>2 DEF NewState
  <2> QED BY <2>1, <2>2
<1>7. CASE UnexpectedExit(gone, w) /\ st.proc = p /\ known /\ known' = known
  <2> HIDE DEF gone, w, same
  <2> DEFINE crashed == [gone EXCEPT !.crashes = gone.crashes + 1, !.blocked = TRUE]
             clean   == [gone EXCEPT !.crashes = 0, !.blocked = FALSE]
  <2>1. /\ crashed \in StrategyState /\ crashed.proc = 0 /\ crashed.inflight = st.inflight
        /\ crashed.phase = st.phase /\ clean.phase = st.phase
        /\ clean.proc = 0 /\ clean.inflight = st.inflight /\ clean \in StrategyState
    <3>1. gone.crashes + 1 \in Nat /\ 0 \in Nat
      BY <1>2 DEF StrategyState
    <3> QED BY <1>2, <3>1 DEF StrategyState
  <2> HIDE DEF crashed, clean
  <2>2. ASSUME NEW r \in StrategyState, r.proc = 0, r.inflight = st.inflight, r.phase = st.phase
        PROVE  /\ Demoted(r).proc = 0 /\ Demoted(r).inflight = st.inflight
               /\ Demoted(r).phase = "HEALTH_CHECKING" => st.phase = "HEALTH_CHECKING"
    BY <2>2 DEF Demoted, StrategyState
  <2>3. \/ beginRollback(crashed, w)
        \/ (st' = Demoted(crashed) \/ st' = Demoted(clean)) /\ UNCHANGED <<deploys, procs>>
    BY <1>7 DEF UnexpectedExit, crashed, clean
  <2>4. ~Live(st.proc)
    BY <1>1, <1>7 DEF Live
  <2>5. CASE beginRollback(crashed, w)
    BY <1>1, <1>7, <2>1, <2>4, <2>5, RollbackOwns
  <2>6. CASE (st' = Demoted(crashed) \/ st' = Demoted(clean)) /\ UNCHANGED <<deploys, procs>>
    BY <1>5, <1>7, <2>1, <2>2, <2>6 DEF same
  <2> QED BY <2>3, <2>5, <2>6
<1> QED BY <1>4, <1>6, <1>7 DEF handleExit

\* A due restart schedule keeps hold of the process it drains.
LEMMA CronOwns ==
  ASSUME Inv, Books, Clear, Held, NEW s \in StrategyState, tickCron(s),
         UNCHANGED <<deploys, workerCh, procs, restarts, known>>, s.proc = st.proc,
         s.phase = "HEALTH_CHECKING" => st.phase = "HEALTH_CHECKING",
         \/ s.inflight = st.inflight
         \/ s.inflight = None /\ \A i \in Ctx : InFlight(i) => Finished(i)
  PROVE  Clear' /\ Held'
<1>1. /\ st'.proc = st.proc /\ st'.inflight = s.inflight /\ draining \subseteq draining'
      /\ st'.phase = "HEALTH_CHECKING" => st.phase = "HEALTH_CHECKING"
  <2>1. CASE st' = s /\ UNCHANGED draining
    BY <2>1
  <2>2. CASE spawnDrain(s)
    BY <2>2 DEF spawnDrain, StrategyState
  <2> QED BY <2>1, <2>2 DEF tickCron
<1> QED BY <1>1, StType, StillOwns

\* The tick promotes a version only once its worker has ended.
LEMMA TickOwns ==
  ASSUME Inv, Books, Clear, Held, Tick
  PROVE  Clear' /\ Held'
<1>1. UNCHANGED <<workerCh, known, restarts>> /\ st \in StrategyState
  BY StType DEF Tick, ServeRest
<1>2. CASE beginRollback(st, watched) /\ UNCHANGED draining /\ known
  BY <1>1, <1>2, RollbackOwns
<1>3. CASE failHealthWindow /\ UNCHANGED <<procs, draining>>
  <2>1. /\ deploys' = WithCancel(st) /\ st'.proc = st.proc /\ st'.inflight = None
        /\ st'.phase = "FAILED"
    BY <1>1, <1>3 DEF failHealthWindow, StrategyState
  <2> QED BY <1>1, <1>3, <2>1, StillOwns
<1>4. CASE /\ tickCron(MarkedHealthy(st)) /\ UNCHANGED <<deploys, procs>>
           /\ st.phase = "HEALTH_CHECKING"
  <2>1. /\ MarkedHealthy(st) \in StrategyState /\ MarkedHealthy(st).proc = st.proc
        /\ MarkedHealthy(st).inflight = None /\ MarkedHealthy(st).phase = "HEALTHY"
    BY <1>1, MarkedHealthyType DEF Inv, MarkedHealthy, StrategyState
  <2>2. \A i \in Ctx : InFlight(i) => Finished(i)
    BY <1>4 DEF Clear, Checked
  <2> QED BY <1>1, <1>4, <2>1, <2>2, CronOwns
<1>5. CASE tickCron([st EXCEPT !.probing = TRUE]) /\ UNCHANGED <<deploys, procs>>
  <2> DEFINE s == [st EXCEPT !.probing = TRUE]
  <2>1. s \in StrategyState /\ s.proc = st.proc /\ s.phase = st.phase /\ s.inflight = st.inflight
    BY <1>1 DEF StrategyState
  <2>2. tickCron(s)
    BY <1>5
  <2> HIDE DEF s
  <2> QED BY <1>1, <1>5, <2>1, <2>2, CronOwns
<1>6. CASE tickCron(st) /\ UNCHANGED <<deploys, procs>>
  BY <1>1, <1>6, CronOwns
<1> QED BY <1>2, <1>3, <1>4, <1>5, <1>6 DEF Tick

\* So does a probe's answer.
LEMMA ApplyHealthResultOwns ==
  ASSUME Inv, Books, Clear, Held, NEW p \in Pid, applyHealthResult(p)
  PROVE  Clear' /\ Held'
<1> DEFINE s == [st EXCEPT !.probing = FALSE]
<1>1. /\ UNCHANGED <<known, deploys, workerCh, procs, draining, restarts>> /\ st \in StrategyState
      /\ \/ st' = st \/ st' = s
         \/ s.phase = "HEALTH_CHECKING" /\ st' = MarkedHealthy(s)
  BY StType DEF applyHealthResult, ServeRest
<1>2. s \in StrategyState /\ s.proc = st.proc /\ s.phase = st.phase /\ s.inflight = st.inflight
  BY <1>1 DEF StrategyState
<1> HIDE DEF s
<1>3. /\ MarkedHealthy(s).proc = st.proc /\ MarkedHealthy(s).phase = "HEALTHY"
      /\ MarkedHealthy(s).inflight = None
  BY <1>2 DEF MarkedHealthy, StrategyState
<1>4. st.phase = "HEALTH_CHECKING" => \A i \in Ctx : InFlight(i) => Finished(i)
  BY DEF Clear, Checked
<1> QED BY <1>1, <1>2, <1>3, <1>4, StillOwns

\* A start follows the last word of the deploy in flight, if there is one.
LEMMA StartOwns ==
  ASSUME Inv, Books, Clear, Held, NEW s \in StrategyState, NEW hc \in BOOLEAN, startProcess(s, hc),
         s.proc = 0, st.proc = 0, s.inflight = st.inflight, known',
         UNCHANGED <<deploys, workerCh, draining, restarts>>,
         st.inflight # None => st.phase = "HEALTH_CHECKING"
  PROVE  Clear' /\ Held'
<1>1. /\ KeepsProcs /\ st'.inflight = s.inflight
      /\ \/ st'.proc = 0 /\ procs' = procs
         \/ st'.proc = Len(procs) + 1 /\ Len(procs') = Len(procs) + 1
  BY StartFrame
<1>2. Pid = 1..Len(procs) /\ Len(procs) \in Nat
  BY BooksTypes
<1>3. \A i \in Ctx : InFlight(i) => Finished(i)
  BY DEF Clear, Checked, InFlight
<1>4. \A p \in 1..Len(procs') : p \notin Pid => known' /\ st'.proc = p
  BY <1>1, <1>2
<1>5. st.proc \notin Pid
  BY <1>2
<1> QED BY <1>1, <1>3, <1>4, <1>5, LoopOwns

\* Retiring and halting cancel the deploy in flight and drain the process.
LEMMA RetireOwns ==
  ASSUME Inv, Books, Clear, Held, retireStrategy \/ reconcileStopped,
         UNCHANGED <<workerCh, restarts>>
  PROVE  Clear' /\ Held'
<1> DEFINE s == [st EXCEPT !.inflight = None]
<1>1. /\ s \in StrategyState /\ s.proc = st.proc /\ s.inflight = None /\ s.phase = st.phase
      /\ st \in StrategyState
  BY StType, DroppedType DEF StrategyState
<1>2. deploys' = WithCancel(st) /\ procs' = procs /\ draining \subseteq draining'
  BY DEF retireStrategy, reconcileStopped, spawnDrain
<1>3. Pid = 1..Len(procs) /\ KeepsProcs
  BY <1>2, BooksTypes, Untouched
<1>4. /\ st'.inflight = None
      /\ (known' /\ st'.proc = st.proc) \/ st.proc = 0
  <2>1. CASE st' = s /\ (known => known')
    BY <1>1, <2>1 DEF retireStrategy, reconcileStopped, Inv, ProcWatched
  <2>2. CASE spawnDrain(s) /\ (known => known')
    BY <1>1, <2>2, DrainFrame DEF Inv, ProcWatched
  <2>3. CASE st' = NewState /\ s.proc = 0
    BY <1>1, <2>3 DEF NewState
  <2>4. CASE /\ s.proc = 0
             /\ st' = [s EXCEPT !.phase = "STOPPED", !.stopping = FALSE, !.observedGen = generation]
    <3> HIDE DEF s
    <3> QED BY <1>1, <2>4 DEF StrategyState
  <2> QED BY <2>1, <2>2, <2>3, <2>4 DEF retireStrategy, reconcileStopped
<1>5. known => st.proc \notin Pid \/ ~procs'[st.proc].alive \/ (known' /\ st'.proc = st.proc)
  BY <1>3, <1>4
<1>6. \A p \in 1..Len(procs') : p \notin Pid => known' /\ st'.proc = p
  BY <1>2, <1>3
<1> QED BY <1>1, <1>2, <1>3, <1>4, <1>5, <1>6, LoopOwns

\* A deploy begins with every earlier one cancelled or done.
LEMMA BeginDeployOwns ==
  ASSUME Inv, Books, Clear, Held, beginDeploy, UNCHANGED <<workerCh, restarts>>
  PROVE  Clear' /\ Held'
<1> DEFINE n == Len(deploys) + 1
           d == [pc |-> "announce", cancelled |-> FALSE, late |-> FALSE,
                 art |-> desired.art, cfg |-> desired.cfg, capture |-> desired.capture, old |-> st.proc, gen |-> generation]
<1>1. /\ deploys' = Append(deploys, d) /\ UNCHANGED <<procs, draining>> /\ known' = TRUE
      /\ st' = [st EXCEPT !.inflight = [ctx |-> n, art |-> desired.art, cfg |-> desired.cfg],
                          !.phase = "PENDING", !.prev = st.running, !.prevCfg = st.runCfg]
      /\ st.inflight = None
  BY DEF beginDeploy, Free
<1>2. st'.proc = st.proc /\ st'.phase = "PENDING" /\ st'.inflight.ctx = n
  <2> HIDE DEF n
  <2> QED BY <1>1, StType DEF StrategyState
<1>3. /\ Len(deploys') = n /\ Len(deploys) \in Nat /\ n \in Nat
      /\ deploys'[n] = d /\ \A i \in Ctx : deploys'[i] = deploys[i]
  BY <1>1, BooksTypes DEF Ctx
<1>4. Ctx' = Ctx \cup {n} /\ n \notin Ctx /\ Pid' = Pid
  BY <1>1, <1>3 DEF Ctx, Pid
<1>5. d.old = st.proc
  OBVIOUS
<1> HIDE DEF n, d
<1>6. \A i : InFlight(i)' => i = n
  BY <1>2 DEF InFlight
<1>7. \A i \in Ctx : Finished(i) => Finished(i)'
  BY <1>3 DEF Finished, Sent
<1>8. \A i \in Ctx : ~InFlight(i)
  BY <1>1 DEF InFlight
<1>9. st'.inflight # None
  <2>1. n \in Nat /\ desired.art \in Artifacts /\ desired.cfg \in MaybeConfig
    BY <1>3 DEF beginDeploy, Free, Inv, TypeOK, Specs
  <2>2. st'.inflight = [ctx |-> n, art |-> desired.art, cfg |-> desired.cfg]
    BY <1>1, StType DEF StrategyState
  <2> QED BY <2>1, <2>2, AgentAssumption DEF Inflight
<1>10. \A i : i = n => InFlight(i)'
  BY <1>2, <1>9 DEF InFlight
<1>11. Accounted'
  <2> SUFFICES ASSUME NEW i \in Ctx', ~deploys'[i].cancelled, ~InFlight(i)' PROVE Finished(i)'
    BY DEF Accounted
  <2>1. i \in Ctx
    BY <1>4, <1>10
  <2> QED BY <1>3, <1>7, <1>8, <2>1 DEF Clear, Accounted
<1>12. Checked' /\ OldHeld'
  <2>1. Checked'
    BY <1>2 DEF Checked
  <2>2. \A i \in Ctx' : InFlight(i)' => st'.proc \in {0, deploys'[i].old}
    BY <1>2, <1>3, <1>5, <1>6
  <2> QED BY <2>1, <2>2 DEF OldHeld
<1>13. Held'
  <2>1. \A p \in Pid : procs[p].ctx # 0 => procs[p].ctx \in Ctx
    BY BooksTypes DEF Books, Counted
  <2>2. \A p \in Pid : InTransit(p) => InTransit(p)'
    BY <1>1, <1>3, <2>1 DEF InTransit
  <2>3. \A p \in Pid : WithdrawnLate(p) => WithdrawnLate(p)'
    BY <1>1, <1>3, <2>1 DEF WithdrawnLate
  <2> QED BY <1>1, <1>2, <1>4, <2>2, <2>3 DEF Held
<1> QED BY <1>11, <1>12, <1>13 DEF Clear

\* No branch of reconcile loses a process or a deploy.
LEMMA ReconcileOwns ==
  ASSUME Inv, Books, Clear, Held, Reconcile
  PROVE  Clear' /\ Held'
<1>1. UNCHANGED <<workerCh, restarts>> /\ st \in StrategyState
  BY StType DEF Reconcile
<1>2. ASSUME restartInWindow PROVE Clear' /\ Held'
  <2>1. st.proc = 0 /\ known' /\ UNCHANGED <<deploys, draining>> /\ startProcess(st, TRUE)
        /\ st.phase = "HEALTH_CHECKING"
    BY <1>2 DEF restartInWindow, Quiet
  <2> QED BY <1>1, <2>1, StartOwns
<1>3. ASSUME restart PROVE Clear' /\ Held'
  <2>1. /\ desired # None /\ st.proc = 0 /\ known' /\ UNCHANGED <<deploys, draining>>
        /\ st.inflight = None /\ startProcess(Relabelled(st), st.phase = "STOPPED")
    BY <1>3 DEF restart, Free, Quiet
  <2>2. /\ Relabelled(st) \in StrategyState /\ Relabelled(st).proc = st.proc
        /\ Relabelled(st).inflight = st.inflight
    BY <2>1, RelabelledType
  <2> QED BY <1>1, <2>1, <2>2, StartOwns
<1>4. ASSUME drainForMode PROVE Clear' /\ Held'
  <2>1. spawnDrain(st) /\ UNCHANGED <<deploys, procs>> /\ known'
    BY <1>4 DEF drainForMode, Quiet
  <2>2. st'.proc = st.proc /\ st'.inflight = st.inflight /\ st'.phase = "DRAINING"
        /\ draining \subseteq draining'
    BY <1>1, <2>1 DEF spawnDrain, StrategyState
  <2>3. Pid = 1..Len(procs) /\ KeepsProcs
    BY <2>1, BooksTypes, Untouched
  <2> QED BY <1>1, <2>1, <2>2, <2>3, LoopOwns
<1>5. ASSUME steadyState PROVE Clear' /\ Held'
  <2>1. UNCHANGED <<deploys, procs, draining>> /\ known'
        /\ st' = [Relabelled(st) EXCEPT !.observedGen = generation]
    BY <1>5 DEF steadyState, Quiet
  <2>2. st'.proc = st.proc /\ st'.phase = st.phase /\ st'.inflight = st.inflight
    BY <1>1, <2>1 DEF Relabelled, StrategyState
  <2>3. Pid = 1..Len(procs) /\ KeepsProcs
    BY <2>1, BooksTypes, Untouched
  <2> QED BY <1>1, <2>1, <2>2, <2>3, LoopOwns
<1>6. ASSUME reconcileWaits PROVE Clear' /\ Held'
  <2>1. UNCHANGED <<st, deploys, procs, draining>> /\ (known => known')
    BY <1>6 DEF reconcileWaits
  <2>2. Pid = 1..Len(procs) /\ KeepsProcs
    BY <2>1, BooksTypes, Untouched
  <2> QED BY <1>1, <2>1, <2>2, LoopOwns
<1> QED BY <1>1, <1>2, <1>3, <1>4, <1>5, <1>6, RetireOwns, BeginDeployOwns DEF Reconcile

\* A called-off deploy whose digest is deployed again has nothing more to say.
ToldApart == \A i, j \in Ctx : CalledOff(i, j) => Finished(i)

LEMMA Unmistakable == ~Mistakable => ToldApart
BY DEF Mistakable, ToldApart

\* While no deploy is mistaken for another, the event served is heeded exactly if
\* it is the deploy in flight that speaks; any other that still speaks is cancelled.
LEMMA Recognised ==
  ASSUME Inv, Books, Clear, UnknownIsNew, ToldApart, applyWorkerEvent,
         NEW j, j = Head(workerCh).ctx
  PROVE  /\ j \in Ctx /\ ~Finished(j)
         /\ Heeded(Head(workerCh)) => InFlight(j)
         /\ ~Heeded(Head(workerCh)) => deploys[j].cancelled
         /\ LastWord(Head(workerCh)) => deploys[j].pc = "done" /\ ~Sent(j)'
<1> DEFINE ev == Head(workerCh)
<1>1. /\ ev = workerCh[1] /\ 1 \in 1..Len(workerCh)
      /\ Len(workerCh') = Len(workerCh) - 1 /\ Len(workerCh) \in Nat
      /\ \A k \in 1..Len(workerCh') : workerCh'[k] = workerCh[k + 1] /\ k + 1 \in 1..Len(workerCh)
  BY ServedEvent, BooksTypes
<1>2. /\ j \in Ctx /\ ev.art = deploys[j].art
      /\ LastWord(ev) => /\ deploys[j].pc = "done"
                         /\ \A l \in 1..Len(workerCh) : 1 < l => workerCh[l].ctx # j
  BY <1>1 DEF Books, EventsKnown
<1>3. ~Finished(j)
  BY <1>1 DEF Finished, Sent
<1>4. ASSUME ~InFlight(j) PROVE deploys[j].cancelled
  BY <1>2, <1>3, <1>4 DEF Clear, Accounted
<1>5. ASSUME Heeded(ev) PROVE InFlight(j)
  <2> DEFINE n == Len(deploys)
  <2>1. /\ n \in Ctx /\ st.inflight # None /\ st.inflight.ctx = n /\ n \in Nat
        /\ deploys[n].art.digest = deploys[j].art.digest
    BY <1>2, <1>5, BooksTypes DEF Heeded, Books, Counted
  <2>2. j <= n /\ j \in Nat
    BY <1>2, <2>1, BooksTypes
  <2>3. j < n => ~deploys[j].cancelled
    BY <1>2, <1>3, <2>1 DEF ToldApart, CalledOff
  <2> QED BY <1>4, <2>1, <2>2, <2>3 DEF InFlight
<1>6. ASSUME InFlight(j) PROVE Heeded(ev)
  <2>1. st.inflight # None /\ st.inflight.art = deploys[j].art
    BY <1>6 DEF InFlight, Books, Counted
  <2>2. known
    BY <2>1 DEF UnknownIsNew, NewState
  <2> QED BY <1>2, <2>1, <2>2 DEF Heeded
<1>7. LastWord(ev) => deploys[j].pc = "done" /\ ~Sent(j)'
  <2> HIDE DEF ev
  <2>1. LastWord(ev) => \A k \in 1..Len(workerCh') : workerCh'[k].ctx # j
    BY <1>1, <1>2
  <2> QED BY <1>2, <2>1 DEF Sent
<1> QED BY <1>2, <1>3, <1>4, <1>5, <1>6, <1>7

\* What was on its way still is, unless its start is the event served.
LEMMA TransitServed ==
  ASSUME Inv, Books, KeepsDeploys, KeepsProcs, applyWorkerEvent, NEW p \in Pid, InTransit(p)
  PROVE  \/ InTransit(p)'
         \/ /\ Head(workerCh).proc = p /\ Head(workerCh).phase = "HEALTH_CHECKING"
            /\ procs[p].ctx = Head(workerCh).ctx
<1>1. /\ Head(workerCh) = workerCh[1] /\ 1 \in 1..Len(workerCh)
      /\ workerCh' = Tail(workerCh) /\ workerCh \in Seq(WorkerEvent)
  BY ServedEvent, BooksTypes DEF applyWorkerEvent
<1>2. procs[p].ctx \in Ctx /\ procs'[p].ctx = procs[p].ctx /\ p # 0
  BY BooksTypes DEF Books, Counted, InTransit, KeepsProcs
<1>3. CASE deploys[procs[p].ctx].pc = "report"
  BY <1>2, <1>3 DEF InTransit, KeepsDeploys
<1>4. ASSUME NEW k \in 1..Len(workerCh), workerCh[k].proc = p, k # 1
      PROVE  InTransit(p)'
  <2>1. k - 1 \in 1..Len(workerCh') /\ workerCh'[k - 1] = workerCh[k]
    BY <1>1, <1>4
  <2> QED BY <1>2, <1>4, <2>1 DEF InTransit
<1>5. CASE workerCh[1].proc = p
  BY <1>1, <1>2, <1>5 DEF Books, EventsKnown
<1> QED BY <1>1, <1>3, <1>4, <1>5 DEF InTransit

\* No event loses a process or a deploy: the process an installed one displaces
\* was stopped by its worker.
LEMMA ApplyWorkerEventOwns ==
  ASSUME Inv, Books, LateKnown, Clear, Held, UnknownIsNew, ToldApart, applyWorkerEvent
  PROVE  Clear' /\ Held'
<1> DEFINE ev == Head(workerCh)
           progress == [st EXCEPT !.phase = ev.phase]
<1>1. /\ KeepsEvents /\ UNCHANGED <<known, draining, restarts>> /\ st \in StrategyState
      /\ ev \in WorkerEvent
  BY StType, ServedEvent DEF applyWorkerEvent, ServeRest
<1> PICK j : j = ev.ctx
  OBVIOUS
<1>2. /\ j \in Ctx /\ ~Finished(j)
      /\ Heeded(ev) => InFlight(j)
      /\ ~Heeded(ev) => deploys[j].cancelled
      /\ LastWord(ev) /\ deploys' = deploys => Finished(j)'
  BY Recognised DEF Finished
<1>3. \A i : InFlight(i) /\ InFlight(j) => i = j
  BY DEF InFlight
<1>4. /\ progress.proc = st.proc /\ progress.inflight = st.inflight
  <2> HIDE DEF ev
  <2> QED BY <1>1 DEF StrategyState
<1>5. ASSUME NEW p \in Pid, InTransit(p), KeepsDeploys, KeepsProcs,
             ~Heeded(ev) \/ ev.phase # "HEALTH_CHECKING"
      PROVE  InTransit(p)' \/ WithdrawnLate(p)
  <2>1. CASE InTransit(p)'
    BY <2>1
  <2>2. CASE ev.phase = "HEALTH_CHECKING" /\ procs[p].ctx = ev.ctx
    <3>1. deploys[j].cancelled /\ procs[p].ctx = j /\ procs[p].ctx # 0
      BY <1>2, <1>5, <2>2 DEF InTransit
    <3>2. Committed(j)
      BY <2>2, ServedEvent DEF Committed
    <3> QED BY <1>2, <3>1, <3>2 DEF WithdrawnLate, LateKnown
  <2> QED BY <1>5, <2>1, <2>2, TransitServed
<1>6. Pid = 1..Len(procs)
  BY BooksTypes
<1> DEFINE calm == /\ UNCHANGED <<deploys, procs>> /\ st'.proc = st.proc
                   /\ ~Heeded(ev) \/ ev.phase # "HEALTH_CHECKING"
                   /\ st'.inflight # None /\ st'.phase = "HEALTH_CHECKING"
                        => st.phase = "HEALTH_CHECKING"
                   /\ \/ st'.inflight = st.inflight
                      \/ st'.inflight = None /\ Heeded(ev) /\ LastWord(ev)
<1>7. ASSUME calm PROVE Clear' /\ Held'
  <2> HIDE DEF progress, ev
  <2>1. KeepsDeploys /\ KeepsProcs
    BY <1>7, Untouched
  <2>2. Clear'
    <3>1. Heeded(ev) /\ LastWord(ev) => \A i \in Ctx : InFlight(i) => Finished(i)'
      <4> SUFFICES ASSUME Heeded(ev), LastWord(ev), NEW i \in Ctx, InFlight(i) PROVE Finished(i)'
        OBVIOUS
      <4>1. i = j /\ Finished(j)'
        BY <1>2, <1>3, <1>7
      <4> QED BY <4>1
    <3> QED BY <1>1, <1>7, <3>1, LoopClear
  <2>3. \A p \in Pid : InTransit(p) => InTransit(p)' \/ WithdrawnLate(p)
    BY <1>5, <1>7, <2>1
  <2>4. \A p \in 1..Len(procs') : p \in Pid
    BY <1>6, <1>7
  <2> QED BY <1>1, <1>7, <2>1, <2>2, <2>3, <2>4, LoopHeld
<1>8. CASE ~Heeded(ev) /\ UNCHANGED <<st, deploys, procs>>
  BY <1>7, <1>8
<1>9. CASE /\ Heeded(ev) /\ ev.phase \in {"DOWNLOADING", "VERIFYING", "SWITCHING", "DRAINING"}
           /\ st' = [progress EXCEPT !.stopping = progress.stopping \/ ev.phase = "DRAINING"]
           /\ UNCHANGED <<deploys, procs>>
  <2>1. st'.proc = st.proc /\ st'.inflight = st.inflight /\ st'.phase = ev.phase
    <3>1. progress.phase = ev.phase /\ progress \in [DOMAIN st -> {progress[x] : x \in DOMAIN st}]
      <4> HIDE DEF ev
      <4> QED BY <1>1 DEF StrategyState
    <3> HIDE DEF progress, ev
    <3> QED BY <1>1, <1>4, <1>9, <3>1 DEF StrategyState
  <2> QED BY <1>7, <1>9, <2>1
<1>10. CASE /\ Heeded(ev) /\ ev.phase = "HEALTH_CHECKING"
            /\ st' = [Install(progress, ev.proc, ev.capture)
                        EXCEPT !.running = ev.art, !.runCfg = ev.cfg, !.windowOver = FALSE,
                               !.crashes = 0, !.blocked = FALSE]
            /\ UNCHANGED <<deploys, procs>>
  <2> DEFINE inst == Install(progress, ev.proc, ev.capture)
  <2>1. inst \in StrategyState /\ inst.proc = ev.proc /\ inst.inflight = st.inflight
    <3>1. progress \in StrategyState
      <4> HIDE DEF ev
      <4> QED BY <1>1, <1>10 DEF StrategyState, Phases
    <3>2. ev.proc \in Nat /\ ev.capture \in BOOLEAN
      BY <1>1 DEF WorkerEvent
    <3> HIDE DEF progress, ev
    <3> QED BY <1>4, <3>1, <3>2, InstallType
  <2>2. st'.proc = ev.proc /\ st'.inflight = st.inflight
    <3> HIDE DEF inst, ev
    <3> QED BY <1>10, <2>1 DEF StrategyState, inst
  <2>3. KeepsDeploys /\ KeepsProcs
    BY <1>10, Untouched
  <2>4. InFlight(j) /\ Finished(j)' /\ \A i : InFlight(i)' => i = j
    <3>1. LastWord(ev)
      BY <1>10 DEF LastWord
    <3> HIDE DEF ev
    <3> QED BY <1>2, <1>3, <1>10, <2>2, <3>1 DEF InFlight
  <2>5. Clear'
    <3>1. \A i \in Ctx : Finished(i) => Finished(i)'
      BY <1>1, <2>3, FinishedStays
    <3>2. \A i \in Ctx : InFlight(i) => InFlight(i)'
      BY <2>2 DEF InFlight
    <3>3. Accounted'
      BY <1>10, <3>1, <3>2 DEF Clear, Accounted, Ctx
    <3>4. Checked' /\ OldHeld'
      BY <2>4 DEF Checked, OldHeld
    <3> QED BY <3>3, <3>4 DEF Clear
  <2>6. ev.proc \in Pid /\ procs[ev.proc].ctx = j
    BY <1>10, ServedEvent DEF Books, EventsKnown
  <2>7. st.proc \notin Pid \/ ~procs[st.proc].alive
    <3>1. st.proc \in {0, deploys[j].old}
      BY <1>2, <2>4 DEF Clear, OldHeld
    <3>2. ~Live(deploys[j].old)
      BY <1>2, <2>6 DEF Books, OldStopped
    <3> QED BY <1>6, <3>1, <3>2 DEF Live
  <2>8. \A p \in Pid : InTransit(p) => InTransit(p)' \/ st'.proc = p
    BY <2>2, <2>3, TransitServed
  <2>9. known
    BY <1>10 DEF Heeded
  <2>10. \A p \in 1..Len(procs') : p \in Pid
    BY <1>6, <1>10
  <2> HIDE DEF progress, ev, inst
  <2> QED BY <1>1, <1>10, <2>3, <2>5, <2>7, <2>8, <2>9, <2>10, LoopHeld
<1>11. CASE beginRollback(st, watched) /\ Heeded(ev) /\ ev.phase = "ROLLING_BACK"
  <2>1. /\ KeepsDeploys /\ KeepsProcs /\ deploys' = WithCancel(st) /\ st'.inflight = None
        /\ st.proc \in Pid => ~procs'[st.proc].alive
        /\ \A p \in 1..Len(procs') : p \notin Pid => st'.proc = p
    BY <1>1, <1>11, RollbackLetsGo
  <2>2. Clear'
    BY <1>1, <2>1, LoopClear
  <2>3. known
    BY <1>11 DEF Heeded
  <2>4. \A p \in Pid : InTransit(p) => InTransit(p)' \/ WithdrawnLate(p)
    BY <1>5, <1>11, <2>1
  <2> HIDE DEF ev, progress
  <2> QED BY <1>1, <2>1, <2>2, <2>3, <2>4, LoopHeld
<1>12. CASE /\ Heeded(ev) /\ ev.phase = "FAILED"
            /\ st' = [progress EXCEPT !.stopping = FALSE, !.failedAtGen = generation,
                                      !.inflight = None]
            /\ UNCHANGED <<deploys, procs>>
  <2>1. st'.proc = st.proc /\ st'.inflight = None
    <3>1. progress \in [DOMAIN st -> {progress[x] : x \in DOMAIN st}]
      <4> HIDE DEF ev
      <4> QED BY <1>1 DEF StrategyState
    <3> HIDE DEF progress, ev
    <3> QED BY <1>1, <1>4, <1>12, <3>1 DEF StrategyState
  <2>2. LastWord(ev) /\ ev.phase # "HEALTH_CHECKING"
    BY <1>12 DEF LastWord
  <2> QED BY <1>7, <1>12, <2>1, <2>2
<1> QED BY <1>8, <1>9, <1>10, <1>11, <1>12 DEF applyWorkerEvent

\* Worker i has not said its last word, and those who have are silent still.
EndsKept(i) == \A j \in Ctx : Finished(j) => j # i /\ Finished(j)'

\* A worker's step: it was not done, so it is the deploy in flight or cancelled;
\* what it starts and reports is on its way, or withdrawn.
LEMMA WorkerOwns ==
  ASSUME Inv, Books, LateKnown, Clear, Held, NEW i \in Ctx, NEW pc \in WorkerPc \ {"done"},
         NEW next \in WorkerPc, WorkerAt(i, pc, next), NEW ev,
         workerCh' = workerCh \/ workerCh' = Append(workerCh, ev), ev.ctx = i,
         pc = "report" => \/ deploys[i].cancelled
                          \/ /\ workerCh' = Append(workerCh, ev)
                             /\ \A p \in Pid : procs[p].ctx = i => ev.proc = p,
         Len(procs') \in Nat /\ Len(procs) <= Len(procs'),
         \A p \in Pid : procs'[p].ctx = procs[p].ctx /\ (procs'[p].alive => procs[p].alive),
         \A p \in 1..Len(procs') : p \in Pid \/ (procs'[p].ctx = i /\ next = "report")
  PROVE  Clear' /\ Held' /\ EndsKept(i)
<1>1. /\ Len(deploys') = Len(deploys) /\ deploys[i].pc = pc
      /\ \A j \in Ctx : /\ deploys'[j].pc = IF j = i THEN next ELSE deploys[j].pc
                        /\ deploys'[j].old = deploys[j].old
                        /\ deploys'[j].cancelled = deploys[j].cancelled
                        /\ deploys'[j].late = deploys[j].late
      /\ UNCHANGED <<known, st, draining, restarts>>
  BY WorkerFrame
<1>2. /\ Ctx' = Ctx /\ Len(workerCh) \in Nat /\ Pid = 1..Len(procs) /\ Ctx = 1..Len(deploys)
      /\ Len(deploys) \in Nat
  BY <1>1, BooksTypes DEF Ctx
<1>3. /\ \A k \in 1..Len(workerCh) : k \in 1..Len(workerCh') /\ workerCh'[k] = workerCh[k]
      /\ \A k \in 1..Len(workerCh') : k \in 1..Len(workerCh) \/ workerCh'[k] = ev
      /\ workerCh' = Append(workerCh, ev) =>
           Len(workerCh) + 1 \in 1..Len(workerCh') /\ workerCh'[Len(workerCh) + 1] = ev
  <2>1. CASE workerCh' = workerCh
    <3>1. Len(workerCh) # Len(Append(workerCh, ev))
      BY BooksTypes
    <3> QED BY <2>1, <3>1
  <2>2. CASE workerCh' = Append(workerCh, ev)
    <3>1. /\ Len(workerCh') = Len(workerCh) + 1 /\ Len(workerCh) \in Nat
          /\ workerCh'[Len(workerCh) + 1] = ev
          /\ \A k \in 1..Len(workerCh) : workerCh'[k] = workerCh[k]
      BY <2>2, AppendedEvent
    <3> QED BY <3>1
  <2> QED BY <2>1, <2>2
<1>4. ~Finished(i) /\ \A j \in Ctx : Finished(j) => Finished(j)'
  <2>1. ~Finished(i)
    BY <1>1 DEF Finished
  <2>2. ASSUME NEW j \in Ctx, Finished(j) PROVE Finished(j)'
    <3>1. j # i
      BY <2>1, <2>2
    <3>2. \A k \in 1..Len(workerCh') : workerCh'[k].ctx # j
      BY <1>3, <2>2, <3>1 DEF Finished, Sent
    <3> QED BY <1>1, <2>2, <3>1, <3>2 DEF Finished, Sent
  <2> QED BY <2>1, <2>2
<1>5. \A j : InFlight(j)' = InFlight(j)
  BY <1>1 DEF InFlight
<1>6. Clear'
  <2>1. Accounted'
    BY <1>1, <1>2, <1>4, <1>5 DEF Clear, Accounted
  <2>2. Checked'
    BY <1>1, <1>2, <1>4, <1>5 DEF Clear, Checked
  <2>3. OldHeld'
    BY <1>1, <1>2, <1>4, <1>5 DEF Clear, OldHeld
  <2> QED BY <2>1, <2>2, <2>3 DEF Clear
<1>7. Held'
  <2>1. CASE restarts > 0
    BY <1>1, <2>1 DEF Held
  <2>2. CASE ~(restarts > 0)
    <3> SUFFICES ASSUME NEW p \in 1..Len(procs'), procs'[p].alive
                 PROVE  \/ known /\ st.proc = p
                        \/ InTransit(p)' \/ WithdrawnLate(p)'
      BY <1>1 DEF Held, Pid
    <3>1. CASE p \notin Pid
      <4>1. procs'[p].ctx = i /\ next = "report" /\ i # 0
        BY <1>2, <3>1
      <4> QED BY <1>1, <4>1 DEF InTransit
    <3>2. CASE p \in Pid
      <4>1. procs[p].alive /\ procs'[p].ctx = procs[p].ctx
        BY <3>2
      <4>2. procs[p].ctx # 0 => procs[p].ctx \in Ctx
        BY <1>2, <3>2, BooksTypes DEF Books, Counted
      <4>3. WithdrawnLate(p) => WithdrawnLate(p)'
        BY <1>1, <4>1, <4>2 DEF WithdrawnLate
      <4>4. InTransit(p) => InTransit(p)' \/ WithdrawnLate(p)'
        <5> SUFFICES ASSUME InTransit(p) PROVE InTransit(p)' \/ WithdrawnLate(p)'
          OBVIOUS
        <5>1. CASE \E k \in 1..Len(workerCh) : workerCh[k].proc = p
          BY <1>3, <4>1, <5>1 DEF InTransit
        <5>2. CASE deploys[procs[p].ctx].pc = "report" /\ procs[p].ctx # i
          BY <1>1, <4>1, <4>2, <5>2 DEF InTransit
        <5>3. CASE procs[p].ctx = i /\ deploys[i].pc = "report"
          <6>1. CASE deploys[i].cancelled
            <7>1. deploys[i].late
              BY <5>3, <6>1 DEF LateKnown, Committed
            <7> QED BY <4>3, <5>3, <7>1 DEF WithdrawnLate, InTransit
          <6>2. CASE workerCh' = Append(workerCh, ev) /\ ev.proc = p
            BY <1>3, <4>1, <6>2 DEF InTransit
          <6> QED BY <1>1, <3>2, <5>3, <6>1, <6>2
        <5> QED BY <5>1, <5>2, <5>3 DEF InTransit
      <4> QED BY <2>2, <3>2, <4>1, <4>3, <4>4 DEF Held
    <3> QED BY <3>1, <3>2
  <2> QED BY <2>1, <2>2
<1>8. EndsKept(i)
  BY <1>4 DEF EndsKept
<1> QED BY <1>6, <1>7, <1>8

\* A step that at most says something.
LEMMA SayingOwns ==
  ASSUME Inv, Books, LateKnown, Clear, Held,
         NEW i \in Ctx, NEW pc \in WorkerPc \ {"done", "report"},
         NEW next \in WorkerPc, WorkerAt(i, pc, next), NEW ph,
         workerCh' \in {workerCh, Append(workerCh, Event(i, ph, 0))},
         procs' = procs \/ \E p \in Nat : procs' = Killed(p)
  PROVE  Clear' /\ Held' /\ EndsKept(i)
<1>1. Event(i, ph, 0).ctx = i
  BY EventFields
<1>2. KeepsProcs /\ Len(procs') = Len(procs) /\ Len(procs) \in Nat /\ Pid = 1..Len(procs)
  BY KilledFrame, Untouched, BooksTypes
<1> QED BY <1>1, <1>2, WorkerOwns DEF KeepsProcs

\* No worker loses a process, or goes on unnoticed.
LEMMA WorkerStepOwns ==
  ASSUME Inv, Books, LateKnown, Clear, Held, NEW i \in Ctx, WorkerStep(i)
  PROVE  Clear' /\ Held' /\ EndsKept(i)
<1> USE DEF WorkerPc
<1>1. ASSUME NEW pc \in WorkerPc \ {"done", "report"}, NEW kind, WorkerFails(i, pc, kind)
      PROVE  Clear' /\ Held' /\ EndsKept(i)
  <2>1. WorkerAt(i, pc, "done") /\ procs' = procs /\ Send(i, <<Event(i, "FAILED", 0)>>)
    BY <1>1 DEF WorkerFails
  <2>2. workerCh' \in {workerCh, Append(workerCh, Event(i, "FAILED", 0))}
    BY <2>1, SentEvent
  <2> QED BY <2>1, <2>2, SayingOwns
<1>2. ASSUME NEW pc \in WorkerPc \ {"done", "report"}, NEW next \in WorkerPc, procs' = procs,
             NEW ph \in {"DOWNLOADING", "VERIFYING", "DRAINING", "FAILED", "ROLLING_BACK"},
             WorkerAt(i, pc, next), Send(i, <<Event(i, ph, 0)>>)
      PROVE  Clear' /\ Held' /\ EndsKept(i)
  <2>1. workerCh' \in {workerCh, Append(workerCh, Event(i, ph, 0))}
    BY <1>2, SentEvent
  <2> QED BY <1>2, <2>1, SayingOwns
<1>3. CASE Announce(i)
  <2> DEFINE next == IF deploys[i].cancelled THEN "done" ELSE "download"
  <2>1. /\ WorkerAt(i, "announce", next) /\ procs' = procs
        /\ Send(i, <<Event(i, "DOWNLOADING", 0)>>) /\ next \in WorkerPc
    BY <1>3 DEF Announce
  <2> HIDE DEF next
  <2> QED BY <1>2, <2>1
<1>4. CASE Download(i)
  BY <1>1, <1>2, <1>4 DEF Download
<1>5. CASE Verify(i)
  BY <1>1, <1>2, <1>5 DEF Verify
<1>6. CASE DrainOld(i)
  <2>1. deploys[i].old \in Nat
    BY DeployType DEF Deploy
  <2> QED BY <1>6, <2>1, SayingOwns DEF DrainOld
<1>7. CASE CheckWithdrawn(i)
  <2> DEFINE next == IF deploys[i].cancelled THEN "done" ELSE "switch"
  <2>1. /\ WorkerAt(i, "check", next) /\ procs' = procs /\ next \in WorkerPc
        /\ workerCh' \in {workerCh, Append(workerCh, Event(i, "SWITCHING", 0))}
    BY <1>7 DEF CheckWithdrawn
  <2>2. "check" \in WorkerPc \ {"done", "report"}
    OBVIOUS
  <2> HIDE DEF next, WorkerPc
  <2> QED BY <2>1, <2>2, SayingOwns
<1>8. CASE SwitchTo(i)
  <2>1. CASE WorkerAt(i, "switch", "start") /\ UNCHANGED <<workerCh, procs>>
    BY <2>1, SayingOwns
  <2> QED BY <1>1, <1>8, <2>1 DEF SwitchTo
<1>9. CASE StartNew(i)
  <2>1. CASE /\ WorkerAt(i, "start", "report") /\ procs' = Append(procs, NewProc(i))
             /\ UNCHANGED workerCh
    <3>1. /\ Len(procs') = Len(procs) + 1 /\ procs'[Len(procs) + 1].ctx = i
          /\ Len(procs) \in Nat /\ Pid = 1..Len(procs)
          /\ \A p \in Pid : procs'[p] = procs[p]
      BY <2>1, BooksTypes DEF NewProc
    <3>2. \A p \in 1..Len(procs') : p \in Pid \/ p = Len(procs) + 1
      BY <3>1
    <3>3. Event(i, "SWITCHING", 0).ctx = i
      BY EventFields
    <3> QED BY <2>1, <3>1, <3>2, <3>3, WorkerOwns
  <2> QED BY <1>1, <1>2, <1>9, <2>1 DEF StartNew
<1>10. CASE ReportStarted(i)
  <2>1. PICK p \in Pid : procs[p].ctx = i /\ Send(i, <<Event(i, "HEALTH_CHECKING", p)>>)
    BY <1>10 DEF ReportStarted
  <2> DEFINE ev == Event(i, "HEALTH_CHECKING", p)
  <2>2. WorkerAt(i, "report", "done") /\ procs' = procs
    BY <1>10 DEF ReportStarted
  <2>3. Len(procs) \in Nat /\ Pid = 1..Len(procs) /\ p \in Nat /\ i # 0
    BY BooksTypes
  <2>4. /\ workerCh' \in {workerCh, Append(workerCh, ev)}
        /\ ~deploys[i].cancelled => workerCh' = Append(workerCh, ev)
    BY <2>1, <2>3, SentEvent
  <2>5. ev.ctx = i /\ ev.proc = p
    BY EventFields
  <2>6. \A q \in Pid : procs[q].ctx = i => q = p
    BY <2>1, <2>3 DEF Books, StartedOnce
  <2> HIDE DEF ev
  <2> QED BY <2>2, <2>3, <2>4, <2>5, <2>6, WorkerOwns
<1> QED BY <1>3, <1>4, <1>5, <1>6, <1>7, <1>8, <1>9, <1>10 DEF WorkerStep

\* The death of a process loses none.
LEMMA DeathOwns ==
  ASSUME Inv, Books, Clear, Held, NEW p \in Pid, ProcessExits(p) \/ DrainDone(p)
  PROVE  Clear' /\ Held'
<1>1. /\ UNCHANGED <<deploys, workerCh, known, st, restarts>> /\ procs' = Killed(p) /\ p \in Nat
      /\ draining \subseteq draining' \cup {p}
  BY BooksTypes DEF ProcessExits, DrainDone, EnvRest
<1>2. /\ KeepsDeploys /\ KeepsProcs /\ KeepsEvents /\ Len(procs') = Len(procs)
      /\ ~Live(p)'
  BY <1>1, Untouched, KilledFrame
<1>3. Clear'
  BY <1>1, <1>2, StType, LoopClear
<1>4. Held'
  <2>1. CASE restarts > 0
    BY <1>1, <2>1 DEF Held
  <2>2. CASE ~(restarts > 0)
    <3> SUFFICES ASSUME NEW q \in Pid, procs'[q].alive
                 PROVE  \/ known /\ st.proc = q
                        \/ InTransit(q)' \/ WithdrawnLate(q)'
      BY <1>1, <1>2 DEF Held, Pid
    <3>1. q # p
      BY <1>2 DEF Live, Pid
    <3>2. procs[q].alive /\ procs'[q].ctx = procs[q].ctx
      BY <1>2 DEF KeepsProcs
    <3>3. InTransit(q) => InTransit(q)'
      BY <1>1, <1>2, TransitStays
    <3>4. WithdrawnLate(q) => WithdrawnLate(q)'
      BY <1>1, <3>2 DEF WithdrawnLate
    <3> QED BY <1>1, <2>2, <3>1, <3>2, <3>3, <3>4 DEF Held
  <2> QED BY <2>1, <2>2
<1> QED BY <1>3, <1>4

\* The clock touches no handle.
LEMMA ClockOwns ==
  ASSUME Inv, Books, Clear, Held, BackoffElapses \/ WindowElapses
  PROVE  Clear' /\ Held'
<1>1. /\ UNCHANGED <<deploys, workerCh, known, procs, draining, restarts>> /\ st \in StrategyState
      /\ st'.proc = st.proc /\ st'.inflight = st.inflight /\ st'.phase = st.phase
  BY StType DEF BackoffElapses, WindowElapses, EnvRest, StrategyState
<1> QED BY <1>1, StillOwns

\* With the agent gone every deploy is over.
LEMMA GoneOwns ==
  ASSUME Inv, Books, AgentGone
  PROVE  Clear' /\ Held' /\ restarts' > 0
<1>1. restarts' > 0
  BY DEF AgentGone, Inv, TypeOK
<1>2. st'.inflight = None /\ workerCh' = <<>> /\ loop' = "down"
  BY DEF AgentGone, NewState
<1>3. \A i \in Ctx' : deploys'[i].pc = "done"
  BY <1>2, GoneBooks DEF DownIsQuiet
<1>4. \A i \in Ctx' : Finished(i)'
  BY <1>2, <1>3 DEF Finished, Sent
<1> QED BY <1>1, <1>2, <1>4 DEF Clear, Accounted, Checked, OldHeld, InFlight, Held

\* A takeover finds no deploy.
LEMMA RebuildOwns ==
  ASSUME Inv, Books, DownIsQuiet, DownIsStopped, rebuildActualState
  PROVE  Clear' /\ Held'
<1>1. /\ UNCHANGED <<deploys, workerCh, restarts>> /\ restarts > 0
      /\ workerCh = <<>> /\ \A i \in Ctx : deploys[i].pc = "done"
  BY DEF rebuildActualState, DownIsQuiet, DownIsStopped
<1>2. st'.inflight = None
  BY DEF rebuildActualState, Adopted, NewState
<1>3. \A i \in Ctx' : Finished(i)'
  BY <1>1 DEF Finished, Sent, Ctx
<1> QED BY <1>1, <1>2, <1>3 DEF Clear, Accounted, Checked, OldHeld, InFlight, Held

\* What may be mistaken stays so.
LEMMA MistakableStays ==
  ASSUME Inv, [Next]_vars, Mistakable
  PROVE  Mistakable'
<1>1. PICK i, j \in Ctx : CalledOff(i, j)
  BY DEF Mistakable
<1>2. i \in Ctx' /\ j \in Ctx'
  BY DeploysKept, BooksTypes DEF Ctx
<1>3. CalledOff(i, j)'
  BY <1>1, DeploysKept DEF CalledOff
<1> QED BY <1>2, <1>3 DEF Mistakable

\* While no deploy's events can be taken for another's, no step loses a process or
\* a deploy.
LEMMA OwnsNext ==
  ASSUME Inv, UnknownIsNew, Books, DownIsQuiet, DownIsStopped, LateKnown, ToldApart, Clear, Held,
         [Next]_vars
  PROVE  Clear' /\ Held'
<1>1. CASE applyDesired \/ Tick \/ Reconcile
  BY <1>1, ApplyDesiredOwns, TickOwns, ReconcileOwns
<1>2. CASE applyWorkerEvent \/ rebuildActualState
  BY <1>2, ApplyWorkerEventOwns, RebuildOwns
<1>3. ASSUME NEW i \in Ctx, WorkerStep(i) PROVE Clear' /\ Held'
  BY <1>3, WorkerStepOwns
<1>4. ASSUME NEW p \in Pid, handleExit(p) PROVE Clear' /\ Held'
  BY <1>4, HandleExitOwns
<1>5. ASSUME NEW p \in Pid, applyHealthResult(p) PROVE Clear' /\ Held'
  BY <1>5, ApplyHealthResultOwns
<1>6. ASSUME NEW p \in Pid, ProcessExits(p) \/ DrainDone(p) PROVE Clear' /\ Held'
  BY <1>6, DeathOwns
<1>7. CASE Publish \/ persistSupervision \/ UNCHANGED vars
  <2>1. UNCHANGED <<deploys, procs, workerCh, known, st, restarts>>
    BY <1>7 DEF Publish, persistSupervision, envVars, vars
  <2> QED BY <2>1, StType, StillOwns
<1>8. CASE shutdown \/ Crash
  BY <1>8, GoneOwns DEF shutdown, Crash
<1>9. CASE BackoffElapses \/ WindowElapses
  BY <1>9, ClockOwns
<1> QED BY <1>1, <1>2, <1>3, <1>4, <1>5, <1>6, <1>7, <1>8, <1>9 DEF Next

\* Ownership holds at the start.
LEMMA OwnershipInit == Init => Ownership
BY DEF Init, Ownership, DownIsStopped, Clear, Accounted, Checked, OldHeld, Held, Ctx, Pid

\* Every step keeps it.
LEMMA OwnershipNext ==
  Inv /\ UnknownIsNew /\ Books /\ DownIsQuiet /\ LateKnown /\ Ownership /\ [Next]_vars
    => Ownership'
<1> SUFFICES ASSUME Inv, UnknownIsNew, Books, DownIsQuiet, LateKnown, Ownership, [Next]_vars
             PROVE  Ownership'
  OBVIOUS
<1>1. DownIsStopped'
  <2>1. ASSUME AgentGone PROVE restarts' > 0
    BY <2>1, GoneOwns
  <2>2. loop' = "down" => (loop = "down" /\ restarts' = restarts) \/ AgentGone
    <3> USE DEF Serve, ServeRest
    <3>1. ASSUME NEW i \in Ctx, WorkerStep(i) PROVE loop' = loop /\ restarts' = restarts
      BY <3>1 DEF WorkerStep, Announce, Download, Verify, DrainOld, CheckWithdrawn, SwitchTo,
                  StartNew, ReportStarted, WorkerFails, WorkerAt
    <3>2. ASSUME NEW p \in Pid, handleExit(p) \/ applyHealthResult(p) PROVE loop' # "down"
      BY <3>2 DEF handleExit, applyHealthResult
    <3>3. ASSUME NEW p \in Pid, ProcessExits(p) \/ DrainDone(p)
          PROVE  loop' = loop /\ restarts' = restarts
      BY <3>3 DEF ProcessExits, DrainDone, EnvRest
    <3>4. CASE applyDesired \/ applyWorkerEvent \/ Tick \/ Reconcile \/ persistSupervision
               \/ rebuildActualState
      BY <3>4 DEF applyDesired, applyWorkerEvent, Tick, Reconcile, persistSupervision,
                  rebuildActualState
    <3>5. CASE Publish \/ BackoffElapses \/ WindowElapses \/ UNCHANGED vars
      BY <3>5 DEF Publish, BackoffElapses, WindowElapses, EnvRest, vars
    <3>6. CASE shutdown \/ Crash
      BY <3>6 DEF shutdown, Crash
    <3> QED BY <3>1, <3>2, <3>3, <3>4, <3>5, <3>6 DEF Next
  <2> QED BY <2>1, <2>2 DEF Ownership, DownIsStopped
<1>2. CASE Mistakable
  BY <1>1, <1>2, MistakableStays DEF Ownership
<1>3. CASE ~Mistakable
  BY <1>1, <1>3, Unmistakable, OwnsNext DEF Ownership
<1> QED BY <1>1, <1>2, <1>3 DEF Ownership

\* So it holds throughout.
THEOREM OwnershipKept == Spec => []Ownership
<1>1. HealthInv => UnknownIsNew
  BY DEF HealthInv
<1> QED
  BY Invariance, BooksKept, LateIsKnown, HealthInit, HealthNext, OwnershipInit, OwnershipNext,
     <1>1, PTL DEF Spec

\* The only worker still running on a live context is the one the strategy calls
\* in flight, as long as no digest called off is deployed again.
THEOREM OneDeployRuns == Spec => []OneDeployAtATime
<1>1. Ownership => OneDeployAtATime
  BY DEF Ownership, Clear, Accounted, Finished, InFlight, OneDeployAtATime
<1> QED BY OwnershipKept, <1>1, PTL

\* No live process is lost: it is supervised, even while it is being stopped, or on
\* its way from its worker, or its deploy was withdrawn too late, as long as the
\* agent lives and no digest called off is deployed again.
THEOREM NoProcessLost == Spec => []NoLostProcess
<1>1. Ownership => NoLostProcess
  BY DEF Ownership, Held, NoLostProcess
<1> QED BY OwnershipKept, <1>1, PTL

----------------------------------------------------------------------------
(* One deploy per generation *)

\* A digest called off in one generation is deployed again in another.
Confused == \E h, k \in Ctx : CalledOff(h, k) /\ deploys[h].gen # deploys[k].gen

\* The generation the agent works from has been deployed.
Begun == \E i \in Ctx : deploys[i].gen = generation

\* Deploys are begun in the order of their generations, one for each.
Rising ==
  /\ generation <= cpGen
  /\ \A i \in Ctx : deploys[i].gen <= generation
  /\ \A i, j \in Ctx : i < j => deploys[i].gen < deploys[j].gen

\* The deploy in flight carries the bytes asked for; all that is asked for, if
\* this generation was begun.
Carries(s) ==
  s.inflight # None =>
    /\ s.inflight.art.digest = desired.art.digest
    /\ Begun => s.inflight.art = desired.art /\ s.inflight.cfg = desired.cfg

\* What is being checked is what the deploy in flight brought.
ChecksOwn(s) ==
  s.inflight # None /\ s.phase = "HEALTH_CHECKING" =>
    s.running # None /\ s.running.digest = s.inflight.art.digest /\ s.runCfg = s.inflight.cfg

\* A generation begun is in flight, up, failed or known bad: nothing is left that
\* a second deploy of it would start from.
Answered(s) ==
  desired # None /\ ~desired.stopped /\ Begun =>
    s.inflight # None \/ Terminal(s) \/ versionMatches(desired, s) \/ SkipsBadVersion(s)

Resolved(s) == Carries(s) /\ ChecksOwn(s) /\ Answered(s)

OnceInv == restarts > 0 \/ Confused \/ (Rising /\ Resolved(st))

\* Nothing about it looks at another field of the record.
LEMMA EditResolved ==
  ASSUME NEW s, NEW t, Resolved(s), t.inflight = s.inflight, t.running = s.running,
         t.runCfg = s.runCfg, t.lastBad = s.lastBad,
         t.inflight # None /\ t.phase = "HEALTH_CHECKING" => s.phase = "HEALTH_CHECKING",
         t.inflight = None /\ Terminal(s) => Terminal(t)
  PROVE  Resolved(t)
BY DEF Resolved, Carries, ChecksOwn, Answered, versionMatches, SkipsBadVersion

\* A deploy is dropped for a verdict, or with the assignment.
LEMMA DropResolved ==
  ASSUME NEW t, t.inflight = None,
         desired = None \/ desired.stopped \/ ~Begun \/ Terminal(t) \/ versionMatches(desired, t)
           \/ SkipsBadVersion(t)
  PROVE  Resolved(t)
BY DEF Resolved, Carries, ChecksOwn, Answered

\* A step that begins no deploy and hears no order.
LEMMA SameOrder ==
  ASSUME Len(deploys') = Len(deploys), \A i \in Ctx : deploys'[i].gen = deploys[i].gen,
         UNCHANGED <<cpGen, desired, generation>>, Rising, NEW t, st' = t, Resolved(t)
  PROVE  Rising' /\ Resolved(st)'
<1>1. Ctx' = Ctx
  BY DEF Ctx
<1>2. Begun' = Begun
  BY <1>1 DEF Begun
<1>3. Rising'
  BY <1>1 DEF Rising
<1> QED BY <1>2, <1>3 DEF Resolved, Carries, ChecksOwn, Answered, versionMatches,
             SkipsBadVersion, Terminal

\* A rollback marks what was asked for as failed, or as bad.
LEMMA RollbackResolved ==
  ASSUME Inv, NEW s \in StrategyState, NEW w, beginRollback(s, w), desired # None, Carries(s)
  PROVE  Resolved(st')
<1> DEFINE bad    == IF s.inflight # None THEN s.inflight.art.version ELSE desired.art.version
           bare   == [s EXCEPT !.inflight = None, !.lastBad = bad, !.proc = 0]
           back   == [bare EXCEPT !.running = s.prev, !.runCfg = s.prevCfg]
           failed(r) == [r EXCEPT !.phase = "FAILED", !.failedAtGen = generation]
           pid    == Len(procs) + 1
           rolled == [Install(back, pid, desired.capture)
                      EXCEPT !.phase = "ROLLED_BACK", !.crashes = 0, !.blocked = FALSE]
<1>1. bad \in Versions /\ bad # None
  BY AgentAssumption DEF Inv, TypeOK, StrategyState, Inflight, Specs, Versions
<1>2. Begun => bad = desired.art.version
  BY DEF Carries
<1> HIDE DEF bad
<1>3. bare \in StrategyState /\ bare.inflight = None /\ bare.lastBad = bad
  BY <1>1 DEF StrategyState
<1> HIDE DEF bare
<1>4. back \in StrategyState /\ back.inflight = None /\ back.lastBad = bad
  BY <1>3 DEF StrategyState
<1> HIDE DEF back
<1>5. ASSUME NEW r \in StrategyState, r.inflight = None, st' = failed(r)
      PROVE  Resolved(st')
  <2>1. st'.inflight = None /\ st'.phase = "FAILED" /\ st'.failedAtGen = generation
    BY <1>5 DEF StrategyState
  <2> QED BY <2>1, DropResolved DEF Terminal
<1>6. ASSUME st' = rolled PROVE Resolved(st')
  <2>1. rolled.inflight = None /\ rolled.lastBad = bad
    BY <1>4 DEF Install, StrategyState
  <2> HIDE DEF rolled
  <2> QED BY <1>1, <1>2, <1>6, <2>1, DropResolved DEF SkipsBadVersion
<1>7. st' = failed(bare) \/ st' = failed(back) \/ st' = rolled
  BY DEF beginRollback, bad, bare, back
<1> QED BY <1>3, <1>4, <1>5, <1>6, <1>7

\* An order is news to every deploy begun before it.
LEMMA ApplyDesiredOnce ==
  ASSUME Inv, Rising, Resolved(st), applyDesired
  PROVE  Rising' /\ Resolved(st)'
<1>1. /\ generation' = cpGen /\ generation # cpGen /\ desired' = cpSpec /\ cpGen' = cpGen
      /\ st \in StrategyState /\ generation \in Nat /\ cpGen \in Nat
  BY StType DEF applyDesired, cpVars, Inv, TypeOK
<1>2. KeepsDeploys /\ Ctx' = Ctx
  <2>1. KeepsDeploys
    BY StType, CancelFrame, Untouched DEF applyDesired
  <2> QED BY <2>1 DEF KeepsDeploys, Ctx
<1>3. \A i \in Ctx : deploys'[i].gen = deploys[i].gen /\ deploys[i].gen \in Nat
  <2>1. \A i \in Ctx : deploys[i] \in Deploy
    BY BooksTypes
  <2> QED BY <1>2, <2>1 DEF KeepsDeploys, Deploy
<1>4. Rising' /\ ~Begun'
  BY <1>1, <1>2, <1>3 DEF Rising, Begun
<1>5. /\ st'.phase = st.phase /\ st'.running = st.running /\ st'.runCfg = st.runCfg
      /\ \/ st'.inflight = None
         \/ st'.inflight = st.inflight /\ ~Withdraws(cpSpec, st)
  BY <1>1 DEF applyDesired, StrategyState
<1>6. Carries(st)'
  BY <1>1, <1>4, <1>5 DEF Carries, Withdraws
<1>7. ChecksOwn(st)'
  BY <1>5 DEF Resolved, ChecksOwn
<1>8. Answered(st)'
  BY <1>4 DEF Answered
<1> QED BY <1>4, <1>6, <1>7, <1>8 DEF Resolved

\* What keeps the deploys and the order has only the record to answer for.
LEMMA SameOrderKept ==
  ASSUME Inv, KeepsDeploys, UNCHANGED <<cpGen, desired, generation>>, Rising, Resolved(st')
  PROVE  Rising' /\ Resolved(st)'
BY SameOrder DEF KeepsDeploys

\* An exit leads to a restart, or to a rollback that says why.
LEMMA HandleExitOnce ==
  ASSUME Inv, Rising, Resolved(st), NEW p \in Pid, handleExit(p)
  PROVE  Rising' /\ Resolved(st)'
<1> DEFINE gone == [st EXCEPT !.proc = 0]
           w    == watched \ {p}
<1>1. UNCHANGED <<cpGen, desired, generation>> /\ st \in StrategyState
  BY StType DEF handleExit, ServeRest, cpVars
<1>2. gone \in StrategyState /\ gone.inflight = st.inflight /\ gone.phase = st.phase
      /\ gone.running = st.running /\ gone.runCfg = st.runCfg /\ gone.lastBad = st.lastBad
      /\ gone.failedAtGen = st.failedAtGen
  BY <1>1 DEF StrategyState
<1> HIDE DEF gone
<1>3. CASE UNCHANGED <<st, deploys>>
  BY <1>1, <1>3, Untouched, SameOrderKept
<1>4. CASE /\ known' = (desired # None \/ ~st.stopping) /\ (st.stopping \/ desired = None)
           /\ st' = IF known' THEN [gone EXCEPT !.stopping = FALSE] ELSE NewState
           /\ UNCHANGED deploys
  <2>1. CASE known'
    <3> DEFINE t == [gone EXCEPT !.stopping = FALSE]
    <3>1. /\ t.inflight = st.inflight /\ t.phase = st.phase /\ t.running = st.running
          /\ t.runCfg = st.runCfg /\ t.lastBad = st.lastBad /\ t.failedAtGen = st.failedAtGen
      BY <1>2 DEF StrategyState
    <3>2. st' = t
      BY <1>4, <2>1
    <3> HIDE DEF t
    <3>3. Resolved(t)
      BY <3>1, EditResolved DEF Terminal
    <3> QED BY <1>1, <1>4, <3>2, <3>3, Untouched, SameOrderKept
  <2>2. CASE ~known'
    <3>1. st' = NewState /\ NewState.inflight = None /\ desired = None
      BY <1>4, <2>2 DEF NewState
    <3>2. Resolved(NewState)
      BY <3>1, DropResolved
    <3> QED BY <1>1, <1>4, <3>1, <3>2, Untouched, SameOrderKept
  <2> QED BY <2>1, <2>2
<1>5. CASE UnexpectedExit(gone, w) /\ desired # None
  <2> HIDE DEF w
  <2> DEFINE crashed == [gone EXCEPT !.crashes = gone.crashes + 1, !.blocked = TRUE]
             clean   == [gone EXCEPT !.crashes = 0, !.blocked = FALSE]
             alike(r) == /\ r \in StrategyState /\ r.inflight = st.inflight /\ r.phase = st.phase
                         /\ r.running = st.running /\ r.runCfg = st.runCfg
                         /\ r.lastBad = st.lastBad /\ r.failedAtGen = st.failedAtGen
  <2>1. alike(crashed) /\ alike(clean)
    <3>1. gone.crashes + 1 \in Nat /\ 0 \in Nat
      BY <1>2 DEF StrategyState
    <3> QED BY <1>2, <3>1 DEF StrategyState
  <2> HIDE DEF crashed, clean
  <2>2. ASSUME NEW r, alike(r), st' = Demoted(r), deploys' = deploys PROVE Rising' /\ Resolved(st)'
    <3>1. /\ Demoted(r).inflight = st.inflight /\ Demoted(r).running = st.running
          /\ Demoted(r).runCfg = st.runCfg /\ Demoted(r).lastBad = st.lastBad
          /\ Demoted(r).failedAtGen = st.failedAtGen
          /\ Demoted(r).phase = IF st.phase = "HEALTHY" THEN "STARTING" ELSE st.phase
      BY <2>2 DEF Demoted, StrategyState
    <3>2. Resolved(Demoted(r))
      BY <3>1, EditResolved DEF Terminal
    <3> QED BY <1>1, <2>2, <3>2, Untouched, SameOrderKept
  <2>3. CASE beginRollback(crashed, w)
    <3>1. Carries(crashed)
      BY <2>1 DEF Resolved, Carries
    <3>2. Resolved(st')
      BY <1>5, <2>1, <2>3, <3>1, RollbackResolved
    <3>3. KeepsDeploys
      BY <2>1, <2>3, CancelFrame DEF beginRollback
    <3> QED BY <1>1, <3>2, <3>3, SameOrderKept
  <2>4. \/ beginRollback(crashed, w)
        \/ (st' = Demoted(crashed) \/ st' = Demoted(clean)) /\ UNCHANGED deploys
    BY <1>5 DEF UnexpectedExit, crashed, clean
  <2> QED BY <2>1, <2>2, <2>3, <2>4
<1> QED BY <1>3, <1>4, <1>5 DEF handleExit, gone

\* A promotion closes a deploy whose version is up.
LEMMA PromotionResolved ==
  ASSUME Inv, NEW s \in StrategyState, Resolved(s), s.phase = "HEALTH_CHECKING"
  PROVE  Resolved(MarkedHealthy(s))
<1> DEFINE t == MarkedHealthy(s)
<1>1. /\ t.inflight = None /\ t.running = s.running /\ t.runCfg = s.runCfg /\ t.lastBad = s.lastBad
  BY DEF MarkedHealthy, StrategyState
<1> HIDE DEF t
<1>2. CASE s.inflight # None
  <2>1. Begun => versionMatches(desired, t)
    BY <1>1, <1>2 DEF Resolved, Carries, ChecksOwn, versionMatches
  <2> QED BY <1>1, <2>1, DropResolved DEF t
<1>3. CASE s.inflight = None
  <2>1. ~Terminal(s)
    BY DEF Terminal
  <2> QED BY <1>1, <1>3, <2>1, EditResolved DEF t
<1> QED BY <1>2, <1>3

\* A due restart drains what is up.
LEMMA CronOnce ==
  ASSUME Inv, Rising, NEW s \in StrategyState, Resolved(s), tickCron(s),
         UNCHANGED <<deploys, cpGen, desired, generation>>
  PROVE  Rising' /\ Resolved(st)'
<1>1. CASE st' = s
  BY <1>1, Untouched, SameOrderKept
<1>2. CASE cronCanRun(s) /\ spawnDrain(s)
  <2>1. /\ st'.inflight = s.inflight /\ st'.running = s.running /\ st'.runCfg = s.runCfg
        /\ st'.lastBad = s.lastBad /\ st'.phase = "DRAINING" /\ s.phase = "HEALTHY"
    BY <1>2 DEF spawnDrain, cronCanRun, StrategyState
  <2>2. Resolved(st')
    BY <2>1, EditResolved DEF Terminal
  <2> QED BY <2>2, Untouched, SameOrderKept
<1> QED BY <1>1, <1>2 DEF tickCron

\* The tick promotes, fails for this generation or rolls back.
LEMMA TickOnce ==
  ASSUME Inv, Rising, Resolved(st), Tick
  PROVE  Rising' /\ Resolved(st)'
<1>1. UNCHANGED <<cpGen, desired, generation>> /\ st \in StrategyState
  BY StType DEF Tick, ServeRest, cpVars
<1>2. CASE beginRollback(st, watched) /\ WindowRollsBack
  <2>1. Resolved(st')
    BY <1>1, <1>2, RollbackResolved DEF WindowRollsBack, Resolved
  <2>2. KeepsDeploys
    BY <1>1, <1>2, CancelFrame DEF beginRollback
  <2> QED BY <1>1, <2>1, <2>2, SameOrderKept
<1>3. CASE failHealthWindow
  <2>1. st'.inflight = None /\ Terminal(st')
    BY <1>1, <1>3 DEF failHealthWindow, StrategyState, Terminal
  <2>2. KeepsDeploys
    BY <1>1, <1>3, CancelFrame DEF failHealthWindow
  <2> QED BY <1>1, <2>1, <2>2, DropResolved, SameOrderKept
<1>4. CASE tickCron(MarkedHealthy(st)) /\ UNCHANGED deploys /\ st.phase = "HEALTH_CHECKING"
  <2>1. MarkedHealthy(st) \in StrategyState
    BY <1>1, MarkedHealthyType DEF Inv
  <2> QED BY <1>1, <1>4, <2>1, PromotionResolved, CronOnce
<1>5. CASE tickCron([st EXCEPT !.probing = TRUE]) /\ UNCHANGED deploys
  <2> DEFINE s == [st EXCEPT !.probing = TRUE]
  <2>1. /\ s \in StrategyState /\ s.inflight = st.inflight /\ s.phase = st.phase
        /\ s.running = st.running /\ s.runCfg = st.runCfg /\ s.lastBad = st.lastBad
        /\ s.failedAtGen = st.failedAtGen
    BY <1>1 DEF StrategyState
  <2>2. tickCron(s)
    BY <1>5
  <2> HIDE DEF s
  <2>3. Resolved(s)
    BY <2>1, EditResolved DEF Terminal
  <2> QED BY <1>1, <1>5, <2>1, <2>2, <2>3, CronOnce
<1>6. CASE tickCron(st) /\ UNCHANGED deploys
  BY <1>1, <1>6, CronOnce
<1> QED BY <1>2, <1>3, <1>4, <1>5, <1>6 DEF Tick

\* A probe's answer promotes the deploy it was about, or nothing.
LEMMA ApplyHealthResultOnce ==
  ASSUME Inv, Rising, Resolved(st), NEW p \in Pid, applyHealthResult(p)
  PROVE  Rising' /\ Resolved(st)'
<1> DEFINE s == [st EXCEPT !.probing = FALSE]
<1>1. /\ UNCHANGED <<deploys, cpGen, desired, generation>> /\ st \in StrategyState
      /\ \/ st' = st \/ st' = s
         \/ s.phase = "HEALTH_CHECKING" /\ st' = MarkedHealthy(s)
  BY StType DEF applyHealthResult, ServeRest, cpVars
<1>2. /\ s \in StrategyState /\ s.inflight = st.inflight /\ s.phase = st.phase
      /\ s.running = st.running /\ s.runCfg = st.runCfg /\ s.lastBad = st.lastBad
      /\ s.failedAtGen = st.failedAtGen
  BY <1>1 DEF StrategyState
<1> HIDE DEF s
<1>3. Resolved(s)
  BY <1>2, EditResolved DEF Terminal
<1>4. Resolved(st')
  BY <1>1, <1>2, <1>3, PromotionResolved
<1> QED BY <1>1, <1>4, Untouched, SameOrderKept

\* Only the deploy in flight is heard: it is checked on what it brought, and its
\* failure is that of the generation asked for.
LEMMA ApplyWorkerEventOnce ==
  ASSUME Inv, Books, Clear, UnknownIsNew, ~Mistakable, Rising, Resolved(st), applyWorkerEvent
  PROVE  Rising' /\ Resolved(st)'
<1> DEFINE ev == Head(workerCh)
           progress == [st EXCEPT !.phase = ev.phase]
<1>1. /\ UNCHANGED <<cpGen, desired, generation>> /\ st \in StrategyState /\ ev \in WorkerEvent
  BY StType, ServedEvent DEF applyWorkerEvent, ServeRest, cpVars
<1>2. CASE UNCHANGED <<st, deploys>>
  BY <1>1, <1>2, Untouched, SameOrderKept
<1>3. CASE /\ ev.phase \in {"DOWNLOADING", "VERIFYING", "SWITCHING", "DRAINING"} /\ Heeded(ev)
           /\ st' = [progress EXCEPT !.stopping = progress.stopping \/ ev.phase = "DRAINING"]
           /\ UNCHANGED deploys
  <2> DEFINE b == progress.stopping \/ ev.phase = "DRAINING"
  <2> HIDE DEF ev, b
  <2>1. /\ st'.inflight = st.inflight /\ st'.running = st.running /\ st'.runCfg = st.runCfg
        /\ st'.lastBad = st.lastBad /\ st'.phase = ev.phase
    <3>1. st' = [progress EXCEPT !.stopping = b]
      BY <1>3 DEF b
    <3> QED BY <1>1, <3>1 DEF StrategyState
  <2>2. Resolved(st')
    BY <1>3, <2>1, EditResolved DEF Heeded
  <2> QED BY <1>1, <1>3, <2>2, Untouched, SameOrderKept
<1>4. CASE /\ Heeded(ev) /\ ev.phase = "HEALTH_CHECKING" /\ UNCHANGED deploys
           /\ st' = [Install(progress, ev.proc, ev.capture)
                      EXCEPT !.running = ev.art, !.runCfg = ev.cfg, !.windowOver = FALSE,
                             !.crashes = 0, !.blocked = FALSE]
  <2>1. ev.art = st.inflight.art /\ ev.cfg = st.inflight.cfg /\ ev.art # None /\ st.inflight # None
    <3> PICK j : j = ev.ctx
      OBVIOUS
    <3>1. j \in Ctx /\ InFlight(j)
      BY <1>4, Unmistakable, Recognised
    <3>2. 1 \in 1..Len(workerCh) /\ ev = workerCh[1]
      BY ServedEvent
    <3>3. ev.art = deploys[j].art /\ ev.cfg = deploys[j].cfg
      BY <3>2 DEF Books, EventsKnown
    <3>4. ev.art \in Artifacts
      BY <1>1 DEF WorkerEvent
    <3> QED BY <3>1, <3>3, <3>4, AgentAssumption DEF InFlight, Books, Counted
  <2> HIDE DEF ev
  <2>2. /\ st'.inflight = st.inflight /\ st'.running = ev.art /\ st'.runCfg = ev.cfg
        /\ st'.phase = "HEALTH_CHECKING"
    BY <1>1, <1>4 DEF Install, StrategyState
  <2>3. Resolved(st')
    BY <2>1, <2>2 DEF Resolved, Carries, ChecksOwn, Answered
  <2> QED BY <1>1, <1>4, <2>3, Untouched, SameOrderKept
<1>5. CASE Heeded(ev) /\ beginRollback(st, watched)
  <2>1. desired # None
    BY <1>5 DEF Heeded, Inv, InflightWanted
  <2>2. Resolved(st')
    BY <1>1, <1>5, <2>1, RollbackResolved DEF Resolved
  <2>3. KeepsDeploys
    BY <1>1, <1>5, CancelFrame DEF beginRollback
  <2> QED BY <1>1, <2>2, <2>3, SameOrderKept
<1>6. CASE /\ Heeded(ev) /\ ev.phase = "FAILED" /\ UNCHANGED deploys
           /\ st' = [progress EXCEPT !.stopping = FALSE, !.failedAtGen = generation,
                                     !.inflight = None]
  <2> HIDE DEF ev
  <2>1. st'.inflight = None /\ Terminal(st')
    BY <1>1, <1>6 DEF Terminal, StrategyState
  <2> QED BY <1>1, <1>6, <2>1, DropResolved, Untouched, SameOrderKept
<1> QED BY <1>2, <1>3, <1>4, <1>5, <1>6 DEF applyWorkerEvent

\* A start changes no version and no verdict on one.
LEMMA StartOnce ==
  ASSUME Inv, Rising, NEW s \in StrategyState, NEW hc \in BOOLEAN, startProcess(s, hc),
         UNCHANGED <<deploys, cpGen, desired, generation>>,
         \/ Resolved(s) /\ s.inflight # None /\ s.phase = "HEALTH_CHECKING"
         \/ s.inflight = None /\ versionMatches(desired, s)
  PROVE  Rising' /\ Resolved(st)'
<1>1. /\ st'.inflight = s.inflight /\ st'.running = s.running /\ st'.runCfg = s.runCfg
      /\ st'.lastBad = s.lastBad
  BY DEF startProcess, Install, StrategyState
<1>2. Resolved(st')
  <2>1. CASE Resolved(s) /\ s.inflight # None /\ s.phase = "HEALTH_CHECKING"
    BY <1>1, <2>1, EditResolved
  <2>2. CASE s.inflight = None /\ versionMatches(desired, s)
    BY <1>1, <2>2, DropResolved DEF versionMatches
  <2> QED BY <2>1, <2>2
<1> QED BY <1>2, Untouched, SameOrderKept

\* With the assignment gone, or stopped, there is no deploy to answer for.
LEMMA HaltOnce ==
  ASSUME Inv, Rising, UNCHANGED <<cpGen, desired, generation>>, retireStrategy \/ reconcileStopped
  PROVE  Rising' /\ Resolved(st)'
<1> DEFINE s == [st EXCEPT !.inflight = None]
<1>1. /\ deploys' = WithCancel(st) /\ (desired = None \/ desired.stopped)
      /\ st' \in {NewState, s, [s EXCEPT !.stopping = TRUE, !.phase = "DRAINING"],
                  [s EXCEPT !.phase = "STOPPED", !.stopping = FALSE, !.observedGen = generation]}
  BY DEF retireStrategy, reconcileStopped, spawnDrain
<1>2. s \in StrategyState /\ s.inflight = None
  BY StType DEF StrategyState
<1> HIDE DEF s
<1>3. st'.inflight = None
  <2>1. NewState.inflight = None
    BY DEF NewState
  <2>2. [s EXCEPT !.stopping = TRUE, !.phase = "DRAINING"].inflight = None
    BY <1>2 DEF StrategyState
  <2>3. [s EXCEPT !.phase = "STOPPED", !.stopping = FALSE, !.observedGen = generation].inflight = None
    BY <1>2 DEF StrategyState
  <2> QED BY <1>1, <1>2, <2>1, <2>2, <2>3
<1>4. KeepsDeploys
  BY <1>1, StType, CancelFrame
<1> QED BY <1>1, <1>3, <1>4, DropResolved, SameOrderKept

\* A deploy is begun for a generation that has none.
LEMMA BeginDeployOnce ==
  ASSUME Inv, Rising, Resolved(st), UNCHANGED <<cpGen, desired, generation>>, beginDeploy
  PROVE  Rising' /\ Resolved(st)'
<1> DEFINE n == Len(deploys)
           d == [pc |-> "announce", cancelled |-> FALSE, late |-> FALSE,
                 art |-> desired.art, cfg |-> desired.cfg, capture |-> desired.capture, old |-> st.proc, gen |-> generation]
           f == [ctx |-> n + 1, art |-> desired.art, cfg |-> desired.cfg]
           t == [st EXCEPT !.inflight = f, !.phase = "PENDING", !.prev = st.running,
                           !.prevCfg = st.runCfg]
<1>1. /\ deploys' = Append(deploys, d) /\ st' = t
      /\ desired # None /\ desired \in Specs
  BY DEF beginDeploy, Free, Inv, TypeOK
<1>2. deploys \in Seq(Deploy) /\ n \in Nat /\ Ctx = 1..n /\ generation \in Nat
  BY BooksTypes DEF Inv, TypeOK
<1>3. /\ Len(deploys') = n + 1 /\ deploys'[n + 1].gen = generation
      /\ \A i \in 1..n : deploys'[i] = deploys[i]
  BY <1>1, <1>2
<1>4. \A i \in 1..n : deploys[i].gen < generation
  <2>1. ~Begun
    BY DEF beginDeploy, Free, Matches, Resolved, Answered
  <2>2. TAKE i \in 1..n
  <2>3. deploys[i] \in Deploy
    BY <1>2, <2>2
  <2>4. deploys[i].gen \in Nat
    BY <2>3 DEF Deploy
  <2>5. deploys[i].gen <= generation /\ deploys[i].gen # generation
    BY <1>2, <2>1, <2>2 DEF Rising, Begun
  <2> QED BY <1>2, <2>4, <2>5
<1>5. Ctx' = 1..n+1
  BY <1>3 DEF Ctx
<1> HIDE DEF n, d
<1>6. Rising'
  BY <1>2, <1>3, <1>4, <1>5 DEF Rising
<1>7. /\ st'.inflight = f /\ st'.inflight # None /\ st'.phase = "PENDING"
      /\ f.art = desired.art /\ f.cfg = desired.cfg
  <2>1. f \in Inflight
    BY <1>1, <1>2 DEF Inflight, Specs
  <2>2. f # None
    BY <2>1, AgentAssumption
  <2> QED BY <1>1, <2>2, StType DEF StrategyState
<1> HIDE DEF f
<1>8. Resolved(st')
  BY <1>7 DEF Resolved, Carries, ChecksOwn, Answered
<1>9. Resolved(st)'
  BY <1>7 DEF Resolved, Carries, ChecksOwn, Answered
<1> QED BY <1>6, <1>9

\* The main loop's decisions begin one deploy for a generation.
LEMMA ReconcileOnce ==
  ASSUME Inv, Rising, Resolved(st), Reconcile
  PROVE  Rising' /\ Resolved(st)'
<1>1. UNCHANGED <<cpGen, desired, generation>> /\ st \in StrategyState
  BY StType DEF Reconcile, cpVars
<1>2. CASE restartInWindow
  <2>1. /\ UNCHANGED deploys /\ startProcess(st, TRUE) /\ st.inflight # None
        /\ st.phase = "HEALTH_CHECKING"
    BY <1>2 DEF restartInWindow, Quiet
  <2> QED BY <1>1, <2>1, StartOnce
<1> DEFINE r == Relabelled(st)
<1>3. ASSUME Free, Matches
      PROVE  /\ r \in StrategyState /\ r.inflight = None /\ versionMatches(desired, r)
             /\ r.lastBad = st.lastBad
  <2>1. r \in StrategyState /\ r.inflight = None /\ r.running = desired.art
        /\ r.runCfg = st.runCfg /\ r.running # None /\ r.lastBad = st.lastBad
    BY <1>1, <1>3, RelabelledType DEF Free, Relabelled, StrategyState
  <2> QED BY <1>3, <2>1 DEF Matches, versionMatches
<1> HIDE DEF r
<1>4. CASE restart
  <2>1. UNCHANGED deploys /\ startProcess(r, st.phase = "STOPPED") /\ Free /\ Matches
    BY <1>4 DEF restart, Quiet, r
  <2> QED BY <1>1, <1>3, <2>1, StartOnce
<1>5. CASE steadyState
  <2>1. /\ UNCHANGED deploys /\ Free /\ Matches /\ st' = [r EXCEPT !.observedGen = generation]
    BY <1>5 DEF steadyState, Quiet, r
  <2>2. st'.inflight = r.inflight /\ st'.running = r.running /\ st'.runCfg = r.runCfg
    BY <1>3, <2>1 DEF StrategyState
  <2> QED BY <1>1, <1>3, <2>1, <2>2, DropResolved, Untouched, SameOrderKept DEF versionMatches
<1>6. CASE drainForMode
  <2>1. UNCHANGED deploys /\ Free /\ Matches /\ spawnDrain(st)
    BY <1>6 DEF drainForMode, Quiet
  <2>2. st'.inflight = None /\ st'.running = st.running /\ st'.runCfg = st.runCfg
    BY <1>1, <2>1 DEF spawnDrain, Free, StrategyState
  <2>3. versionMatches(desired, st')
    BY <2>1, <2>2 DEF Matches, versionMatches
  <2> QED BY <1>1, <2>1, <2>2, <2>3, DropResolved, Untouched, SameOrderKept
<1>7. CASE reconcileWaits
  BY <1>1, <1>7, Untouched, SameOrderKept DEF reconcileWaits
<1> QED BY <1>1, <1>2, <1>4, <1>5, <1>6, <1>7, HaltOnce, BeginDeployOnce DEF Reconcile

\* What was confused stays so.
LEMMA ConfusedStays ==
  ASSUME Inv, [Next]_vars, Confused
  PROVE  Confused'
<1>1. PICK i, j \in Ctx : CalledOff(i, j) /\ deploys[i].gen # deploys[j].gen
  BY DEF Confused
<1>2. i \in Ctx' /\ j \in Ctx'
  BY DeploysKept, BooksTypes DEF Ctx
<1>3. CalledOff(i, j)' /\ deploys'[i].gen # deploys'[j].gen
  BY <1>1, DeploysKept DEF CalledOff
<1> QED BY <1>2, <1>3 DEF Confused

\* A stopped agent is never counted as a new one.
LEMMA RestartsStay ==
  ASSUME Inv, [Next]_vars, restarts > 0
  PROVE  restarts' > 0
<1> USE DEF Serve, ServeRest
<1>1. ASSUME NEW i \in Ctx, WorkerStep(i) PROVE restarts' = restarts
  BY <1>1 DEF WorkerStep, Announce, Download, Verify, DrainOld, CheckWithdrawn, SwitchTo,
              StartNew, ReportStarted, WorkerFails, WorkerAt
<1>2. ASSUME NEW p \in Pid, handleExit(p) \/ applyHealthResult(p) \/ ProcessExits(p) \/ DrainDone(p)
      PROVE  restarts' = restarts
  BY <1>2 DEF handleExit, applyHealthResult, ProcessExits, DrainDone, EnvRest
<1>3. CASE applyDesired \/ applyWorkerEvent \/ Tick \/ Reconcile \/ persistSupervision
           \/ rebuildActualState \/ Publish \/ BackoffElapses \/ WindowElapses \/ UNCHANGED vars
  BY <1>3 DEF applyDesired, applyWorkerEvent, Tick, Reconcile, persistSupervision,
              rebuildActualState, Publish, BackoffElapses, WindowElapses, EnvRest, vars
<1>4. CASE shutdown \/ Crash
  BY <1>4, BooksTypes DEF shutdown, Crash, AgentGone, Inv, TypeOK
<1> QED BY <1>1, <1>2, <1>3, <1>4 DEF Next

\* It holds at the start.
LEMMA OnceInit == Init => OnceInv
BY DEF Init, OnceInv, Rising, Resolved, Carries, ChecksOwn, Answered, NewState, Ctx

\* Every step keeps it.
LEMMA OnceNext ==
  Inv /\ UnknownIsNew /\ Books /\ Ownership /\ OnceInv /\ [Next]_vars => OnceInv'
<1> SUFFICES ASSUME Inv, UnknownIsNew, Books, Ownership, OnceInv, [Next]_vars
             PROVE  OnceInv'
  OBVIOUS
<1>1. CASE restarts > 0
  BY <1>1, RestartsStay DEF OnceInv
<1>2. CASE Confused
  BY <1>2, ConfusedStays DEF OnceInv
<1>3. CASE ~(restarts > 0) /\ ~Confused
  <2>1. Rising /\ Resolved(st)
    BY <1>3 DEF OnceInv
  <2>2. ~Mistakable /\ Clear
    <3>1. \A i, j \in Ctx : CalledOff(i, j) => deploys[i].gen # deploys[j].gen
      <4>1. \A i \in Ctx : deploys[i] \in Deploy
        BY BooksTypes
      <4>2. \A i \in Ctx : deploys[i].gen \in Nat
        BY <4>1 DEF Deploy
      <4> QED BY <2>1, <4>2 DEF CalledOff, Rising
    <3> QED BY <1>3, <3>1 DEF Confused, Mistakable, Ownership
  <2> SUFFICES (Rising' /\ Resolved(st)') \/ restarts' > 0
    BY DEF OnceInv
  <2>3. CASE applyDesired \/ Tick \/ Reconcile \/ applyWorkerEvent
    BY <2>1, <2>2, <2>3, ApplyDesiredOnce, TickOnce, ReconcileOnce, ApplyWorkerEventOnce
  <2>4. ASSUME NEW i \in Ctx, WorkerStep(i) PROVE Rising' /\ Resolved(st)'
    <3>1. PICK pc, next \in WorkerPc : WorkerAt(i, pc, next)
      BY <2>4 DEF WorkerStep, Announce, Download, Verify, DrainOld, CheckWithdrawn, SwitchTo,
                  StartNew, ReportStarted, WorkerFails, WorkerPc
    <3>2. /\ Len(deploys') = Len(deploys) /\ \A j \in Ctx : deploys'[j].gen = deploys[j].gen
          /\ UNCHANGED <<st, generation, desired>>
      BY <3>1, WorkerFrame
    <3>3. cpGen' = cpGen
      BY <3>1 DEF WorkerAt, cpVars
    <3> QED BY <2>1, <3>2, <3>3, SameOrder
  <2>5. ASSUME NEW p \in Pid, handleExit(p) \/ applyHealthResult(p) PROVE Rising' /\ Resolved(st)'
    BY <2>1, <2>5, HandleExitOnce, ApplyHealthResultOnce
  <2>6. ASSUME NEW p \in Pid, ProcessExits(p) \/ DrainDone(p) PROVE Rising' /\ Resolved(st)'
    <3>1. UNCHANGED <<deploys, st, cpGen, desired, generation>>
      BY <2>6 DEF ProcessExits, DrainDone, EnvRest, cpVars
    <3> QED BY <2>1, <3>1, Untouched, SameOrderKept
  <2>7. CASE Publish
    <3>1. UNCHANGED <<deploys, st, desired, generation>> /\ cpGen' = cpGen + 1
      BY <2>7 DEF Publish
    <3>2. cpGen \in Nat /\ generation \in Nat
      BY DEF Inv, TypeOK
    <3> QED BY <2>1, <3>1, <3>2 DEF Rising, Resolved, Carries, ChecksOwn, Answered, Begun, Ctx,
              versionMatches, SkipsBadVersion, Terminal
  <2>8. CASE persistSupervision \/ UNCHANGED vars
    <3>1. UNCHANGED <<deploys, st, cpGen, desired, generation>>
      BY <2>8 DEF persistSupervision, cpVars, vars
    <3> QED BY <2>1, <3>1, Untouched, SameOrderKept
  <2>9. CASE shutdown \/ Crash
    BY <2>9, GoneOwns DEF shutdown, Crash
  <2>10. CASE BackoffElapses \/ WindowElapses
    <3>1. /\ UNCHANGED <<deploys, cpGen, desired, generation>>
          /\ st'.inflight = st.inflight /\ st'.running = st.running /\ st'.runCfg = st.runCfg
          /\ st'.lastBad = st.lastBad /\ st'.phase = st.phase /\ st'.failedAtGen = st.failedAtGen
      BY <2>10, StType DEF BackoffElapses, WindowElapses, EnvRest, cpVars, StrategyState
    <3>2. Resolved(st')
      BY <2>1, <3>1, EditResolved DEF Terminal
    <3> QED BY <2>1, <3>1, <3>2, Untouched, SameOrderKept
  <2>11. CASE rebuildActualState
    BY <1>3, <2>11 DEF rebuildActualState, Ownership, DownIsStopped
  <2> QED BY <2>3, <2>4, <2>5, <2>6, <2>7, <2>8, <2>9, <2>10, <2>11 DEF Next
<1> QED BY <1>1, <1>2, <1>3

\* A generation is deployed at most once in the life of an agent, as long as no
\* digest called off in one generation is deployed again in another.
THEOREM DeployedOnce == Spec => []DeployOncePerGeneration
<1>1. HealthInv => UnknownIsNew
  BY DEF HealthInv
<1>2. Inv /\ OnceInv => DeployOncePerGeneration
  <2> SUFFICES ASSUME Inv, OnceInv, restarts = 0, ~Confused, NEW i \in Ctx, NEW j \in Ctx,
                      deploys[i].gen = deploys[j].gen
               PROVE  i = j
    BY DEF DeployOncePerGeneration, Confused
  <2>1. Rising
    BY DEF OnceInv
  <2>2. Ctx = 1..Len(deploys) /\ Len(deploys) \in Nat /\ deploys \in Seq(Deploy)
    BY BooksTypes
  <2>3. deploys[i] \in Deploy /\ deploys[j] \in Deploy
    BY <2>2
  <2>4. deploys[i].gen \in Nat
    BY <2>3 DEF Deploy
  <2> QED BY <2>1, <2>2, <2>4 DEF Rising
<1> QED BY Invariance, BooksKept, HealthInit, HealthNext, OwnershipKept, OnceInit, OnceNext,
           <1>1, <1>2, PTL DEF Spec

----------------------------------------------------------------------------
(* The record names what runs *)

\* The record names the process it supervises.
RecordReal == st.proc # 0 => st.running # None /\ procs[st.proc].art.digest = st.running.digest

\* It also names the release a start would run; a worker that has moved `current`
\* has its own there, until the main loop hears of the process.
CurrentReal ==
  /\ \A i \in Ctx : Moved(i) => current = deploys[i].art
  /\ st.running # None => current.digest = st.running.digest \/ \E i \in Ctx : Moved(i)

StartedReal == \A p \in Pid : procs[p].ctx # 0 => procs[p].art = deploys[procs[p].ctx].art

\* So does the file, of the process a new agent would adopt: while the agent lives
\* that is the one it supervises, and once it is gone what a start would run.
FileReal ==
  file # None =>
    /\ file.pid \in Pid
    /\ Live(file.pid) =>
         /\ file.running # None /\ procs[file.pid].art.digest = file.running.digest
         /\ IF loop = "down" THEN current.digest = file.running.digest
            ELSE known /\ st.proc = file.pid

Named == RecordReal /\ CurrentReal /\ StartedReal /\ FileReal

RealInv == Overtaken \/ Mistakable \/ Named

\* A worker committed to its switch is the one in flight, unless it was withdrawn
\* late; while it is checked, no worker is.
LEMMA CommittedFlies ==
  ASSUME Clear, LateKnown, ~Overtaken, NEW i \in Ctx, Committed(i)
  PROVE  InFlight(i) /\ ~deploys[i].cancelled /\ st.phase # "HEALTH_CHECKING"
<1>1. ~deploys[i].cancelled
  BY DEF LateKnown, Overtaken
<1>2. ~Finished(i)
  BY DEF Committed, Finished, Sent
<1> QED BY <1>1, <1>2 DEF Clear, Accounted, Checked

\* So with none in flight, or with one being checked, `current` is as recorded.
LEMMA NoneMoved ==
  ASSUME Clear, LateKnown, ~Overtaken, st.inflight = None \/ st.phase = "HEALTH_CHECKING"
  PROVE  /\ \A i \in Ctx : ~Moved(i)
         /\ CurrentReal /\ st.running # None => current.digest = st.running.digest
BY CommittedFlies, CommittedIs DEF InFlight, CurrentReal

\* A worker that moved `current` stopped what the agent supervises.
LEMMA MovedStopped ==
  ASSUME Inv, Books, Clear, LateKnown, ~Overtaken, NEW i \in Ctx, Moved(i)
  PROVE  ~Live(st.proc)
<1>1. InFlight(i) /\ ~Finished(i)
  BY CommittedFlies, CommittedIs DEF Moved, Told, Finished, Sent
<1>2. ~Live(deploys[i].old)
  BY DEF Moved, Told, Books, EventsKnown, OldStopped
<1>3. ~Live(0)
  BY BooksTypes DEF Live
<1> QED BY <1>1, <1>2, <1>3 DEF Clear, OldHeld

\* The main loop moves no worker, and hears of no start it is not told of.
LEMMA MovesKept ==
  ASSUME KeepsDeploys, workerCh' = workerCh
  PROVE  Ctx' = Ctx /\ \A i \in Ctx : Moved(i)' = Moved(i)
BY DEF KeepsDeploys, Ctx, Moved, Told

\* Processes keep what they run, and the file names the supervised one as long as
\* that one lives.
LEMMA FileStays ==
  ASSUME Inv, Books, StartedReal, FileReal, KeepsDeploys, KeepsProcs, file' = file,
         \/ loop' = loop /\ current' = current
         \/ loop # "down" /\ loop' # "down",
         \A p \in Pid : procs'[p].alive /\ known /\ st.proc = p => known' /\ st'.proc = p
  PROVE  StartedReal' /\ FileReal'
<1>1. /\ Pid = 1..Len(procs) /\ Pid' = 1..Len(procs') /\ Len(procs) \in Nat
      /\ Ctx = 1..Len(deploys) /\ Len(deploys) \in Nat
  BY BooksTypes DEF Pid
<1>2. \A p \in Pid : p \in Pid'
  BY <1>1 DEF KeepsProcs
<1>3. StartedReal'
  <2> SUFFICES ASSUME NEW p \in Pid', procs'[p].ctx # 0
               PROVE  procs'[p].art = deploys'[procs'[p].ctx].art
    BY DEF StartedReal
  <2>1. p \in Pid
    BY <1>1 DEF KeepsProcs
  <2>2. procs[p].ctx \in Ctx
    BY <1>1, <2>1 DEF Books, Counted, KeepsProcs
  <2> QED BY <2>1, <2>2 DEF StartedReal, KeepsProcs, KeepsDeploys
<1>4. FileReal'
  <2> SUFFICES ASSUME file # None
               PROVE  /\ file.pid \in Pid'
                      /\ procs'[file.pid].alive =>
                           /\ file.running # None
                           /\ procs'[file.pid].art.digest = file.running.digest
                           /\ IF loop' = "down" THEN current'.digest = file.running.digest
                              ELSE known' /\ st'.proc = file.pid
    BY DEF FileReal, Live
  <2>1. file.pid \in Pid
    BY DEF FileReal
  <2>2. /\ procs'[file.pid].art = procs[file.pid].art
        /\ procs'[file.pid].alive => Live(file.pid)
    BY <2>1 DEF KeepsProcs, Live
  <2> QED BY <1>2, <2>1, <2>2 DEF FileReal
<1> QED BY <1>3, <1>4

\* A step that starts nothing and moves no symlink.
LEMMA QuietReal ==
  ASSUME Inv, Books, Named, KeepsDeploys, KeepsProcs, UNCHANGED <<current, file>>,
         loop' = loop \/ (loop # "down" /\ loop' # "down"),
         Ctx' = Ctx, \A i \in Ctx : Moved(i)' = Moved(i),
         st'.proc \in {0, st.proc},
         \/ st'.running = None /\ st'.proc = 0
         \/ st.running # None /\ st'.running # None /\ st'.running.digest = st.running.digest
         \/ st'.running = st.running,
         \A p \in Pid : procs'[p].alive /\ known /\ st.proc = p => known' /\ st'.proc = p
  PROVE  Named'
<1>1. StartedReal' /\ FileReal'
  BY FileStays DEF Named
<1>2. RecordReal'
  <2>1. st.proc # 0 => st.proc \in Pid
    BY BooksTypes DEF Books, Counted
  <2> QED BY <2>1 DEF Named, RecordReal, KeepsProcs
<1>3. CurrentReal'
  <2>1. \A i \in Ctx : deploys'[i].art = deploys[i].art
    BY DEF KeepsDeploys
  <2> QED BY <2>1 DEF Named, CurrentReal
<1> QED BY <1>1, <1>2, <1>3 DEF Named

\* A rollback puts back the release it starts, and records it; it fails before
\* anything else, once builds and starts do not.
StartsSucceed == Faults \cap {"build", "start"} = {}

LEMMA RollbackReal ==
  ASSUME StartsSucceed, Inv, Books, Named, \A i \in Ctx : ~Moved(i) /\ ~Moved(i)',
         NEW s \in StrategyState, NEW w, beginRollback(s, w), s.running = st.running,
         s.proc = st.proc \/ (s.proc = 0 /\ ~Live(st.proc)),
         file' = file, loop # "down", loop' # "down"
  PROVE  Named'
<1> DEFINE bad    == IF s.inflight # None THEN s.inflight.art.version ELSE desired.art.version
           bare   == [s EXCEPT !.inflight = None, !.lastBad = bad, !.proc = 0]
           back   == [bare EXCEPT !.running = s.prev, !.runCfg = s.prevCfg]
           failed(r) == [r EXCEPT !.phase = "FAILED", !.failedAtGen = generation]
           pid    == Len(procs) + 1
           rolled == [Install(back, pid, desired.capture)
                      EXCEPT !.phase = "ROLLED_BACK", !.crashes = 0, !.blocked = FALSE]
<1>1. /\ KeepsDeploys /\ KeepsProcs
      /\ st.proc \in Pid => ~procs'[st.proc].alive
  BY RollbackLetsGo
<1>2. Ctx' = Ctx
  BY <1>1 DEF KeepsDeploys, Ctx
<1>3. StartedReal' /\ FileReal'
  BY <1>1, FileStays DEF Named
<1>4. CASE st' = failed(bare) /\ current' = current
  <2>1. st'.proc = 0 /\ st'.running = st.running
    BY <1>4 DEF StrategyState
  <2> QED BY <1>2, <1>3, <1>4, <2>1 DEF Named, RecordReal, CurrentReal
<1>5. CASE /\ s.prev # None /\ current' = s.prev /\ st' = rolled
           /\ procs' = Append(Killed(s.proc), [alive |-> TRUE, art |-> s.prev, ctx |-> 0])
  <2>1. st'.proc = pid /\ st'.running = s.prev
    BY <1>5 DEF Install, StrategyState
  <2>2. procs'[pid].art = s.prev
    <3>1. Killed(s.proc) \in Seq(Process) /\ Len(Killed(s.proc)) = Len(procs)
      BY KilledType DEF Inv, StrategyState
    <3> QED BY <1>5, <3>1
  <2> QED BY <1>2, <1>3, <1>5, <2>1, <2>2 DEF Named, RecordReal, CurrentReal
<1>6. ~Fault("build") /\ ~Fault("start")
  BY DEF StartsSucceed, Fault
<1> QED BY <1>4, <1>5, <1>6 DEF beginRollback

\* A start in the main loop runs what the record says.
LEMMA StartReal ==
  ASSUME Inv, Books, Named, NEW s \in StrategyState, NEW hc \in BOOLEAN, startProcess(s, hc),
         s.proc = 0, st.proc = 0, s.running # None, current.digest = s.running.digest,
         \A i \in Ctx : ~Moved(i), UNCHANGED <<deploys, workerCh, current, file>>,
         loop # "down", loop' # "down"
  PROVE  Named'
<1>1. KeepsDeploys /\ KeepsProcs
  BY Untouched, StartFrame
<1>2. Ctx' = Ctx /\ \A i \in Ctx : ~Moved(i)'
  BY <1>1, MovesKept
<1>3. StartedReal' /\ FileReal'
  <2>1. 0 \notin Pid
    BY BooksTypes
  <2> QED BY <1>1, <2>1, FileStays DEF Named
<1>4. st'.running = s.running /\ (st'.proc # 0 => procs'[st'.proc].art = current)
  <2> DEFINE pid == Len(procs) + 1
  <2>1. CASE /\ procs' = Append(procs, NewProc(0))
             /\ st' = [Install(s, pid, desired.capture)
                        EXCEPT !.phase = IF hc THEN "HEALTH_CHECKING" ELSE "HEALTHY",
                               !.windowOver = IF hc THEN FALSE ELSE @,
                               !.observedGen = IF hc THEN @ ELSE generation]
    <3>1. st'.running = s.running /\ st'.proc = pid
      BY <2>1 DEF Install, StrategyState
    <3>2. procs'[pid].art = current
      BY <2>1, BooksTypes DEF NewProc
    <3> QED BY <3>1, <3>2
  <2>2. CASE st' = [s EXCEPT !.phase = "FAILED", !.crashes = s.crashes + 1, !.blocked = TRUE]
    BY <2>2 DEF StrategyState
  <2> QED BY <2>1, <2>2 DEF startProcess
<1>5. RecordReal'
  BY <1>4 DEF RecordReal
<1>6. CurrentReal'
  BY <1>2, <1>4 DEF CurrentReal
<1> QED BY <1>3, <1>5, <1>6 DEF Named

\* A snapshot only withdraws a deploy.
LEMMA ApplyDesiredReal ==
  ASSUME Inv, Books, Named, applyDesired
  PROVE  Named'
<1>1. /\ UNCHANGED <<workerCh, procs, current, file, known>> /\ loop # "down" /\ loop' # "down"
      /\ deploys' = deploys \/ deploys' = WithCancel(st)
  BY DEF applyDesired, envVars
<1>2. KeepsDeploys /\ KeepsProcs
  BY <1>1, StType, CancelFrame, Untouched
<1>3. st'.proc = st.proc /\ st'.running = st.running
  BY StType DEF applyDesired, StrategyState
<1> QED BY <1>1, <1>2, <1>3, MovesKept, QuietReal

\* A served exit leaves no process, or the one rolled back to.
LEMMA HandleExitReal ==
  ASSUME StartsSucceed, Inv, Books, Clear, LateKnown, ~Overtaken, Named, NEW p \in Pid, handleExit(p)
  PROVE  Named'
<1> DEFINE gone == [st EXCEPT !.proc = 0]
           w    == watched \ {p}
<1>1. /\ UNCHANGED <<workerCh, file>> /\ loop # "down" /\ loop' # "down" /\ ~procs[p].alive
      /\ st \in StrategyState
  BY StType DEF handleExit, Serve, ServeRest
<1>2. gone \in StrategyState /\ gone.proc = 0 /\ gone.running = st.running /\ gone.phase = st.phase
  BY <1>1 DEF StrategyState
<1> DEFINE same == /\ UNCHANGED <<deploys, procs, current>>
                   /\ \/ st' = st /\ known' = known
                      \/ st.proc = p /\ st'.proc = 0 /\ st'.running \in {None, st.running}
<1>3. ASSUME same PROVE Named'
  <2>1. KeepsDeploys /\ KeepsProcs
    BY <1>3, Untouched
  <2> QED BY <1>1, <1>3, <2>1, MovesKept, QuietReal
<1>4. CASE /\ st.proc = p /\ st' = (IF known' THEN [gone EXCEPT !.stopping = FALSE] ELSE NewState)
           /\ UNCHANGED <<deploys, procs, current>>
  <2>1. [gone EXCEPT !.stopping = FALSE].proc = 0
        /\ [gone EXCEPT !.stopping = FALSE].running = st.running
    <3> HIDE DEF gone
    <3> QED BY <1>2 DEF StrategyState
  <2>2. NewState.proc = 0 /\ NewState.running = None
    BY DEF NewState
  <2> QED BY <1>3, <1>4, <2>1, <2>2
<1>5. CASE UnexpectedExit(gone, w) /\ st.proc = p /\ known' = known
  <2> HIDE DEF gone, w, same
  <2> DEFINE crashed == [gone EXCEPT !.crashes = gone.crashes + 1, !.blocked = TRUE]
             clean   == [gone EXCEPT !.crashes = 0, !.blocked = FALSE]
  <2>1. /\ crashed \in StrategyState /\ crashed.proc = 0 /\ crashed.running = st.running
        /\ crashed.phase = st.phase
        /\ clean.proc = 0 /\ clean.running = st.running /\ clean \in StrategyState
    <3>1. gone.crashes + 1 \in Nat /\ 0 \in Nat
      BY <1>2 DEF StrategyState
    <3> QED BY <1>2, <3>1 DEF StrategyState
  <2> HIDE DEF crashed, clean
  <2>2. \A r \in StrategyState : Demoted(r).proc = r.proc /\ Demoted(r).running = r.running
    BY DEF Demoted, StrategyState
  <2>3. \/ beginRollback(crashed, w) /\ crashed.phase = "HEALTH_CHECKING"
        \/ (st' = Demoted(crashed) \/ st' = Demoted(clean)) /\ UNCHANGED <<deploys, procs, current>>
    BY <1>5 DEF UnexpectedExit, CrashLoop, crashed, clean
  <2>4. CASE beginRollback(crashed, w) /\ crashed.phase = "HEALTH_CHECKING"
    <3>1. KeepsDeploys
      BY <2>1, <2>4, RollbackFrame
    <3>2. \A i \in Ctx : ~Moved(i) /\ ~Moved(i)'
      BY <1>1, <2>1, <2>4, <3>1, NoneMoved, MovesKept
    <3>3. ~Live(st.proc)
      BY <1>1, <1>5 DEF Live
    <3> QED BY <1>1, <2>1, <2>4, <3>2, <3>3, RollbackReal
  <2>5. CASE (st' = Demoted(crashed) \/ st' = Demoted(clean)) /\ UNCHANGED <<deploys, procs, current>>
    BY <1>3, <1>5, <2>1, <2>2, <2>5 DEF same
  <2> QED BY <2>3, <2>4, <2>5
<1> QED BY <1>1, <1>3, <1>4, <1>5 DEF handleExit

\* A step that keeps the process and the release of the record.
LEMMA EditReal ==
  ASSUME Inv, Books, Named, NEW t \in StrategyState, deploys' = deploys \/ deploys' = WithCancel(t),
         UNCHANGED <<workerCh, procs, current, file>>, loop # "down", loop' # "down",
         st'.proc = st.proc, st'.running = st.running, known => known'
  PROVE  Named'
<1>1. KeepsDeploys /\ KeepsProcs
  BY CancelFrame, Untouched
<1> QED BY <1>1, MovesKept, QuietReal

LEMMA CronReal ==
  ASSUME Inv, Books, Named, NEW s \in StrategyState, tickCron(s), s.proc = st.proc,
         s.running = st.running, UNCHANGED <<deploys, workerCh, procs, current, file, known>>,
         loop # "down", loop' # "down"
  PROVE  Named'
<1>1. st'.proc = st.proc /\ st'.running = st.running
  <2>1. CASE st' = s
    BY <2>1
  <2>2. CASE spawnDrain(s)
    BY <2>2 DEF spawnDrain, StrategyState
  <2> QED BY <2>1, <2>2 DEF tickCron
<1> QED BY <1>1, StType, EditReal

\* The tick rolls back only what is being checked.
LEMMA TickReal ==
  ASSUME StartsSucceed, Inv, Books, Clear, LateKnown, ~Overtaken, Named, Tick
  PROVE  Named'
<1>1. /\ UNCHANGED <<workerCh, known, file>> /\ loop # "down" /\ loop' # "down"
      /\ st \in StrategyState
  BY StType DEF Tick, Serve, ServeRest
<1>2. CASE beginRollback(st, watched) /\ st.phase = "HEALTH_CHECKING"
  <2>1. KeepsDeploys
    BY <1>1, <1>2, RollbackLetsGo
  <2>2. \A i \in Ctx : ~Moved(i) /\ ~Moved(i)'
    BY <1>1, <1>2, <2>1, NoneMoved, MovesKept
  <2> QED BY <1>1, <1>2, <2>2, RollbackReal
<1>3. CASE failHealthWindow /\ UNCHANGED <<procs, current>>
  <2>1. deploys' = WithCancel(st) /\ st'.proc = st.proc /\ st'.running = st.running
    BY <1>1, <1>3 DEF failHealthWindow, StrategyState
  <2> QED BY <1>1, <1>3, <2>1, EditReal
<1>4. CASE tickCron(MarkedHealthy(st)) /\ UNCHANGED <<deploys, procs, current>>
  <2>1. /\ MarkedHealthy(st) \in StrategyState /\ MarkedHealthy(st).proc = st.proc
        /\ MarkedHealthy(st).running = st.running
    BY <1>1, MarkedHealthyType DEF Inv, MarkedHealthy, StrategyState
  <2> QED BY <1>1, <1>4, <2>1, CronReal
<1>5. CASE tickCron([st EXCEPT !.probing = TRUE]) /\ UNCHANGED <<deploys, procs, current>>
  <2> DEFINE s == [st EXCEPT !.probing = TRUE]
  <2>1. s \in StrategyState /\ s.proc = st.proc /\ s.running = st.running
    BY <1>1 DEF StrategyState
  <2>2. tickCron(s)
    BY <1>5
  <2> HIDE DEF s
  <2> QED BY <1>1, <1>5, <2>1, <2>2, CronReal
<1>6. CASE tickCron(st) /\ UNCHANGED <<deploys, procs, current>>
  BY <1>1, <1>6, CronReal
<1> QED BY <1>2, <1>3, <1>4, <1>5, <1>6 DEF Tick

LEMMA ApplyHealthResultReal ==
  ASSUME Inv, Books, Named, NEW p \in Pid, applyHealthResult(p)
  PROVE  Named'
<1> DEFINE s == [st EXCEPT !.probing = FALSE]
<1>1. /\ UNCHANGED <<known, deploys, workerCh, procs, current, file>> /\ st \in StrategyState
      /\ st' = st \/ st' = s \/ st' = MarkedHealthy(s)
      /\ loop # "down" /\ loop' # "down"
  BY StType DEF applyHealthResult, Serve, ServeRest
<1>2. s \in StrategyState /\ s.proc = st.proc /\ s.running = st.running
  BY <1>1 DEF StrategyState
<1> HIDE DEF s
<1>3. MarkedHealthy(s).proc = st.proc /\ MarkedHealthy(s).running = st.running
  BY <1>2 DEF MarkedHealthy, StrategyState
<1> QED BY <1>1, <1>2, <1>3, EditReal

\* Retiring and halting leave the process to its drain.
LEMMA HaltReal ==
  ASSUME Inv, Books, Named, retireStrategy \/ reconcileStopped,
         UNCHANGED <<workerCh, current, file>>, loop # "down", loop' # "down"
  PROVE  Named'
<1> DEFINE s == [st EXCEPT !.inflight = None]
<1>1. /\ s \in StrategyState /\ s.proc = st.proc /\ s.running = st.running
      /\ st \in StrategyState
  BY StType, DroppedType DEF StrategyState
<1>2. deploys' = WithCancel(st) /\ procs' = procs
  BY DEF retireStrategy, reconcileStopped
<1>3. KeepsDeploys /\ KeepsProcs
  BY <1>1, <1>2, CancelFrame, Untouched
<1>4. CASE st' = s /\ (known => known')
  BY <1>1, <1>2, <1>4, EditReal
<1>5. CASE spawnDrain(s) /\ (known => known')
  <2>1. st'.proc = s.proc /\ st'.running = s.running
    <3> HIDE DEF s
    <3> QED BY <1>1, <1>5 DEF spawnDrain, StrategyState
  <2> QED BY <1>1, <1>2, <1>5, <2>1, EditReal
<1>6. CASE st' = NewState /\ s.proc = 0
  <2>1. st'.proc = 0 /\ st'.running = None /\ st.proc = 0
    BY <1>1, <1>6 DEF NewState
  <2>2. 0 \notin Pid
    BY BooksTypes
  <2> QED BY <1>3, <2>1, <2>2, MovesKept, QuietReal
<1>7. CASE /\ s.proc = 0 /\ known'
           /\ st' = [s EXCEPT !.phase = "STOPPED", !.stopping = FALSE, !.observedGen = generation]
  <2>1. st'.proc = st.proc /\ st'.running = st.running
    <3> HIDE DEF s
    <3> QED BY <1>1, <1>7 DEF StrategyState
  <2> QED BY <1>1, <1>2, <1>7, <2>1, EditReal
<1> QED BY <1>4, <1>5, <1>6, <1>7 DEF retireStrategy, reconcileStopped

\* A deploy is begun on what runs.
LEMMA BeginDeployReal ==
  ASSUME Inv, Books, Named, beginDeploy,
         UNCHANGED <<workerCh, current, file>>, loop # "down", loop' # "down"
  PROVE  Named'
<1> PICK n : n = Len(deploys) + 1
  OBVIOUS
<1>1. PICK d : deploys' = Append(deploys, d) /\ d.pc = "announce"
  BY DEF beginDeploy
<1>2. /\ procs' = procs /\ known' = TRUE
      /\ st' = [st EXCEPT !.inflight = [ctx |-> n, art |-> desired.art, cfg |-> desired.cfg],
                          !.phase = "PENDING", !.prev = st.running, !.prevCfg = st.runCfg]
  BY DEF beginDeploy
<1>3. st'.proc = st.proc /\ st'.running = st.running
  BY <1>2, StType DEF StrategyState
<1>4. /\ Ctx = 1..Len(deploys) /\ Ctx' = Ctx \cup {n} /\ deploys'[n] = d
      /\ \A i \in Ctx : deploys'[i] = deploys[i]
      /\ Len(deploys) \in Nat /\ n \notin Ctx
  BY <1>1, BooksTypes DEF Ctx
<1>5. \A i \in Ctx : Moved(i)' = Moved(i)
  BY <1>4 DEF Moved, Told
<1>6. ~Moved(n)'
  <2>1. \A k \in 1..Len(workerCh) : workerCh[k].ctx # n
    BY <1>4 DEF Books, EventsKnown
  <2> QED BY <1>1, <1>4, <2>1 DEF Moved, Told
<1>7. CurrentReal'
  BY <1>3, <1>4, <1>5, <1>6 DEF Named, CurrentReal
<1>8. RecordReal'
  BY <1>2, <1>3 DEF Named, RecordReal
<1>9. Pid' = Pid /\ \A p \in Pid : procs[p].ctx # 0 => procs[p].ctx \in Ctx
  BY <1>2, <1>4 DEF Books, Counted, Pid
<1>10. StartedReal'
  BY <1>2, <1>4, <1>9 DEF Named, StartedReal
<1>11. FileReal'
  BY <1>2, <1>3, <1>9 DEF Named, FileReal, Live
<1> QED BY <1>7, <1>8, <1>10, <1>11 DEF Named

\* Whatever is started, `current` is what the record says it runs.
LEMMA ReconcileReal ==
  ASSUME Inv, Books, Clear, LateKnown, ~Overtaken, Named, Reconcile
  PROVE  Named'
<1>1. UNCHANGED <<workerCh, current, file>> /\ st \in StrategyState /\ loop # "down" /\ loop' # "down"
  BY StType DEF Reconcile
<1>2. ASSUME restartInWindow PROVE Named'
  <2>1. /\ st.proc = 0 /\ deploys' = deploys /\ startProcess(st, TRUE)
        /\ st.phase = "HEALTH_CHECKING" /\ st.running # None
    BY <1>2 DEF restartInWindow, Quiet, Matches, versionMatches
  <2>2. (\A i \in Ctx : ~Moved(i)) /\ current.digest = st.running.digest
    BY <2>1, NoneMoved DEF Named
  <2> QED BY <1>1, <2>1, <2>2, StartReal
<1>3. ASSUME restart PROVE Named'
  <2> DEFINE s == Relabelled(st)
  <2>1. /\ desired # None /\ st.proc = 0 /\ deploys' = deploys /\ st.inflight = None
        /\ startProcess(s, st.phase = "STOPPED") /\ st.running # None
        /\ st.running.digest = desired.art.digest
    BY <1>3 DEF restart, Free, Quiet, Matches, versionMatches
  <2>2. s \in StrategyState /\ s.proc = 0 /\ s.running = desired.art
    <3>1. s \in StrategyState /\ s.proc = 0
      BY <2>1, RelabelledType
    <3> QED BY <1>1, <3>1 DEF Relabelled, StrategyState
  <2>3. desired.art # None
    BY <2>1, AgentAssumption DEF Inv, TypeOK, Specs
  <2>4. (\A i \in Ctx : ~Moved(i)) /\ current.digest = st.running.digest
    BY <2>1, NoneMoved DEF Named
  <2> HIDE DEF s
  <2> QED BY <1>1, <2>1, <2>2, <2>3, <2>4, StartReal
<1>4. ASSUME drainForMode PROVE Named'
  <2>1. spawnDrain(st) /\ UNCHANGED <<deploys, procs>> /\ known'
    BY <1>4 DEF drainForMode, Quiet
  <2>2. st'.proc = st.proc /\ st'.running = st.running
    BY <1>1, <2>1 DEF spawnDrain, StrategyState
  <2> QED BY <1>1, <2>1, <2>2, EditReal
<1>5. ASSUME steadyState PROVE Named'
  <2>1. /\ UNCHANGED <<deploys, procs>> /\ known' /\ desired # None
        /\ st' = [Relabelled(st) EXCEPT !.observedGen = generation]
        /\ st.running # None /\ st.running.digest = desired.art.digest
    BY <1>5 DEF steadyState, Quiet, Matches, versionMatches
  <2>2. st'.proc = st.proc /\ st'.running = desired.art
    BY <1>1, <2>1 DEF Relabelled, StrategyState
  <2>3. desired.art # None
    BY <2>1, AgentAssumption DEF Inv, TypeOK, Specs
  <2>4. KeepsDeploys /\ KeepsProcs
    BY <2>1, Untouched
  <2> QED BY <1>1, <2>1, <2>2, <2>3, <2>4, MovesKept, QuietReal
<1>6. ASSUME reconcileWaits PROVE Named'
  <2>1. UNCHANGED <<st, deploys, procs>> /\ (known => known')
    BY <1>6 DEF reconcileWaits
  <2> QED BY <1>1, <2>1, EditReal
<1> QED BY <1>1, <1>2, <1>3, <1>4, <1>5, <1>6, HaltReal, BeginDeployReal DEF Reconcile

\* The event of a start hands over what its worker moved; any other moves nothing.
LEMMA MovesServed ==
  ASSUME Inv, Books, KeepsDeploys, applyWorkerEvent, NEW j, j = Head(workerCh).ctx
  PROVE  /\ Ctx' = Ctx
         /\ \A i \in Ctx : Moved(i)' => Moved(i)
         /\ \A i \in Ctx : i # j \/ Head(workerCh).phase # "HEALTH_CHECKING" => Moved(i)' = Moved(i)
         /\ LastWord(Head(workerCh)) => ~Moved(j)'
<1> DEFINE ev == Head(workerCh)
<1>1. /\ ev = workerCh[1] /\ 1 \in 1..Len(workerCh)
      /\ Len(workerCh') = Len(workerCh) - 1 /\ Len(workerCh) \in Nat
      /\ \A k \in 1..Len(workerCh') : workerCh'[k] = workerCh[k + 1] /\ k + 1 \in 1..Len(workerCh)
  BY ServedEvent, BooksTypes
<1>2. /\ j \in Ctx
      /\ LastWord(ev) => /\ deploys[j].pc = "done"
                         /\ \A l \in 1..Len(workerCh) : 1 < l => workerCh[l].ctx # j
  BY <1>1 DEF Books, EventsKnown
<1> HIDE DEF ev
<1>3. \A i : Told(i)' => Told(i)
  BY <1>1 DEF Told
<1>4. \A i : i # j \/ ev.phase # "HEALTH_CHECKING" => (Told(i) => Told(i)')
  <2> SUFFICES ASSUME NEW i, i # j \/ ev.phase # "HEALTH_CHECKING", NEW k \in 1..Len(workerCh),
                      workerCh[k].ctx = i, workerCh[k].phase = "HEALTH_CHECKING"
               PROVE  Told(i)'
    BY DEF Told
  <2>1. k # 1
    BY <1>1 DEF ev
  <2>2. k - 1 \in 1..Len(workerCh') /\ workerCh'[k - 1] = workerCh[k]
    BY <1>1, <2>1
  <2> QED BY <2>2 DEF Told
<1>5. LastWord(ev) => ~Told(j)'
  BY <1>1, <1>2 DEF Told
<1>6. \A i \in Ctx : deploys'[i].pc = deploys[i].pc
  BY DEF KeepsDeploys
<1> QED BY <1>2, <1>3, <1>4, <1>5, <1>6 DEF Moved, KeepsDeploys, Ctx, ev

LEMMA ApplyWorkerEventReal ==
  ASSUME StartsSucceed, Inv, Books, UnknownIsNew, Clear, LateKnown, ~Overtaken, ~Mistakable,
         Named, applyWorkerEvent
  PROVE  Named'
<1> DEFINE ev == Head(workerCh)
           progress == [st EXCEPT !.phase = ev.phase]
<1>1. /\ UNCHANGED <<known, file>> /\ st \in StrategyState /\ loop # "down" /\ loop' # "down"
      /\ ev \in WorkerEvent /\ KeepsEvents /\ ev = workerCh[1] /\ 1 \in 1..Len(workerCh)
  BY StType, ServedEvent DEF applyWorkerEvent, Serve, ServeRest
<1> PICK j : j = ev.ctx
  OBVIOUS
<1>2. /\ j \in Ctx /\ ~Finished(j)
      /\ Heeded(ev) => InFlight(j)
      /\ ~Heeded(ev) => deploys[j].cancelled
  BY Unmistakable, Recognised
<1>3. /\ ev.art = deploys[j].art
      /\ ev.phase = "HEALTH_CHECKING" => ev.proc \in Pid /\ procs[ev.proc].ctx = j /\ Moved(j)
  BY <1>1 DEF Books, EventsKnown, Moved, Told
<1>4. ev.phase = "HEALTH_CHECKING" => Heeded(ev)
  BY <1>2, <1>3, CommittedFlies, CommittedIs
<1>5. progress.proc = st.proc /\ progress.running = st.running
  <2> HIDE DEF ev
  <2> QED BY <1>1 DEF StrategyState
<1>6. ASSUME UNCHANGED <<deploys, procs, current>>, ev.phase # "HEALTH_CHECKING",
             st'.proc = st.proc, st'.running = st.running
      PROVE  Named'
  <2>1. KeepsDeploys /\ KeepsProcs
    BY <1>6, Untouched
  <2>2. Ctx' = Ctx /\ \A i \in Ctx : Moved(i)' = Moved(i)
    BY <1>6, <2>1, MovesServed
  <2> HIDE DEF ev, progress
  <2> QED BY <1>1, <1>6, <2>1, <2>2, QuietReal
<1>7. CASE ~Heeded(ev) /\ UNCHANGED <<st, deploys, procs, current>>
  BY <1>4, <1>6, <1>7
<1>8. CASE /\ ev.phase \in {"DOWNLOADING", "VERIFYING", "SWITCHING", "DRAINING"}
           /\ st' = [progress EXCEPT !.stopping = progress.stopping \/ ev.phase = "DRAINING"]
           /\ UNCHANGED <<deploys, procs, current>>
  <2>1. st'.proc = st.proc /\ st'.running = st.running
    <3>1. progress \in [DOMAIN st -> {progress[x] : x \in DOMAIN st}]
      <4> HIDE DEF ev
      <4> QED BY <1>1 DEF StrategyState
    <3> HIDE DEF progress, ev
    <3> QED BY <1>1, <1>5, <1>8, <3>1 DEF StrategyState
  <2> QED BY <1>6, <1>8, <2>1
<1>9. CASE /\ Heeded(ev) /\ ev.phase = "HEALTH_CHECKING"
           /\ st' = [Install(progress, ev.proc, ev.capture)
                       EXCEPT !.running = ev.art, !.runCfg = ev.cfg, !.windowOver = FALSE,
                              !.crashes = 0, !.blocked = FALSE]
           /\ UNCHANGED <<deploys, procs, current>>
  <2> DEFINE inst == Install(progress, ev.proc, ev.capture)
  <2>1. inst \in StrategyState /\ inst.proc = ev.proc
    <3>1. progress \in StrategyState
      <4> HIDE DEF ev
      <4> QED BY <1>1, <1>9 DEF StrategyState, Phases
    <3>2. ev.proc \in Nat /\ ev.capture \in BOOLEAN
      BY <1>1 DEF WorkerEvent
    <3> HIDE DEF progress, ev
    <3> QED BY <3>1, <3>2, InstallType
  <2>2. st'.proc = ev.proc /\ st'.running = ev.art
    <3> HIDE DEF inst, ev
    <3> QED BY <1>9, <2>1 DEF StrategyState, inst
  <2>3. KeepsDeploys /\ KeepsProcs
    BY <1>9, Untouched
  <2>4. Ctx' = Ctx /\ \A i \in Ctx : Moved(i)' => Moved(i)
    BY <2>3, MovesServed
  <2>5. ev.art # None /\ j # 0
    <3>1. ev.art \in Artifacts
      BY <1>1 DEF WorkerEvent
    <3> QED BY <1>2, <3>1, AgentAssumption, BooksTypes
  <2>6. procs[ev.proc].art = ev.art /\ current = ev.art
    <3>1. procs[ev.proc].art = deploys[j].art
      BY <1>3, <1>9, <2>5 DEF Named, StartedReal
    <3> QED BY <1>2, <1>3, <1>9, <3>1 DEF Named, CurrentReal
  <2>7. RecordReal' /\ CurrentReal'
    <3> HIDE DEF ev, inst, progress
    <3>1. RecordReal'
      BY <1>9, <2>2, <2>5, <2>6 DEF RecordReal
    <3>2. CurrentReal'
      BY <1>9, <2>2, <2>4, <2>6 DEF Named, CurrentReal
    <3> QED BY <3>1, <3>2
  <2>8. ~Live(st.proc)
    BY <1>2, <1>3, <1>9, MovedStopped
  <2>9. StartedReal' /\ FileReal'
    <3>1. \A p \in Pid : procs'[p].alive /\ known /\ st.proc = p => known' /\ st'.proc = p
      BY <1>9, <2>8 DEF Live
    <3> QED BY <1>1, <2>3, <3>1, FileStays DEF Named
  <2> QED BY <2>7, <2>9 DEF Named
<1>10. CASE beginRollback(st, watched) /\ Heeded(ev) /\ ev.phase = "ROLLING_BACK"
  <2>1. KeepsDeploys
    BY <1>1, <1>10, RollbackLetsGo
  <2>2. LastWord(ev) /\ ev.phase # "HEALTH_CHECKING"
    BY <1>10 DEF LastWord
  <2>3. ~Moved(j)' /\ \A i \in Ctx : Moved(i)' = Moved(i)
    BY <2>1, <2>2, MovesServed
  <2>4. \A i \in Ctx : Moved(i) => i = j
    BY <1>2, <1>10, CommittedFlies, CommittedIs DEF InFlight
  <2>5. \A i \in Ctx : ~Moved(i) /\ ~Moved(i)'
    BY <1>2, <2>3, <2>4
  <2> HIDE DEF ev, progress
  <2> QED BY <1>1, <1>10, <2>5, RollbackReal
<1>11. CASE /\ ev.phase = "FAILED"
            /\ st' = [progress EXCEPT !.stopping = FALSE, !.failedAtGen = generation,
                                      !.inflight = None]
            /\ UNCHANGED <<deploys, procs, current>>
  <2>1. st'.proc = st.proc /\ st'.running = st.running
    <3>1. progress \in [DOMAIN st -> {progress[x] : x \in DOMAIN st}]
      <4> HIDE DEF ev
      <4> QED BY <1>1 DEF StrategyState
    <3> HIDE DEF progress, ev
    <3> QED BY <1>1, <1>5, <1>11, <3>1 DEF StrategyState
  <2> QED BY <1>6, <1>11, <2>1
<1> QED BY <1>7, <1>8, <1>9, <1>10, <1>11 DEF applyWorkerEvent

\* A worker moves `current` to its own release, starts that, and stays at it until
\* the main loop hears.
LEMMA WorkerStepReal ==
  ASSUME StartsSucceed, Inv, Books, Clear, LateKnown, ~Overtaken, Named, NEW i \in Ctx, WorkerStep(i)
  PROVE  Named'
<1>1. /\ \A j \in Ctx : j # i => Moved(j)' = Moved(j)
      /\ Strides(i)
  BY WorkerMoves
<1>2. PICK pc, next \in WorkerPc : WorkerAt(i, pc, next)
  BY DEF WorkerStep, Announce, Download, Verify, DrainOld, CheckWithdrawn, SwitchTo,
         StartNew, ReportStarted, WorkerFails, WorkerPc
<1>3. /\ UNCHANGED <<known, st, loop, file>> /\ Len(deploys') = Len(deploys) /\ deploys[i].pc = pc
      /\ \A j \in Ctx : deploys'[j].art = deploys[j].art
  BY <1>2, WorkerFrame DEF WorkerAt
<1>4. /\ Ctx' = Ctx /\ Pid = 1..Len(procs) /\ Pid' = 1..Len(procs') /\ Len(procs) \in Nat
      /\ Ctx = 1..Len(deploys) /\ loop # "down"
  BY <1>2, <1>3, BooksTypes DEF Ctx, Pid, WorkerAt
<1>5. ~Fault("build") /\ ~Fault("start")
  BY DEF StartsSucceed, Fault
<1>6. Moved(i) => Moved(i)'
  BY <1>1, <1>5, CommittedFlies, CommittedIs DEF Strides
<1>7. \A j \in Ctx : Moved(j) /\ current' # current => j = i
  BY <1>1, CommittedFlies, CommittedIs DEF Strides, InFlight
<1>8. CurrentReal'
  <2>1. ASSUME NEW j \in Ctx, Moved(j)' PROVE current' = deploys'[j].art
    <3>1. CASE j # i
      BY <1>1, <1>3, <1>7, <2>1, <3>1 DEF Named, CurrentReal
    <3>2. CASE j = i
      BY <1>1, <1>3, <2>1, <3>2 DEF Named, CurrentReal, Strides
    <3> QED BY <3>1, <3>2
  <2>2. ASSUME st.running # None
        PROVE  current'.digest = st.running.digest \/ \E j \in Ctx : Moved(j)'
    <3>1. CASE current' = current
      BY <1>1, <1>6, <2>2, <3>1 DEF Named, CurrentReal
    <3>2. CASE current' # current
      BY <1>1, <3>2 DEF Strides
    <3> QED BY <3>1, <3>2
  <2> QED BY <1>3, <1>4, <2>1, <2>2 DEF CurrentReal
<1>9. \A p \in Pid : p \in Pid' /\ procs'[p].art = procs[p].art /\ procs'[p].ctx = procs[p].ctx
                     /\ (procs'[p].alive => procs[p].alive)
  BY <1>1, <1>4 DEF Strides
<1>10. RecordReal'
  <2>1. st.proc # 0 => st.proc \in Pid
    BY <1>4 DEF Books, Counted
  <2> QED BY <1>3, <1>9, <2>1 DEF Named, RecordReal
<1>11. StartedReal'
  <2> SUFFICES ASSUME NEW p \in Pid', procs'[p].ctx # 0
               PROVE  procs'[p].art = deploys'[procs'[p].ctx].art
    BY DEF StartedReal
  <2>1. CASE p \in Pid
    <3>1. procs[p].ctx \in Ctx
      BY <1>4, <1>9, <2>1 DEF Books, Counted
    <3> QED BY <1>3, <1>9, <2>1, <3>1 DEF Named, StartedReal
  <2>2. CASE p \notin Pid
    <3>1. procs'[p].ctx = i /\ procs'[p].art = current /\ Moved(i)
      BY <1>1, <1>4, <2>2 DEF Strides, Moved
    <3> QED BY <1>3, <3>1 DEF Named, CurrentReal
  <2> QED BY <2>1, <2>2
<1>12. FileReal'
  BY <1>3, <1>4, <1>9 DEF Named, FileReal, Live
<1> QED BY <1>8, <1>10, <1>11, <1>12 DEF Named

\* The agent's end leaves `current` at what it supervised, if that still runs, and
\* the file naming it.
LEMMA GoneReal ==
  ASSUME Inv, Books, UnknownIsNew, Clear, LateKnown, ~Overtaken, Named, loop # "down",
         file' = file \/ file' = Snapshot, AgentGone
  PROVE  Named'
<1>1. /\ workerCh' = <<>> /\ st' = NewState /\ UNCHANGED <<procs, current>> /\ loop' = "down"
      /\ Len(workerCh') = 0
  BY DEF AgentGone
<1>2. /\ Len(deploys') = Len(deploys)
      /\ \A i \in Ctx : deploys'[i].pc = "done" /\ deploys'[i].art = deploys[i].art
  BY GoneDeploys
<1>3. Ctx' = Ctx /\ Pid' = Pid
  BY <1>1, <1>2 DEF Ctx, Pid
<1>4. st'.proc = 0 /\ st'.running = None
  BY <1>1 DEF NewState
<1>5. RecordReal' /\ CurrentReal'
  BY <1>1, <1>2, <1>3, <1>4 DEF RecordReal, CurrentReal, Moved, Told
<1>6. \A p \in Pid : procs[p].ctx # 0 => procs[p].ctx \in Ctx
  BY BooksTypes DEF Books, Counted
<1>7. StartedReal'
  BY <1>1, <1>2, <1>3, <1>6 DEF Named, StartedReal
<1>8. Live(st.proc) => /\ st.running # None /\ procs[st.proc].art.digest = st.running.digest
                       /\ current.digest = st.running.digest
  <2> SUFFICES ASSUME Live(st.proc) PROVE /\ st.running # None
                                          /\ procs[st.proc].art.digest = st.running.digest
                                          /\ current.digest = st.running.digest
    OBVIOUS
  <2>1. st.proc # 0
    BY BooksTypes DEF Live
  <2>2. \A i \in Ctx : ~Moved(i)
    BY MovedStopped
  <2> QED BY <2>1, <2>2 DEF Named, RecordReal, CurrentReal
<1>9. FileReal'
  <2>1. \A p : Live(p)' = Live(p)
    BY <1>1, <1>3 DEF Live
  <2>2. CASE file' = file
    <3>1. file # None /\ Live(file.pid) => /\ current.digest = file.running.digest
                                           /\ file.running # None
                                           /\ procs[file.pid].art.digest = file.running.digest
      BY <1>8 DEF Named, FileReal
    <3> QED BY <1>1, <1>3, <2>2, <3>1 DEF Named, FileReal, Live
  <2>3. CASE file' = Snapshot /\ Snapshot # None
    <3>1. file'.pid = st.proc /\ file'.running = st.running /\ st.proc # 0
      BY <2>3 DEF Snapshot
    <3>2. st.proc \in Pid
      BY <3>1, BooksTypes DEF Books, Counted
    <3> QED BY <1>1, <1>3, <1>8, <3>1, <3>2 DEF FileReal, Live
  <2>4. CASE file' = Snapshot /\ Snapshot = None
    BY <2>4 DEF FileReal
  <2> QED BY <2>2, <2>3, <2>4
<1> QED BY <1>5, <1>7, <1>9 DEF Named

\* A takeover records what the file names, which is what runs.
LEMMA RebuildReal ==
  ASSUME Inv, Books, DownIsQuiet, Named, rebuildActualState
  PROVE  Named'
<1>1. /\ UNCHANGED <<deploys, workerCh, procs, current, file>> /\ known' = Adoptable
      /\ loop = "down" /\ loop' = "select"
      /\ workerCh = <<>> /\ Len(workerCh) = 0 /\ \A i \in Ctx : deploys[i].pc = "done"
  BY DEF rebuildActualState, DownIsQuiet
<1>2. Ctx' = Ctx /\ Pid' = Pid /\ \A i \in Ctx : ~Moved(i)'
  BY <1>1 DEF Ctx, Pid, Moved, Told
<1>3. StartedReal'
  BY <1>1, <1>2 DEF Named, StartedReal
<1>4. CASE Adoptable
  <2>1. st'.proc = file.pid /\ st'.running = file.running
    BY <1>4 DEF rebuildActualState, Adopted, NewState
  <2>2. /\ file # None /\ Live(file.pid) /\ file.running # None
        /\ procs[file.pid].art.digest = file.running.digest
        /\ current.digest = file.running.digest
    BY <1>1, <1>4 DEF Adoptable, Named, FileReal
  <2> QED BY <1>1, <1>2, <1>3, <1>4, <2>1, <2>2 DEF Named, RecordReal, CurrentReal, FileReal, Live
<1>5. CASE ~Adoptable
  <2>1. st'.proc = 0 /\ st'.running = None
    BY <1>5 DEF rebuildActualState, NewState
  <2>2. file # None => ~Live(file.pid)
    BY <1>5 DEF Adoptable
  <2> QED BY <1>1, <1>2, <1>3, <2>1, <2>2 DEF Named, RecordReal, CurrentReal, FileReal, Live
<1> QED BY <1>4, <1>5

\* The file takes over the record.
LEMMA PersistReal ==
  ASSUME Inv, Books, Named, persistSupervision
  PROVE  Named'
<1>1. /\ UNCHANGED <<deploys, workerCh, procs, current, st, known>> /\ loop' = "select"
      /\ file' = Snapshot
  BY DEF persistSupervision, envVars
<1>2. Ctx' = Ctx /\ Pid' = Pid /\ \A i \in Ctx : Moved(i)' = Moved(i)
  BY <1>1 DEF Ctx, Pid, Moved, Told
<1>3. RecordReal' /\ CurrentReal' /\ StartedReal'
  BY <1>1, <1>2 DEF Named, RecordReal, CurrentReal, StartedReal
<1>4. FileReal'
  <2>1. CASE Snapshot = None
    BY <1>1, <2>1 DEF FileReal
  <2>2. CASE Snapshot # None
    <3>1. file'.pid = st.proc /\ file'.running = st.running /\ st.proc # 0 /\ known
      BY <1>1, <2>2 DEF Snapshot
    <3>2. st.proc \in Pid
      BY <3>1, BooksTypes DEF Books, Counted
    <3> QED BY <1>1, <1>2, <3>1, <3>2 DEF Named, RecordReal, FileReal
  <2> QED BY <2>1, <2>2
<1> QED BY <1>3, <1>4 DEF Named

\* Processes die, time passes and the control plane publishes, agent or none.
LEMMA EnvReal ==
  ASSUME Inv, Books, Named,
         \/ Publish \/ BackoffElapses \/ WindowElapses \/ UNCHANGED vars
         \/ \E p \in Pid : ProcessExits(p) \/ DrainDone(p)
  PROVE  Named'
<1>1. /\ UNCHANGED <<deploys, workerCh, current, file, known, loop>>
      /\ procs' = procs \/ \E p \in Pid : procs' = Killed(p)
      /\ st'.proc = st.proc /\ st'.running = st.running
  <2>1. CASE BackoffElapses \/ WindowElapses
    BY <2>1, StType DEF BackoffElapses, WindowElapses, EnvRest, StrategyState
  <2>2. CASE Publish \/ UNCHANGED vars
    BY <2>2 DEF Publish, envVars, vars
  <2>3. CASE \E p \in Pid : ProcessExits(p) \/ DrainDone(p)
    BY <2>3 DEF ProcessExits, DrainDone, EnvRest
  <2> QED BY <2>1, <2>2, <2>3
<1>2. \A p \in Pid : p \in Nat
  BY BooksTypes
<1>3. KeepsDeploys /\ KeepsProcs
  BY <1>1, <1>2, Untouched, KilledFrame
<1> QED BY <1>1, <1>3, MovesKept, QuietReal

LEMMA OvertakenStays ==
  ASSUME Inv, [Next]_vars, Overtaken
  PROVE  Overtaken'
<1>1. PICK i \in Ctx : deploys[i].late
  BY DEF Overtaken
<1>2. i \in Ctx' /\ deploys'[i].late
  BY <1>1, DeploysKept, BooksTypes DEF Ctx
<1> QED BY <1>2 DEF Overtaken

LEMMA RealInit == Init => RealInv
BY DEF Init, RealInv, Named, RecordReal, CurrentReal, StartedReal, FileReal, NewState, Ctx, Pid

LEMMA RealNext ==
  ASSUME StartsSucceed
  PROVE  Inv /\ UnknownIsNew /\ Books /\ DownIsQuiet /\ LateKnown /\ Ownership /\ RealInv /\ [Next]_vars
           => RealInv'
<1> SUFFICES ASSUME Inv, UnknownIsNew, Books, DownIsQuiet, LateKnown, Ownership, RealInv, [Next]_vars
             PROVE  RealInv'
  OBVIOUS
<1>1. CASE Overtaken
  BY <1>1, OvertakenStays DEF RealInv
<1>2. CASE Mistakable
  BY <1>2, MistakableStays DEF RealInv
<1>3. CASE ~Overtaken /\ ~Mistakable
  <2>1. Named /\ Clear
    BY <1>3 DEF RealInv, Ownership
  <2> SUFFICES Named'
    BY DEF RealInv
  <2>2. CASE applyDesired \/ applyWorkerEvent \/ Tick \/ Reconcile
    BY <1>3, <2>1, <2>2, ApplyDesiredReal, ApplyWorkerEventReal, TickReal, ReconcileReal
  <2>3. ASSUME NEW i \in Ctx, WorkerStep(i) PROVE Named'
    BY <1>3, <2>1, <2>3, WorkerStepReal
  <2>4. ASSUME NEW p \in Pid, handleExit(p) \/ applyHealthResult(p) PROVE Named'
    BY <1>3, <2>1, <2>4, HandleExitReal, ApplyHealthResultReal
  <2>5. CASE shutdown \/ Crash
    <3>1. loop # "down" /\ (file' = file \/ file' = Snapshot) /\ AgentGone
      BY <2>5 DEF shutdown, Crash
    <3> QED BY <1>3, <2>1, <3>1, GoneReal
  <2>6. CASE rebuildActualState \/ persistSupervision
    BY <2>1, <2>6, RebuildReal, PersistReal
  <2>7. CASE \/ Publish \/ BackoffElapses \/ WindowElapses \/ UNCHANGED vars
             \/ \E p \in Pid : ProcessExits(p) \/ DrainDone(p)
    BY <2>1, <2>7, EnvReal
  <2> QED BY <2>2, <2>3, <2>4, <2>5, <2>6, <2>7 DEF Next
<1> QED BY <1>1, <1>2, <1>3

\* The running artifact the agent records, reports and saves is what its process
\* runs, through switches, rollbacks and restarts of either, as long as no deploy
\* was withdrawn past its worker's last look at the context, no digest called off
\* is deployed again, and no start fails once `current` was switched.
THEOREM RunningNamed ==
  ASSUME StartsSucceed
  PROVE  Spec => []RunningIsReal
<1>1. HealthInv => UnknownIsNew
  BY DEF HealthInv
<1>2. RealInv => RunningIsReal
  BY DEF RealInv, Named, RecordReal, RunningIsReal
<1>3. Inv /\ UnknownIsNew /\ Books /\ DownIsQuiet /\ LateKnown /\ Ownership /\ RealInv /\ [Next]_vars
        => RealInv'
  BY RealNext
<1> QED BY Invariance, BooksKept, LateIsKnown, HealthInit, HealthNext, OwnershipKept, RealInit,
           <1>1, <1>2, <1>3, PTL DEF Spec

----------------------------------------------------------------------------
(* What the strategy's record may become *)

SameVersions(t) ==
  /\ t.running = st.running /\ t.runCfg = st.runCfg /\ t.prev = st.prev /\ t.prevCfg = st.prevCfg
  /\ t.lastBad = st.lastBad

SameVerdict(t) == SameVersions(t) /\ t.failedAtGen = st.failedAtGen

\* Nothing but clocks, counters and modes; a backoff may run out.
Undisturbed(t) ==
  /\ SameVerdict(t) /\ t.phase = st.phase /\ t.proc = st.proc /\ t.inflight = st.inflight
  /\ t.stopping = st.stopping /\ (t.blocked => st.blocked)

\* The supervised process is gone.
Exited(t) ==
  /\ SameVerdict(t) /\ st.proc # 0 /\ t.proc = 0 /\ t.inflight = st.inflight /\ t.stopping = FALSE
  /\ t.phase = st.phase \/ (st.phase = "HEALTHY" /\ t.phase = "STARTING")
  /\ desired # None => t.phase # "HEALTHY"

\* It was the last of a retired strategy.
Emptied(t) == t = NewState /\ desired = None

\* The failed version is marked bad, and the previous one is back, or nothing is.
RolledBack(t) ==
  /\ desired # None /\ t.inflight = None
  /\ st.inflight # None \/ st.phase = "HEALTH_CHECKING"
  /\ t.lastBad = IF st.inflight # None THEN st.inflight.art.version ELSE desired.art.version
  /\ t.lastBad # None /\ t.prev = st.prev /\ t.prevCfg = st.prevCfg
  /\ \/ t.running = st.running /\ t.runCfg = st.runCfg /\ t.phase = "FAILED"
     \/ t.running = st.prev /\ t.runCfg = st.prevCfg /\ st.prev # None
  /\ \/ t.phase = "FAILED" /\ t.failedAtGen = generation /\ t.proc = 0
     \/ t.phase = "ROLLED_BACK" /\ t.failedAtGen = st.failedAtGen /\ ~t.blocked

\* The deploy in flight moves on.
Progressed(t) ==
  /\ SameVerdict(t) /\ st.inflight # None /\ t.inflight = st.inflight /\ t.proc = st.proc
  /\ t.blocked = st.blocked
  /\ t.phase \in {"DOWNLOADING", "VERIFYING", "SWITCHING", "DRAINING"}

\* It has started what it brought.
Brought(t) ==
  /\ st.inflight # None /\ t.inflight = st.inflight
  /\ t.phase = "HEALTH_CHECKING" /\ ~t.blocked /\ ~t.stopping
  /\ t.prev = st.prev /\ t.prevCfg = st.prevCfg /\ t.lastBad = st.lastBad
  /\ t.failedAtGen = st.failedAtGen
  /\ \E i \in Ctx : /\ t.running = deploys[i].art /\ t.runCfg = deploys[i].cfg
                    /\ deploys[i].art.digest = st.inflight.art.digest

\* A deploy failed, or what runs did not become ready.
GaveUp(t) ==
  /\ SameVersions(t) /\ t.failedAtGen = generation /\ t.phase = "FAILED" /\ t.inflight = None
  /\ st.inflight # None \/ (st.phase = "HEALTH_CHECKING" /\ st.proc # 0)
  /\ t.proc = st.proc /\ ~t.stopping /\ t.blocked = st.blocked

\* What runs is up, or was and is drained for a due restart.
Promoted(t) ==
  /\ SameVerdict(t) /\ t.inflight = None /\ t.proc = st.proc /\ (t.blocked => st.blocked)
  /\ st.phase \in {"HEALTH_CHECKING", "HEALTHY"} /\ t.phase \in {"HEALTHY", "DRAINING"}

Heard(t) ==
  \/ Undisturbed(t) \/ Exited(t) \/ Emptied(t) \/ RolledBack(t)
  \/ Progressed(t) \/ Brought(t) \/ GaveUp(t) \/ Promoted(t)

\* A rollback of the deploy in flight, or of what is being checked.
LEMMA RollbackHeard ==
  ASSUME Inv, NEW s \in StrategyState, NEW w, beginRollback(s, w), SameVersions(s),
         s.inflight = st.inflight, s.failedAtGen = st.failedAtGen, desired # None,
         st.inflight # None \/ st.phase = "HEALTH_CHECKING"
  PROVE  RolledBack(st')
<1> DEFINE bad    == IF s.inflight # None THEN s.inflight.art.version ELSE desired.art.version
           bare   == [s EXCEPT !.inflight = None, !.lastBad = bad, !.proc = 0]
           back   == [bare EXCEPT !.running = s.prev, !.runCfg = s.prevCfg]
           failed(r) == [r EXCEPT !.phase = "FAILED", !.failedAtGen = generation]
           pid    == Len(procs) + 1
           rolled == [Install(back, pid, desired.capture)
                      EXCEPT !.phase = "ROLLED_BACK", !.crashes = 0, !.blocked = FALSE]
<1>1. /\ bad \in Versions /\ bad # None
      /\ bad = IF st.inflight # None THEN st.inflight.art.version ELSE desired.art.version
  <2>1. None \notin Versions
    BY AgentAssumption
  <2>2. bad \in Versions
    BY DEF Inv, TypeOK, StrategyState, Inflight, Specs, Versions
  <2> QED BY <2>1, <2>2
<1> HIDE DEF bad
<1>2. /\ bare \in StrategyState /\ bare.inflight = None /\ bare.lastBad = bad /\ bare.proc = 0
      /\ bare.running = st.running /\ bare.runCfg = st.runCfg /\ bare.prev = st.prev
      /\ bare.prevCfg = st.prevCfg /\ bare.failedAtGen = st.failedAtGen
  BY <1>1 DEF StrategyState, SameVersions
<1> HIDE DEF bare
<1>3. /\ back \in StrategyState /\ back.inflight = None /\ back.lastBad = bad /\ back.proc = 0
      /\ back.running = st.prev /\ back.runCfg = st.prevCfg /\ back.prev = st.prev
      /\ back.prevCfg = st.prevCfg /\ back.failedAtGen = st.failedAtGen
  BY <1>2 DEF StrategyState, SameVersions
<1> HIDE DEF back
<1>4. ASSUME NEW r \in StrategyState
      PROVE  /\ failed(r).inflight = r.inflight /\ failed(r).lastBad = r.lastBad
             /\ failed(r).proc = r.proc /\ failed(r).running = r.running
             /\ failed(r).runCfg = r.runCfg /\ failed(r).prev = r.prev
             /\ failed(r).prevCfg = r.prevCfg /\ failed(r).phase = "FAILED"
             /\ failed(r).failedAtGen = generation
  BY <1>4 DEF StrategyState
<1>5. /\ rolled.inflight = None /\ rolled.lastBad = bad /\ rolled.running = st.prev
      /\ rolled.runCfg = st.prevCfg /\ rolled.prev = st.prev /\ rolled.prevCfg = st.prevCfg
      /\ rolled.phase = "ROLLED_BACK" /\ rolled.failedAtGen = st.failedAtGen /\ ~rolled.blocked
  BY <1>3 DEF Install, StrategyState
<1>6. \/ st' = failed(bare)
      \/ s.prev # None /\ (st' = failed(back) \/ st' = rolled)
  BY DEF beginRollback, bad, bare, back
<1> HIDE DEF failed, rolled
<1>7. s.prev = st.prev
  BY DEF SameVersions
<1> QED BY <1>1, <1>2, <1>3, <1>4, <1>5, <1>6, <1>7 DEF RolledBack

\* An exit, ordered or not.
LEMMA HandleExitHeard ==
  ASSUME Inv, HealthInv, NEW p \in Pid, handleExit(p)
  PROVE  Heard(st')
<1> DEFINE gone == [st EXCEPT !.proc = 0]
           w    == watched \ {p}
<1>1. st \in StrategyState /\ Upright(st) /\ p # 0
  BY StType, BooksTypes DEF HealthInv
<1>2. gone \in StrategyState /\ gone.inflight = st.inflight /\ gone.phase = st.phase
      /\ gone.proc = 0 /\ SameVerdict(gone) /\ gone.stopping = st.stopping
  BY <1>1 DEF StrategyState, SameVerdict, SameVersions
<1> HIDE DEF gone
<1>3. CASE UNCHANGED st
  BY <1>3 DEF Heard, Undisturbed, SameVerdict, SameVersions
<1>4. CASE /\ st.proc = p /\ known' = (desired # None \/ ~st.stopping)
           /\ st.stopping \/ desired = None
           /\ st' = IF known' THEN [gone EXCEPT !.stopping = FALSE] ELSE NewState
  <2>1. CASE known'
    <3> DEFINE t == [gone EXCEPT !.stopping = FALSE]
    <3>1. /\ t.inflight = st.inflight /\ t.phase = st.phase /\ t.proc = 0 /\ SameVerdict(t)
          /\ t.stopping = FALSE
      BY <1>2 DEF StrategyState, SameVerdict, SameVersions
    <3>2. st' = t
      BY <1>4, <2>1
    <3> HIDE DEF t
    <3>3. desired # None => st.phase # "HEALTHY"
      BY <1>1, <1>4 DEF Upright
    <3> QED BY <1>1, <1>4, <3>1, <3>2, <3>3 DEF Heard, Exited
  <2>2. CASE ~known'
    BY <1>4, <2>2 DEF Heard, Emptied
  <2> QED BY <2>1, <2>2
<1>5. CASE UnexpectedExit(gone, w) /\ desired # None /\ st.proc = p /\ ~st.stopping
  <2> HIDE DEF w
  <2> DEFINE crashed == [gone EXCEPT !.crashes = gone.crashes + 1, !.blocked = TRUE]
             clean   == [gone EXCEPT !.crashes = 0, !.blocked = FALSE]
             alike(r) == /\ r \in StrategyState /\ r.inflight = st.inflight /\ r.phase = st.phase
                         /\ SameVerdict(r) /\ r.proc = 0 /\ r.stopping = st.stopping
  <2>1. alike(crashed) /\ alike(clean)
    <3>1. gone.crashes + 1 \in Nat /\ 0 \in Nat
      BY <1>2 DEF StrategyState
    <3> QED BY <1>2, <3>1 DEF StrategyState, SameVerdict, SameVersions
  <2> HIDE DEF crashed, clean
  <2>2. ASSUME NEW r, alike(r), st' = Demoted(r) PROVE Heard(st')
    <3>1. /\ Demoted(r).inflight = st.inflight /\ SameVerdict(Demoted(r)) /\ Demoted(r).proc = 0
          /\ Demoted(r).stopping = st.stopping
          /\ Demoted(r).phase = IF st.phase = "HEALTHY" THEN "STARTING" ELSE st.phase
      BY <2>2 DEF Demoted, StrategyState, SameVerdict, SameVersions
    <3>2. st.stopping = FALSE
      BY <1>1, <1>5 DEF StrategyState
    <3> QED BY <1>1, <1>5, <2>2, <3>1, <3>2 DEF Heard, Exited
  <2>3. CASE beginRollback(crashed, w) /\ CrashLoop(crashed)
    BY <1>5, <2>1, <2>3, RollbackHeard DEF CrashLoop, Heard, SameVerdict
  <2>4. \/ beginRollback(crashed, w) /\ CrashLoop(crashed)
        \/ st' = Demoted(crashed) \/ st' = Demoted(clean)
    BY <1>5 DEF UnexpectedExit, crashed, clean
  <2> QED BY <2>1, <2>2, <2>3, <2>4
<1> QED BY <1>3, <1>4, <1>5 DEF handleExit, gone

\* A due restart drains what is up, and nothing else.
LEMMA CronHeard ==
  ASSUME NEW s \in StrategyState, tickCron(s)
  PROVE  \/ st' = s
         \/ /\ st'.running = s.running /\ st'.runCfg = s.runCfg /\ st'.prev = s.prev
            /\ st'.prevCfg = s.prevCfg /\ st'.lastBad = s.lastBad
            /\ st'.failedAtGen = s.failedAtGen /\ st'.proc = s.proc /\ st'.blocked = s.blocked
            /\ st'.inflight = s.inflight /\ s.inflight = None
            /\ s.phase = "HEALTHY" /\ st'.phase = "DRAINING"
BY DEF tickCron, cronCanRun, spawnDrain, StrategyState

\* A promotion changes the phase and closes the deploy.
LEMMA PromotionHeard ==
  ASSUME Inv, NEW s \in StrategyState
  PROVE  LET t == MarkedHealthy(s) IN
         /\ t.running = s.running /\ t.runCfg = s.runCfg /\ t.prev = s.prev
         /\ t.prevCfg = s.prevCfg /\ t.lastBad = s.lastBad /\ t.failedAtGen = s.failedAtGen
         /\ t.inflight = None /\ t.phase = "HEALTHY" /\ t.proc = s.proc /\ ~t.blocked
BY DEF MarkedHealthy, StrategyState

\* The tick promotes, fails, rolls back or drains.
LEMMA TickHeard ==
  ASSUME Inv, HealthInv, Tick
  PROVE  Heard(st')
<1>1. st \in StrategyState /\ Upright(st)
  BY StType DEF HealthInv
<1>2. CASE beginRollback(st, watched) /\ WindowRollsBack
  <2>1. SameVersions(st)
    BY DEF SameVersions
  <2> QED BY <1>1, <1>2, <2>1, RollbackHeard DEF WindowRollsBack, Heard
<1>3. CASE failHealthWindow /\ st.phase = "HEALTH_CHECKING" /\ st.proc # 0
  <2>1. /\ SameVersions(st') /\ st'.failedAtGen = generation /\ st'.phase = "FAILED"
        /\ st'.inflight = None /\ st'.proc = st.proc /\ st'.stopping = st.stopping
        /\ st'.blocked = st.blocked
    BY <1>1, <1>3 DEF failHealthWindow, StrategyState, SameVersions
  <2>2. ~st.stopping
    BY <1>1, <1>3 DEF Upright
  <2> QED BY <1>3, <2>1, <2>2 DEF Heard, GaveUp
<1>4. CASE tickCron(MarkedHealthy(st)) /\ st.phase = "HEALTH_CHECKING"
  <2> DEFINE m == MarkedHealthy(st)
  <2>1. m \in StrategyState
    BY <1>1, MarkedHealthyType DEF Inv
  <2>2. /\ m.running = st.running /\ m.runCfg = st.runCfg /\ m.prev = st.prev
        /\ m.prevCfg = st.prevCfg /\ m.lastBad = st.lastBad /\ m.failedAtGen = st.failedAtGen
        /\ m.inflight = None /\ m.phase = "HEALTHY" /\ m.proc = st.proc /\ ~m.blocked
    BY <1>1, PromotionHeard
  <2>3. tickCron(m)
    BY <1>4
  <2> HIDE DEF m
  <2> QED BY <1>4, <2>1, <2>2, <2>3, CronHeard DEF Heard, Promoted, SameVerdict, SameVersions
<1>5. ASSUME NEW s \in StrategyState, Undisturbed(s), tickCron(s) PROVE Heard(st')
  <2>1. CASE st' = s
    BY <1>5, <2>1 DEF Heard
  <2>2. CASE st' # s
    BY <1>5, <2>2, CronHeard DEF Heard, Promoted, Undisturbed, SameVerdict, SameVersions
  <2> QED BY <2>1, <2>2
<1>6. CASE tickCron([st EXCEPT !.probing = TRUE])
  <2> DEFINE s == [st EXCEPT !.probing = TRUE]
  <2>1. s \in StrategyState /\ Undisturbed(s)
    BY <1>1 DEF StrategyState, Undisturbed, SameVerdict, SameVersions
  <2>2. tickCron(s)
    BY <1>6
  <2> HIDE DEF s
  <2> QED BY <1>5, <2>1, <2>2
<1>7. CASE tickCron(st)
  <2>1. Undisturbed(st)
    BY DEF Undisturbed, SameVerdict, SameVersions
  <2> QED BY <1>1, <1>5, <1>7, <2>1
<1> QED BY <1>2, <1>3, <1>4, <1>6, <1>7 DEF Tick

\* A probe's answer promotes, or changes nothing.
LEMMA ApplyHealthResultHeard ==
  ASSUME Inv, HealthInv, NEW p \in Pid, applyHealthResult(p)
  PROVE  Heard(st')
<1> DEFINE s == [st EXCEPT !.probing = FALSE]
<1>1. /\ st \in StrategyState
      /\ \/ st' = st \/ st' = s
         \/ s.phase = "HEALTH_CHECKING" /\ st' = MarkedHealthy(s)
  BY StType DEF applyHealthResult
<1>2. s \in StrategyState /\ Undisturbed(s) /\ Undisturbed(st)
  BY <1>1 DEF StrategyState, Undisturbed, SameVerdict, SameVersions
<1> HIDE DEF s
<1>3. CASE s.phase = "HEALTH_CHECKING" /\ st' = MarkedHealthy(s)
  BY <1>2, <1>3, PromotionHeard DEF Heard, Promoted, Undisturbed, SameVerdict, SameVersions
<1> QED BY <1>1, <1>2, <1>3 DEF Heard

\* What the deploy in flight says is its progress, a start of what it carries, a
\* rollback or its failure.
LEMMA ApplyWorkerEventHeard ==
  ASSUME Inv, Books, applyWorkerEvent
  PROVE  Heard(st')
<1> DEFINE ev == Head(workerCh)
           progress == [st EXCEPT !.phase = ev.phase]
<1>1. st \in StrategyState /\ ev \in WorkerEvent
  BY StType, ServedEvent
<1>2. CASE UNCHANGED st
  BY <1>2 DEF Heard, Undisturbed, SameVerdict, SameVersions
<1>3. CASE /\ ev.phase \in {"DOWNLOADING", "VERIFYING", "SWITCHING", "DRAINING"} /\ Heeded(ev)
           /\ st' = [progress EXCEPT !.stopping = progress.stopping \/ ev.phase = "DRAINING"]
  <2> DEFINE b == progress.stopping \/ ev.phase = "DRAINING"
  <2> HIDE DEF ev, b
  <2>1. st' = [progress EXCEPT !.stopping = b]
    BY <1>3 DEF b
  <2>2. /\ SameVerdict(st') /\ st'.inflight = st.inflight /\ st'.proc = st.proc
        /\ st'.blocked = st.blocked /\ st'.phase = ev.phase
    BY <1>1, <2>1 DEF StrategyState, SameVerdict, SameVersions
  <2> QED BY <1>3, <2>2 DEF Heard, Progressed, Heeded
<1>4. CASE /\ Heeded(ev) /\ ev.phase = "HEALTH_CHECKING"
           /\ st' = [Install(progress, ev.proc, ev.capture)
                      EXCEPT !.running = ev.art, !.runCfg = ev.cfg, !.windowOver = FALSE,
                             !.crashes = 0, !.blocked = FALSE]
  <2>1. \E i \in Ctx : ev.art = deploys[i].art /\ ev.cfg = deploys[i].cfg
    <3>1. 1 \in 1..Len(workerCh) /\ ev = workerCh[1]
      BY ServedEvent
    <3> QED BY <3>1 DEF Books, EventsKnown
  <2> HIDE DEF ev
  <2>2. /\ st'.inflight = st.inflight /\ st'.running = ev.art /\ st'.runCfg = ev.cfg
        /\ st'.phase = "HEALTH_CHECKING" /\ ~st'.blocked /\ ~st'.stopping
        /\ st'.prev = st.prev /\ st'.prevCfg = st.prevCfg /\ st'.lastBad = st.lastBad
        /\ st'.failedAtGen = st.failedAtGen
    BY <1>1, <1>4 DEF Install, StrategyState
  <2> QED BY <1>4, <2>1, <2>2 DEF Heard, Brought, Heeded
<1>5. CASE Heeded(ev) /\ beginRollback(st, watched)
  <2>1. desired # None /\ st.inflight # None
    BY <1>5 DEF Heeded, Inv, InflightWanted
  <2>2. SameVersions(st)
    BY DEF SameVersions
  <2> QED BY <1>1, <1>5, <2>1, <2>2, RollbackHeard DEF Heard
<1>6. CASE /\ Heeded(ev) /\ ev.phase = "FAILED"
           /\ st' = [progress EXCEPT !.stopping = FALSE, !.failedAtGen = generation,
                                     !.inflight = None]
  <2> HIDE DEF ev
  <2>1. /\ SameVersions(st') /\ st'.failedAtGen = generation /\ st'.phase = "FAILED"
        /\ st'.inflight = None /\ st'.proc = st.proc /\ ~st'.stopping /\ st'.blocked = st.blocked
    BY <1>1, <1>6 DEF StrategyState, SameVersions
  <2> QED BY <1>6, <2>1 DEF Heard, GaveUp, Heeded
<1> QED BY <1>2, <1>3, <1>4, <1>5, <1>6 DEF applyWorkerEvent

\* Every step but a snapshot, a reconcile and the agent's own end and return leaves
\* the order alone and does one of these to the record; a step of the main loop's
\* select is followed by a reconcile, and any other leaves the record undisturbed.
LEMMA StepHeard ==
  ASSUME Inv, Books, HealthInv, [Next]_vars
  PROVE  \/ applyDesired \/ Reconcile \/ shutdown \/ Crash \/ rebuildActualState
         \/ /\ Heard(st') /\ UNCHANGED <<desired, generation, restarts>>
            /\ \/ loop' = "reconcile" /\ loop = "select" /\ UNCHANGED <<cpGen, file>>
               \/ Undisturbed(st') /\ loop' = loop /\ UNCHANGED file /\ (Publish \/ UNCHANGED cpGen)
               \/ Undisturbed(st') /\ persistSupervision /\ UNCHANGED cpGen
<1> DEFINE still == Undisturbed(st') /\ UNCHANGED <<desired, generation, restarts>>
<1>1. still => Heard(st')
  BY DEF Heard
<1>2. st' = st => Undisturbed(st')
  BY DEF Undisturbed, SameVerdict, SameVersions
<1>3. CASE Publish \/ UNCHANGED vars
  BY <1>1, <1>2, <1>3 DEF Publish, vars
<1>4. ASSUME NEW i \in Ctx, WorkerStep(i) PROVE still /\ UNCHANGED <<loop, file, cpGen>>
  <2>1. PICK pc, next \in WorkerPc : WorkerAt(i, pc, next)
    BY <1>4 DEF WorkerStep, Announce, Download, Verify, DrainOld, CheckWithdrawn, SwitchTo,
                StartNew, ReportStarted, WorkerFails, WorkerPc
  <2> QED BY <1>2, <2>1 DEF WorkerAt, cpVars
<1>5. ASSUME NEW p \in Pid, ProcessExits(p) \/ DrainDone(p)
      PROVE  still /\ UNCHANGED <<loop, file, cpGen>>
  BY <1>2, <1>5 DEF ProcessExits, DrainDone, EnvRest, cpVars
<1>6. CASE BackoffElapses \/ WindowElapses
  <2>1. Undisturbed(st')
    BY <1>6, StType DEF BackoffElapses, WindowElapses, StrategyState, Undisturbed, SameVerdict,
                        SameVersions
  <2> QED BY <1>1, <1>6, <2>1 DEF BackoffElapses, WindowElapses, EnvRest, cpVars
<1>7. CASE persistSupervision
  BY <1>1, <1>2, <1>7 DEF persistSupervision, cpVars
<1>8. ASSUME NEW p \in Pid, handleExit(p) \/ applyHealthResult(p)
      PROVE  Heard(st') /\ UNCHANGED <<desired, generation, restarts, cpGen, file>>
             /\ loop' = "reconcile" /\ loop = "select"
  BY <1>8, HandleExitHeard, ApplyHealthResultHeard
     DEF handleExit, applyHealthResult, ServeRest, Serve, cpVars
<1>9. ASSUME applyWorkerEvent \/ Tick
      PROVE  Heard(st') /\ UNCHANGED <<desired, generation, restarts, cpGen, file>>
             /\ loop' = "reconcile" /\ loop = "select"
  BY <1>9, ApplyWorkerEventHeard, TickHeard DEF applyWorkerEvent, Tick, ServeRest, Serve, cpVars
<1> QED BY <1>1, <1>3, <1>4, <1>5, <1>6, <1>7, <1>8, <1>9 DEF Next

\* What reconcile makes of the record: it retires it, halts it, starts the process
\* again, keeps what runs (or drains it for a mode), begins a deploy, or waits.
Retired(t) ==
  /\ desired = None /\ t.inflight = None
  /\ \/ t = NewState
     \/ /\ SameVerdict(t) /\ t.proc = st.proc /\ t.blocked = st.blocked
        /\ t.phase = "DRAINING" \/ (t.phase = st.phase /\ t.stopping = st.stopping)

Halted(t) ==
  /\ desired # None /\ desired.stopped /\ ~st.blocked
  /\ SameVerdict(t) /\ t.inflight = None /\ t.proc = st.proc /\ ~t.blocked
  /\ \/ st.proc = 0 /\ t.phase = "STOPPED"
     \/ st.proc # 0 /\ st.stopping /\ t.phase = st.phase /\ t.stopping
     \/ st.proc # 0 /\ t.phase = "DRAINING"

\* The release that runs may be known by a newer label.
Alike(t) ==
  /\ Matches /\ t.running # None /\ t.running.digest = desired.art.digest
  /\ t.runCfg = st.runCfg /\ t.prev = st.prev /\ t.prevCfg = st.prevCfg
  /\ t.lastBad = st.lastBad /\ t.failedAtGen = st.failedAtGen /\ t.inflight = st.inflight

Restarted(t) ==
  /\ desired # None /\ ~desired.stopped /\ ~st.blocked /\ st.proc = 0 /\ Alike(t)
  /\ (st.inflight # None /\ st.phase = "HEALTH_CHECKING") \/ (st.inflight = None /\ ~Terminal(st))
  /\ \/ /\ t.phase = IF st.inflight # None \/ st.phase = "STOPPED" THEN "HEALTH_CHECKING"
                     ELSE "HEALTHY"
        /\ t.proc = Len(procs) + 1 /\ ~t.blocked /\ ~t.stopping
     \/ t.phase = "FAILED" /\ t.proc = 0 /\ t.blocked

Steady(t) ==
  /\ Free /\ Alike(t) /\ st.proc # 0 /\ t.proc = st.proc /\ t.blocked = st.blocked
  /\ t.phase = "DRAINING" \/ (t.phase = "HEALTHY" /\ st.phase = "HEALTHY")

Deploying(t) ==
  /\ Free /\ ~Matches /\ ~SkipsBadVersion(st)
  /\ t.inflight # None /\ t.inflight.art = desired.art /\ t.inflight.cfg = desired.cfg
  /\ t.phase = "PENDING" /\ t.running = st.running /\ t.runCfg = st.runCfg
  /\ t.prev = st.running /\ t.prevCfg = st.runCfg /\ t.lastBad = st.lastBad
  /\ t.failedAtGen = st.failedAtGen /\ t.proc = st.proc /\ t.blocked = st.blocked

Decision(t) ==
  \/ Retired(t) \/ Halted(t) \/ Restarted(t) \/ Steady(t) \/ Deploying(t)
  \/ t = st /\ reconcileWaits

\* With the assignment gone, or stopped.
LEMMA HaltDecided ==
  ASSUME Inv, retireStrategy \/ reconcileStopped
  PROVE  Retired(st') \/ Halted(st')
<1> DEFINE s == [st EXCEPT !.inflight = None]
<1>1. /\ s \in StrategyState /\ s.inflight = None /\ SameVerdict(s) /\ s.proc = st.proc
      /\ s.phase = st.phase /\ s.stopping = st.stopping /\ s.blocked = st.blocked
  BY StType DEF StrategyState, SameVerdict, SameVersions
<1> HIDE DEF s
<1>2. ASSUME spawnDrain(s)
      PROVE  /\ st'.inflight = None /\ SameVerdict(st') /\ st'.proc = st.proc
             /\ st'.phase = "DRAINING" /\ st'.blocked = st.blocked
  BY <1>1, <1>2 DEF spawnDrain, StrategyState, SameVerdict, SameVersions
<1>3. CASE retireStrategy
  <2>1. NewState.inflight = None
    BY DEF NewState
  <2>2. desired = None /\ (st' = NewState \/ st' = s \/ spawnDrain(s))
    BY <1>3 DEF retireStrategy, s
  <2> QED BY <1>1, <1>2, <2>1, <2>2 DEF Retired
<1>4. CASE reconcileStopped
  <2>1. desired # None /\ desired.stopped /\ ~st.blocked
    BY <1>4 DEF reconcileStopped
  <2>2. \/ /\ s.proc = 0
           /\ st' = [s EXCEPT !.phase = "STOPPED", !.stopping = FALSE, !.observedGen = generation]
        \/ s.proc # 0 /\ s.stopping /\ st' = s
        \/ s.proc # 0 /\ spawnDrain(s)
    BY <1>4 DEF reconcileStopped, s
  <2>3. CASE /\ s.proc = 0
             /\ st' = [s EXCEPT !.phase = "STOPPED", !.stopping = FALSE, !.observedGen = generation]
    <3>1. /\ st'.inflight = None /\ SameVerdict(st') /\ st'.proc = st.proc
          /\ st'.phase = "STOPPED" /\ st'.blocked = st.blocked
      BY <1>1, <2>3 DEF StrategyState, SameVerdict, SameVersions
    <3> QED BY <1>1, <2>1, <2>3, <3>1 DEF Halted
  <2> QED BY <1>1, <1>2, <2>1, <2>2, <2>3 DEF Halted
<1> QED BY <1>3, <1>4

\* A start, from the record s that has what runs labelled.
LEMMA StartDecided ==
  ASSUME Inv, NEW s \in StrategyState, NEW hc \in BOOLEAN, startProcess(s, hc)
  PROVE  /\ st'.running = s.running /\ st'.runCfg = s.runCfg /\ st'.prev = s.prev
         /\ st'.prevCfg = s.prevCfg /\ st'.lastBad = s.lastBad
         /\ st'.failedAtGen = s.failedAtGen /\ st'.inflight = s.inflight
         /\ \/ /\ st'.phase = IF hc THEN "HEALTH_CHECKING" ELSE "HEALTHY"
               /\ st'.proc = Len(procs) + 1 /\ st'.blocked = s.blocked /\ ~st'.stopping
            \/ st'.phase = "FAILED" /\ st'.proc = s.proc /\ st'.blocked
BY DEF startProcess, Install, StrategyState

\* With the version asked for running, or just dead.
LEMMA KeepingDecided ==
  ASSUME Inv
  PROVE  /\ restartInWindow \/ restart => Restarted(st')
         /\ steadyState \/ drainForMode => Steady(st')
<1>1. st \in StrategyState
  BY StType
<1> DEFINE r == Relabelled(st)
<1>2. ASSUME Free, Matches
      PROVE  /\ r \in StrategyState /\ Alike(r) /\ r.proc = st.proc /\ r.phase = st.phase
             /\ r.blocked = st.blocked /\ desired # None /\ ~desired.stopped /\ ~st.blocked
             /\ st.inflight = None /\ ~Terminal(st)
  <2>1. desired # None /\ desired \in Specs /\ desired.art # None /\ desired.art \in Artifacts
    BY <1>2, AgentAssumption DEF Free, Inv, TypeOK, Specs
  <2>2. r = [st EXCEPT !.running = desired.art] /\ r \in StrategyState
    BY <1>1, <2>1 DEF Relabelled, StrategyState, MaybeArtifact
  <2> HIDE DEF r
  <2> QED BY <1>1, <1>2, <2>1, <2>2 DEF Free, Alike, StrategyState
<1> HIDE DEF r
<1>3. ASSUME restartInWindow PROVE Restarted(st')
  <2>1. /\ desired # None /\ ~desired.stopped /\ ~st.blocked /\ st.inflight # None /\ st.proc = 0
        /\ st.phase = "HEALTH_CHECKING" /\ Matches /\ startProcess(st, TRUE)
    BY <1>3 DEF restartInWindow
  <2> QED BY <1>1, <2>1, StartDecided DEF Restarted, Alike, Matches, versionMatches
<1>4. ASSUME restart PROVE Restarted(st')
  <2>1. Free /\ Matches /\ st.proc = 0 /\ startProcess(r, st.phase = "STOPPED")
    BY <1>4 DEF restart, r
  <2> QED BY <1>2, <2>1, StartDecided DEF Restarted, Alike
<1>5. ASSUME steadyState PROVE Steady(st')
  <2>1. /\ Free /\ Matches /\ st.phase = "HEALTHY" /\ st.proc # 0
        /\ st' = [r EXCEPT !.observedGen = generation]
    BY <1>5 DEF steadyState, r
  <2>2. /\ st'.running = r.running /\ st'.runCfg = r.runCfg /\ st'.prev = r.prev
        /\ st'.prevCfg = r.prevCfg /\ st'.lastBad = r.lastBad /\ st'.failedAtGen = r.failedAtGen
        /\ st'.inflight = r.inflight /\ st'.proc = r.proc /\ st'.phase = r.phase
        /\ st'.blocked = r.blocked
    BY <1>2, <2>1 DEF StrategyState
  <2> QED BY <1>2, <2>1, <2>2 DEF Steady, Alike
<1>6. ASSUME drainForMode PROVE Steady(st')
  <2>1. Free /\ Matches /\ st.proc # 0 /\ spawnDrain(st)
    BY <1>6 DEF drainForMode, ModeFlipped
  <2>2. /\ SameVerdict(st') /\ st'.inflight = st.inflight /\ st'.proc = st.proc
        /\ st'.phase = "DRAINING" /\ st'.blocked = st.blocked
    BY <1>1, <2>1 DEF spawnDrain, StrategyState, SameVerdict, SameVersions
  <2> QED BY <2>1, <2>2 DEF Steady, Alike, SameVerdict, SameVersions, Matches,
                            versionMatches
<1> QED BY <1>3, <1>4, <1>5, <1>6

\* Reconcile makes one of these decisions.
LEMMA ReconcileDecided ==
  ASSUME Inv, Reconcile
  PROVE  Decision(st')
<1>1. st \in StrategyState
  BY StType
<1>2. CASE beginDeploy
  <2> DEFINE f == [ctx |-> Len(deploys) + 1, art |-> desired.art, cfg |-> desired.cfg]
  <2>1. /\ Free /\ ~Matches /\ ~SkipsBadVersion(st)
        /\ st' = [st EXCEPT !.inflight = f, !.phase = "PENDING", !.prev = st.running,
                            !.prevCfg = st.runCfg]
    BY <1>2 DEF beginDeploy
  <2>2. f \in Inflight /\ f.art = desired.art /\ f.cfg = desired.cfg
    BY <2>1, BooksTypes DEF Free, Inv, TypeOK, Specs, Inflight
  <2> HIDE DEF f
  <2>3. /\ st'.inflight = f /\ st'.phase = "PENDING" /\ st'.prev = st.running
        /\ st'.prevCfg = st.runCfg /\ st'.running = st.running /\ st'.runCfg = st.runCfg
        /\ st'.lastBad = st.lastBad /\ st'.failedAtGen = st.failedAtGen /\ st'.proc = st.proc
        /\ st'.blocked = st.blocked
    BY <1>1, <2>1 DEF StrategyState
  <2>4. f # None
    BY <2>2, AgentAssumption
  <2> QED BY <2>1, <2>2, <2>3, <2>4 DEF Decision, Deploying
<1>3. CASE reconcileWaits
  BY <1>3 DEF reconcileWaits, Decision
<1> QED BY <1>2, <1>3, KeepingDecided, HaltDecided DEF Reconcile, Decision

----------------------------------------------------------------------------
(* FAILED is said of what was tried *)

\* The operator waits for the verdicts, and the agent was not stopped.
Waited == Patient /\ restarts = 0

\* Some deploy carried these bytes, with this config unless the agent was stopped
\* since: the supervision file does not say what config the previous release had.
TriedAs(a, c) ==
  \E i \in Ctx : deploys[i].art.digest = a.digest /\ (restarts = 0 => deploys[i].cfg = c)

VersionsTried(s) ==
  /\ s.running # None => TriedAs(s.running, s.runCfg)
  /\ s.prev # None => TriedAs(s.prev, s.prevCfg)

Carried(a) == a # None => \E i \in Ctx : deploys[i].art.digest = a.digest
FileTried == file # None => Carried(file.running) /\ Carried(file.prev)

\* The deploy in flight carries the bytes asked for.
Asked(s) ==
  s.inflight # None =>
    /\ s.inflight.art.digest = desired.art.digest
    /\ Waited => s.inflight.cfg = desired.cfg

\* The verdict FAILED stands for a deploy, or for a version known bad.
Ended(s) == desired # None /\ Terminal(s) => Tried(desired) \/ SkipsBadVersion(s)

\* Generations only grow, and a failure is of one that was heard.
Timely(s) == generation <= cpGen /\ s.failedAtGen <= generation

\* What failed while it was being stopped is gone, and what is backed off is dead.
Fallen(s) ==
  /\ s.phase = "FAILED" /\ s.stopping => s.proc = 0
  /\ s.blocked => s.proc = 0

\* Only a record at rest says STOPPED.
StoppedRests(s) == Waited /\ s.phase = "STOPPED" => s.proc = 0 /\ ~s.blocked /\ s.inflight = None

\* After a reconcile, nothing that should be halted is checked or up, and what is
\* checked or up, or still halted, is what was asked for, or kept in its stead.
RestChecked ==
  loop \in {"select", "persist"} /\ desired # None =>
    /\ desired.stopped /\ st.proc # 0 => st.phase \notin {"HEALTH_CHECKING", "HEALTHY"}
    /\ ~desired.stopped /\ st.inflight = None
         /\ (st.phase = "HEALTHY" \/ (st.phase = "HEALTH_CHECKING" /\ st.proc # 0))
         => Matches \/ SkipsBadVersion(st)
    /\ Waited /\ ~desired.stopped /\ st.phase = "STOPPED" => ~Matches /\ SkipsBadVersion(st)

\* While the change of a patient operator is on its way nothing is deployed.
Awaits ==
  Waited /\ cpGen # generation =>
    /\ st.inflight = None /\ st.phase # "HEALTH_CHECKING"
    /\ desired # None =>
         \/ desired.stopped \/ Terminal(st) \/ (Matches /\ st.phase # "STOPPED")
         \/ ~Matches /\ SkipsBadVersion(st)

\* A down agent has forgotten its orders.
DownForgets == loop = "down" => desired = None /\ generation = 0

TriedInv ==
  /\ DownForgets
  /\ VersionsTried(st) /\ FileTried /\ Asked(st) /\ Ended(st) /\ Timely(st) /\ Fallen(st)
  /\ StoppedRests(st) /\ RestChecked /\ Awaits

\* What was tried stays tried.
LEMMA TriedStays ==
  ASSUME Inv, [Next]_vars
  PROVE  /\ Ctx \subseteq Ctx'
         /\ \A i \in Ctx : deploys'[i].art = deploys[i].art /\ deploys'[i].cfg = deploys[i].cfg
         /\ restarts' = 0 => restarts = 0
         /\ \A a, c : TriedAs(a, c) => TriedAs(a, c)'
         /\ \A a : Carried(a) => Carried(a)'
         /\ desired' = desired /\ Tried(desired) => Tried(desired)'
<1>1. /\ Ctx \subseteq Ctx'
      /\ \A i \in Ctx : deploys'[i].art = deploys[i].art /\ deploys'[i].cfg = deploys[i].cfg
  BY DeploysKept, BooksTypes DEF Ctx
<1>2. restarts' = 0 => restarts = 0
  <2>1. restarts \in Nat
    BY DEF Inv, TypeOK
  <2> QED BY <2>1, RestartsStay
<1>3. \A a, c : TriedAs(a, c) => TriedAs(a, c)'
  BY <1>1, <1>2 DEF TriedAs
<1>4. \A a : Carried(a) => Carried(a)'
  BY <1>1 DEF Carried
<1>5. desired' = desired /\ Tried(desired) => Tried(desired)'
  BY <1>1, <1>2 DEF Tried
<1> QED BY <1>1, <1>2, <1>3, <1>4, <1>5

\* A deploy in flight for what is asked is a trial of it; so is what runs of it.
LEMMA TriedBy ==
  ASSUME Inv, Books, desired # None,
         (st.inflight # None /\ Asked(st)) \/ (Matches /\ VersionsTried(st))
  PROVE  Tried(desired)
<1>1. CASE st.inflight # None /\ Asked(st)
  <2>1. /\ Len(deploys) \in Ctx /\ st.inflight.art = deploys[Len(deploys)].art
        /\ st.inflight.cfg = deploys[Len(deploys)].cfg
    BY <1>1, BooksTypes DEF Books, Counted
  <2> QED BY <1>1, <2>1 DEF Asked, Tried, Waited
<1>2. CASE Matches /\ VersionsTried(st)
  BY <1>2 DEF Matches, versionMatches, VersionsTried, TriedAs, Tried
<1> QED BY <1>1, <1>2

\* The versions a record names after an event were named before, or brought.
LEMMA HeardTried ==
  ASSUME Inv, VersionsTried(st), [Next]_vars, Heard(st')
  PROVE  VersionsTried(st)'
<1>1. \A a, c : TriedAs(a, c) => TriedAs(a, c)'
  BY TriedStays
<1>2. ASSUME st'.running = st.running, st'.runCfg = st.runCfg, st'.prev = st.prev,
             st'.prevCfg = st.prevCfg
      PROVE  VersionsTried(st)'
  BY <1>1, <1>2 DEF VersionsTried
<1>3. CASE RolledBack(st')
  BY <1>1, <1>3 DEF RolledBack, VersionsTried
<1>4. CASE Emptied(st')
  BY <1>4 DEF Emptied, NewState, VersionsTried
<1>5. CASE Brought(st')
  <2>1. TriedAs(st'.running, st'.runCfg)
    BY <1>5 DEF Brought, TriedAs
  <2> QED BY <1>1, <1>5, <2>1 DEF Brought, VersionsTried
<1>6. CASE Undisturbed(st') \/ Exited(st') \/ Progressed(st') \/ GaveUp(st') \/ Promoted(st')
  BY <1>2, <1>6 DEF Undisturbed, Exited, Progressed, GaveUp, Promoted, SameVerdict, SameVersions
<1> QED BY <1>3, <1>4, <1>5, <1>6 DEF Heard

\* No event puts a deploy in flight.
LEMMA HeardAsked ==
  ASSUME Inv, Asked(st), [Next]_vars, Heard(st'), UNCHANGED desired
  PROVE  Asked(st)'
<1>1. st'.inflight \in {None, st.inflight}
  BY DEF Heard, Undisturbed, Exited, Emptied, RolledBack, Progressed, Brought, GaveUp, Promoted,
         NewState
<1>2. Waited' => Waited
  BY TriedStays DEF Waited
<1> QED BY <1>1, <1>2 DEF Asked

\* A failure is one of the deploy in flight, or of what runs as asked.
LEMMA HeardEnded ==
  ASSUME Inv, Books, VersionsTried(st), Asked(st), Ended(st), RestChecked, [Next]_vars, Heard(st'),
         UNCHANGED <<desired, generation>>, loop = "select" \/ Undisturbed(st')
  PROVE  Ended(st)'
<1> SUFFICES ASSUME desired # None, Terminal(st)'
             PROVE  Tried(desired)' \/ SkipsBadVersion(st)'
  BY DEF Ended
<1>1. Tried(desired) => Tried(desired)'
  BY TriedStays
<1>2. st'.lastBad = st.lastBad /\ SkipsBadVersion(st) => SkipsBadVersion(st)'
  BY DEF SkipsBadVersion
<1>3. CASE Undisturbed(st') \/ Exited(st')
  <2>1. Terminal(st) /\ st'.lastBad = st.lastBad
    BY <1>3 DEF Undisturbed, Exited, Terminal, SameVerdict, SameVersions
  <2> QED BY <1>1, <1>2, <2>1 DEF Ended
<1>4. CASE RolledBack(st')
  <2>1. CASE st.inflight # None
    BY <1>1, <2>1, TriedBy
  <2>2. CASE st.inflight = None
    BY <1>4, <2>2 DEF RolledBack, SkipsBadVersion
  <2> QED BY <2>1, <2>2
<1>5. CASE GaveUp(st')
  <2>1. CASE st.inflight # None
    BY <1>1, <2>1, TriedBy
  <2>2. CASE st.inflight = None /\ Undisturbed(st')
    BY <1>3, <2>2
  <2>3. CASE st.inflight = None /\ loop = "select"
    <3>1. Matches \/ SkipsBadVersion(st)
      BY <1>5, <2>3 DEF GaveUp, RestChecked
    <3>2. st'.lastBad = st.lastBad
      BY <1>5 DEF GaveUp, SameVersions
    <3> QED BY <1>1, <1>2, <3>1, <3>2, TriedBy
  <2> QED BY <2>1, <2>2, <2>3
<1>6. CASE Emptied(st') \/ Progressed(st') \/ Brought(st') \/ Promoted(st')
  BY <1>6 DEF Emptied, Progressed, Brought, Promoted, NewState, Terminal
<1> QED BY <1>3, <1>4, <1>5, <1>6 DEF Heard

\* Generations, what fell and what is halted, after an event.
LEMMA HeardRecord ==
  ASSUME Inv, Timely(st), Fallen(st), StoppedRests(st), [Next]_vars, Heard(st'),
         generation' = generation, cpGen' \in {cpGen, cpGen + 1}
  PROVE  Timely(st)' /\ Fallen(st)' /\ StoppedRests(st)'
<1>1. generation \in Nat /\ cpGen \in Nat /\ st \in StrategyState
  BY DEF Inv, TypeOK
<1>2. Timely(st)'
  <2>1. generation <= cpGen'
    BY <1>1 DEF Timely
  <2>2. st'.failedAtGen \in {st.failedAtGen, generation, 0}
    BY DEF Heard, Undisturbed, Exited, Emptied, RolledBack, Progressed, Brought, GaveUp,
           Promoted, SameVerdict, NewState
  <2>3. st'.failedAtGen <= generation
    BY <1>1, <2>2 DEF Timely
  <2> QED BY <2>1, <2>3 DEF Timely
<1>3. Fallen(st)'
  BY DEF Fallen, Heard, Undisturbed, Exited, Emptied, RolledBack, Progressed, Brought, GaveUp,
         Promoted, NewState
<1>4. StoppedRests(st)'
  <2>1. Waited' => Waited
    BY TriedStays DEF Waited
  <2>2. st'.phase = "STOPPED" => st.phase = "STOPPED" /\ (Undisturbed(st') \/ Exited(st'))
    BY DEF Heard, Undisturbed, Exited, Emptied, RolledBack, Progressed, Brought, GaveUp,
           Promoted, NewState
  <2> QED BY <2>1, <2>2 DEF StoppedRests, Undisturbed, Exited
<1> QED BY <1>2, <1>3, <1>4

\* Between reconciles the record is undisturbed.
LEMMA RestStays ==
  ASSUME Inv, RestChecked, [Next]_vars, Undisturbed(st'), UNCHANGED desired,
         loop' = loop \/ (loop = "persist" /\ loop' = "select")
  PROVE  RestChecked'
<1>1. Waited' => Waited
  BY TriedStays DEF Waited
<1>2. Matches' = Matches /\ SkipsBadVersion(st)' = SkipsBadVersion(st)
  BY DEF Matches, versionMatches, SkipsBadVersion, Undisturbed, SameVerdict, SameVersions
<1> QED BY <1>1, <1>2 DEF RestChecked, Undisturbed

\* Waiting for the operator's change, the agent only supervises what it has.
LEMMA HeardAwaits ==
  ASSUME Inv, Awaits, [Next]_vars, Heard(st'), UNCHANGED <<desired, generation, cpGen>>
  PROVE  Awaits'
<1> SUFFICES ASSUME Waited, cpGen # generation
             PROVE  Awaits'
  BY TriedStays DEF Awaits, Waited
<1>1. st.inflight = None /\ st.phase # "HEALTH_CHECKING"
  BY DEF Awaits
<1>2. Emptied(st') \/ Undisturbed(st') \/ Exited(st') \/ Promoted(st')
  BY <1>1 DEF Heard, RolledBack, Progressed, Brought, GaveUp
<1>3. CASE Emptied(st')
  BY <1>3 DEF Emptied, NewState, Awaits
<1>4. CASE Undisturbed(st') \/ Exited(st') \/ Promoted(st')
  <2>1. SameVerdict(st') /\ st'.inflight = None /\ st'.phase # "HEALTH_CHECKING"
        /\ (st'.phase # st.phase => st'.phase \in {"STARTING", "DRAINING"})
    BY <1>1, <1>4 DEF Undisturbed, Exited, Promoted
  <2>2. Matches' = Matches /\ SkipsBadVersion(st)' = SkipsBadVersion(st)
    BY <2>1 DEF Matches, versionMatches, SkipsBadVersion, SameVerdict, SameVersions
  <2>3. Terminal(st) => Terminal(st)'
    BY <1>4 DEF Undisturbed, Exited, Promoted, Terminal, SameVerdict
  <2> QED BY <2>1, <2>2, <2>3 DEF Awaits
<1> QED BY <1>2, <1>3, <1>4

\* The operator publishes on a verdict, after which nothing is left to deploy.
LEMMA PublishAwaits ==
  ASSUME Inv, HealthInv, RestChecked, Publish
  PROVE  Awaits'
<1> SUFFICES ASSUME Waited
             PROVE  Awaits'
  BY DEF Awaits, Waited, Publish
<1>1. Verdict /\ UNCHANGED <<desired, generation, st>>
  BY DEF Waited, Publish
<1>2. CASE desired = None
  <2>1. st = NewState
    BY <1>1, <1>2 DEF Verdict, HealthInv, UnknownIsNew
  <2> QED BY <1>1, <1>2, <2>1 DEF Awaits, NewState
<1>3. CASE desired # None
  <2>1. Matches' = Matches /\ SkipsBadVersion(st)' = SkipsBadVersion(st) /\ Terminal(st)' = Terminal(st)
    BY <1>1 DEF Matches, versionMatches, SkipsBadVersion, Terminal
  <2>2. /\ loop = "select" /\ st.inflight = None
        /\ \/ st.phase \in {"HEALTHY", "STOPPED"}
           \/ st.phase = "ROLLED_BACK" /\ (Matches \/ SkipsBadVersion(st))
           \/ st.phase = "FAILED" /\ Terminal(st)
    BY <1>1, <1>3 DEF Verdict, Terminal
  <2> QED BY <1>1, <1>3, <2>1, <2>2 DEF Awaits, RestChecked
<1> QED BY <1>2, <1>3

\* An order is news to every failure, and withdraws what it does not ask for.
LEMMA ApplyDesiredTried ==
  ASSUME Inv, TriedInv, [Next]_vars, applyDesired
  PROVE  TriedInv'
<1>1. /\ generation' = cpGen /\ generation # cpGen /\ desired' = cpSpec
      /\ loop' = "reconcile" /\ UNCHANGED <<cpGen, file, restarts>>
      /\ st \in StrategyState /\ generation \in Nat /\ cpGen \in Nat /\ st.failedAtGen \in Nat
  BY StType DEF applyDesired, cpVars, Inv, TypeOK, StrategyState
<1>2. /\ SameVerdict(st') /\ st'.phase = st.phase /\ st'.proc = st.proc
      /\ st'.stopping = st.stopping /\ st'.blocked = st.blocked
      /\ \/ st'.inflight = None
         \/ st'.inflight = st.inflight /\ ~Withdraws(cpSpec, st)
  BY <1>1 DEF applyDesired, StrategyState, SameVerdict, SameVersions
<1>3. VersionsTried(st)' /\ FileTried'
  <2>1. \A a, c : TriedAs(a, c) => TriedAs(a, c)'
    BY TriedStays
  <2>2. \A a : Carried(a) => Carried(a)'
    BY TriedStays
  <2> QED BY <1>1, <1>2, <2>1, <2>2 DEF TriedInv, VersionsTried, FileTried, SameVerdict, SameVersions
<1>4. Asked(st)'
  BY <1>1, <1>2 DEF TriedInv, Asked, Awaits, Waited, Withdraws
<1>5. Ended(st)'
  BY <1>1, <1>2 DEF TriedInv, Timely, Ended, Terminal, SameVerdict
<1>6. Timely(st)'
  BY <1>1, <1>2 DEF TriedInv, Timely, SameVerdict
<1>7. Fallen(st)' /\ StoppedRests(st)'
  BY <1>1, <1>2 DEF TriedInv, Fallen, StoppedRests, Waited
<1>8. RestChecked' /\ Awaits' /\ DownForgets'
  BY <1>1 DEF RestChecked, Awaits, DownForgets
<1> QED BY <1>3, <1>4, <1>5, <1>6, <1>7, <1>8 DEF TriedInv

\* A reconcile starts again only what was tried, and waits only on a verdict.
LEMMA ReconcileTried ==
  ASSUME Inv, Books, HealthInv, TriedInv, [Next]_vars, Reconcile
  PROVE  TriedInv'
<1>1. /\ UNCHANGED <<desired, generation, cpGen, file, restarts>> /\ loop' = "persist"
      /\ st \in StrategyState /\ Decision(st') /\ generation \in Nat /\ Len(procs) + 1 \in Nat \ {0}
  BY StType, ReconcileDecided, BooksTypes DEF Reconcile, cpVars, Inv, TypeOK
<1>2. \A a, c : TriedAs(a, c) => TriedAs(a, c)'
  BY TriedStays
<1>3. Waited' = Waited
  BY <1>1 DEF Waited
<1>4. FileTried'
  <2>1. \A a : Carried(a) => Carried(a)'
    BY TriedStays
  <2> QED BY <1>1, <2>1 DEF TriedInv, FileTried
<1>5. VersionsTried(st)'
  <2>1. CASE Retired(st')
    BY <1>2, <2>1 DEF Retired, NewState, TriedInv, VersionsTried, SameVerdict, SameVersions
  <2>2. CASE Halted(st')
    BY <1>2, <2>2 DEF Halted, TriedInv, VersionsTried, SameVerdict, SameVersions
  <2>3. CASE Alike(st')
    <3>1. TriedAs(st'.running, st'.runCfg)
      BY <2>3 DEF Alike, Matches, versionMatches, TriedInv, VersionsTried, TriedAs
    <3> QED BY <1>2, <2>3, <3>1 DEF Alike, TriedInv, VersionsTried
  <2>4. CASE Deploying(st')
    BY <1>2, <2>4 DEF Deploying, TriedInv, VersionsTried
  <2>5. CASE st' = st
    BY <1>2, <2>5 DEF TriedInv, VersionsTried
  <2> QED BY <1>1, <2>1, <2>2, <2>3, <2>4, <2>5 DEF Decision, Restarted, Steady
<1>6. Asked(st)'
  <2>1. CASE st'.inflight \in {None, st.inflight}
    BY <1>1, <1>3, <2>1 DEF TriedInv, Asked
  <2>2. CASE Deploying(st')
    BY <1>1, <2>2 DEF Deploying, Asked
  <2> QED BY <1>1, <2>1, <2>2 DEF Decision, Retired, Halted, Restarted, Steady, Alike
<1>7. Ended(st)'
  <2> SUFFICES ASSUME desired # None, Terminal(st)'
               PROVE  Tried(desired)' \/ SkipsBadVersion(st)'
    BY <1>1 DEF Ended
  <2>1. Tried(desired) => Tried(desired)'
    BY <1>1, TriedStays
  <2>2. CASE Alike(st')
    BY <2>1, <2>2, TriedBy DEF Alike, TriedInv
  <2>3. CASE Terminal(st) /\ st'.lastBad = st.lastBad
    BY <1>1, <2>1, <2>3 DEF TriedInv, Ended, SkipsBadVersion
  <2>4. CASE Halted(st')
    <3>1. Terminal(st) /\ st'.lastBad = st.lastBad
      BY <1>1, <2>4 DEF Halted, Terminal, SameVerdict, SameVersions
    <3> QED BY <2>3, <3>1
  <2>5. CASE Deploying(st')
    BY <2>5 DEF Deploying, Terminal
  <2>6. CASE st' = st
    BY <1>1, <2>3, <2>6 DEF Terminal
  <2> QED BY <1>1, <2>2, <2>4, <2>5, <2>6 DEF Decision, Restarted, Steady, Retired
<1>8. Timely(st)'
  <2>1. st'.failedAtGen \in {st.failedAtGen, 0}
    BY <1>1 DEF Decision, Retired, Halted, Restarted, Steady, Alike, Deploying, SameVerdict, NewState
  <2> QED BY <1>1, <2>1 DEF TriedInv, Timely
<1>9. Fallen(st)'
  <2>1. CASE Retired(st')
    BY <2>1 DEF Retired, NewState, TriedInv, Fallen
  <2>2. CASE Halted(st')
    BY <2>2 DEF Halted, TriedInv, Fallen
  <2>3. CASE Restarted(st')
    BY <2>3 DEF Restarted, Fallen
  <2>4. CASE Steady(st')
    BY <2>4 DEF Steady, TriedInv, Fallen
  <2>5. CASE Deploying(st')
    BY <2>5 DEF Deploying, TriedInv, Fallen
  <2>6. CASE st' = st
    BY <2>6 DEF TriedInv, Fallen
  <2> QED BY <1>1, <2>1, <2>2, <2>3, <2>4, <2>5, <2>6 DEF Decision
<1>10. StoppedRests(st)'
  <2>1. CASE Retired(st')
    BY <1>3, <2>1 DEF Retired, NewState, TriedInv, StoppedRests
  <2>2. CASE Halted(st')
    BY <1>3, <2>2 DEF Halted, TriedInv, StoppedRests
  <2>3. CASE st' = st
    BY <1>3, <2>3 DEF TriedInv, StoppedRests
  <2> QED BY <1>1, <2>1, <2>2, <2>3 DEF Decision, Restarted, Steady, Deploying, StoppedRests
<1>11. Alike(st') => Matches'
  BY <1>1 DEF Alike, Matches, versionMatches
<1>12. SkipsBadVersion(st)' <=> (st'.lastBad # None /\ desired.art.version = st'.lastBad)
  BY <1>1 DEF SkipsBadVersion
<1>13. RestChecked'
  <2>1. CASE Halted(st')
    BY <1>1, <2>1 DEF Halted, RestChecked, HealthInv, Upright
  <2>2. CASE Restarted(st')
    BY <1>1, <1>11, <2>2 DEF Restarted, RestChecked
  <2>3. CASE Steady(st')
    BY <1>1, <1>11, <2>3 DEF Steady, RestChecked, Free
  <2>4. CASE st' = st /\ reconcileWaits
    <3>1. Matches' = Matches /\ SkipsBadVersion(st)' = SkipsBadVersion(st)
      BY <1>1, <2>4 DEF Matches, versionMatches, SkipsBadVersion
    <3>2. CASE desired = None \/ st.blocked
      BY <1>1, <1>3, <2>4, <3>2 DEF RestChecked, TriedInv, Fallen, StoppedRests, HealthInv, Upright
    <3>3. CASE desired # None /\ ~st.blocked
      <4>1. /\ ~desired.stopped
            /\ \/ st.inflight # None
               \/ Terminal(st)
               \/ ~Matches /\ SkipsBadVersion(st)
               \/ Matches /\ st.proc # 0
        BY <2>4, <3>3 DEF reconcileWaits
      <4> QED BY <1>1, <1>3, <2>4, <3>1, <4>1 DEF RestChecked, Terminal, TriedInv, StoppedRests
    <3> QED BY <3>2, <3>3
  <2>5. CASE Deploying(st')
    BY <1>1, <2>5 DEF Deploying, RestChecked
  <2>6. CASE Retired(st')
    BY <1>1, <2>6 DEF Retired, RestChecked
  <2> QED BY <1>1, <2>1, <2>2, <2>3, <2>4, <2>5, <2>6 DEF Decision
<1>14. Awaits'
  <2> SUFFICES ASSUME Waited, cpGen # generation
               PROVE  Awaits'
    BY <1>1, <1>3 DEF Awaits
  <2>1. /\ st.inflight = None /\ st.phase # "HEALTH_CHECKING"
        /\ desired # None =>
             \/ desired.stopped \/ Terminal(st) \/ (Matches /\ st.phase # "STOPPED")
             \/ ~Matches /\ SkipsBadVersion(st)
    BY DEF TriedInv, Awaits
  <2>2. CASE Retired(st')
    BY <1>1, <2>1, <2>2 DEF Retired, NewState, Awaits
  <2>3. CASE Halted(st')
    BY <1>1, <2>1, <2>3 DEF Halted, Awaits
  <2>4. CASE Restarted(st')
    BY <1>1, <1>11, <2>1, <2>4 DEF Restarted, Alike, Awaits
  <2>5. CASE Steady(st')
    BY <1>1, <1>11, <2>1, <2>5 DEF Steady, Alike, Awaits
  <2>6. CASE st' = st
    <3>1. Matches' = Matches /\ SkipsBadVersion(st)' = SkipsBadVersion(st) /\ Terminal(st)' = Terminal(st)
      BY <1>1, <2>6 DEF Matches, versionMatches, SkipsBadVersion, Terminal
    <3> QED BY <1>1, <2>1, <2>6, <3>1 DEF Awaits
  <2>7. ~Deploying(st')
    BY <2>1 DEF Deploying, Free
  <2> QED BY <1>1, <2>2, <2>3, <2>4, <2>5, <2>6, <2>7 DEF Decision
<1>15. DownForgets'
  BY <1>1 DEF DownForgets
<1> QED BY <1>4, <1>5, <1>6, <1>7, <1>8, <1>9, <1>10, <1>13, <1>14, <1>15 DEF TriedInv

\* The agent's end keeps in the file, at most, what was tried.
LEMMA GoneTried ==
  ASSUME Inv, TriedInv, [Next]_vars, shutdown \/ Crash
  PROVE  TriedInv'
<1>1. /\ st' = NewState /\ desired' = None /\ generation' = 0 /\ loop' = "down" /\ cpGen' = cpGen
      /\ restarts' = restarts + 1 /\ file' \in {file, Snapshot} /\ cpGen \in Nat
      /\ restarts \in Nat
  BY DEF shutdown, Crash, AgentGone, cpVars, Inv, TypeOK
<1>2. FileTried'
  <2>1. \A a : Carried(a) => Carried(a)'
    BY TriedStays
  <2>2. Carried(st.running) /\ Carried(st.prev)
    BY DEF TriedInv, VersionsTried, TriedAs, Carried
  <2>3. Snapshot # None => Snapshot.running = st.running /\ Snapshot.prev = st.prev
    BY DEF Snapshot
  <2> QED BY <1>1, <2>1, <2>2, <2>3 DEF TriedInv, FileTried
<1>3. ~Waited'
  BY <1>1 DEF Waited
<1>4. VersionsTried(st)' /\ Asked(st)' /\ Ended(st)' /\ Timely(st)' /\ Fallen(st)'
  BY <1>1 DEF VersionsTried, Asked, Ended, Timely, Fallen, NewState
<1>5. StoppedRests(st)' /\ RestChecked' /\ Awaits' /\ DownForgets'
  BY <1>1, <1>3 DEF StoppedRests, RestChecked, Awaits, DownForgets
<1> QED BY <1>2, <1>4, <1>5 DEF TriedInv

\* A takeover names what the file says.
LEMMA RebuildTried ==
  ASSUME Inv, DownIsStopped, TriedInv, [Next]_vars, rebuildActualState
  PROVE  TriedInv'
<1>1. /\ desired = None /\ generation = 0 /\ UNCHANGED <<desired, generation, cpGen, file, restarts>>
      /\ loop' = "select" /\ restarts > 0 /\ restarts \in Nat
      /\ st' = IF Adoptable THEN Adopted ELSE NewState
  BY DEF rebuildActualState, TriedInv, DownForgets, DownIsStopped, cpVars, Inv, TypeOK
<1>2. /\ st'.inflight = None /\ st'.stopping = FALSE /\ st'.blocked = FALSE /\ st'.failedAtGen = 0
      /\ \/ st'.running = None /\ st'.prev = None
         \/ file # None /\ st'.running = file.running /\ st'.prev = file.prev
  <2>1. CASE Adoptable
    BY <1>1, <2>1 DEF Adoptable, Adopted, NewState
  <2>2. CASE ~Adoptable
    BY <1>1, <2>2 DEF NewState
  <2> QED BY <2>1, <2>2
<1>3. FileTried'
  <2>1. \A a : Carried(a) => Carried(a)'
    BY TriedStays
  <2> QED BY <1>1, <2>1 DEF TriedInv, FileTried
<1>4. VersionsTried(st)'
  <2>1. \A a : Carried(a) /\ a # None => \E i \in Ctx : deploys[i].art.digest = a.digest
    BY DEF Carried
  <2>2. Ctx' = Ctx /\ deploys' = deploys /\ restarts' # 0
    BY <1>1 DEF rebuildActualState, Ctx
  <2> QED BY <1>2, <2>1, <2>2 DEF VersionsTried, TriedAs, TriedInv, FileTried
<1>5. ~Waited'
  BY <1>1 DEF Waited
<1>6. Asked(st)' /\ Ended(st)' /\ Fallen(st)' /\ StoppedRests(st)'
  BY <1>1, <1>2, <1>5 DEF Asked, Ended, Fallen, StoppedRests
<1>7. Timely(st)' /\ RestChecked' /\ Awaits' /\ DownForgets'
  BY <1>1, <1>2, <1>5 DEF TriedInv, Timely, RestChecked, Awaits, DownForgets
<1> QED BY <1>3, <1>4, <1>6, <1>7 DEF TriedInv

\* It holds at the start.
LEMMA TriedInit == Init => TriedInv
BY DEF Init, TriedInv, VersionsTried, FileTried, Asked, Ended, Timely, Fallen, StoppedRests,
       RestChecked, Awaits, DownForgets, NewState

\* Every step keeps it.
LEMMA TriedNext ==
  Inv /\ HealthInv /\ Books /\ DownIsStopped /\ TriedInv /\ [Next]_vars => TriedInv'
<1> SUFFICES ASSUME Inv, HealthInv, Books, DownIsStopped, TriedInv, [Next]_vars
             PROVE  TriedInv'
  OBVIOUS
<1>1. ASSUME Heard(st'), UNCHANGED <<desired, generation, restarts>>,
             loop = "select" \/ Undisturbed(st'), FileTried',
             RestChecked', Awaits', DownForgets', cpGen' \in {cpGen, cpGen + 1}
      PROVE  TriedInv'
  BY <1>1, HeardTried, HeardAsked, HeardEnded, HeardRecord DEF TriedInv
<1>2. \A a : Carried(a) => Carried(a)'
  BY TriedStays
<1>3. CASE /\ Heard(st') /\ UNCHANGED <<desired, generation, restarts, cpGen, file>>
           /\ loop' = "reconcile" /\ loop = "select"
  <2>1. FileTried'
    BY <1>2, <1>3 DEF TriedInv, FileTried
  <2>2. RestChecked' /\ DownForgets'
    BY <1>3 DEF RestChecked, DownForgets
  <2>3. Awaits'
    BY <1>3, HeardAwaits DEF TriedInv
  <2> QED BY <1>1, <1>3, <2>1, <2>2, <2>3
<1>4. CASE /\ Undisturbed(st') /\ UNCHANGED <<desired, generation, restarts, loop, file>>
           /\ Publish \/ UNCHANGED cpGen
  <2>1. FileTried'
    BY <1>2, <1>4 DEF TriedInv, FileTried
  <2>2. RestChecked'
    BY <1>4, RestStays DEF TriedInv
  <2>3. DownForgets'
    BY <1>4 DEF TriedInv, DownForgets
  <2>4. Awaits'
    BY <1>4, HeardAwaits, PublishAwaits DEF TriedInv, Heard
  <2>5. cpGen' \in {cpGen, cpGen + 1}
    BY <1>4 DEF Publish
  <2> QED BY <1>1, <1>4, <2>1, <2>2, <2>3, <2>4, <2>5 DEF Heard
<1>5. CASE /\ Undisturbed(st') /\ persistSupervision
           /\ UNCHANGED <<desired, generation, restarts, cpGen>>
  <2>1. FileTried'
    <3>1. Carried(st.running) /\ Carried(st.prev)
      BY DEF TriedInv, VersionsTried, TriedAs, Carried
    <3>2. Snapshot # None => Snapshot.running = st.running /\ Snapshot.prev = st.prev
      BY DEF Snapshot
    <3>3. file' = Snapshot
      BY <1>5 DEF persistSupervision
    <3> QED BY <1>2, <3>1, <3>2, <3>3 DEF FileTried
  <2>2. RestChecked' /\ DownForgets'
    BY <1>5, RestStays DEF TriedInv, persistSupervision, DownForgets
  <2>3. Awaits'
    BY <1>5, HeardAwaits DEF TriedInv, Heard
  <2> QED BY <1>1, <1>5, <2>1, <2>2, <2>3 DEF Heard
<1> QED BY <1>3, <1>4, <1>5, StepHeard, ApplyDesiredTried, ReconcileTried, GoneTried, RebuildTried

\* The invariants the action properties below are read off.
LEMMA Tracked == Spec => [](Inv /\ HealthInv /\ Books /\ DownIsStopped /\ TriedInv)
<1>1. Ownership => DownIsStopped
  BY DEF Ownership
<1> QED BY Invariance, HealthInit, HealthNext, BooksKept, OwnershipKept, TriedInit, TriedNext, <1>1,
           PTL DEF Spec

\* A reconcile with no crash backoff pending leaves the strategy FAILED only if the
\* assignment was tried, or its version is known bad: the failure of one generation
\* never swallows the change of the next (deploy.go:172, reconciler.go's
\* failedAtGen), for any history, faults and restarts of the agent.
THEOREM FailureWasTried == Spec => FailedWasTried
<1>1. ASSUME Inv, HealthInv, Books, TriedInv, [Next]_vars
      PROVE  [loop = "reconcile" /\ loop' = "persist" /\ ~st.blocked
                /\ st'.phase = "FAILED" /\ st'.inflight = None /\ desired # None
                => Tried(desired) \/ SkipsBadVersion(st)]_vars
  <2> SUFFICES ASSUME loop = "reconcile", loop' = "persist", ~st.blocked, st'.phase = "FAILED",
                      st'.inflight = None, desired # None
               PROVE  Tried(desired) \/ SkipsBadVersion(st)
    OBVIOUS
  <2>1. Reconcile
    <3>1. ~applyDesired /\ ~shutdown /\ ~Crash /\ ~rebuildActualState /\ ~persistSupervision
      BY DEF applyDesired, shutdown, Crash, AgentGone, rebuildActualState, persistSupervision
    <3> QED BY <1>1, <3>1, StepHeard
  <2>2. Decision(st')
    BY <1>1, <2>1, ReconcileDecided
  <2>3. Matches => Tried(desired)
    BY <1>1, TriedBy DEF TriedInv
  <2>4. ~Retired(st') /\ ~Deploying(st') /\ ~Steady(st')
    BY DEF Retired, Deploying, Steady
  <2>5. ~Halted(st')
    BY <1>1 DEF Halted, TriedInv, Fallen
  <2>6. CASE Restarted(st')
    BY <2>3, <2>6 DEF Restarted, Alike
  <2>7. CASE st' = st /\ reconcileWaits
    <3>1. Terminal(st) \/ Matches \/ SkipsBadVersion(st)
      BY <2>7 DEF reconcileWaits
    <3> QED BY <1>1, <2>3, <3>1 DEF TriedInv, Ended
  <2> QED BY <2>2, <2>4, <2>5, <2>6, <2>7 DEF Decision
<1> QED BY Tracked, <1>1, PTL DEF Spec, FailedWasTried

----------------------------------------------------------------------------
(* What is promised to a patient operator of an agent that stays up *)

\* A deploy is cancelled only after its last word, so none is withdrawn too late.
Concluded == \A i \in Ctx : ~deploys[i].late /\ (deploys[i].cancelled => Finished(i))

\* The deploy in flight is of what was ordered, over a release that is not.
OnOrder(s) ==
  s.inflight # None =>
    /\ desired # None /\ ~desired.stopped /\ s.inflight.art = desired.art
    /\ ~(s.prev # None /\ s.prev.digest = desired.art.digest /\ s.prevCfg = desired.cfg)

\* What is checked without a deploy, after a halt, is what was ordered.
Rechecked(s) ==
  desired # None /\ s.inflight = None /\ s.phase = "HEALTH_CHECKING"
    => desired.stopped \/ versionMatches(desired, s)

PatientInv ==
  /\ Clear /\ Held /\ Concluded
  /\ OnOrder(st) /\ Rechecked(st) /\ Carried(current)

Attended ==
  /\ Inv /\ HealthInv /\ Books /\ LateKnown /\ TriedInv /\ PatientInv
  /\ Waited /\ loop # "down"

\* At most one process of the strategy lives.
Single == \A p, q \in Pid : procs[p].alive /\ procs[q].alive => p = q

\* A process on its way is of a deploy that has not ended.
LEMMA TransitOf ==
  ASSUME Inv, Books, NEW p \in Pid, InTransit(p)
  PROVE  procs[p].ctx \in Ctx /\ ~Finished(procs[p].ctx)
<1>1. p # 0 /\ procs[p].ctx \in Ctx
  BY BooksTypes DEF Books, Counted, InTransit
<1>2. CASE deploys[procs[p].ctx].pc = "report"
  BY <1>1, <1>2 DEF Finished
<1>3. CASE \E k \in 1..Len(workerCh) : workerCh[k].proc = p
  BY <1>1, <1>3 DEF Books, EventsKnown, Finished, Sent
<1> QED BY <1>2, <1>3 DEF InTransit

\* What lives is supervised, or on its way from the deploy in flight.
LEMMA WhatLives ==
  ASSUME Attended, NEW p \in Pid, procs[p].alive
  PROVE  \/ known /\ st.proc = p
         \/ procs[p].ctx \in Ctx /\ InFlight(procs[p].ctx) /\ ~Finished(procs[p].ctx)
<1>1. restarts = 0 /\ Inv /\ Books /\ Clear /\ Held /\ Concluded
  BY DEF Attended, Waited, PatientInv
<1>2. (known /\ st.proc = p) \/ InTransit(p) \/ WithdrawnLate(p)
  BY <1>1 DEF Held
<1>3. ~WithdrawnLate(p)
  BY <1>1, BooksTypes DEF WithdrawnLate, Concluded, Books, Counted
<1>4. CASE InTransit(p)
  <2>1. procs[p].ctx \in Ctx /\ ~Finished(procs[p].ctx)
    BY <1>1, <1>4, TransitOf
  <2> QED BY <1>1, <2>1 DEF Concluded, Clear, Accounted
<1> QED BY <1>2, <1>3, <1>4

LEMMA OneLives == Attended => Single
<1> SUFFICES ASSUME Attended PROVE Single
  OBVIOUS
<1>1. Inv /\ Books /\ Clear
  BY DEF Attended, PatientInv
<1>2. \A p \in Pid : procs[p].alive =>
        \/ st.proc = p
        \/ procs[p].ctx \in Ctx /\ InFlight(procs[p].ctx) /\ ~Finished(procs[p].ctx)
  BY WhatLives
<1>3. ASSUME NEW p \in Pid, NEW q \in Pid, procs[p].alive, st.proc = p, procs[q].ctx \in Ctx,
             InFlight(procs[q].ctx), ~Finished(procs[q].ctx)
      PROVE  FALSE
  <2>1. p \in {0, deploys[procs[q].ctx].old} /\ p # 0
    BY <1>1, <1>3, BooksTypes DEF Clear, OldHeld
  <2>2. ~Live(deploys[procs[q].ctx].old)
    BY <1>1, <1>3 DEF Books, OldStopped
  <2> QED BY <1>3, <2>1, <2>2 DEF Live
<1>4. ASSUME NEW p \in Pid, NEW q \in Pid, procs[p].ctx \in Ctx, InFlight(procs[p].ctx),
             procs[q].ctx \in Ctx, InFlight(procs[q].ctx)
      PROVE  p = q
  <2>1. procs[p].ctx = procs[q].ctx /\ procs[p].ctx # 0
    BY <1>1, <1>4, BooksTypes DEF InFlight
  <2> QED BY <1>1, <2>1 DEF Books, StartedOnce
<1> QED BY <1>2, <1>3, <1>4 DEF Single

\* With nothing on its way and nothing alive supervised, nothing runs.
LEMMA NoneLives ==
  ASSUME Attended, ~Live(st.proc), \A i \in Ctx : InFlight(i) => Finished(i)
  PROVE  \A p \in Pid : ~procs[p].alive
BY WhatLives DEF Live

----------------------------------------------------------------------------
(* The copies, the order and the verdict *)

LEMMA CopiesAre ==
  /\ Copies = {} <=> \A p \in Pid : ~procs[p].alive
  /\ \A c : c \in Copies <=> \E p \in Pid : /\ procs[p].alive
                                            /\ c = [pid |-> p, bytes |-> procs[p].art.digest]
BY DEF Copies

LEMMA OrderIs ==
  ASSUME Inv
  PROVE  /\ Order \in Promise!Wants
         /\ Order = None <=> desired = None
         /\ Promise!Wanted <=> desired # None /\ ~desired.stopped
         /\ desired # None => Order.bytes = desired.art.digest /\ Order.halted = desired.stopped
<1>1. CASE desired = None
  BY <1>1 DEF Order, Promise!Wants, Promise!Wanted
<1>2. CASE desired # None
  <2>1. desired \in Specs /\ desired.art \in Artifacts /\ desired.stopped \in BOOLEAN
    BY <1>2 DEF Inv, TypeOK, Specs
  <2>2. /\ Order = [bytes |-> desired.art.digest, halted |-> desired.stopped]
        /\ Order \in Orders
    BY <1>2, <2>1 DEF Order, Orders, Digests
  <2>3. Order # None
    BY <2>2, AgentAssumption
  <2> QED BY <1>2, <2>2, <2>3 DEF Promise!Wants, Promise!Wanted, Orders
<1> QED BY <1>1, <1>2

\* The verdict is pending while a deploy is in flight, and it is wanted.
LEMMA InflightPends ==
  ASSUME Attended, st.inflight # None
  PROVE  ShownVerdict = "pending" /\ desired # None /\ ~desired.stopped
BY DEF Attended, PatientInv, OnOrder, ShownVerdict

\* So it is while what runs is checked.
LEMMA CheckPends ==
  ASSUME Attended, st.phase = "HEALTH_CHECKING"
  PROVE  ShownVerdict = "pending"
<1>1. known
  BY DEF Attended, HealthInv, UnknownIsNew, NewState
<1>2. CASE st.inflight # None
  BY <1>2, InflightPends
<1>3. CASE st.inflight = None
  <2>1. desired # None /\ ~desired.stopped => Matches
    BY <1>3 DEF Attended, PatientInv, Rechecked, Matches
  <2> QED BY <1>1, <1>3, <2>1 DEF ShownVerdict
<1> QED BY <1>2, <1>3

\* Every verdict fits the order and the copies.
LEMMA VerdictFits == Attended => ShownVerdict \in Promise!Verdicts /\ Promise!Fits
<1> SUFFICES ASSUME Attended PROVE ShownVerdict \in Promise!Verdicts /\ Promise!Fits
  OBVIOUS
<1>1. Inv
  BY DEF Attended
<1>2. ShownVerdict \in Promise!Verdicts
  BY DEF ShownVerdict, Promise!Verdicts
<1>3. ShownVerdict \in {"up", "failed", "refused"} => desired # None /\ ~desired.stopped
  BY DEF ShownVerdict
<1>4. ShownVerdict = "up" => Copies # {}
  <2>1. ShownVerdict = "up" => Live(st.proc)
    BY DEF ShownVerdict
  <2> QED BY <2>1, CopiesAre DEF Live
<1>5. ASSUME ShownVerdict \in {"stopped", "gone"} PROVE Copies = {}
  <2>1. st.proc = 0 /\ st.inflight = None
    <3>1. CASE ShownVerdict = "stopped"
      BY <3>1 DEF ShownVerdict, Attended, TriedInv, StoppedRests
    <3>2. CASE ShownVerdict = "gone"
      BY <3>2 DEF ShownVerdict, Attended, HealthInv, UnknownIsNew, NewState
    <3> QED BY <1>5, <3>1, <3>2
  <2>2. ~Live(st.proc)
    BY <1>1, <2>1, BooksTypes DEF Live
  <2> QED BY <2>1, <2>2, NoneLives, CopiesAre DEF InFlight
<1>6. /\ ShownVerdict = "stopped" => desired # None /\ desired.stopped
      /\ ShownVerdict = "gone" => desired = None
  BY DEF ShownVerdict
<1> QED BY <1>1, <1>2, <1>3, <1>4, <1>5, <1>6, OrderIs DEF Promise!Fits

----------------------------------------------------------------------------
(* What an event does to deploys and processes *)

\* The worker of the deploy in flight has nothing more to do or to say.
LastSaid ==
  \A i \in Ctx : InFlight(i) => deploys[i].pc = "done" /\ ~Sent(i)' /\ ~Committed(i)

\* No process is touched, and none that lives is let go of, but for the one a
\* deploy in flight has brought.
Spared ==
  /\ UNCHANGED <<procs, current>> /\ (~known => ~known')
  /\ Live(st.proc) /\ st.inflight = None => st'.proc = st.proc
  /\ deploys' = deploys \/ (deploys' = WithCancel(st) /\ st'.inflight = None /\ LastSaid)

\* What is rolled back: the deploy in flight, or what is checked and has died.
Failing(s) ==
  /\ s \in StrategyState /\ SameVersions(s) /\ s.inflight = st.inflight
  /\ s.failedAtGen = st.failedAtGen /\ desired # None
  /\ \/ st.inflight # None /\ (s.proc = st.proc \/ (s.proc = 0 /\ ~Live(st.proc)))
     \/ st.phase = "HEALTH_CHECKING" /\ s.proc = 0 /\ st.proc # 0 /\ ~Live(st.proc)

RollsBack == LastSaid /\ \E s, w : Failing(s) /\ beginRollback(s, w)

\* What is being checked was the last word of the deploy in flight.
LEMMA CheckedSaid ==
  ASSUME Clear, st.phase = "HEALTH_CHECKING", workerCh' = workerCh
  PROVE  LastSaid
<1> SUFFICES ASSUME NEW i \in Ctx, InFlight(i)
             PROVE  deploys[i].pc = "done" /\ ~Sent(i)' /\ ~Committed(i)
  BY DEF LastSaid
<1>1. Finished(i)
  BY DEF Clear, Checked
<1> QED BY <1>1 DEF Finished, Sent, Committed

\* An exit: the process is dead.
LEMMA HandleExitDoes ==
  ASSUME Inv, Clear, NEW p \in Pid, handleExit(p)
  PROVE  workerCh' = workerCh /\ (Spared \/ RollsBack)
<1> DEFINE gone == [st EXCEPT !.proc = 0]
           w    == watched \ {p}
<1>1. workerCh' = workerCh /\ st \in StrategyState /\ ~procs[p].alive /\ p # 0
  BY StType, BooksTypes DEF handleExit
<1>2. /\ gone \in StrategyState /\ gone.proc = 0 /\ gone.inflight = st.inflight
      /\ gone.phase = st.phase /\ SameVersions(gone) /\ gone.failedAtGen = st.failedAtGen
  BY <1>1 DEF StrategyState, SameVersions
<1>3. CASE UNCHANGED <<st, known, deploys, procs, current>>
  BY <1>1, <1>3 DEF Spared
<1>4. CASE st.proc = p /\ known /\ UNCHANGED <<deploys, procs, current>>
  BY <1>1, <1>4 DEF Spared, Live
<1>5. CASE UnexpectedExit(gone, w) /\ desired # None /\ st.proc = p /\ known
  <2> HIDE DEF gone, w
  <2> DEFINE crashed == [gone EXCEPT !.crashes = gone.crashes + 1, !.blocked = TRUE]
  <2>1. /\ crashed \in StrategyState /\ crashed.proc = 0 /\ crashed.inflight = st.inflight
        /\ crashed.phase = st.phase /\ SameVersions(crashed)
        /\ crashed.failedAtGen = st.failedAtGen
    <3>1. gone.crashes + 1 \in Nat
      BY <1>2 DEF StrategyState
    <3> QED BY <1>2, <3>1 DEF StrategyState, SameVersions
  <2> HIDE DEF crashed
  <2>2. \/ CrashLoop(crashed) /\ beginRollback(crashed, w)
        \/ UNCHANGED <<deploys, procs, current>>
    BY <1>5 DEF UnexpectedExit, crashed
  <2>3. CASE CrashLoop(crashed) /\ beginRollback(crashed, w)
    <3>1. st.phase = "HEALTH_CHECKING"
      BY <2>1, <2>3 DEF CrashLoop
    <3>2. Failing(crashed)
      BY <1>1, <1>5, <2>1, <3>1 DEF Failing, Live
    <3> QED BY <1>1, <2>3, <3>1, <3>2, CheckedSaid DEF RollsBack
  <2> QED BY <1>1, <1>4, <1>5, <2>2, <2>3
<1> QED BY <1>1, <1>3, <1>4, <1>5 DEF handleExit

\* The tick, and a probe's answer.
LEMMA ClocksDo ==
  ASSUME Inv, Clear, Tick \/ \E p \in Pid : applyHealthResult(p)
  PROVE  workerCh' = workerCh /\ (Spared \/ RollsBack)
<1>1. st \in StrategyState /\ workerCh' = workerCh /\ known' = known
  BY StType DEF Tick, applyHealthResult
<1>2. CASE \E p \in Pid : applyHealthResult(p)
  <2>1. /\ UNCHANGED <<procs, current, deploys>>
        /\ \/ st' = st \/ st' = [st EXCEPT !.probing = FALSE]
           \/ st' = MarkedHealthy([st EXCEPT !.probing = FALSE])
    BY <1>2 DEF applyHealthResult
  <2>2. [st EXCEPT !.probing = FALSE] \in StrategyState /\ [st EXCEPT !.probing = FALSE].proc = st.proc
    BY <1>1 DEF StrategyState
  <2>3. st'.proc = st.proc
    BY <1>1, <2>1, <2>2, PromotionHeard
  <2> QED BY <1>1, <2>1, <2>3 DEF Spared
<1>3. ASSUME NEW s \in StrategyState, s.proc = st.proc, tickCron(s),
             UNCHANGED <<deploys, procs, current>>
      PROVE  Spared
  BY <1>1, <1>3, CronHeard DEF Spared
<1>4. CASE Tick
  <2>1. CASE beginRollback(st, watched) /\ WindowRollsBack /\ st.phase = "HEALTH_CHECKING"
    <3>1. Failing(st)
      BY <1>1, <2>1 DEF Failing, SameVersions, WindowRollsBack
    <3> QED BY <1>1, <2>1, <3>1, CheckedSaid DEF RollsBack
  <2>2. CASE failHealthWindow /\ st.phase = "HEALTH_CHECKING" /\ UNCHANGED <<procs, current>>
    <3>1. st'.proc = st.proc /\ st'.inflight = None /\ deploys' = WithCancel(st)
      BY <1>1, <2>2 DEF failHealthWindow, StrategyState
    <3> QED BY <1>1, <2>2, <3>1, CheckedSaid DEF Spared
  <2>3. CASE tickCron(MarkedHealthy(st)) /\ UNCHANGED <<deploys, procs, current>>
    <3>1. MarkedHealthy(st) \in StrategyState /\ MarkedHealthy(st).proc = st.proc
      BY <1>1, MarkedHealthyType, PromotionHeard DEF Inv
    <3> QED BY <1>1, <1>3, <2>3, <3>1
  <2>4. CASE tickCron([st EXCEPT !.probing = TRUE]) /\ UNCHANGED <<deploys, procs, current>>
    <3> DEFINE s == [st EXCEPT !.probing = TRUE]
    <3>1. s \in StrategyState /\ s.proc = st.proc
      BY <1>1 DEF StrategyState
    <3>2. tickCron(s)
      BY <2>4
    <3> HIDE DEF s
    <3> QED BY <1>1, <1>3, <2>4, <3>1, <3>2
  <2>5. CASE tickCron(st) /\ UNCHANGED <<deploys, procs, current>>
    BY <1>1, <1>3, <2>5
  <2> QED BY <1>4, <2>1, <2>2, <2>3, <2>4, <2>5 DEF Tick
<1> QED BY <1>2, <1>4

\* What a worker says.
LEMMA ApplyWorkerEventDoes ==
  ASSUME Inv, Books, Clear, UnknownIsNew, ToldApart, applyWorkerEvent
  PROVE  Spared \/ RollsBack
<1> DEFINE ev == Head(workerCh)
<1>1. st \in StrategyState /\ known' = known /\ ev = workerCh[1] /\ 1 \in 1..Len(workerCh)
  BY StType, ServedEvent DEF applyWorkerEvent
<1>2. CASE UNCHANGED <<st, deploys, procs, current>>
  BY <1>1, <1>2 DEF Spared
<1>3. CASE Heeded(ev) /\ UNCHANGED <<deploys, procs, current>>
  BY <1>1, <1>3 DEF Spared, Heeded
<1>4. CASE Heeded(ev) /\ ev.phase = "ROLLING_BACK" /\ beginRollback(st, watched)
  <2>1. st.inflight # None /\ desired # None
    BY <1>4 DEF Heeded, Inv, InflightWanted
  <2>2. Failing(st)
    BY <1>1, <2>1 DEF Failing, SameVersions
  <2> PICK j : j = ev.ctx
    OBVIOUS
  <2>3. LastWord(ev)
    BY <1>4 DEF LastWord
  <2>4. InFlight(j) /\ deploys[j].pc = "done" /\ ~Sent(j)' /\ j \in Ctx
    BY <1>4, <2>3, Recognised
  <2>5. ~Committed(j)
    <3>1. \A l \in 1..Len(workerCh) : 1 < l => workerCh[l].ctx # j
      BY <1>1, <2>3 DEF Books, EventsKnown
    <3>2. \A l \in 1..Len(workerCh) : l = 1 \/ 1 < l
      BY BooksTypes
    <3> QED BY <1>1, <1>4, <2>4, <3>1, <3>2 DEF Committed
  <2>6. LastSaid
    BY <2>4, <2>5 DEF LastSaid, InFlight
  <2> QED BY <1>4, <2>2, <2>6 DEF RollsBack
<1> QED BY <1>2, <1>3, <1>4 DEF applyWorkerEvent

\* One step of the main loop's select that hears of something.
Hears == applyWorkerEvent \/ Tick \/ \E p \in Pid : handleExit(p) \/ applyHealthResult(p)

LEMMA HearsDo ==
  ASSUME Attended, Hears
  PROVE  KeepsEvents /\ (Spared \/ RollsBack)
<1>1. Inv /\ Books /\ Clear /\ UnknownIsNew /\ Concluded
  BY DEF Attended, PatientInv, HealthInv
<1>2. ToldApart
  BY <1>1 DEF Concluded, ToldApart, CalledOff
<1>3. CASE applyWorkerEvent
  BY <1>1, <1>2, <1>3, ServedEvent, ApplyWorkerEventDoes
<1>4. CASE Tick \/ \E p \in Pid : handleExit(p) \/ applyHealthResult(p)
  BY <1>1, <1>4, HandleExitDoes, ClocksDo DEF KeepsEvents
<1> QED BY <1>3, <1>4 DEF Hears

----------------------------------------------------------------------------
(* The patient operator's agent stays as it should be *)

\* Without restarts it stays up, and does one of these.
LEMMA StepsUp ==
  ASSUME MaxRestarts = 0, Attended, [Next]_vars
  PROVE  /\ Waited' /\ loop' # "down"
         /\ \/ applyDesired \/ Reconcile \/ (loop = "select" /\ Hears /\ Heard(st'))
            \/ \E i \in Ctx : WorkerStep(i)
            \/ \E p \in Pid : ProcessExits(p) \/ DrainDone(p)
            \/ Undisturbed(st') /\ UNCHANGED <<deploys, workerCh, procs, current, known>>
         /\ applyDesired \/ UNCHANGED <<desired, generation>>
<1>1. Inv /\ Books /\ HealthInv /\ Waited /\ restarts = 0 /\ loop # "down"
  BY DEF Attended, Waited
<1>2. ~shutdown /\ ~Crash /\ ~rebuildActualState
  BY <1>1 DEF shutdown, Crash, AgentGone, rebuildActualState
<1>3. \/ applyDesired \/ Reconcile
      \/ /\ Heard(st') /\ UNCHANGED <<desired, generation, restarts>>
         /\ \/ loop' = "reconcile" /\ loop = "select"
            \/ Undisturbed(st') /\ loop' = loop
            \/ Undisturbed(st') /\ persistSupervision
  BY <1>1, <1>2, StepHeard
<1>4. Waited' /\ loop' # "down"
  BY <1>1, <1>3 DEF applyDesired, Reconcile, persistSupervision, Waited
<1>5. CASE Publish \/ persistSupervision \/ BackoffElapses \/ WindowElapses \/ UNCHANGED vars
  <2>1. /\ UNCHANGED <<deploys, workerCh, procs, current, known, desired, generation>>
        /\ st' = st \/ BackoffElapses \/ WindowElapses
    BY <1>5 DEF Publish, persistSupervision, BackoffElapses, WindowElapses, EnvRest, envVars, vars
  <2>2. Undisturbed(st')
    BY <1>1, <2>1, StType DEF BackoffElapses, WindowElapses, StrategyState, Undisturbed, SameVerdict,
                             SameVersions
  <2> QED BY <1>4, <2>1, <2>2
<1>6. CASE Hears
  <2>1. loop = "select" /\ UNCHANGED <<desired, generation>>
    BY <1>6 DEF Hears, applyWorkerEvent, Tick, handleExit, applyHealthResult, Serve, ServeRest
  <2>2. Heard(st')
    BY <1>1, <1>6, HandleExitHeard, TickHeard, ApplyHealthResultHeard, ApplyWorkerEventHeard
       DEF Hears
  <2> QED BY <1>4, <1>6, <2>1, <2>2
<1>7. CASE Reconcile
  BY <1>4, <1>7 DEF Reconcile
<1>8. CASE applyDesired
  BY <1>4, <1>8
<1>9. ASSUME NEW i \in Ctx, WorkerStep(i) PROVE UNCHANGED <<desired, generation>>
  <2>1. PICK pc, next \in WorkerPc : WorkerAt(i, pc, next)
    BY <1>9 DEF WorkerStep, Announce, Download, Verify, DrainOld, CheckWithdrawn, SwitchTo,
                StartNew, ReportStarted, WorkerFails, WorkerPc
  <2> QED BY <2>1 DEF WorkerAt
<1>10. ASSUME NEW p \in Pid, ProcessExits(p) \/ DrainDone(p)
       PROVE  UNCHANGED <<desired, generation>>
  BY <1>10 DEF ProcessExits, DrainDone, EnvRest
<1> QED BY <1>2, <1>4, <1>5, <1>6, <1>7, <1>8, <1>9, <1>10 DEF Next, Hears

\* No deploy is cancelled before its last word, nor any late.
LEMMA ConcludedNext ==
  ASSUME MaxRestarts = 0, Attended, [Next]_vars
  PROVE  Concluded'
<1>1. Inv /\ Books /\ Clear /\ Held /\ LateKnown /\ Concluded /\ Waited
  BY DEF Attended, PatientInv
<1>2. ASSUME KeepsEvents, deploys' = deploys PROVE Concluded'
  <2>1. KeepsDeploys /\ Ctx' = Ctx
    BY <1>1, <1>2, Untouched DEF Ctx
  <2> QED BY <1>1, <1>2, <2>1, FinishedStays DEF Concluded
<1>3. ASSUME KeepsEvents, NEW s \in StrategyState, s.inflight = st.inflight, LastSaid,
             deploys' = WithCancel(s)
      PROVE  Concluded'
  <2>1. /\ KeepsDeploys
        /\ \A i \in Ctx : deploys'[i].cancelled => deploys[i].cancelled \/ InFlight(i)
        /\ \A i \in Ctx : deploys'[i].late => deploys[i].late \/ (InFlight(i) /\ Committed(i))
    BY <1>1, <1>3, CancelFrame DEF InFlight
  <2>2. Ctx' = Ctx
    BY <2>1 DEF KeepsDeploys, Ctx
  <2>3. \A i \in Ctx : deploys[i].cancelled => Finished(i)'
    BY <1>1, <1>3, <2>1, FinishedStays DEF Concluded
  <2>4. \A i \in Ctx : InFlight(i) => Finished(i)' /\ ~Committed(i)
    BY <1>3, <2>1 DEF LastSaid, Finished, KeepsDeploys
  <2> QED BY <1>1, <2>1, <2>2, <2>3, <2>4 DEF Concluded
<1>4. CASE applyDesired
  <2>1. st.inflight = None
    BY <1>1, <1>4 DEF Attended, TriedInv, Awaits, applyDesired
  <2>2. deploys' = deploys /\ workerCh' = workerCh
    BY <1>4, <2>1 DEF applyDesired, Withdraws
  <2> QED BY <1>2, <2>2 DEF KeepsEvents
<1>5. CASE Hears
  <2>1. KeepsEvents /\ (Spared \/ RollsBack)
    BY <1>5, HearsDo
  <2>2. CASE Spared
    BY <1>2, <1>3, <2>1, <2>2, StType, <1>1 DEF Spared
  <2>3. CASE RollsBack
    <3>1. PICK s, w : Failing(s) /\ beginRollback(s, w)
      BY <2>3 DEF RollsBack
    <3>2. deploys' = WithCancel(s)
      BY <3>1 DEF beginRollback
    <3> QED BY <1>3, <2>1, <2>3, <3>1, <3>2 DEF RollsBack, Failing
  <2> QED BY <2>1, <2>2, <2>3
<1>6. CASE Reconcile
  <2>1. workerCh' = workerCh /\ KeepsEvents
    BY <1>6 DEF Reconcile, KeepsEvents
  <2>2. CASE beginDeploy
    <3> DEFINE d == [pc |-> "announce", cancelled |-> FALSE, late |-> FALSE, art |-> desired.art,
                     cfg |-> desired.cfg, capture |-> desired.capture, old |-> st.proc,
                     gen |-> generation]
    <3>1. deploys' = Append(deploys, d) /\ ~d.cancelled /\ ~d.late
      BY <2>2 DEF beginDeploy
    <3> HIDE DEF d
    <3>2. /\ Len(deploys') = Len(deploys) + 1 /\ deploys'[Len(deploys) + 1] = d
          /\ \A i \in Ctx : deploys'[i] = deploys[i]
          /\ \A i \in Ctx' : i \in Ctx \/ i = Len(deploys) + 1
      BY <1>1, <3>1, BooksTypes DEF Ctx
    <3>3. \A i \in Ctx : Finished(i) => Finished(i)'
      BY <2>1, <3>2 DEF Finished, Sent
    <3> QED BY <1>1, <3>1, <3>2, <3>3 DEF Concluded
  <2>3. CASE retireStrategy \/ reconcileStopped
    <3>1. st.inflight = None
      BY <1>1, <2>3 DEF retireStrategy, reconcileStopped, Attended, PatientInv, OnOrder
    <3>2. deploys' = deploys
      BY <2>3, <3>1 DEF retireStrategy, reconcileStopped, WithCancel
    <3> QED BY <1>2, <2>1, <3>2
  <2>4. CASE deploys' = deploys
    BY <1>2, <2>1, <2>4
  <2> QED BY <1>6, <2>2, <2>3, <2>4
          DEF Reconcile, restartInWindow, drainForMode, steadyState, restart, reconcileWaits, Quiet
<1>7. ASSUME NEW i \in Ctx, WorkerStep(i) PROVE Concluded'
  <2>1. EndsKept(i)
    BY <1>1, <1>7, WorkerStepOwns
  <2>2. PICK pc, next \in WorkerPc : WorkerAt(i, pc, next)
    BY <1>7 DEF WorkerStep, Announce, Download, Verify, DrainOld, CheckWithdrawn, SwitchTo,
                StartNew, ReportStarted, WorkerFails, WorkerPc
  <2>3. /\ Ctx' = Ctx
        /\ \A j \in Ctx : /\ deploys'[j].cancelled = deploys[j].cancelled
                          /\ deploys'[j].late = deploys[j].late
    BY <1>1, <2>2, WorkerFrame DEF Ctx
  <2> QED BY <1>1, <2>1, <2>3 DEF Concluded, EndsKept
<1>8. ASSUME NEW p \in Pid, ProcessExits(p) \/ DrainDone(p) PROVE Concluded'
  BY <1>2, <1>8 DEF ProcessExits, DrainDone, EnvRest, KeepsEvents
<1>9. CASE UNCHANGED <<deploys, workerCh>>
  BY <1>2, <1>9 DEF KeepsEvents
<1> QED BY <1>4, <1>5, <1>6, <1>7, <1>8, <1>9, StepsUp

\* The deploy in flight stays the one ordered, and what is checked stays so too.
LEMMA OrderNext ==
  ASSUME MaxRestarts = 0, Attended, [Next]_vars
  PROVE  OnOrder(st)' /\ Rechecked(st)'
<1>1. Inv /\ OnOrder(st) /\ Rechecked(st) /\ Waited /\ Awaits /\ st \in StrategyState
  BY StType DEF Attended, PatientInv, TriedInv
<1>2. ASSUME Heard(st'), UNCHANGED desired PROVE OnOrder(st)' /\ Rechecked(st)'
  <2>1. \/ st'.inflight = None
        \/ st'.inflight = st.inflight /\ st'.prev = st.prev /\ st'.prevCfg = st.prevCfg
    BY <1>2 DEF Heard, Undisturbed, Exited, Emptied, RolledBack, Progressed, Brought, GaveUp,
                Promoted, SameVerdict, SameVersions, NewState
  <2>2. st'.phase = "HEALTH_CHECKING" /\ st'.inflight = None =>
          st.phase = "HEALTH_CHECKING" /\ st.inflight = None /\ SameVersions(st')
    BY <1>2 DEF Heard, Undisturbed, Exited, Emptied, RolledBack, Progressed, Brought, GaveUp,
                Promoted, SameVerdict, NewState
  <2> QED BY <1>1, <1>2, <2>1, <2>2 DEF OnOrder, Rechecked, versionMatches, SameVersions
<1>3. CASE applyDesired
  <2>1. st.inflight = None /\ st.phase # "HEALTH_CHECKING" /\ st' = st
    BY <1>1, <1>3 DEF Awaits, applyDesired, Withdraws
  <2> QED BY <2>1 DEF OnOrder, Rechecked
<1>4. CASE Reconcile
  <2>1. Decision(st') /\ UNCHANGED desired
    BY <1>1, <1>4, ReconcileDecided DEF Reconcile
  <2>2. CASE Retired(st')
    BY <2>1, <2>2 DEF Retired, OnOrder, Rechecked
  <2>3. CASE Halted(st')
    BY <2>1, <2>3 DEF Halted, OnOrder, Rechecked
  <2>4. CASE Restarted(st') \/ Steady(st')
    BY <1>1, <2>1, <2>4 DEF Restarted, Steady, Alike, OnOrder, Rechecked, Matches, versionMatches
  <2>5. CASE Deploying(st')
    BY <2>1, <2>5 DEF Deploying, Free, Matches, versionMatches, OnOrder, Rechecked
  <2>6. CASE st' = st
    BY <1>1, <2>1, <2>6 DEF OnOrder, Rechecked
  <2> QED BY <2>1, <2>2, <2>3, <2>4, <2>5, <2>6 DEF Decision
<1>5. CASE Heard(st') /\ ~applyDesired
  BY <1>2, <1>5, StepsUp
<1>6. ASSUME st' = st, ~applyDesired PROVE OnOrder(st)' /\ Rechecked(st)'
  BY <1>2, <1>6, StepsUp DEF Heard, Undisturbed, SameVerdict, SameVersions
<1>7. ASSUME NEW i \in Ctx, WorkerStep(i) PROVE st' = st
  <2>1. PICK pc, next \in WorkerPc : WorkerAt(i, pc, next)
    BY <1>7 DEF WorkerStep, Announce, Download, Verify, DrainOld, CheckWithdrawn, SwitchTo,
                StartNew, ReportStarted, WorkerFails, WorkerPc
  <2> QED BY <2>1 DEF WorkerAt
<1>8. ASSUME NEW p \in Pid, ProcessExits(p) \/ DrainDone(p) PROVE st' = st
  BY <1>8 DEF ProcessExits, DrainDone
<1> QED BY <1>3, <1>4, <1>5, <1>6, <1>7, <1>8, StepsUp DEF Heard

\* `current` points at what was deployed.
LEMMA CurrentNext ==
  ASSUME MaxRestarts = 0, Attended, [Next]_vars
  PROVE  Carried(current)'
<1>1. Inv /\ Books /\ Carried(current) /\ Carried(st.prev)
  BY DEF Attended, PatientInv, TriedInv, VersionsTried, TriedAs, Carried
<1>2. \A a : Carried(a) => Carried(a)'
  BY <1>1, TriedStays
<1>3. ASSUME current' \in {current, st.prev} PROVE Carried(current)'
  BY <1>1, <1>2, <1>3 DEF Carried
<1>4. CASE Hears
  <2>1. CASE Spared
    BY <1>3, <2>1 DEF Spared
  <2>2. CASE RollsBack
    <3>1. PICK s, w : Failing(s) /\ beginRollback(s, w)
      BY <2>2 DEF RollsBack
    <3> QED BY <1>3, <3>1 DEF Failing, SameVersions, beginRollback
  <2> QED BY <1>4, <2>1, <2>2, HearsDo
<1>5. ASSUME NEW i \in Ctx, WorkerStep(i) PROVE Carried(current)'
  <2>1. current' = current \/ current' = deploys[i].art
    BY <1>1, <1>5, WorkerMoves DEF Strides
  <2>2. Carried(deploys[i].art)
    BY DEF Carried
  <2> QED BY <1>2, <1>3, <2>1, <2>2 DEF Carried
<1>6. ASSUME NEW p \in Pid, ProcessExits(p) \/ DrainDone(p) PROVE current' = current
  BY <1>6 DEF ProcessExits, DrainDone, EnvRest
<1>7. CASE applyDesired \/ Reconcile
  BY <1>3, <1>7 DEF applyDesired, Reconcile, envVars
<1> QED BY <1>3, <1>4, <1>5, <1>6, <1>7, StepsUp

\* Every step keeps what the promise rests on.
LEMMA AttendedNext ==
  ASSUME MaxRestarts = 0, Attended, [Next]_vars
  PROVE  Attended'
<1>1. /\ Inv /\ HealthInv /\ UnknownIsNew /\ Books /\ LateKnown /\ TriedInv /\ Clear /\ Held
      /\ Concluded /\ loop # "down"
  BY DEF Attended, PatientInv, HealthInv
<1>2. DownIsQuiet /\ DownIsStopped
  BY <1>1 DEF DownIsQuiet, DownIsStopped
<1>3. ToldApart
  BY <1>1 DEF Concluded, ToldApart, CalledOff
<1>4. Inv' /\ HealthInv' /\ Books' /\ LateKnown' /\ TriedInv'
  BY <1>1, <1>2, InvNext, HealthNext, BooksNext, LateNext, TriedNext
<1>5. Clear' /\ Held'
  BY <1>1, <1>2, <1>3, OwnsNext
<1>6. PatientInv'
  BY <1>5, ConcludedNext, OrderNext, CurrentNext DEF PatientInv
<1> QED BY <1>4, <1>6, StepsUp DEF Attended

LEMMA AttendedInit ==
  ASSUME Patient, Init
  PROVE  Attended
<1>1. Inv /\ HealthInv /\ Books /\ TriedInv /\ Ownership
  BY InvInit, HealthInit, BooksInit, TriedInit, OwnershipInit
<1>2. LateKnown /\ Concluded /\ Clear /\ Held
  BY DEF Init, LateKnown, Concluded, Clear, Accounted, Checked, OldHeld, Held, Ctx, Pid
<1>3. OnOrder(st) /\ Rechecked(st) /\ Carried(current) /\ Waited /\ loop # "down"
  BY DEF Init, OnOrder, Rechecked, Carried, Waited, NewState
<1> QED BY <1>1, <1>2, <1>3 DEF Attended, PatientInv

----------------------------------------------------------------------------
(* The steps Supervision knows *)

\* The step is one of Supervision's, or changes nothing it knows of.
Kept == [Promise!Next]_(Promise!vars)

LEMMA AllFits == Attended => ShownVerdict \in Promise!Verdicts /\ Promise!Fits /\ Single /\ Inv
BY VerdictFits, OneLives DEF Attended

LEMMA NextFits ==
  ASSUME Attended'
  PROVE  ShownVerdict' \in Promise!Verdicts /\ Promise!Fits' /\ Single' /\ Inv'
<1>1. (ShownVerdict \in Promise!Verdicts /\ Promise!Fits /\ Single /\ Inv)'
  BY AllFits, PTL
<1> QED BY <1>1 DEF Promise!Verdicts

LEMMA DeployedKept ==
  ASSUME Inv, KeepsDeploys
  PROVE  Deployed' = Deployed
BY BooksTypes DEF Deployed, KeepsDeploys, Ctx

LEMMA CopiesNext ==
  /\ Copies' = {} <=> \A p \in Pid' : ~procs'[p].alive
  /\ \A c : c \in Copies' <=> \E p \in Pid' : /\ procs'[p].alive
                                              /\ c = [pid |-> p, bytes |-> procs'[p].art.digest]
BY DEF Copies

\* A verdict: what runs and what was ordered and deployed is as before.
LEMMA Says ==
  ASSUME Attended', UNCHANGED <<desired, generation, procs>>, Deployed' = Deployed,
         ShownVerdict = "pending" \/ ShownVerdict' = ShownVerdict
  PROVE  Kept
<1>1. Copies' = Copies /\ Order' = Order
  BY DEF Copies, Pid, Order
<1>2. CASE ShownVerdict' = ShownVerdict
  BY <1>1, <1>2 DEF Kept, Promise!vars
<1>3. CASE ShownVerdict = "pending"
  <2>1. Promise!Decide
    BY <1>1, <1>3, NextFits DEF Promise!Decide
  <2> QED BY <2>1 DEF Kept, Promise!Next
<1> QED BY <1>2, <1>3

\* A process is stopped, or ends; if it was no longer alive, only a verdict is left.
LEMMA Kills ==
  ASSUME Attended, Attended', NEW p \in Nat, procs' = Killed(p), UNCHANGED <<desired, generation>>,
         Deployed' = Deployed,
         \/ ShownVerdict' = ShownVerdict
         \/ ShownVerdict = "up" /\ ShownVerdict' = "pending" /\ Live(p)
         \/ ShownVerdict = "pending" /\ Promise!Wanted /\ ShownVerdict' = "failed"
  PROVE  Kept
<1>1. Inv /\ Single /\ Order' = Order
  BY OneLives DEF Attended, Order
<1>2. /\ KeepsProcs /\ Len(procs') = Len(procs) /\ ~Live(p)' /\ Pid' = Pid
      /\ \A q \in Pid : q # p => procs'[q] = procs[q]
  BY <1>1, KilledFrame DEF Pid
<1>3. CASE Live(p)
  <2>1. Copies # {}
    BY <1>3, CopiesAre DEF Live
  <2>2. Copies' = {}
    BY <1>1, <1>2, <1>3, CopiesNext DEF Live, Single
  <2>3. ShownVerdict' # "up"
    BY <2>2, NextFits DEF Promise!Fits
  <2>4. Promise!Stop
    BY <1>1, <2>1, <2>2, <2>3 DEF Promise!Stop
  <2> QED BY <2>4 DEF Kept, Promise!Next
<1>4. CASE ~Live(p)
  <2>1. \A q \in Pid : /\ procs'[q].alive <=> procs[q].alive
                       /\ procs'[q].art = procs[q].art
    BY <1>2, <1>4 DEF Live, KeepsProcs
  <2>2. Copies' = Copies
    <3>1. ASSUME NEW c PROVE c \in Copies' <=> c \in Copies
      <4>1. \A q \in Pid : [pid |-> q, bytes |-> procs'[q].art.digest]
                           = [pid |-> q, bytes |-> procs[q].art.digest]
        BY <2>1
      <4> QED BY <1>2, <2>1, <4>1, CopiesAre, CopiesNext
    <3> QED BY <3>1
  <2>3. CASE ShownVerdict' = ShownVerdict
    BY <1>1, <2>2, <2>3 DEF Kept, Promise!vars
  <2>4. CASE ShownVerdict = "pending"
    <3>1. Promise!Decide
      BY <1>1, <2>2, <2>4, NextFits DEF Promise!Decide
    <3> QED BY <3>1 DEF Kept, Promise!Next
  <2> QED BY <1>4, <2>3, <2>4
<1> QED BY <1>3, <1>4

\* A process is started: it is the only one.
LEMMA Grows ==
  ASSUME Inv, Attended', NEW p, p = Len(procs) + 1, Len(procs') = p, procs'[p].alive,
         procs'[p].art.digest \in Deployed
  PROVE  Promise!OneMore
<1> DEFINE c == [pid |-> p, bytes |-> procs'[p].art.digest]
<1>1. p \in Nat /\ p \in Pid' /\ p \notin Pid
  BY BooksTypes DEF Pid
<1>2. c \in Copies'
  BY <1>1, CopiesNext
<1>3. c \notin Copies
  <2>1. c.pid = p
    OBVIOUS
  <2>2. \A d \in Copies : d.pid \in Pid
    BY DEF Copies
  <2> QED BY <1>1, <2>1, <2>2
<1>4. \A q \in Pid' : procs'[q].alive => q = p
  BY <1>1, NextFits DEF Single
<1>5. Copies' = {c}
  BY <1>1, <1>2, <1>4, CopiesNext
<1> QED BY <1>2, <1>3, <1>5 DEF Promise!OneMore

\* One is started beside those there are: there was none.
LEMMA Appends ==
  ASSUME Inv, Attended', NEW r, procs' = Append(procs, r), r.alive, r.art.digest \in Deployed
  PROVE  Promise!OneMore /\ Copies = {}
<1>1. procs \in Seq(Process) /\ Len(procs) \in Nat
  BY BooksTypes
<1>2. Len(procs') = Len(procs) + 1 /\ procs'[Len(procs) + 1] = r
      /\ \A q \in Pid : procs'[q] = procs[q]
  BY <1>1 DEF Pid
<1>3. Promise!OneMore
  BY <1>2, Grows
<1>4. \A q \in Pid : ~procs[q].alive
  <2>1. \A q \in Pid : q \in Pid' /\ q # Len(procs) + 1
    BY <1>1, <1>2 DEF Pid
  <2>2. Len(procs) + 1 \in Pid'
    BY <1>1, <1>2 DEF Pid
  <2> QED BY <1>2, <2>1, <2>2, NextFits DEF Single
<1> QED BY <1>3, <1>4, CopiesAre

----------------------------------------------------------------------------
(* The verdict after an event *)

\* With the record's verdict kept, what is shown can only cease to be up.
LEMMA VerdictKept ==
  ASSUME SameVerdict(st'), st'.phase = st.phase, st'.proc = st.proc, st'.inflight = st.inflight,
         UNCHANGED <<known, desired, generation>>
  PROVE  /\ (Live(st.proc)' <=> Live(st.proc)) => ShownVerdict' = ShownVerdict
         /\ ~Live(st.proc)' =>
              \/ ShownVerdict' = ShownVerdict
              \/ ShownVerdict = "up" /\ ShownVerdict' = "pending" /\ Live(st.proc)
<1>1. (Matches' <=> Matches) /\ (desired # None => (SkipsBadVersion(st)' <=> SkipsBadVersion(st)))
  BY DEF Matches, versionMatches, SkipsBadVersion, SameVerdict, SameVersions
<1>2. st'.failedAtGen = st.failedAtGen
  BY DEF SameVerdict
<1> QED BY <1>1, <1>2 DEF ShownVerdict

\* An event that moves no process changes no verdict but an open one.
LEMMA HeardKept ==
  ASSUME Attended, loop = "select", Heard(st'), Spared, UNCHANGED <<desired, generation>>
  PROVE  ShownVerdict = "pending" \/ ShownVerdict' = ShownVerdict
<1> SUFFICES ASSUME ShownVerdict # "pending"
             PROVE  ShownVerdict' = ShownVerdict
  OBVIOUS
<1>1. Inv /\ StoppedRests(st) /\ Waited /\ st.phase # "HEALTH_CHECKING" /\ st.inflight = None
  BY InflightPends, CheckPends DEF Attended, TriedInv
<1>2. CASE desired = None
  <2>1. ~known /\ ~known' /\ desired' = None
    BY <1>2 DEF ShownVerdict, Spared
  <2> QED BY <1>2, <2>1 DEF ShownVerdict
<1>3. CASE desired # None
  <2>1. \/ Undisturbed(st') \/ Exited(st') \/ Promoted(st')
    BY <1>1, <1>3 DEF Heard, Emptied, RolledBack, Progressed, Brought, GaveUp
  <2>2. /\ SameVerdict(st') /\ st'.failedAtGen = st.failedAtGen
        /\ Matches' <=> Matches
        /\ SkipsBadVersion(st)' <=> SkipsBadVersion(st)
    BY <2>1 DEF Undisturbed, Exited, Promoted, SameVerdict, SameVersions, Matches, versionMatches,
                SkipsBadVersion
  <2>3. st'.inflight = None
    BY <1>1, <2>1 DEF Undisturbed, Exited, Promoted
  <2>4. Live(st.proc) => st'.proc = st.proc
    BY <1>1 DEF Spared
  <2>5. Live(st'.proc) <=> Live(st.proc)
    <3>1. ~Live(0)
      BY <1>1, BooksTypes DEF Live
    <3>2. st'.proc = st.proc \/ st'.proc = 0
      BY <2>1 DEF Undisturbed, Exited, Promoted
    <3> QED BY <2>4, <3>1, <3>2
  <2>6. Live(st.proc)' <=> Live(st.proc)
    BY <2>5 DEF Live, Pid, Spared
  <2>7. CASE desired.stopped
    <3>1. st.phase = "STOPPED" /\ st.proc = 0
      BY <1>1, <1>3, <2>7 DEF ShownVerdict, StoppedRests
    <3>2. st'.phase = "STOPPED"
      BY <2>1, <3>1 DEF Undisturbed, Exited, Promoted
    <3> QED BY <1>3, <2>7, <3>1, <3>2 DEF ShownVerdict
  <2>8. CASE ~desired.stopped
    <3>1. /\ st'.phase # "HEALTH_CHECKING"
          /\ st'.phase = "FAILED" <=> st.phase = "FAILED"
      BY <1>1, <2>1 DEF Undisturbed, Exited, Promoted
    <3> QED BY <1>1, <1>3, <2>2, <2>3, <2>6, <2>8, <3>1 DEF ShownVerdict
  <2> QED BY <2>7, <2>8
<1> QED BY <1>2, <1>3

\* An event that moves no process says something at most.
LEMMA SparedKept ==
  ASSUME Attended, Attended', loop = "select", Heard(st'), Spared, UNCHANGED <<desired, generation>>
  PROVE  Kept
<1>1. Inv /\ st \in StrategyState /\ procs' = procs
  BY StType DEF Attended, Spared
<1>2. KeepsDeploys
  BY <1>1, CancelFrame, Untouched DEF Spared
<1> QED BY <1>1, <1>2, DeployedKept, HeardKept, Says

----------------------------------------------------------------------------
(* A rollback *)

\* A rollback ends in failure with the process stopped, or on the previous release.
LEMMA RollbackEnds ==
  ASSUME Inv, NEW s \in StrategyState, NEW w, beginRollback(s, w)
  PROVE  \/ /\ procs' = Killed(s.proc) /\ st'.phase = "FAILED" /\ st'.failedAtGen = generation
         \/ /\ procs' = Append(Killed(s.proc), [alive |-> TRUE, art |-> s.prev, ctx |-> 0])
            /\ s.prev # None /\ st'.phase = "ROLLED_BACK" /\ st'.proc = Len(procs) + 1
<1> DEFINE bad    == IF s.inflight # None THEN s.inflight.art.version ELSE desired.art.version
           bare   == [s EXCEPT !.inflight = None, !.lastBad = bad, !.proc = 0]
           back   == [bare EXCEPT !.running = s.prev, !.runCfg = s.prevCfg]
           failed(r) == [r EXCEPT !.phase = "FAILED", !.failedAtGen = generation]
           pid    == Len(procs) + 1
           rolled == [Install(back, pid, desired.capture)
                      EXCEPT !.phase = "ROLLED_BACK", !.crashes = 0, !.blocked = FALSE]
<1>1. /\ failed(bare).phase = "FAILED" /\ failed(bare).failedAtGen = generation
      /\ failed(back).phase = "FAILED" /\ failed(back).failedAtGen = generation
      /\ rolled.phase = "ROLLED_BACK" /\ rolled.proc = pid
  BY DEF StrategyState, Install
<1>2. \/ procs' = Killed(s.proc) /\ (st' = failed(bare) \/ st' = failed(back))
      \/ /\ procs' = Append(Killed(s.proc), [alive |-> TRUE, art |-> s.prev, ctx |-> 0])
         /\ s.prev # None /\ st' = rolled
  BY DEF beginRollback
<1> HIDE DEF failed, rolled, bare, back
<1> QED BY <1>1, <1>2

\* It is of an order that is wanted and has no verdict yet.
LEMMA RollbackPends ==
  ASSUME Attended, loop = "select", NEW s, Failing(s)
  PROVE  ShownVerdict = "pending" /\ ~desired.stopped
<1>1. CASE st.inflight # None
  BY <1>1, InflightPends
<1>2. CASE st.inflight = None
  <2>1. st.phase = "HEALTH_CHECKING" /\ st.proc # 0 /\ desired # None
    BY <1>2 DEF Failing
  <2> QED BY <2>1, CheckPends DEF Attended, TriedInv, RestChecked
<1> QED BY <1>1, <1>2

\* The version rolled back from is refused, unless what was rolled back to is what
\* was ordered.
LEMMA RollbackSays ==
  ASSUME Attended, RolledBack(st'), ~desired.stopped, UNCHANGED <<desired, generation>>,
         st'.phase = "ROLLED_BACK", Live(st.proc)'
  PROVE  \/ ShownVerdict' = "refused"
         \/ ShownVerdict' = "up" /\ st.inflight = None
<1>1. desired # None /\ st'.inflight = None /\ st'.running = st.prev /\ st'.runCfg = st.prevCfg
      /\ st.prev # None
  BY DEF RolledBack
<1>2. SkipsBadVersion(st)'
  <2>1. st.inflight # None => st.inflight.art = desired.art
    BY DEF Attended, PatientInv, OnOrder
  <2> QED BY <2>1 DEF SkipsBadVersion, RolledBack
<1>3. st.inflight # None => ~Matches'
  BY <1>1 DEF Attended, PatientInv, OnOrder, Matches, versionMatches
<1> QED BY <1>1, <1>2, <1>3 DEF ShownVerdict

LEMMA RollsBackKept ==
  ASSUME Attended, Attended', loop = "select", RollsBack, UNCHANGED <<desired, generation>>
  PROVE  Kept
<1>1. PICK s, w : Failing(s) /\ beginRollback(s, w)
  BY DEF RollsBack
<1>2. Inv /\ Books /\ s \in StrategyState /\ s.proc \in Nat /\ desired # None
  BY <1>1 DEF Attended, Failing, StrategyState
<1>3. s.proc \in 0..Len(procs)
  BY <1>1, <1>2, BooksTypes DEF Books, Counted, Failing
<1>4. RolledBack(st') /\ KeepsDeploys /\ st'.inflight = None
  BY <1>1, <1>2, <1>3, RollbackHeard, RollbackFrame DEF Failing
<1>5. Deployed' = Deployed
  BY <1>2, <1>4, DeployedKept
<1>6. ShownVerdict = "pending" /\ ~desired.stopped /\ Promise!Wanted
  BY <1>1, <1>2, RollbackPends, OrderIs
<1>7. CASE procs' = Killed(s.proc) /\ st'.phase = "FAILED" /\ st'.failedAtGen = generation
  <2>1. ShownVerdict' = "failed"
    BY <1>2, <1>4, <1>6, <1>7 DEF ShownVerdict
  <2> QED BY <1>2, <1>5, <1>6, <1>7, <2>1, Kills
<1>8. CASE /\ procs' = Append(Killed(s.proc), [alive |-> TRUE, art |-> s.prev, ctx |-> 0])
           /\ s.prev # None /\ st'.phase = "ROLLED_BACK" /\ st'.proc = Len(procs) + 1
  <2> DEFINE q == Killed(s.proc)
             r == [alive |-> TRUE, art |-> s.prev, ctx |-> 0]
  <2>1. q \in Seq(Process) /\ Len(q) = Len(procs)
    BY <1>2, KilledType DEF Inv
  <2>2. procs' = Append(q, r) /\ r.alive /\ r.art = s.prev
    BY <1>8
  <2> HIDE DEF q, r
  <2>3. Len(procs') = Len(procs) + 1 /\ procs'[Len(procs) + 1] = r
    BY <2>1, <2>2
  <2>4. r.art.digest \in Deployed
    <3>1. s.prev = st.prev
      BY <1>1 DEF Failing, SameVersions
    <3>2. Carried(st.prev)
      BY DEF Attended, TriedInv, VersionsTried, TriedAs, Carried
    <3> QED BY <1>8, <2>2, <3>1, <3>2 DEF Carried, Deployed
  <2>5. Promise!OneMore
    BY <1>2, <2>2, <2>3, <2>4, Grows
  <2>6. Live(st.proc)'
    BY <1>2, <1>8, <2>2, <2>3, BooksTypes DEF Live, Pid
  <2>7. \/ ShownVerdict' = "refused"
        \/ ShownVerdict' = "up" /\ st.inflight = None
    BY <1>4, <1>6, <1>8, <2>6, RollbackSays
  <2>8. Order' = Order
    BY DEF Order
  <2>9. CASE ShownVerdict' = "refused"
    <3>1. Promise!RollBack
      BY <1>5, <1>6, <2>5, <2>8, <2>9 DEF Promise!RollBack
    <3> QED BY <3>1 DEF Kept, Promise!Next
  <2>10. CASE ShownVerdict' = "up" /\ st.inflight = None
    <3>1. ~Live(st.proc) /\ \A i \in Ctx : ~InFlight(i)
      BY <1>1, <2>10 DEF Failing, InFlight
    <3>2. Copies = {}
      BY <3>1, NoneLives, CopiesAre
    <3>3. Promise!Start
      BY <1>5, <1>6, <2>5, <2>8, <2>10, <3>2 DEF Promise!Start
    <3> QED BY <3>3 DEF Kept, Promise!Next
  <2> QED BY <2>7, <2>9, <2>10
<1> QED BY <1>1, <1>2, <1>7, <1>8, RollbackEnds

----------------------------------------------------------------------------
(* Workers and processes *)

\* A worker that still acts serves the deploy in flight.
LEMMA ActsInFlight ==
  ASSUME Attended, NEW i \in Ctx, deploys[i].pc # "done"
  PROVE  InFlight(i) /\ ShownVerdict = "pending" /\ Promise!Wanted
<1>1. Inv /\ Clear /\ Concluded
  BY DEF Attended, PatientInv
<1>2. InFlight(i)
  BY <1>1 DEF Clear, Accounted, Concluded, Finished
<1> QED BY <1>1, <1>2, InflightPends, OrderIs DEF InFlight

LEMMA WorkerKept ==
  ASSUME Attended, Attended', NEW i \in Ctx, WorkerStep(i)
  PROVE  Kept
<1>1. Inv /\ SwitchedFirst /\ Carried(current)
  BY DEF Attended, PatientInv, Inv
<1>2. PICK pc, next \in WorkerPc : WorkerAt(i, pc, next)
  BY DEF WorkerStep, Announce, Download, Verify, DrainOld, CheckWithdrawn, SwitchTo,
         StartNew, ReportStarted, WorkerFails, WorkerPc
<1>3. UNCHANGED <<desired, generation, known, st>>
  BY <1>2 DEF WorkerAt
<1>4. Deployed' = Deployed
  <2>1. Len(deploys') = Len(deploys) /\ \A j \in Ctx : deploys'[j].art = deploys[j].art
    BY <1>1, <1>2, WorkerFrame
  <2> QED BY <2>1 DEF Deployed, Ctx
<1>5. CASE procs' = procs
  <2>1. ShownVerdict' = ShownVerdict
    BY <1>3, <1>5, VerdictKept DEF SameVerdict, SameVersions, Live, Pid
  <2> QED BY <1>3, <1>4, <1>5, <2>1, Says
<1>6. CASE DrainOld(i)
  <2>1. deploys[i].pc = "drain" /\ procs' = Killed(deploys[i].old)
    BY <1>6 DEF DrainOld, WorkerAt
  <2>2. deploys[i].old \in Nat
    BY <1>1, BooksTypes DEF Attended, Books, Counted
  <2>3. ShownVerdict = "pending" /\ ShownVerdict' = "pending"
    BY <1>3, <2>1, ActsInFlight DEF InFlight, ShownVerdict
  <2> QED BY <1>3, <1>4, <2>1, <2>2, <2>3, Kills
<1>7. CASE procs' = Append(procs, NewProc(i)) /\ deploys[i].pc = "start"
  <2>1. NewProc(i).alive /\ NewProc(i).art = current
    BY DEF NewProc
  <2>2. current # None
    BY <1>1, <1>7 DEF SwitchedFirst
  <2>3. NewProc(i).art.digest \in Deployed
    BY <1>1, <2>1, <2>2 DEF Carried, Deployed
  <2>4. Promise!OneMore /\ Copies = {}
    BY <1>1, <1>7, <2>1, <2>3, Appends
  <2>5. InFlight(i) /\ ShownVerdict = "pending" /\ Promise!Wanted
    BY <1>7, ActsInFlight
  <2>6. ShownVerdict' = "pending" /\ Order' = Order
    BY <1>3, <2>5, InflightPends DEF InFlight, ShownVerdict, Order
  <2>7. Promise!Start
    BY <1>3, <1>4, <2>4, <2>5, <2>6 DEF Promise!Start
  <2> QED BY <2>7 DEF Kept, Promise!Next
<1>8. procs' = procs \/ DrainOld(i) \/ (procs' = Append(procs, NewProc(i)) /\ deploys[i].pc = "start")
  BY DEF WorkerStep, Announce, Download, Verify, CheckWithdrawn, SwitchTo, StartNew,
         ReportStarted, WorkerFails, WorkerAt
<1> QED BY <1>5, <1>6, <1>7, <1>8

\* A process ends on its own, or at the end of its drain.
LEMMA DeathKept ==
  ASSUME Attended, Attended', NEW p \in Pid, ProcessExits(p) \/ DrainDone(p)
  PROVE  Kept
<1>1. Inv /\ p \in Nat
  BY BooksTypes DEF Attended
<1>2. procs' = Killed(p) /\ UNCHANGED <<desired, generation, known, st, deploys>>
  BY DEF ProcessExits, DrainDone, EnvRest
<1>3. Deployed' = Deployed
  BY <1>2 DEF Deployed, Ctx
<1>4. /\ KeepsProcs /\ Len(procs') = Len(procs) /\ ~Live(p)'
      /\ \A q \in Pid : q # p => procs'[q] = procs[q]
  BY <1>1, <1>2, KilledFrame
<1>5. Live(st.proc)' => Live(st.proc)
  BY <1>2, <1>4 DEF Live, Pid, KeepsProcs
<1>6. Live(st.proc) /\ ~Live(st.proc)' => st.proc = p
  BY <1>2, <1>4 DEF Live, Pid
<1>7. /\ (Live(st.proc)' <=> Live(st.proc)) => ShownVerdict' = ShownVerdict
      /\ ~Live(st.proc)' =>
           \/ ShownVerdict' = ShownVerdict
           \/ ShownVerdict = "up" /\ ShownVerdict' = "pending" /\ Live(st.proc)
  BY <1>2, VerdictKept DEF SameVerdict, SameVersions
<1>8. \/ ShownVerdict' = ShownVerdict
      \/ ShownVerdict = "up" /\ ShownVerdict' = "pending" /\ Live(p)
  BY <1>5, <1>6, <1>7
<1> QED BY <1>1, <1>2, <1>3, <1>8, Kills

----------------------------------------------------------------------------
(* Decisions, and orders *)

\* A process is restarted on the bytes ordered, which have no verdict.
LEMMA RestartKept ==
  ASSUME Attended, Attended', restartInWindow \/ restart, UNCHANGED <<desired, generation>>
  PROVE  Kept
<1>1. Inv /\ Carried(current) /\ st \in StrategyState
  BY StType DEF Attended, PatientInv
<1>2. Restarted(st') /\ deploys' = deploys
  BY <1>1, KeepingDecided DEF restartInWindow, restart, Quiet
<1>3. Deployed' = Deployed /\ Order' = Order
  BY <1>2 DEF Deployed, Ctx, Order
<1>4. desired # None /\ ~desired.stopped /\ Matches /\ st.proc = 0 /\ Promise!Wanted
  BY <1>1, <1>2, OrderIs DEF Restarted, Alike
<1>5. ShownVerdict = "pending"
  <2>1. CASE st.inflight # None
    BY <2>1, InflightPends
  <2>2. CASE st.inflight = None
    <3>1. ~Terminal(st)
      BY <1>2, <2>2 DEF Restarted
    <3>2. ~Live(st.proc)
      BY <1>1, <1>4, BooksTypes DEF Live
    <3> QED BY <1>4, <2>2, <3>1, <3>2 DEF ShownVerdict, Terminal
  <2> QED BY <2>1, <2>2
<1>6. PICK s \in StrategyState, hc \in BOOLEAN : startProcess(s, hc) /\ s.proc = 0
  <2>1. restartInWindow => startProcess(st, TRUE)
    BY DEF restartInWindow
  <2>2. restart => startProcess(Relabelled(st), st.phase = "STOPPED")
    BY DEF restart
  <2>3. Relabelled(st) \in StrategyState /\ Relabelled(st).proc = st.proc
    BY <1>1, <1>4, RelabelledType DEF StrategyState, Relabelled
  <2> QED BY <1>1, <1>4, <2>1, <2>2, <2>3
<1>7. CASE procs' = procs
  BY <1>3, <1>5, <1>7, Says
<1>8. CASE procs' = Append(procs, NewProc(0))
  <2>1. NewProc(0).alive /\ NewProc(0).art = current
    BY DEF NewProc
  <2>2. current # None
    BY <1>1, <1>4, StType DEF Matches, versionMatches
  <2>3. NewProc(0).art.digest \in Deployed
    BY <1>1, <2>1, <2>2 DEF Carried, Deployed
  <2>4. Promise!OneMore /\ Copies = {}
    BY <1>1, <1>8, <2>1, <2>3, Appends
  <2>5. procs' # procs
    <3>1. Len(procs') = Len(procs) + 1 /\ Len(procs) \in Nat
      BY <1>1, <1>8, BooksTypes
    <3> QED BY <3>1
  <2>6. st'.proc = Len(procs) + 1 /\ Len(procs) \in Nat
    BY <1>1, <1>6, <2>5, StartFrame, BooksTypes
  <2>7. st'.phase # "FAILED"
    BY <1>2, <2>6 DEF Restarted
  <2>8. Matches'
    BY <1>2 DEF Restarted, Alike, Matches, versionMatches
  <2>9. ShownVerdict' \in {"pending", "up"}
    BY <1>4, <2>7, <2>8 DEF ShownVerdict
  <2>10. Promise!Start
    BY <1>3, <1>4, <1>5, <2>4, <2>9 DEF Promise!Start
  <2> QED BY <2>10 DEF Kept, Promise!Next
<1> QED BY <1>6, <1>7, <1>8 DEF startProcess

LEMMA BeginKept ==
  ASSUME Attended, Attended', Reconcile, beginDeploy
  PROVE  Kept
<1>1. Inv /\ UNCHANGED <<desired, generation, procs>>
  BY DEF Attended, Reconcile, beginDeploy
<1>2. desired # None /\ ~desired.stopped /\ Free /\ ~Matches /\ ~SkipsBadVersion(st)
  BY DEF beginDeploy, Free
<1>3. Deploying(st')
  <2>1. ~(st' = st /\ reconcileWaits)
    BY <1>2 DEF reconcileWaits, Free
  <2> QED BY <1>1, <1>2, <2>1, ReconcileDecided
          DEF Decision, Retired, Halted, Restarted, Steady, Alike
<1>4. ShownVerdict = "pending"
  BY <1>2 DEF ShownVerdict, Free, Terminal
<1>5. ShownVerdict' = "pending"
  BY <1>1, <1>2, <1>3 DEF ShownVerdict, Deploying
<1>6. Deployed' = Deployed \cup {desired.art.digest}
  <2> DEFINE d == [pc |-> "announce", cancelled |-> FALSE, late |-> FALSE, art |-> desired.art,
                   cfg |-> desired.cfg, capture |-> desired.capture, old |-> st.proc,
                   gen |-> generation]
  <2>1. deploys' = Append(deploys, d) /\ d.art = desired.art
    BY DEF beginDeploy
  <2> HIDE DEF d
  <2>2. /\ Len(deploys') = Len(deploys) + 1 /\ deploys'[Len(deploys) + 1] = d
        /\ \A i \in Ctx : deploys'[i] = deploys[i] /\ i \in Ctx'
        /\ \A i \in Ctx' : i \in Ctx \/ i = Len(deploys) + 1
        /\ Len(deploys) + 1 \in Ctx'
    BY <1>1, <2>1, BooksTypes DEF Ctx
  <2> QED BY <2>1, <2>2 DEF Deployed
<1>7. Promise!Wanted /\ Order.bytes = desired.art.digest /\ Copies' = Copies /\ Order' = Order
  BY <1>1, <1>2, OrderIs DEF Copies, Pid, Order
<1>8. Promise!Begin
  BY <1>1, <1>4, <1>5, <1>6, <1>7 DEF Promise!Begin
<1> QED BY <1>8 DEF Kept, Promise!Next

\* Retiring and halting: the verdict of a halt, once given, stays.
LEMMA HaltKept ==
  ASSUME Attended, Attended', retireStrategy \/ reconcileStopped, UNCHANGED <<desired, generation>>
  PROVE  Kept
<1>1. Inv /\ StoppedRests(st) /\ Waited /\ OnOrder(st)
  BY DEF Attended, PatientInv, TriedInv
<1>2. st.inflight = None /\ procs' = procs
  BY <1>1 DEF OnOrder, retireStrategy, reconcileStopped
<1>3. Deployed' = Deployed
  <2>1. deploys' = deploys
    BY <1>2 DEF retireStrategy, reconcileStopped, WithCancel
  <2> QED BY <2>1 DEF Deployed, Ctx
<1>4. CASE retireStrategy
  <2>1. ShownVerdict = "pending"
    BY <1>4 DEF retireStrategy, ShownVerdict
  <2> QED BY <1>2, <1>3, <2>1, Says
<1>5. CASE reconcileStopped
  <2>1. desired # None /\ desired.stopped /\ Halted(st')
    BY <1>1, <1>5, HaltDecided DEF reconcileStopped, Retired
  <2>2. ShownVerdict = "pending" \/ st.phase = "STOPPED"
    BY <2>1 DEF ShownVerdict
  <2>3. st.phase = "STOPPED" => st'.phase = "STOPPED"
    BY <1>1, <2>1 DEF StoppedRests, Halted
  <2>4. ShownVerdict = "pending" \/ ShownVerdict' = ShownVerdict
    BY <2>1, <2>2, <2>3 DEF ShownVerdict
  <2> QED BY <1>2, <1>3, <2>4, Says
<1> QED BY <1>4, <1>5

\* What is up is kept up.
LEMMA SteadyKept ==
  ASSUME Attended, Attended', steadyState \/ drainForMode, UNCHANGED <<desired, generation>>
  PROVE  Kept
<1>1. Inv
  BY DEF Attended
<1>2. procs' = procs /\ deploys' = deploys /\ Steady(st')
  BY <1>1, KeepingDecided DEF steadyState, drainForMode, Quiet
<1>3. Deployed' = Deployed
  BY <1>2 DEF Deployed, Ctx
<1>4. /\ desired # None /\ ~desired.stopped /\ st.inflight = None /\ ~Terminal(st) /\ Matches
      /\ st'.inflight = None /\ Matches' /\ st'.phase \notin {"FAILED", "HEALTH_CHECKING"}
  BY <1>2 DEF Steady, Free, Alike, Matches, versionMatches
<1>5. Live(st.proc)' <=> Live(st.proc)
  BY <1>2 DEF Steady, Live, Pid
<1>6. ShownVerdict = "pending" \/ ShownVerdict' = ShownVerdict
  BY <1>4, <1>5 DEF ShownVerdict, Terminal
<1> QED BY <1>2, <1>3, <1>6, Says

LEMMA ReconcileKept ==
  ASSUME Attended, Attended', Reconcile
  PROVE  Kept
<1>1. UNCHANGED <<desired, generation>>
  BY DEF Reconcile
<1>2. CASE reconcileWaits
  <2>1. UNCHANGED <<st, deploys, procs>>
    BY <1>2 DEF reconcileWaits
  <2>2. desired = None => ~known /\ ~known'
    BY <1>2 DEF reconcileWaits, Free
  <2>3. Deployed' = Deployed /\ ShownVerdict' = ShownVerdict
    BY <1>1, <2>1, <2>2 DEF Deployed, Ctx, ShownVerdict, Matches, SkipsBadVersion, Live, Pid
  <2> QED BY <1>1, <2>1, <2>3, Says
<1> QED BY <1>1, <1>2, HaltKept, RestartKept, SteadyKept, BeginKept DEF Reconcile

LEMMA OrderWants == Inv => Order \in Promise!Wants
BY OrderIs

\* An order: it is answered at once only by what is so already.
LEMMA AskKept ==
  ASSUME Attended, Attended', applyDesired
  PROVE  Kept
<1>1. Inv /\ Timely(st) /\ Awaits /\ Waited
  BY DEF Attended, TriedInv
<1>2. st.inflight = None /\ generation # cpGen /\ generation' = cpGen /\ UNCHANGED procs
  BY <1>1 DEF applyDesired, Awaits, envVars
<1>3. st' = st /\ deploys' = deploys
  BY <1>2 DEF applyDesired, Withdraws
<1>4. generation' > generation /\ st.failedAtGen < generation'
  <2>1. generation \in Nat /\ cpGen \in Nat /\ st.failedAtGen \in Nat
    BY <1>1 DEF Inv, TypeOK, StrategyState
  <2> QED BY <1>1, <1>2, <2>1 DEF Timely
<1>5. ShownVerdict' # "failed"
  <2>1. st'.failedAtGen # generation'
    <3>1. generation' \in Nat /\ st.failedAtGen \in Nat
      BY <1>1, <1>2 DEF Inv, TypeOK, StrategyState
    <3> QED BY <1>3, <1>4, <3>1
  <2> QED BY <2>1 DEF ShownVerdict
<1>6. Deployed' = Deployed /\ Copies' = Copies
  BY <1>2, <1>3 DEF Deployed, Ctx, Copies, Pid
<1>7. Order' \in Promise!Wants
  <2>1. Inv'
    BY NextFits
  <2>2. (Order \in Promise!Wants)'
    BY <2>1, OrderWants, PTL
  <2> QED BY <2>2 DEF Promise!Wants
<1>8. Promise!Ask
  BY <1>4, <1>5, <1>6, <1>7, NextFits DEF Promise!Ask
<1> QED BY <1>8 DEF Kept, Promise!Next

----------------------------------------------------------------------------
(* The agent implements Supervision *)

LEMMA StepKept ==
  ASSUME MaxRestarts = 0, Attended, [Next]_vars
  PROVE  Kept
<1>1. Attended'
  BY AttendedNext
<1>2. CASE applyDesired \/ Reconcile
  BY <1>1, <1>2, AskKept, ReconcileKept
<1>3. CASE loop = "select" /\ Hears /\ Heard(st') /\ UNCHANGED <<desired, generation>>
  BY <1>1, <1>3, HearsDo, SparedKept, RollsBackKept
<1>4. CASE \/ \E i \in Ctx : WorkerStep(i)
           \/ \E p \in Pid : ProcessExits(p) \/ DrainDone(p)
  BY <1>1, <1>4, WorkerKept, DeathKept
<1>5. CASE /\ Undisturbed(st') /\ UNCHANGED <<deploys, workerCh, procs, current, known>>
           /\ UNCHANGED <<desired, generation>>
  <2>1. Deployed' = Deployed
    BY <1>5 DEF Deployed, Ctx
  <2>2. Live(st.proc)' <=> Live(st.proc)
    BY <1>5 DEF Undisturbed, Live, Pid
  <2>3. ShownVerdict' = ShownVerdict
    BY <1>5, <2>2, VerdictKept DEF Undisturbed
  <2> QED BY <1>1, <1>5, <2>1, <2>3, Says
<1> QED BY <1>2, <1>3, <1>4, <1>5, StepsUp

LEMMA InitKept == Init => Promise!Init
BY DEF Init, Promise!Init, Order, ShownVerdict, Deployed, Copies, Ctx, Pid

\* An agent that stays up and a patient operator keep what Supervision promises:
\* workers, rollbacks, exits, restarts of the process and verdicts together never
\* run two copies, start what was not deployed, deploy what was not ordered, or go
\* on after the verdict on an order (reconciler.go, deploy.go, process.go).
THEOREM PromiseKept ==
  ASSUME Patient, MaxRestarts = 0
  PROVE  Spec => KeepsPromise
<1>1. Init => Attended
  BY AttendedInit
<1>2. Attended /\ [Next]_vars => Attended'
  BY AttendedNext
<1>3. Attended /\ [Next]_vars => [Promise!Next]_(Promise!vars)
  BY StepKept DEF Kept
<1> QED BY <1>1, <1>2, <1>3, InitKept, PTL DEF Spec, KeepsPromise, Promise!Spec

\* In particular two processes of the strategy never live at once, whatever the
\* workers, the drains and the main loop do: the new one is started when the old one
\* is gone (deploy.go:91, gracefulStop before Driver.Start; reconciler.go's restart
\* only without a process).
THEOREM NeverTwoCopies ==
  ASSUME Patient, MaxRestarts = 0
  PROVE  Spec => []Single
<1>1. Init => Attended
  BY AttendedInit
<1>2. Attended /\ [Next]_vars => Attended'
  BY AttendedNext
<1> QED BY <1>1, <1>2, OneLives, PTL DEF Spec

=============================================================================
