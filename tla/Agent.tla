------------------------------- MODULE Agent -------------------------------
(***************************************************************************)
(* The agent's deploy and supervision state machine for ONE strategy       *)
(* (internal/agent/reconciler).  A single main loop owns the strategy      *)
(* record st; deploy workers, exit watchers, drain goroutines and health   *)
(* probes run beside it and talk to it through channels.  The control      *)
(* plane, the strategy process and the disk are the environment.           *)
(*                                                                         *)
(* The main loop's iteration is three steps, as in Run: serve one event,   *)
(* reconcile, persist the supervision file.  The goroutines interleave     *)
(* between them, and the agent may die between any two.                    *)
(*                                                                         *)
(* The strategy mounts no volume and no shared file and its slot is not    *)
(* being reaped, so their gates (awaitSharedReady, awaitVolumeReady,       *)
(* volumeWriterConflictErr, reaping) are open.                             *)
(***************************************************************************)
EXTENDS Naturals, Sequences, FiniteSets

CONSTANTS
  Artifacts,            \* artifact references: [digest, version]
  Configs,              \* config digests
  None,                 \* a nil pointer: no artifact, config, deploy, spec
  History,              \* History[g]: the specs the control plane may hold at generation g
  AutoRollback,         \* DeployPolicy.enable_auto_rollback
  HasProbe,             \* the spec declares a readiness endpoint
  MaxCrashesInWindow,   \* DeployPolicy.max_crashes_in_window
  Faults,               \* the kinds of fault this instance may see
  MaxFaults,            \* bound: how many of them
  MaxRestarts,          \* bound: agent shutdowns and crashes
  Patient               \* TRUE: the operator pushes nothing before the verdict on the last change

\* "exit" is the process ending on its own, "cron" a due RESTART schedule: the
\* events nobody ordered, which share the faults' budget.
FaultKinds == {"download", "verify", "switch", "build", "start", "exit", "cron"}

Phases == {"PENDING", "DOWNLOADING", "VERIFYING", "DRAINING", "SWITCHING", "STARTING",
           "HEALTH_CHECKING", "HEALTHY", "FAILED", "ROLLED_BACK", "STOPPED"}

MaybeArtifact == Artifacts \cup {None}
MaybeConfig   == Configs \cup {None}
Digests  == {a.digest : a \in Artifacts}
Versions == {a.version : a \in Artifacts}
\* An assignment: capture stands for capture_stdio and oci_host_pid, the two
\* modes a running process can only change by being restarted.
Specs == [art : Artifacts, cfg : MaybeConfig, capture : BOOLEAN, stopped : BOOLEAN]
MaxGen == Len(History)
\* What an assignment orders, as Supervision puts it.
Orders == [bytes : Digests, halted : BOOLEAN]
\* A deploy in flight.
Inflight == [ctx : Nat, art : Artifacts, cfg : MaybeConfig]

ASSUME AgentAssumption ==
  /\ None \notin Artifacts \cup Configs \cup Specs \cup Versions \cup Inflight \cup Orders
  /\ \A a \in Artifacts : a = [digest |-> a.digest, version |-> a.version]
  /\ History \in Seq(SUBSET (Specs \cup {None}))
  /\ AutoRollback \in BOOLEAN /\ HasProbe \in BOOLEAN /\ Patient \in BOOLEAN
  /\ MaxCrashesInWindow \in Nat /\ MaxFaults \in Nat /\ MaxRestarts \in Nat
  /\ Faults \subseteq FaultKinds

VARIABLES
  cpGen, cpSpec,        \* the control plane's machine generation and assignment
  loop,                 \* where the main loop is: select, reconcile, persist, or down
  desired, generation,  \* the snapshot the agent works from
  known, st,            \* is the strategy in r.actual, and its strategyState
  observedGenA,         \* the generation stamped on heartbeats
  deploys,              \* every runDeploy goroutine begun, by context number
  workerCh,             \* worker events not served yet
  procs,                \* every process started, by pid
  watched,              \* pids whose exit a watcher of this agent will deliver
  draining,             \* pids a spawnDrain goroutine is stopping
  probing,              \* pids a readiness probe is running against
  current,              \* the release the `current` symlink points at
  file,                 \* the supervision file
  faults, restarts      \* budget spent

cpVars   == <<cpGen, cpSpec>>
envVars  == <<procs, watched, draining, probing, current>>
vars == <<cpGen, cpSpec, loop, desired, generation, known, st, observedGenA, deploys, workerCh,
          procs, watched, draining, probing, current, file, faults, restarts>>

----------------------------------------------------------------------------
(* State records *)

NewState ==
  [phase |-> "PENDING", running |-> None, runCfg |-> None, prev |-> None, prevCfg |-> None,
   proc |-> 0, inflight |-> None, crashes |-> 0, blocked |-> FALSE, lastBad |-> None,
   failedAtGen |-> 0, observedGen |-> 0, stopping |-> FALSE, probing |-> FALSE,
   windowOver |-> TRUE, capture |-> FALSE]

Ctx == 1..Len(deploys)
Pid == 1..Len(procs)
Live(p) == p \in Pid /\ procs[p].alive

\* A fault of kind k happens: allowed by the instance and within the budget.
Fault(k) == k \in Faults /\ faults < MaxFaults /\ faults' = faults + 1

\* "Same bytes": artifact and config digests agree.
versionMatches(spec, s) ==
  /\ s.running # None
  /\ s.running.digest = spec.art.digest
  /\ s.runCfg = spec.cfg

Matches == desired # None /\ versionMatches(desired, st)

\* (seeded fault: a rolled-back version is pulled back up)
SkipsBadVersion_Never(s) == s.lastBad # None /\ desired = None

SkipsBadVersion(s) == s.lastBad # None /\ desired.art.version = s.lastBad

\* Worker i is past its last look at its context, and the main loop has not
\* heard of the process it starts.
Committed(i) ==
  \/ deploys[i].pc \in {"switch", "start", "report"}
  \/ \E k \in 1..Len(workerCh) : workerCh[k].ctx = i /\ workerCh[k].phase = "HEALTH_CHECKING"

\* (seeded fault: the context is dropped without being cancelled)
WithCancel_Leaked(s) == deploys

\* The deploys after s cancelled the context of its in-flight deploy; late is
\* history, read by the properties only.
WithCancel(s) ==
  LET i == s.inflight.ctx IN
  IF s.inflight = None THEN deploys
  ELSE [deploys EXCEPT ![i] = [deploys[i] EXCEPT !.cancelled = TRUE,
                                                 !.late = deploys[i].late \/ Committed(i)]]

Killed(p) == IF p = 0 THEN procs ELSE [procs EXCEPT ![p].alive = FALSE]

\* Driver.Start runs whatever `current` points at; ctx is the deploy that
\* started it, 0 for the main loop.
NewProc(ctx) == [alive |-> TRUE, art |-> current, ctx |-> ctx]

\* installProcess: the handle, its modes and an exit watcher.
Install(s, p, capture) == [s EXCEPT !.proc = p, !.stopping = FALSE, !.capture = capture]

----------------------------------------------------------------------------
(* The control plane *)

\* The operator saw the verdict on the last change: running, failed, rolled
\* back, halted or gone.  ROLLED_BACK may still be the verdict on an earlier
\* change, while a backoff delays the deploy of this one.
Verdict ==
  /\ loop = "select" /\ generation = cpGen /\ st.inflight = None
  /\ IF desired = None THEN ~known
     ELSE \/ st.phase \in {"HEALTHY", "STOPPED"}
          \/ st.phase = "ROLLED_BACK" /\ (Matches \/ SkipsBadVersion(st))
          \/ st.phase = "FAILED" /\ st.failedAtGen = generation

\* Every write of the assignment bumps the machine generation.
Publish ==
  /\ cpGen < MaxGen
  /\ Patient => Verdict
  /\ \E spec \in History[cpGen + 1] : cpSpec' = spec
  /\ cpGen' = cpGen + 1
  /\ UNCHANGED <<loop, desired, generation, known, st, observedGenA, deploys, workerCh, file,
                 faults, restarts, envVars>>

\* A new snapshot withdraws the in-flight deploy when the strategy is gone or
\* its artifact digest changed.
Withdraws(spec, s) ==
  /\ s.inflight # None
  /\ spec = None \/ spec.art.digest # s.inflight.art.digest

applyDesired ==
  /\ loop = "select"
  /\ generation # cpGen
  /\ generation' = cpGen
  /\ desired' = cpSpec
  /\ IF Withdraws(cpSpec, st)
     THEN deploys' = WithCancel(st) /\ st' = [st EXCEPT !.inflight = None]
     ELSE UNCHANGED <<deploys, st>>
  /\ loop' = "reconcile"
  /\ UNCHANGED <<cpVars, known, observedGenA, workerCh, file, faults, restarts, envVars>>

----------------------------------------------------------------------------
(* The deploy worker: runDeploy *)

Event(i, phase, pid) ==
  [phase |-> phase, art |-> deploys[i].art, cfg |-> deploys[i].cfg,
   capture |-> deploys[i].capture, proc |-> pid, ctx |-> i]

\* send: a cancelled worker may still get its event through.
Send(i, evs) ==
  \/ workerCh' = workerCh \o evs
  \/ deploys[i].cancelled /\ UNCHANGED workerCh

WorkerAt(i, pc, next) ==
  /\ loop # "down"
  /\ deploys[i].pc = pc
  /\ deploys' = [deploys EXCEPT ![i].pc = next]
  /\ UNCHANGED <<cpVars, loop, desired, generation, known, st, observedGenA, watched, draining,
                 probing, file, restarts>>

\* One disjunct per way out of a step; a failure reports FAILED and ends.
WorkerFails(i, pc, kind) ==
  /\ WorkerAt(i, pc, "done")
  /\ Fault(kind)
  /\ Send(i, <<Event(i, "FAILED", 0)>>)
  /\ UNCHANGED <<procs, current>>

Announce(i) ==
  /\ WorkerAt(i, "announce", IF deploys[i].cancelled THEN "done" ELSE "download")
  /\ Send(i, <<Event(i, "DOWNLOADING", 0)>>)
  /\ UNCHANGED <<procs, current, faults>>

Download(i) ==
  \/ /\ WorkerAt(i, "download", "verify")
     /\ Send(i, <<Event(i, "VERIFYING", 0)>>)
     /\ UNCHANGED <<procs, current, faults>>
  \/ WorkerFails(i, "download", "download")
  \/ /\ WorkerAt(i, "download", "done")   \* Download(ctx) gives up on a cancelled context
     /\ deploys[i].cancelled
     /\ Send(i, <<Event(i, "FAILED", 0)>>)
     /\ UNCHANGED <<procs, current, faults>>

\* Verify and checkLimits, while the old process still runs.
Verify(i) ==
  \/ /\ WorkerAt(i, "verify", "drain")
     /\ Send(i, <<Event(i, "DRAINING", 0)>>)
     /\ UNCHANGED <<procs, current, faults>>
  \/ WorkerFails(i, "verify", "verify")

\* (seeded fault: the old process is left running)
DrainOld_Skipped(i) ==
  /\ WorkerAt(i, "drain", "check")
  /\ UNCHANGED <<workerCh, procs, current, faults>>

\* gracefulStop of the process that ran when the deploy began.
DrainOld(i) ==
  /\ WorkerAt(i, "drain", "check")
  /\ procs' = Killed(deploys[i].old)
  /\ UNCHANGED <<workerCh, current, faults>>

CheckWithdrawn(i) ==
  /\ WorkerAt(i, "check", IF deploys[i].cancelled THEN "done" ELSE "switch")
  /\ IF deploys[i].cancelled THEN UNCHANGED workerCh
     ELSE workerCh' = Append(workerCh, Event(i, "SWITCHING", 0))
  /\ UNCHANGED <<procs, current, faults>>
\* (seeded fault: the new process is started on a symlink never switched)
SwitchTo_Skipped(i) ==
  /\ WorkerAt(i, "switch", "start")
  /\ UNCHANGED <<workerCh, procs, current, faults>>

SwitchTo(i) ==
  \/ /\ WorkerAt(i, "switch", "start")
     /\ current' = deploys[i].art
     /\ UNCHANGED <<workerCh, procs, faults>>
  \/ WorkerFails(i, "switch", "switch")

\* buildStartSpec, then Driver.Start: the worker carries the handle back.
StartNew(i) ==
  \/ /\ WorkerAt(i, "start", "report")
     /\ procs' = Append(procs, NewProc(i))
     /\ UNCHANGED <<workerCh, current, faults>>
  \/ WorkerFails(i, "start", "build")
  \/ /\ WorkerAt(i, "start", "done")
     /\ Fault("start")
     /\ Send(i, <<Event(i, "ROLLING_BACK", 0)>>)
     /\ UNCHANGED <<procs, current>>

ReportStarted(i) ==
  /\ WorkerAt(i, "report", "done")
  /\ \E p \in Pid : procs[p].ctx = i /\ Send(i, <<Event(i, "HEALTH_CHECKING", p)>>)
  /\ UNCHANGED <<procs, current, faults>>

WorkerStep(i) ==
  \/ Announce(i) \/ Download(i) \/ Verify(i) \/ DrainOld(i)
  \/ CheckWithdrawn(i) \/ SwitchTo(i) \/ StartNew(i) \/ ReportStarted(i)

----------------------------------------------------------------------------
(* Rollback and health, shared by several events *)

\* beginRollback on record s with exit watchers w, from the main loop: stop the failed process, point
\* `current` at the previous release and start it.
beginRollback(s, w) ==
  LET bad    == IF s.inflight # None THEN s.inflight.art.version ELSE desired.art.version
      bare   == [s EXCEPT !.inflight = None, !.lastBad = bad, !.proc = 0]
      back   == [bare EXCEPT !.running = s.prev, !.runCfg = s.prevCfg]
      failed(r) == [r EXCEPT !.phase = "FAILED", !.failedAtGen = generation]
      pid    == Len(procs) + 1
  IN /\ deploys' = WithCancel(s)
     /\ \/ /\ s.prev = None
           /\ st' = failed(bare)
           /\ procs' = Killed(s.proc)
           /\ watched' = w
           /\ UNCHANGED <<current, faults>>
        \/ /\ s.prev # None
           /\ Fault("switch")
           /\ st' = failed(bare)
           /\ procs' = Killed(s.proc)
           /\ watched' = w
           /\ UNCHANGED current
        \/ /\ s.prev # None
           /\ Fault("build") \/ Fault("start")
           /\ current' = s.prev
           /\ st' = failed(back)
           /\ procs' = Killed(s.proc)
           /\ watched' = w
        \/ /\ s.prev # None
           /\ current' = s.prev
           /\ procs' = Append(Killed(s.proc), [alive |-> TRUE, art |-> s.prev, ctx |-> 0])
           /\ st' = [Install(back, pid, desired.capture)
                      EXCEPT !.phase = "ROLLED_BACK", !.crashes = 0, !.blocked = FALSE]
           /\ watched' = w \cup {pid}
           /\ UNCHANGED faults
\* (seeded fault: promotion leaves the deploy in flight)
MarkedHealthy_StillInflight(s) ==
  [s EXCEPT !.phase = "HEALTHY", !.crashes = 0, !.blocked = FALSE, !.observedGen = generation]

MarkedHealthy(s) ==
  [s EXCEPT !.phase = "HEALTHY", !.crashes = 0, !.blocked = FALSE, !.inflight = None,
            !.observedGen = generation]

\* failHealthWindow: FAILED for this generation, the process keeps running.
failHealthWindow ==
  /\ st' = [st EXCEPT !.phase = "FAILED", !.failedAtGen = generation, !.inflight = None]
  /\ deploys' = WithCancel(st)

----------------------------------------------------------------------------
(* Events served by the main loop *)

Serve == loop = "select" /\ loop' = "reconcile"
ServeRest == UNCHANGED <<cpVars, desired, generation, observedGenA, file, restarts>>

\* More crashes in the health window than the policy allows.
CrashLoop(s) ==
  /\ s.phase = "HEALTH_CHECKING"
  /\ s.crashes > MaxCrashesInWindow
  /\ AutoRollback

\* (seeded fault: a dead process keeps its phase)
Demoted_Never(s) == s

\* HEALTHY means the desired version is running: a dead process is demoted.
Demoted(s) == IF s.phase = "HEALTHY" THEN [s EXCEPT !.phase = "STARTING"] ELSE s

\* Whether the process outlived startsecs is the environment's choice.
UnexpectedExit(s, w) ==
  LET crashed == [s EXCEPT !.crashes = @ + 1, !.blocked = TRUE]
  IN \/ CrashLoop(crashed) /\ beginRollback(crashed, w)
     \/ /\ \/ ~CrashLoop(crashed) /\ st' = Demoted(crashed)
           \/ st' = Demoted([s EXCEPT !.crashes = 0, !.blocked = FALSE])
        /\ watched' = w
        /\ UNCHANGED <<deploys, procs, current, faults>>

handleExit(p) ==
  /\ Serve
  /\ p \in watched /\ ~procs[p].alive
  /\ IF ~known \/ st.proc # p
     THEN /\ watched' = watched \ {p}   \* stale notification
          /\ UNCHANGED <<st, known, deploys, procs, current, faults>>
     ELSE LET gone == [st EXCEPT !.proc = 0]
          IN \/ /\ st.stopping \/ desired = None   \* expected, or being retired
                /\ known' = (desired # None \/ ~st.stopping)
                /\ st' = IF known' THEN [gone EXCEPT !.stopping = FALSE] ELSE NewState
                /\ watched' = watched \ {p}
                /\ UNCHANGED <<deploys, procs, current, faults>>
             \/ /\ ~st.stopping /\ desired # None
                /\ UnexpectedExit(gone, watched \ {p})
                /\ UNCHANGED known
  /\ ServeRest /\ UNCHANGED <<workerCh, draining, probing>>

\* (seeded fault: events are matched to the deploy by the desired config too)
Heeded_ByConfig(ev) ==
  /\ known /\ st.inflight # None /\ desired # None
  /\ ev.art.digest = st.inflight.art.digest /\ ev.cfg = desired.cfg

\* Events of a withdrawn or superseded deploy are dropped, told by the digest.
Heeded(ev) ==
  /\ known /\ st.inflight # None
  /\ ev.art.digest = st.inflight.art.digest

applyWorkerEvent ==
  LET ev == Head(workerCh)
      progress == [st EXCEPT !.phase = ev.phase]
  IN /\ Serve
     /\ workerCh # <<>>
     /\ workerCh' = Tail(workerCh)
     /\ \/ /\ ~Heeded(ev)
           /\ UNCHANGED <<st, deploys, procs, current, watched, faults>>
        \/ /\ Heeded(ev)
           /\ ev.phase \in {"DOWNLOADING", "VERIFYING", "SWITCHING", "DRAINING"}
           /\ st' = [progress EXCEPT !.stopping = @ \/ ev.phase = "DRAINING"]
           /\ UNCHANGED <<deploys, procs, current, watched, faults>>
        \/ /\ Heeded(ev)
           /\ ev.phase = "HEALTH_CHECKING"
           /\ st' = [Install(progress, ev.proc, ev.capture)
                      EXCEPT !.running = ev.art, !.runCfg = ev.cfg, !.windowOver = FALSE,
                             !.crashes = 0, !.blocked = FALSE]
           /\ watched' = watched \cup {ev.proc}
           /\ UNCHANGED <<deploys, procs, current, faults>>
        \/ /\ Heeded(ev)
           /\ ev.phase = "ROLLING_BACK"
           /\ beginRollback(st, watched)
        \/ /\ Heeded(ev)
           /\ ev.phase = "FAILED"
           /\ st' = [progress EXCEPT !.stopping = FALSE, !.failedAtGen = generation,
                                     !.inflight = None]
           /\ UNCHANGED <<deploys, procs, current, watched, faults>>
     /\ ServeRest /\ UNCHANGED <<known, draining, probing>>

\* probeReadiness: one probe at a time per strategy record.
Probe == probing' = IF st.probing THEN probing ELSE probing \cup {st.proc}

\* (seeded fault: the drain does not announce the exit it causes)
spawnDrain_Unmarked(s) ==
  /\ st' = [s EXCEPT !.phase = "DRAINING"]
  /\ draining' = draining \cup {s.proc}

\* spawnDrain: the exit is now expected.
spawnDrain(s) ==
  /\ st' = [s EXCEPT !.stopping = TRUE, !.phase = "DRAINING"]
  /\ draining' = draining \cup {s.proc}

cronCanRun(s) ==
  /\ desired # None /\ known
  /\ s.inflight = None /\ ~s.stopping
  /\ s.phase = "HEALTHY" /\ s.proc # 0

\* tickCron, on the record s the tick's first half left: a due restart drains
\* the process, and reconcile starts it again once it is gone.
tickCron(s) ==
  \/ st' = s /\ UNCHANGED <<draining, faults>>
  \/ cronCanRun(s) /\ Fault("cron") /\ spawnDrain(s)

\* hasReadinessProbe: a strategy no longer desired has none.
hasReadinessProbe == HasProbe /\ desired # None

WindowRollsBack == AutoRollback /\ desired # None /\ st.inflight # None

Tick ==
  /\ Serve
  /\ LET watching == known /\ st.proc # 0
         checking == watching /\ st.phase = "HEALTH_CHECKING"
         probes   == \/ checking /\ ~st.windowOver
                     \/ watching /\ st.phase = "HEALTHY" /\ hasReadinessProbe
     IN \/ /\ checking /\ st.windowOver /\ WindowRollsBack
           /\ beginRollback(st, watched)
           /\ UNCHANGED <<probing, draining>>
        \/ /\ checking /\ st.windowOver /\ ~WindowRollsBack /\ hasReadinessProbe
           /\ failHealthWindow
           /\ UNCHANGED <<procs, current, watched, faults, probing, draining>>
        \/ /\ checking /\ st.windowOver /\ ~WindowRollsBack /\ ~hasReadinessProbe
           /\ tickCron(MarkedHealthy(st))
           /\ UNCHANGED <<deploys, procs, current, watched, probing>>
        \/ /\ probes
           /\ Probe /\ tickCron([st EXCEPT !.probing = TRUE])
           /\ UNCHANGED <<deploys, procs, current, watched>>
        \/ /\ ~probes /\ ~(checking /\ st.windowOver)
           /\ tickCron(st)
           /\ UNCHANGED <<deploys, procs, current, watched, probing>>
  /\ ServeRest /\ UNCHANGED <<known, workerCh>>

\* A strategy without an endpoint is ready once live.
applyHealthResult(p) ==
  /\ Serve
  /\ p \in probing
  /\ probing' = probing \ {p}
  /\ \E ready \in (IF HasProbe THEN BOOLEAN ELSE {TRUE}) :
       LET s == [st EXCEPT !.probing = FALSE]
       IN st' = IF ~known THEN st
                ELSE IF ready /\ s.phase = "HEALTH_CHECKING" THEN MarkedHealthy(s) ELSE s
  /\ ServeRest
  /\ UNCHANGED <<known, deploys, workerCh, procs, current, watched, faults, draining>>

----------------------------------------------------------------------------
(* reconcile: one branch per way through reconcileOne and retireStrategy *)

\* (seeded faults: a failed deploy is tried again at once; or never again)
Terminal_Never(s)   == s.failedAtGen > MaxGen
Terminal_Forever(s) == s.phase = "FAILED"

\* Anything that stops a start or a deploy before the version is looked at.
\* FAILED is terminal for the generation that failed.
Terminal(s) == s.phase = "FAILED" /\ s.failedAtGen = generation

Free ==
  /\ desired # None /\ ~desired.stopped
  /\ ~st.blocked
  /\ st.inflight = None
  /\ ~Terminal(st)

\* promoteRunningLabels: same digests, possibly a new version label.
Relabelled(s) == [s EXCEPT !.running = desired.art]

\* startProcess in the main loop, on whatever `current` points at.
startProcess(s, healthCheck) ==
  \/ /\ procs' = Append(procs, NewProc(0))
     /\ watched' = watched \cup {Len(procs) + 1}
     /\ st' = [Install(s, Len(procs) + 1, desired.capture)
                EXCEPT !.phase = IF healthCheck THEN "HEALTH_CHECKING" ELSE "HEALTHY",
                       !.windowOver = IF healthCheck THEN FALSE ELSE @,
                       !.observedGen = IF healthCheck THEN @ ELSE generation]
     /\ UNCHANGED faults
  \/ /\ Fault("build") \/ Fault("start")
     /\ st' = [s EXCEPT !.phase = "FAILED", !.crashes = @ + 1, !.blocked = TRUE]
     /\ UNCHANGED <<procs, watched>>

retireStrategy ==
  /\ desired = None /\ known
  /\ deploys' = WithCancel(st)
  /\ LET s == [st EXCEPT !.inflight = None]
     IN \/ s.proc = 0 /\ st' = NewState /\ known' = FALSE /\ UNCHANGED draining
        \/ s.proc # 0 /\ s.stopping /\ st' = s /\ UNCHANGED <<known, draining>>
        \/ s.proc # 0 /\ ~s.stopping /\ spawnDrain(s) /\ UNCHANGED known
  /\ UNCHANGED <<procs, watched, faults>>

reconcileStopped ==
  /\ desired # None /\ desired.stopped /\ ~st.blocked
  /\ deploys' = WithCancel(st)
  /\ LET s == [st EXCEPT !.inflight = None]
     IN \/ /\ s.proc = 0
           /\ st' = [s EXCEPT !.phase = "STOPPED", !.stopping = FALSE, !.observedGen = generation]
           /\ UNCHANGED draining
        \/ s.proc # 0 /\ s.stopping /\ st' = s /\ UNCHANGED draining
        \/ s.proc # 0 /\ ~s.stopping /\ spawnDrain(s)
  /\ known' = TRUE
  /\ UNCHANGED <<procs, watched, faults>>

Quiet == known' = TRUE /\ UNCHANGED deploys

\* A new version that crash-exits before it is promoted is restarted here.
restartInWindow ==
  /\ desired # None /\ ~desired.stopped /\ ~st.blocked
  /\ st.inflight # None
  /\ st.phase = "HEALTH_CHECKING" /\ st.proc = 0 /\ Matches
  /\ startProcess(st, TRUE)
  /\ Quiet /\ UNCHANGED draining

ModeFlipped(s) == s.proc # 0 /\ ~s.stopping /\ s.capture # desired.capture

drainForMode ==
  /\ Free /\ Matches /\ ModeFlipped(st)
  /\ spawnDrain(st)
  /\ Quiet /\ UNCHANGED <<procs, watched, faults>>

steadyState ==
  /\ Free /\ Matches /\ ~ModeFlipped(st)
  /\ st.phase = "HEALTHY" /\ st.proc # 0
  /\ st' = [Relabelled(st) EXCEPT !.observedGen = generation]
  /\ Quiet /\ UNCHANGED <<procs, watched, faults, draining>>

\* Resume re-runs the health window; a crash restart does not.
restart ==
  /\ Free /\ Matches /\ st.proc = 0
  /\ startProcess(Relabelled(st), st.phase = "STOPPED")
  /\ Quiet /\ UNCHANGED draining

beginDeploy ==
  LET i == Len(deploys) + 1 IN
  /\ Free /\ ~Matches /\ ~SkipsBadVersion(st)
  /\ st' = [st EXCEPT !.inflight = [ctx |-> i, art |-> desired.art, cfg |-> desired.cfg],
                      !.phase = "PENDING", !.prev = st.running, !.prevCfg = st.runCfg]
  /\ deploys' = Append(deploys,
       [pc |-> "announce", cancelled |-> FALSE, late |-> FALSE, art |-> desired.art,
        cfg |-> desired.cfg, capture |-> desired.capture, old |-> st.proc, gen |-> generation])
  /\ known' = TRUE
  /\ UNCHANGED <<procs, watched, faults, draining>>

\* Every early return: nothing to do, backoff, a deploy in flight, a terminal
\* failure, a version known bad, a drain not finished.
reconcileWaits ==
  /\ \/ desired = None /\ ~known
     \/ desired # None /\ st.blocked
     \/ /\ desired # None /\ ~desired.stopped /\ ~st.blocked
        /\ \/ /\ st.inflight # None
              /\ ~(st.phase = "HEALTH_CHECKING" /\ st.proc = 0 /\ Matches)
           \/ st.inflight = None /\ Terminal(st)
           \/ Free /\ ~Matches /\ SkipsBadVersion(st)
           \/ Free /\ Matches /\ ~ModeFlipped(st) /\ st.phase # "HEALTHY" /\ st.proc # 0
  /\ known' = (desired # None)
  /\ UNCHANGED <<st, deploys, procs, watched, faults, draining>>

\* recomputeObservedGeneration
Converged ==
  desired # None =>
    IF desired.stopped THEN st.phase = "STOPPED" /\ st.proc = 0
    ELSE versionMatches(desired, st) /\ st.phase = "HEALTHY" /\ st.proc # 0

Reconcile ==
  /\ loop = "reconcile" /\ loop' = "persist"
  /\ \/ retireStrategy \/ reconcileStopped \/ restartInWindow \/ drainForMode
     \/ steadyState \/ restart \/ beginDeploy \/ reconcileWaits
  /\ UNCHANGED <<cpVars, desired, generation, workerCh, probing, current, file, restarts>>
  /\ observedGenA' = IF Converged' THEN generation ELSE observedGenA

----------------------------------------------------------------------------
(* Supervision file, agent shutdown, crash and takeover *)

\* (seeded fault: the file names the desired version, not the running one)
Snapshot_Desired ==
  IF ~known \/ st.proc = 0 THEN None
  ELSE [pid |-> st.proc, phase |-> st.phase, runCfg |-> st.runCfg, prev |-> st.prev,
        running |-> IF desired = None THEN st.running ELSE desired.art,
        observedGen |-> st.observedGen, lastBad |-> st.lastBad, capture |-> st.capture]

\* Only live process identities are saved.
Snapshot ==
  IF ~known \/ st.proc = 0 THEN None
  ELSE [pid |-> st.proc, phase |-> st.phase, running |-> st.running, runCfg |-> st.runCfg,
        prev |-> st.prev, observedGen |-> st.observedGen, lastBad |-> st.lastBad,
        capture |-> st.capture]

persistSupervision ==
  /\ loop = "persist" /\ loop' = "select"
  /\ file' = Snapshot
  /\ UNCHANGED <<cpVars, desired, generation, known, st, observedGenA, deploys, workerCh,
                 faults, restarts, envVars>>

\* Goroutines, channels and memory go; strategy processes are setsid-detached
\* and stay.
AgentGone ==
  /\ restarts < MaxRestarts /\ restarts' = restarts + 1
  /\ loop' = "down"
  /\ deploys' = [i \in Ctx |-> [deploys[i] EXCEPT !.pc = "done"]]
  /\ workerCh' = <<>> /\ watched' = {} /\ draining' = {} /\ probing' = {}
  /\ desired' = None /\ generation' = 0 /\ observedGenA' = 0
  /\ known' = FALSE /\ st' = NewState
  /\ UNCHANGED <<cpVars, procs, current, faults>>

shutdown == loop = "select" /\ file' = Snapshot /\ AgentGone
Crash    == loop # "down" /\ UNCHANGED file /\ AgentGone

\* Driver.Adopt finds the process the file names still running.
Adoptable == file # None /\ Live(file.pid)

Adopted ==
  [NewState EXCEPT !.proc = file.pid, !.phase = file.phase, !.running = file.running,
     !.runCfg = file.runCfg, !.prev = file.prev, !.observedGen = file.observedGen,
     !.lastBad = file.lastBad, !.capture = file.capture]
\* (seeded fault: takeover forgets the exit watcher)
AdoptedWatch_None == {}

AdoptedWatch == IF Adoptable THEN {file.pid} ELSE {}

rebuildActualState ==
  /\ loop = "down" /\ loop' = "select"
  /\ known' = Adoptable
  /\ st' = IF Adoptable THEN Adopted ELSE NewState
  /\ watched' = AdoptedWatch
  /\ UNCHANGED <<cpVars, desired, generation, observedGenA, deploys, workerCh, procs, draining,
                 probing, current, file, faults, restarts>>

----------------------------------------------------------------------------
(* Processes, drains and time *)

EnvRest == UNCHANGED <<cpVars, loop, desired, generation, known, observedGenA, deploys, workerCh,
                       watched, probing, current, file, restarts>>

ProcessExits(p) ==
  /\ procs[p].alive
  /\ Fault("exit")
  /\ procs' = Killed(p)
  /\ EnvRest /\ UNCHANGED <<st, draining>>

\* gracefulStop in a spawnDrain goroutine: TERM, grace, KILL.
DrainDone(p) ==
  /\ p \in draining
  /\ draining' = draining \ {p}
  /\ procs' = Killed(p)
  /\ EnvRest /\ UNCHANGED <<st, faults>>

\* Clock: the crash backoff and the health window run out.
BackoffElapses ==
  /\ st.blocked /\ st' = [st EXCEPT !.blocked = FALSE]
  /\ EnvRest /\ UNCHANGED <<procs, draining, faults>>

WindowElapses ==
  /\ ~st.windowOver /\ st' = [st EXCEPT !.windowOver = TRUE]
  /\ EnvRest /\ UNCHANGED <<procs, draining, faults>>

----------------------------------------------------------------------------

Init ==
  /\ cpGen = 0 /\ cpSpec = None
  /\ loop = "select"
  /\ desired = None /\ generation = 0
  /\ known = FALSE /\ st = NewState
  /\ observedGenA = 0
  /\ deploys = <<>> /\ workerCh = <<>>
  /\ procs = <<>> /\ watched = {} /\ draining = {} /\ probing = {}
  /\ current = None /\ file = None
  /\ faults = 0 /\ restarts = 0

Next ==
  \/ Publish \/ applyDesired
  \/ \E i \in Ctx : WorkerStep(i)
  \/ applyWorkerEvent
  \/ \E p \in Pid : handleExit(p) \/ applyHealthResult(p) \/ ProcessExits(p) \/ DrainDone(p)
  \/ Tick \/ Reconcile \/ persistSupervision
  \/ shutdown \/ Crash \/ rebuildActualState
  \/ BackoffElapses \/ WindowElapses

Spec == Init /\ [][Next]_vars

\* Goroutines are scheduled and time passes (WF).  The main loop's select picks
\* uniformly among the ready channels, so a channel that is ready again and
\* again is served (SF).  Nothing makes the control plane publish, a process
\* exit or the agent stop.  A worker takes finitely many steps and each exit or
\* result is served once, so fairness of "some worker" reaches every worker.
Fairness ==
  /\ WF_vars(\E i \in Ctx : WorkerStep(i))
  /\ WF_vars(\E p \in Pid : DrainDone(p))
  /\ SF_vars(\E p \in Pid : handleExit(p))
  /\ SF_vars(\E p \in Pid : applyHealthResult(p))
  /\ SF_vars(applyDesired) /\ SF_vars(applyWorkerEvent) /\ SF_vars(Tick)
  /\ WF_vars(Reconcile \/ persistSupervision \/ rebuildActualState)
  /\ WF_vars(BackoffElapses) /\ WF_vars(WindowElapses)

FairSpec == Spec /\ Fairness

----------------------------------------------------------------------------
(* Type invariant *)

StrategyState ==
  [phase : Phases, running : MaybeArtifact, runCfg : MaybeConfig, prev : MaybeArtifact,
   prevCfg : MaybeConfig, proc : Nat, inflight : Inflight \cup {None}, crashes : Nat,
   blocked : BOOLEAN, lastBad : Versions \cup {None}, failedAtGen : Nat, observedGen : Nat,
   stopping : BOOLEAN, probing : BOOLEAN, windowOver : BOOLEAN, capture : BOOLEAN]

WorkerPc == {"announce", "download", "verify", "drain", "check", "switch", "start", "report",
             "done"}

Deploy ==
  [pc : WorkerPc, cancelled : BOOLEAN, late : BOOLEAN, art : Artifacts, cfg : MaybeConfig,
   capture : BOOLEAN, old : Nat, gen : Nat]

WorkerEvent ==
  [phase : {"DOWNLOADING", "VERIFYING", "DRAINING", "SWITCHING", "HEALTH_CHECKING", "FAILED",
            "ROLLING_BACK"},
   art : Artifacts, cfg : MaybeConfig, capture : BOOLEAN, proc : Nat, ctx : Nat]

SupervisionEntry ==
  [pid : Nat, phase : Phases, running : MaybeArtifact, runCfg : MaybeConfig,
   prev : MaybeArtifact, observedGen : Nat, lastBad : Versions \cup {None}, capture : BOOLEAN]

Process == [alive : BOOLEAN, art : Artifacts, ctx : Nat]

\* Every variable stays in the values the code's types and the channels allow;
\* in particular a process always runs some release: nothing is started before
\* `current` first points somewhere.
TypeOK ==
  /\ cpGen \in Nat /\ cpSpec \in Specs \cup {None}
  /\ loop \in {"select", "reconcile", "persist", "down"}
  /\ desired \in Specs \cup {None} /\ generation \in Nat
  /\ known \in BOOLEAN /\ st \in StrategyState
  /\ observedGenA \in Nat
  /\ deploys \in Seq(Deploy)
  /\ workerCh \in Seq(WorkerEvent)
  /\ procs \in Seq(Process)
  /\ watched \subseteq Nat /\ draining \subseteq Nat /\ probing \subseteq Nat
  /\ current \in MaybeArtifact
  /\ file \in SupervisionEntry \cup {None}
  /\ faults \in Nat /\ restarts \in Nat

----------------------------------------------------------------------------
(* Safety *)

\* A digest is deployed again although an earlier deploy of it was called off.
\* Events are told apart by digest only (deploy.go:129), so what the first worker
\* still has to say is taken for the second one's (README, section 13).
CalledOff(i, j) ==
  i < j /\ deploys[i].cancelled /\ deploys[i].art.digest = deploys[j].art.digest

Mistakable == \E i, j \in Ctx : CalledOff(i, j)

\* A version known bad, and asked for again, is not started.
Refuses == desired # None /\ ~Matches /\ SkipsBadVersion(st)

\* At rest, HEALTHY is never advertised for a dead process (handleExit's
\* demotion), even when a probe answers after the process it asked has died: the
\* next reconcile starts something again, unless it refuses the version.
HealthyIsAlive ==
  loop = "select" /\ known /\ st.phase = "HEALTHY" => st.proc # 0 \/ Refuses

\* A reconcile with no crash backoff pending leaves the strategy FAILED only if
\* the assignment was tried, or its version is known bad: the failure of one
\* generation does not swallow the next generation's change (failedAtGen).  An
\* impatient operator may change the config of a deploy in flight, and prevCfg is
\* not in the supervision file: then only the bytes were tried.
Tried(spec) ==
  \E i \in Ctx : /\ deploys[i].art.digest = spec.art.digest
                 /\ Patient /\ restarts = 0 => deploys[i].cfg = spec.cfg

FailedWasTried ==
  [][loop = "reconcile" /\ loop' = "persist" /\ ~st.blocked
     /\ st'.phase = "FAILED" /\ st'.inflight = None /\ desired # None
     => Tried(desired) \/ SkipsBadVersion(st)]_vars

\* A generation is deployed at most once in the life of an agent: a failed or
\* rolled-back deploy is not tried again until the control plane asks for something
\* else (failedAtGen, lastBadVersion), or its digest was called off in another
\* generation.
DeployOncePerGeneration ==
  restarts = 0 => \A i, j \in Ctx : deploys[i].gen = deploys[j].gen =>
    i = j \/ \E h, k \in Ctx : CalledOff(h, k) /\ deploys[h].gen # deploys[k].gen

\* The exit of a process the agent itself is stopping is never counted as a
\* crash: stopping stays set until the drained process is gone (spawnDrain),
\* unless a deploy was begun over it, whose failure clears it (deploy.go:172).
DrainIsExpected ==
  known /\ st.proc \in draining => st.stopping \/ \E i \in Ctx : deploys[i].old = st.proc

\* A live process is supervised, even while it is being stopped, or on its way from
\* its worker to the main loop; the agent loses one only if its deploy was withdrawn
\* after the worker's last look at the context, if it took one deploy's events for
\* another's, or if the agent itself went away.
InTransit(p) ==
  /\ procs[p].ctx # 0
  /\ \/ deploys[procs[p].ctx].pc = "report"
     \/ \E k \in 1..Len(workerCh) : workerCh[k].proc = p

WithdrawnLate(p) == procs[p].ctx # 0 /\ deploys[procs[p].ctx].late

NoLostProcess ==
  Mistakable \/ restarts > 0 \/
  \A p \in Pid : procs[p].alive =>
    (known /\ st.proc = p) \/ InTransit(p) \/ WithdrawnLate(p)

\* The only worker still running on a live context is the one the strategy
\* calls in flight: every way out of a deploy cancels it or waited for its end.
OneDeployAtATime ==
  Mistakable \/
  \A i \in Ctx : deploys[i].pc # "done" /\ ~deploys[i].cancelled =>
    st.inflight # None /\ st.inflight.ctx = i

\* Whatever the agent supervises, started or adopted, has a watcher that will
\* deliver its exit: no dead process is believed running for ever.
NoExitIsMissed == known /\ st.proc # 0 => st.proc \in watched

\* runningArtifact names the bytes the supervised process really runs, across
\* switches, rollbacks, restarts of the process and of the agent; unless a worker
\* withdrawn after its last look at the context went on to move `current` under
\* the main loop, or one deploy's events were taken for another's.
Overtaken == \E i \in Ctx : deploys[i].late

RunningIsReal ==
  known /\ st.proc # 0 /\ ~Overtaken /\ ~Mistakable =>
    st.running # None /\ procs[st.proc].art.digest = st.running.digest

\* The agent stops a process it adopted only on an order it received: none
\* before the first snapshot of its incarnation (shutdown's "strategies keep
\* running", reconciler.go:1132).
DrainsOnlyOnOrder == [][\A p \in draining' \ draining : generation # 0]_vars

----------------------------------------------------------------------------
(* Liveness *)

Decided ==
  /\ generation = cpGen /\ st.inflight = None
  /\ IF desired = None THEN ~known
     ELSE IF desired.stopped THEN st.phase = "STOPPED" /\ st.proc = 0
     ELSE \/ st.phase = "HEALTHY" /\ st.proc # 0 /\ Matches
          \/ Terminal(st)
          \/ ~Matches /\ SkipsBadVersion(st)

\* The version asked for runs on from before, under the verdict on another one.
OldVerdict == Matches /\ st.proc # 0 /\ st.phase \in {"FAILED", "ROLLED_BACK"} /\ st.inflight = None

\* Once the control plane stops changing its mind, the strategy comes to rest:
\* running what was asked, halted, gone, failed for this generation, or refusing
\* a version known bad.  No wakeup is lost, and no deploy stays in flight.
EventuallySettles == <>[](Decided \/ (generation = cpGen /\ OldVerdict))

----------------------------------------------------------------------------
(* What it promises *)

\* The verdict on the order last heard, as the strategy's status shows it.
ShownVerdict ==
  IF desired = None THEN IF known THEN "pending" ELSE "gone"
  ELSE IF desired.stopped THEN IF st.phase = "STOPPED" THEN "stopped" ELSE "pending"
  ELSE IF st.inflight # None THEN "pending"
  ELSE IF st.phase = "FAILED" /\ st.failedAtGen = generation THEN "failed"
  ELSE IF ~Matches /\ SkipsBadVersion(st) THEN "refused"
  ELSE IF Matches /\ Live(st.proc) /\ st.phase # "HEALTH_CHECKING" THEN "up"
  ELSE "pending"

Order    == IF desired = None THEN None
            ELSE [bytes |-> desired.art.digest, halted |-> desired.stopped]
Deployed == {deploys[i].art.digest : i \in Ctx}
Copies   == {[pid |-> p, bytes |-> procs[p].art.digest] : p \in {q \in Pid : procs[q].alive}}

Promise == INSTANCE Supervision WITH
  Bytes <- Digests, gen <- generation, want <- Order, verdict <- ShownVerdict,
  deployed <- Deployed, copies <- Copies

\* The agent implements Supervision: workers, rollbacks, restarts and verdicts
\* together never run two copies, start what was not deployed, or go on after the
\* verdict on a generation.
KeepsPromise == Promise!Spec
=============================================================================
