# Verification of Strategon

TLA+ models of the Strategon control plane, agent and lease SDK, checked by TLC
on small instances and, where it matters most, proved by TLAPS for every
instance. Source references are to `src/`.

1. [Inventory](#1-inventory)
2. [Modules and plan](#2-modules-and-plan)
3. [Agent and Supervision](#3-agent-and-supervision)
4. [Lease](#4-lease)
5. [Orchestrator](#5-orchestrator)
6. [SharedFiles](#6-sharedfiles)
7. [Placement](#7-placement)
8. [Session](#8-session)
9. [Transfer](#9-transfer)
10. [Ingest and Delivery](#10-ingest-and-delivery)
11. [What the runs show](#11-what-the-runs-show)
12. [What is proved](#12-what-is-proved)
13. [Findings and known disagreements](#13-findings-and-known-disagreements)
14. [What is not covered](#14-what-is-not-covered)

## 1. Inventory

Strategon deploys trading strategies to machines. Operators call the human API;
the control plane stores desired assignments and streams full snapshots to one
agent per machine; the agent converges its machine to the snapshot and
supervises the strategy processes; the processes hold a fencing lease, acquired
from the control plane, while they send orders.

```
 operator --API--> assign --> store --hub--> grpcstream ==snapshots==> agent stream --> reconciler --> processes
                     ^          |  ^             ^                          |               |             |
              orchestrator <----+  +--status-----+-------status reports-----+               +-- disk      |
                                   +------------------- LeaseService <----------------------------- SDK --+
```

| component | state it keeps | operations | hard behaviour | correct when |
|---|---|---|---|---|
| agent reconciler (`internal/agent/reconciler/{reconciler,deploy,state}.go`) | per strategy: phase, running and previous artifact, process handle, in-flight deploy, crash backoff, latches | apply a snapshot, deploy, roll back, halt, restart, retire, tick | one main loop against workers, exit watchers, drains and probes over channels; cancellation; steps that fail half way | one instance of a strategy at a time; no process lost; the record names what runs; one try per generation; every change comes to a verdict |
| supervision file (`rebuild.go`, `supervisefile`) | last persisted view of the running processes | persist, rebuild with adoption | agent crash between any two steps | what is adopted is what the file says; exits of adopted processes are seen; adoption stops nothing |
| backoff and stop (`supervisor`) | crash count, not-before time, stability | record a crash, block, reset; TERM then KILL | restart racing a new generation | the crash count triggers the rollback; a drained exit is no crash |
| cron (`cron.go`, `agent/cron`) | next fire time, running action | restart, reload, script | a due restart during a deploy | a restart is an expected exit |
| health (`agent/health`) | none | readiness probe | late answers | HEALTHY only for a live process |
| lease service (`controlplane/lease`, `store/lease.go`) | lease per strategy: machine, id, expiry | Acquire, Renew, GetLease | two transactions in Renew, late and abandoned calls | never granted to two machines whose orders can overlap |
| lease SDK (`sdk/lease`) | lease id, local deadline, jump baseline | Acquire, renew loop, CheckBeforeOrder, Close | clock skew, suspension, late answers, cancelled loops | orders stop before the lease can move |
| shared files (`reconciler/shared.go`, `artifact/shared.go`) | fetches in flight, backoff per name, `<base>/shared` | fetch, cancel, link, sweep | the result of a cancelled fetch; a sweep beside a fetch; a crash with `.partial` files | what is live is complete; every file asked for lands; what is not asked for goes |
| volumes, slots (`reconciler/{volumes,slots}.go`) | volume directories, slots under deletion | create, remove, gate a deploy, reap | a volume handed on while the first process drains; a reap beside a deploy | one writer per volume; the directory of a process stays |
| agent stream client (`agent/stream`) | mailbox with the newest snapshot, out channel, transfers | connect, receive, submit, send | reconnect; full channel; a receiver that submits late | the last snapshot wins; a transfer ends with its session |
| agent stream server (`grpcstream`) | session per machine, notify channel | Connect, Notify, push, resync, SendControl | old handler ending after the new one began; coalesced wakeups; a machine read in several statements | a change reaches a connected agent; reachability is the live session's; no generation is claimed that was not reached |
| store (`controlplane/store`) | machines, assignments, generations, sets, leases, artifacts, audit | set, get, apply status, subscribe | transactions, hub notifications | generations grow; reservations exclusive |
| assign service (`assign`) | none | check reservation, lease and volume, then write | checks read before the write | a reserved slot is written by its owner only |
| orchestrator (`orchestrator`) | wait deadlines | reconcile each set, undeploy, delete, flip keys | snapshot of the sets against concurrent edits; crash between writes | never more than maxUnavailable members down by the roll; no orphaned slot; deletion ends |
| ingest (`ingest`, `objectstore`) | artifact rows, objects | register, download, upload, finalize, fail, interrupt | a version registered again while its last worker runs; restart in the middle | READY only when stored; the bytes that run are those ordered |
| broker (`filetransfer`), file browsing | waiters by request, their channels | list, fetch, reap, deliver, cancel | one goroutine per message; caller, session or agent ends first | chunks complete and in order; nothing left behind |
| human API, auth, CA, mTLS, secrets, telemetry, driver, artifact manager, CLI, web | see `PROJECT.json` | validation, cryptography, system calls, rendering | | |

`PROJECT.json` lists every component with its files and status, and every
hazard at the line where it bites, with the properties that cover it or the
reason none does.

## 2. Modules and plan

| module | subject | composes |
|---|---|---|
| `Agent` | one strategy on one agent: main loop, worker, exits, drains, probes, supervision file | implements `Supervision` |
| `Supervision` | what an agent promises of a strategy, without saying how | |
| `Lease` | lease store, LeaseService, SDK on skewed and suspended clocks | |
| `Orchestrator` | sets and reservations, assign service, rolling update, drops, deletion, family-to-member flip; an agent is what it reports | |
| `SharedFiles` | the machine's shared files: passes, fetch workers, sweeps, crashes | |
| `Placement` | several strategies, volumes and slots of one machine, from the human verbs to the deploy worker | |
| `Session` | the stream of one machine: snapshots down, reports up, reconnects, the store's reads, watchers | |
| `Transfer` | file browsing, downloads and reaps through the broker | |
| `Ingest` | the catalog row of a version, its workers and objects | |
| `Delivery` | from the catalog row to the process that executes its bytes | `Ingest` (EXTENDS), an agent |
| `AgentProofs`, `LeaseProofs`, `OrchestratorProofs`, `SharedFilesProofs`, `PlacementProofs`, `SessionProofs`, `DeliveryProofs`, `TransferProofs` | the theorems of the module they name | |
| `MC…` | the instances for TLC | |

Parameters are CONSTANTS with named assumptions, each operation is one action,
and no module declares a RECURSIVE operator. A definition marked "seeded fault"
is a mutation of the one it precedes; no specification uses it.

Every safety property that a passing run checks is also a theorem (section 12). What
is left to do: `Agent` with several strategies, so that the gates of `Placement` and
`SharedFiles` meet the full worker; the release retention of `artifact/gc.go`; BINARY releases in `Delivery`.

## 3. Agent and Supervision

`Agent.tla` models `internal/agent/reconciler` for one strategy.

**State.** `st` is `strategyState` (state.go:14-77), `known` is its presence in
`r.actual`; `desired`, `generation`, `observedGenA` are the loop's. `deploys`
holds every `runDeploy` goroutine ever begun, with its program counter and
whether its context is cancelled. `workerCh` is the channel of worker events, a
queue. `procs` holds every process started, with the release it executes and
the deploy that started it. `watched`, `draining`, `probing` are the goroutines
that will deliver an exit, a finished drain, a probe result. `current` is the
symlink and `file` the supervision file.

**The main loop** is three steps, as in `Run` (reconciler.go:220-255): serve one
event (`applyDesired`, `applyWorkerEvent`, `handleExit`, `applyHealthResult`,
`Tick`), `Reconcile`, `persistSupervision`. Goroutines interleave between the
steps and the agent may die between them. `Reconcile` has one disjunct per
branch of `reconcile` and `reconcileOne`, in the code's order: each disjunct's
guard contains the negation of the branches before it.

**The worker** (`runDeploy`, deploy.go:43-121) is eight actions: announce,
download, verify, drain the old process, check for withdrawal, switch the
symlink, start, report. Failures are disjuncts of the step they happen in. A
send on a cancelled context may or may not get through, as Go's `select`
decides.

**Abstractions.** Health windows and backoff delays elapse at any moment
(`WindowElapses`, `BackoffElapses`). Whether a process had been stable is the
environment's choice. The two modes a running process cannot change
(capture_stdio, oci_host_pid) are one Boolean. Shared-file and volume gates are
open and the slot is not being reaped (`SharedFiles`, `Placement`). Releases are told
apart by their digest: that one version registered under two digests has one directory
is `Delivery`'s subject.

**Environment bounds.** `History` gives for each generation the specs the
control plane may hold; `Faults` and `MaxFaults` which failures, exits and
scheduled restarts may happen and how many; `MaxRestarts` agent shutdowns and
crashes; `Patient` whether the operator waits for a verdict before the next
change (`Verdict`: a ROLLED_BACK that stands from an earlier change, while a crash
backoff delays the deploy of this one, is no verdict on it). `agent_rollout` has a history of three generations (deploy, any kind of
change, back to the first version), each pushed after the verdict on the last,
with one fault of any kind; `agent_restart` one change that may come at any
moment of the first deploy, with two faults and a shutdown or crash of the agent.
The hazards listed arise from one deploy, one more event and one fault; a second
fault is allowed where recovery itself may fail.

**Supervision** states what all this is for. It has orders, a verdict on each,
what was deployed and the copies that run, and no worker, phase, channel or
latch. Its steps allow at most one copy at a time, only bytes that some deploy
was begun for, deploys only of what the last order asks, and nothing after a
verdict other than "up" but what ends; "up" is taken back only when the copy is
gone. `KeepsPromise` (`Promise!Spec`) maps the
agent to it: the copies are the live processes, the verdict is what the status
shows (`ShownVerdict`). Two copies at once, a strategy reported STOPPED before
its process is gone, a version started again after its rollback, a deploy after
the verdict on its generation all violate it.

**Properties** beside it: `HealthyIsAlive`, `DeployOncePerGeneration`,
`FailedWasTried`, `DrainIsExpected`, `NoLostProcess`, `OneDeployAtATime`,
`RunningIsReal`, `NoExitIsMissed`, `DrainsOnlyOnOrder`, `EventuallySettles`, each
explained in the module. Some name an exception that is the behaviour of the code:

- a process whose deploy was withdrawn after the worker's last look at its context
  (deploy.go:94) is started and reported to nobody; `NoLostProcess` says that no
  other process is lost, and `KeepsPromise` is checked and proved where the operator
  waits (`Patient`), so that no deploy is withdrawn in that window;
- that worker moves `current` under its successor's feet; `RunningIsReal` excuses
  histories with such a worker (`Overtaken`). It also leaves out failures between
  the switch and the start (the runs' `BeforeSwitch`), after which the next start
  runs the new release under the old name (section 13).

Both exceptions are about the deploys that were cancelled when their worker was
already past its last look (`Committed`), which `late` remembers, and about no
others; a deploy that was rolled back, or cancelled in time, is not excused. A
third exception, `Mistakable`, is a digest deployed again after a deploy of it was
called off: events are matched by digest (deploy.go:129), so the agent takes those
of the first worker for the second's.

**Fairness** (`Fairness`). Goroutines are scheduled and timers fire: weak
fairness of workers, drains, the loop's own steps and elapsing time. Go's
`select` picks uniformly among ready cases, so a channel that is ready again and
again is served: strong fairness of the events. Nothing makes the control plane
publish, a process exit, or the agent stop.

## 4. Lease

`Lease.tla` models the lease of one strategy: the Postgres store's transactions,
LeaseService, and one SDK client per strategy process. `now` is the control plane's
clock.

**Client.** `left` is what `deadlineMono` leaves of `time.Since(anchor)`;
`applyGrant` sets it from the client's skewed wall clock, clamped at zero.
`ClockJumped` is what the code computes: a difference of two monotonic
readings (`Delta`), always zero, so the baseline it is taken from is no state.
`order[c]` is the last moment at which the last order checked may reach the exchange.

**Calls.** Acquire and Renew are requests served later and answers applied later;
Renew is two transactions (`GetLease`, `RenewLease`). A caller may give up
(`CallFails`), its process may restart or close its loop; a request already sent
is then `stray` and may still be served. A cancelled renew loop with its grant in
hand may still apply it. A denied Acquire changes nothing of its client and is back
at once.

**Store.** A transaction reads the clock (`p.now()`), then locks the strategy's row
(`SELECT ... FOR UPDATE`), which another may hold: `ClockReadings` are the times it
may have read by the moment it writes, up to `MaxLag` old. From then to its commit
nobody else sees or writes the row, so `AcquireLease` and `RenewLease` are one step
each. Rows are never deleted, but before the strategy's first grant there is none,
and then nothing is locked: `FindNoRow` and `InsertLease` are two steps, and the
second writes over whatever is there by then (`ON CONFLICT DO UPDATE`, `Upsert`).
`raced` is the latest expiry so overwritten. The memory store decides and writes
under one mutex with a clock read inside it: its behaviours are those of the model
in which `ClockReadings` gives `now` and `raced` stays 0.

**Clocks.** `Tick` is one second of the control plane's time; a sleeping
machine's monotonic clock misses it. `lost` counts what it missed since the last
grant.

**Assumptions.** `MarginAssumption`: `MaxSkew + MaxDelay + MaxLag + MaxLost =<
MarginAgent + MarginCP`. The first two terms are the rule stated at
`DefaultLeaseMarginCP`; `MaxLag` is needed because a reading that aged while its
transaction waited lowers an expiry already granted (the code bounds the wait by the
15 seconds of `opCtx`, more than the default margins), and `MaxLost` because nothing
in the SDK bounds a suspension. With longer waits or suspensions than the margins
allow, an order can reach the exchange in the tenure of another machine.

**Properties**: `Fenced` relates the order in flight of one client to the lease
the server holds; `NoOrderPastExpiry` the local deadline to the granted expiry.
`Fenced` excepts what the Postgres store lets through: two machines that both found
no row are both granted, and the one overwritten orders on until its expiry and
`margin_cp`, in the tenure of the other. Without that disjunct TLC finds the overlap
in nine steps: two Acquires, two `FindNoRow`, the first `InsertLease`, its answer and
an order, the second `InsertLease`.

The instance has two machines of different TTL with clocks two seconds apart,
two grants, readings up to a second old, and one suspension or other fault, over six
seconds: enough for a lease to expire, its margin to pass, the other machine to
acquire and order, and the first to come back with a late answer.

## 5. Orchestrator

`Orchestrator.tla` models AssignmentSets on the control plane: the controller
(`orchestrator.go`), the write path it shares with the human verbs (`assign.go`),
the sets and their reservations in the store, and the calls that apply and delete
a set (`api/assignmentset.go`).

**State.** `sets` are the rows, `assign` and `status` the assignments and reports
in the machine records, `ctl` the controller's goroutine: its pass, the row it
works on and the locals of `Reconcile`. `deadline` is `Controller.deadlines`.
`applying`, `marks` and `verb` are calls between their check and their write.

**The controller** takes the rows of `ListAssignmentSets` once per pass
(`ReconcileAll`) and works on these, whatever is written meanwhile. Each store
write is a step: `StartRoll`, drops (`UndeployNext`), the look at the members
(`Observe`), `RemoveFamily` and `WriteMember` per candidate within the budget,
`FinishRoll`, `SaveStatus`; a set marked for deletion goes through `StartDelete`,
`UndeployNext`, `FinishDelete`. Early returns are actions of their own
(`ArtifactFails`, `MountFails`, `UndeployFails`, `AssignFails`), as is a status
write that fails. `Observe` reads all machine records in one step, since each
tells of one machine alone.

**Slots.** A slot is a machine and a name. While `assignment_key` is empty a set
also claims its family's name on each machine (`claimedSlots`), owns what
`status.members` remembers (`ownedSlots`), drops what it owns and no longer
names, and flips the key when nothing is left under the old name
(`transitionComplete`).

**Abstractions.** A rendered member (artifact, config, mounts, arguments) is a
version and a template; `Ready` looks at the version only, as `IsConverged` looks
at digests. Agents are external: after a write an agent takes the assignment up
(`Take`), comes to a verdict (`Verdict`) and its probe may flap (`Flap`). A report
is taken to reach the store at once. `MarkLocks` tells the memory store from the
Postgres store, whose `MarkAssignmentSetDeleting` writes back the row it had read.

**Bounds.** Two sets; `SlotOrder` lists the slots (three or four on two
machines); `History` the specs applied to each set in order; `Events` and
`MaxEvents` the faults, restarts, deletes and human verbs, each at most once. The
start is a set half way between family and member slots: one machine still runs
under the family's name, so that the flip, the drops and two sets' claims meet in
few steps. One event beside the applies suffices for each hazard listed, since the
calls and the agents interleave with every step of the pass anyway.

**Properties.** `ClaimsDisjoint`: no slot is claimed by two live sets.
`NoOrphan`: what the controller assigned for a set, the set finds again; slots
whose status row a failed write or a restart cut off are excused (`lost`), a real
gap listed as a hazard. `ReadyIsRolled`: Ready at a generation means the members
carry its spec. `RollGated`: a member is taken down only while fewer than
maxUnavailable members of this spec are still to come up, across passes and
restarts; members of an earlier spec are not counted, as in the code (a hazard).
`Settles`: each set comes to rest again and again.

**Fairness** (`FairSpec`): the controller's goroutine runs (it is woken by a
ticker), handlers that passed their check return, deadlines run out, and each
agent follows its orders. Nothing else has to happen: no call, no fault, no
recovery of a probe.

## 6. SharedFiles

`SharedFiles.tla` models the shared files of one machine: `reconciler/shared.go`
and `artifact/shared.go`.

**State.** `desired`, `known`, `inflight`, `blocked` are the loop's; `link` is
`<base>/shared/<name>`, `store` and `partial` the files under
`shared/store/<digest>`. A file is "full", "part" or "bad", or has a writer, which
stays its writer across a rename, as an open descriptor does. `worker` holds the
fetch goroutines, `cancelled` those whose context ended, `sharedCh` their results.

**Actions.** A snapshot (`applyDesiredShared`) withdraws fetches and overwrites
the desired set; a pass (`reconcileShared`) drops links, begins fetches up to the
free slots in any order (a Go map's) and, when nothing is fetched, sweeps; a
result (`applySharedWorkerEvent`) switches the link. A worker is seven steps from
the look at the store to its report (`RunSharedFetch`). `Crash` ends the process
and leaves the files as they are.

**Left out by name.** `Recross = FALSE`: no digest is asked for again while the
fetch cancelled for it is still about (two workers would share a `.partial`).
`FaultKinds` leaves out links that cannot be removed. With either, `LiveIsComplete`
does not hold (section 13).

**A restart** forgets every link: `sharedActual` begins empty, and the pass removes
the links of names in it only. The first snapshot of the new incarnation may be any,
and passes may come before it, with nothing desired. `stranded` (a history variable,
with `fresh`) is the set of names whose link was there when the first pass after a
restart did not want them: the sweep takes their bytes, the link stays, and a file
asked for again at the digest the link names passes for live and is not fetched. The
three properties except the names in it, and nothing else about restarts; a name
leaves it when its link is switched or removed.

**Fairness**: the loop runs and takes what is sent to it (strongly, as `select`
is uniform), backoffs end, goroutines run, transfers end by the client's timeout.

**Bounds**: two files, two contents, one fetch slot, retention of one, three
snapshots, one failing transfer, one crash, a source with wrong bytes. One slot
makes every fetch wait for another, retention of one makes every old content a
candidate of the sweep.

## 7. Placement

`Placement.tla` models strategies, volumes and slots of one machine, from the
human verbs to what is on disk.

**State.** `assigned`, `previous`, `inventory` and `counted` are the machine
record; `call` the verbs between their read and their write, since the store is
locked for each of the two only. `desired`, `known`, `st` are the agent's; `worker`
the deploy goroutines, reduced to the steps that look at or touch slots, volumes
or processes; `proc` the processes with the mounts they were started on; `dir` and
`slot` what exists on disk; `reaping` the slots under deletion.

**Actions.** Verbs: apply, deploy, roll back, stop, start, schedule, undeploy,
create and delete a volume, reap. The agent: `applyDesired`, `handleExit`,
`applyWorkerEvent`, `handleReapOp` and its end, a pass over the volumes and then
one strategy at a time, the workers' steps.

**Properties.** `Placed`: what is assigned mounts volumes of the inventory, and no
two assignments that are not halted share one. `OneWriter`: no volume has two live
processes. `StandsOnDisk`: a process keeps its slot and its volumes on disk.
`Converges`: once the verbs stop, what is assigned runs or has failed, and what is
not is gone.

**Left out by name.** `Callers` has one member: with two, a verb writes back what
another changed. `Haste = {}`: operators wait before they change the mounts of a
strategy that runs ("remount"), move a volume on ("handover") or start a strategy
whose withdrawn deploy has not ended ("again"). Without that, `OneWriter` fails
(section 13).

**Fairness**: passes run (weak), events and goroutines are served. Deadlock is
checked: an agent always has a next pass.

**Bounds**: two strategies, one volume, two artifacts, three verbs or exits; the
start has a halted strategy on the volume and a slot left by another, so that
three events reach every pair of verb and drain, deploy or reap.

## 8. Session

`Session.tla` models the stream of one machine: the agent's client
(`agent/stream`), the Connect handler and its session (`grpcstream`), the machine
record they keep, and `WatchMachine` with the hub.

**State.** `wire`, `up`, `down` are the connections and what is on its way.
`sessions` is the session on record, `handler` each Connect handler's phase,
`notified` its channel of one wakeup, `label` the generation a push has read.
A snapshot carries its label and, as a history, the generation whose changes it
holds at least (`of`). `reached` is the newest changes the agent ever converged to.

**Two reads.** The Postgres store reads a machine with one statement for the row
and others for the tables, outside a transaction (postgres.go:328). A push is two
steps here, `RowRead` and `Loaded`, and a change may come in between: contents
newer than their label. `HeardIsReached` says that the record never claims a
generation that was not reached, which depends on the row being read first
(the seeded fault reads the tables first). What a torn read may still do is show
an agent an old assignment beside a new shared file until the next push.

**Late ends.** Either end of a broken connection notices in its own time. The old
handler ends after its successor registered, removes the successor's session
(`unregisterSession`) and marks the machine unreachable (`SetUnreachable`); the
resync and the heartbeats repair both, as `SnapshotArrives` and
`ReachableSettles` say. `GenerationHeard`: reports that are dropped (full channel)
or lost do not keep the record from coming to the agent's generation. `WatcherSees`:
a watcher that subscribes after its first event (server.go:836) misses a write,
and the next heartbeat shows it.

**Fairness** (`FairSpec`): what is over after finitely many times happens if it
is possible again and again; both ends read; the heartbeat and resync tickers
tick; secrets come to resolve, so that not every push is skipped. The last
connection is not cut: liveness is about a network that comes to rest.

**Bounds**: two connections, one change (at any moment, also between the two
reads), one message per direction, one place in the outgoing channel. Two
connections make an old handler and its successor; one place makes reports drop.
The safety property is proved for every size (section 12).

## 9. Transfer

`Transfer.tla` models `filetransfer/broker.go`, the sessions' control channels and
the agent's transfers: a request gets its entry in the broker (`Request`), finds
the session (`FindSession`: the lookup and the unlock of `SendControl`), waits for
room on that session's channel (`SendControl`), is sent, admitted by the agent's
semaphore and answered in parts, each handed to the waiter by a goroutine of its own
(`Deliver`). Callers give up, sessions break and transfers fail at any moment. A
session's channel outlives its handler: what is queued on it then is read by nobody.

`NothingLeaks`: once requests stop, no delivering goroutine, place of the
semaphore, queued transfer or entry of the broker is left, with one exception
(`Abandoned`): the call's timer starts after `SendControl`, so a caller that found a
session whose handler ended since, and its channel full, stays, with its entry and
goroutine, until its own context ends (section 13). That it leaves (`Leave`) is
possible, not assumed. `DownloadIsWhole` is violated (section 13). Fairness:
goroutines run, timers fire, callers take what is delivered (`WF(Work)`). Bounds: a
download of three parts, a listing and a reap, two connections, one place at the
semaphore, one in a waiter's channel and one in a session's (the code has eight), so
that every channel is full at some moment.

## 10. Ingest and Delivery

`Ingest.tla` models the catalog row of one name and version: `RegisterArtifact`
(check, then write), the worker (`download`, `upload`, `finalize`, or `Fails` at any
of them), `Deploy`, which reads the ref and then the state of the row, and the
restart that fails what is in flight. A ref that needs no ingest is READY at once,
whatever its uri (`RegisterOutright`: a public source, or any key of the object
store). `CreateArtifactUpload` gives a client the url to write a digest's object, the
one that its ingest writes, and `Put` is that client writing it, at any time and with
any bytes: neither the store nor the catalog checks them.

`RefsStand`: a ref into the object store that a READY row offers or a deploy took
names bytes of its digest, with two exceptions, which are what the code vouches for
nowhere: a ref that was itself registered as READY (`outright`) and a key that a
client was given a url for (`uploads`). Without either exception TLC finds it
violated, by a registration of an object that is not there, and by a `Put` over what
an ingest stored. `EventuallyDecided`: no row stays PENDING. A superseded worker that
fails writes FAILED over the winner's row (pipeline.go:254, unfenced); this is
modelled and violates neither.

`Delivery.tla` EXTENDS it by the assignment of one machine and its agent: the ref
is resolved by name and version at the row of that moment (resolve.go:45), the
archive fetched, hashed and unpacked, the root swapped, the marker written, the
process started. A version registered again with another digest has the same
release directory.

Of the main loop `st` keeps what decides which digest is started next: what it takes
to be running, what ran before, the health window, the version known bad. A process
exits (`handleExit`), fails its window (`tick`), is started again (`startProcess`;
a halt and its resume are an exit and such a start) or gives way to the one before
(`beginRollback`). These starts look at no digest: they run what is in the directory
(`Launched`), if it has a marker and a root.

`RunsAsOrdered`: a process executes the bytes it was ordered with. It excepts a
process that was restarted or rolled back to after the deploy of another digest had
put its root in the directory (`displaced`; `unpacked` remembers whose root is there):
v1 runs with digest d1, is registered again with d2 and deployed, crashes, and the
rollback to d1 runs the bytes of d2. Every other process is held to it, those that
came from an object a client wrote included, because the archive is hashed.
`Calm = TRUE` leaves out two downloads of one version at a time, and a crash, a start
or a rollback between a root and its marker: with any of them the property does not
hold (section 13).

**Left out**: other versions deployed in between, whose releases have directories of
their own; `FAILED`'s latch, so that more is started here than the agent would.

**Fairness**: ingest workers end, as downloads have a timeout; nothing else is assumed.
**Bounds**: two digests, one caller, two requests (rows written and urls given out),
of which one may be an outright registration of the second digest, from a public
source, as its own object or as the first's; one restart of the control plane, two
deploys, one crash of the agent. The start has a version deployed and running, so
that a registration replaces something and a rollback has something to go back to;
two requests are an upload and the registration of what was uploaded, or two
registrations that overtake each other.
## 11. What the runs show

| run | instance | result |
|---|---|---|
| `agent_rollout` | three generations, each pushed after the verdict on the last, one fault of any kind, probe, rollback on the first crash, fairness | type invariant, `HealthyIsAlive`, `DeployOncePerGeneration`, `DrainIsExpected`, `FailedWasTried`, `EventuallySettles` and the refinement `KeepsPromise` hold (151 k states) |
| `agent_restart` | one change at any moment of the first deploy, two faults, one shutdown or crash of the agent | `NoLostProcess`, `OneDeployAtATime`, `RunningIsReal`, `NoExitIsMissed` hold (2.1 M) |
| `agent_takeover` | one agent restart | `DrainsOnlyOnOrder` violated: finding 1 |
| `lease_fence` | two machines, skews -1 and +1, clock readings 1 s old, one suspension of 1 s or another fault | type invariant, `Fenced`, `NoOrderPastExpiry` hold (3.6 M) |
| `orch_roll` | upgrade, shrink and replacement of a set, a second set, one of delete, failed member, restart | type invariant, `ClaimsDisjoint`, `ReadyIsRolled`, `RollGated` hold (1.1 M) |
| `orch_settles` | shrink and upgrade of a set, a second set, any one event, Postgres mark, fairness | `NoOrphan`, `Settles` hold (422 k) |
| `shared_files` | two files, two contents, three snapshots, a failing transfer, a crash, fairness | type invariant, `LiveIsComplete`, `EventuallyLands`, `EventuallyReclaimed` hold (131 k) |
| `placement` | two strategies, one volume, three verbs or exits, fairness | type invariant, `Placed`, `OneWriter`, `StandsOnDisk`, `Converges` hold (380 k) |
| `session` | two connections, one change, one watcher, fairness | `HeardIsReached`, `SnapshotArrives`, `ReachableSettles`, `GenerationHeard`, `WatcherSees` hold (268 k) |
| `transfer` | a download, a listing and a reap over two connections, fairness | type invariant, `NothingLeaks` hold (786 k) |
| `transfer_order` | one download over one sound connection | `DownloadIsWhole` violated: finding 2 |
| `delivery` | two digests, two registrations or uploads, two deploys with exits, restarts and rollbacks, a restart at each end, fairness | `DeliveryOK`, `RefsStand`, `RunsAsOrdered`, `EventuallyDecided` hold (1.6 M) |

Deadlock is checked in `placement` and `session`, whose loops always have a next
step. The others may stop: an agent with nothing left to do rests, the lease model
ends at `MaxTime`, a control plane without sets waits for a call, and a broker or a
catalog without requests is idle.

For every property of a passing run a mutated definition kept in the module
("seeded fault") breaks it, so that none holds by the shape of the model. Among
them: an agent that skips the drain or the switch, forgets the demotion or the
failure latch, persists the desired version, watches no adopted process; a lease
that is free at its expiry, a deadline that is not clamped; a controller that
counts no member in flight or takes the generation from the row of now; a
retention that may drop the live file; a strategy that is no writer once told to
stop, a directory removed without a look at who runs on it; a store that reads the
tables before the row; a handler that does not resync; a delivery that waits for
room alone; an ingest fenced by the row's state alone, an archive not hashed.

## 12. What is proved

All proofs are for every value of the constants that satisfies the modules'
ASSUMEs.

**`AgentProofs`** (assumption `AgentAssumption`: the shapes of the constants).
`Inv` is inductive: `TypeOK`, and

- `SwitchedFirst`: while `current` points nowhere, no record names a running or
  previous artifact, no worker is past its switch and no started process is on
  its way. `TypeOK` needs it: a process that is started executes a release;
- `InflightWanted`: a deploy is in flight only for a wanted strategy, so that a
  rollback finds the spec it is for;
- `ProcWatched`: the supervised process belongs to a known strategy and has a
  watcher.

`TypeCorrect` and `ExitsAreWatched` (`NoExitIsMissed`) follow. Each action has a
lemma; the branches of `Reconcile` share `EditedSound` and its kin. On `Inv` stand,
each with an inductive invariant of its own and each for every history, policy,
fault budget and number of restarts:

- `HealthyMeansAlive` (`HealthyIsAlive`), by `HealthInv`: a record that says HEALTHY
  has no deploy in flight and waits for no backoff, a process being stopped is not
  up, and a reconcile leaves HEALTHY only with a process or with a version it
  refuses to start (`RestIsUp`). The late probe answer may break it for one step
  of the loop, not at rest.
- `DrainsAreExpected` (`DrainIsExpected`), by `Books`: a drain, a worker, an event in
  the channel and a process on its way are each about the process and the deploy
  they name (`Counted`, `StartedOnce`, `EventsKnown`, `OldStopped`, `TransitApart`),
  and a deploy in flight over a drain was begun over that very process
  (`DrainUnder`). `DownIsQuiet`: of an agent that is down nothing is on its way.
- `OneDeployRuns` (`OneDeployAtATime`) and `NoProcessLost` (`NoLostProcess`), by
  `Ownership`: unless a digest can be mistaken, a deploy that is neither in flight
  nor cancelled has said its last word (`Accounted`), the one being checked has too
  (`Checked`), and until then the agent still holds the process that deploy found
  (`OldHeld`). So the event that ends a deploy finds it in flight and installs its
  process where only the drained one stood. `LateIsKnown` joins the cancelled
  deploys to the exception: one that was cancelled before its worker's last look
  never gets past it.
- `DeployedOnce` (`DeployOncePerGeneration`), by `OnceInv`: deploys are begun in the
  order of their generations (`Rising`), and once one was begun for the generation
  now asked for, the strategy has it in flight, runs what is asked, has failed at
  this generation or knows the version bad (`Resolved`). Stated for an agent that
  has not restarted, because `failedAtGen` is not in the supervision file, nor is
  anything of a strategy without a process.
- `RunningNamed` (`RunningIsReal`), by `RealInv`: the record names its process's
  release and the release a start would run, `current`, except while the worker in
  flight has moved `current` and its process is not yet heard of; the supervision
  file names both for the agent that will adopt (`Named`). The hypothesis
  `StartsSucceed` (no fault "build" or "start") is needed: a start that fails after
  the switch leaves `current` on a release no record names.
- `FailureWasTried` (`FailedWasTried`, an action property), by `TriedInv`. What each
  step may make of the record is said once: an event leaves it in one of the shapes of
  `Heard` (exited, rolled back, progressed, brought, gave up, promoted; `StepHeard`),
  a reconcile in one of `Decision` (`ReconcileDecided`), and the invariants of the
  record are shown of the shapes. What runs and what ran before was deployed, with the
  config the record names while the agent lives (`VersionsTried`, `FileTried`); the
  deploy in flight carries the bytes now asked for (`Asked`), so a failure latched at
  this generation is about them (`Ended`, `Timely`); and an operator who waits finds
  the strategy at rest (`Awaits`, `RestChecked`), which is why then the config was
  tried too.
- `PromiseKept` (`KeepsPromise`, the refinement of `Supervision`), for an operator who
  waits (`Patient`) and an agent that stays up (`MaxRestarts = 0`), by `Attended`: all
  of the above, and `PatientInv`. A deploy is cancelled only after its worker's last
  word (`Concluded`), so that none is withdrawn too late; the deploy in flight is of
  what was ordered, over a release that is not (`OnOrder`), so that a rollback ends in
  a refusal; and what is checked without a deploy, after a halt, is what was ordered
  (`Rechecked`). Two facts of a state carry the map. What lives is supervised or on its
  way from the deploy in flight (`WhatLives`), and the process that deploy found is
  dead by then: hence at most one copy (`OneLives`). And each verdict fits the order
  and the copies (`VerdictFits`). Then each step is one of `Supervision` or changes
  nothing it knows of (`Kept`): an event moves no process and can change an open
  verdict only (`HeardKept`), or rolls back (`RollsBackKept`); a worker that still acts
  serves the deploy in flight, whose order has no verdict yet (`ActsInFlight`); a
  decision starts, begins, halts or keeps (`RestartKept`, `BeginKept`, `HaltKept`,
  `SteadyKept`); an order finds the failure latch of an older generation (`AskKept`).
  The initial states map to the initial state (`InitKept`). `NeverTwoCopies` is the
  same argument's plainest result. A restarted agent promises
  less, having forgotten its verdicts (section 13, `rebuild.go:85`).

**`LeaseProofs`** (assumptions `LeaseAssumption`, `MarginAssumption`). `Inv` is
`TypeOK` and

- `LeaseFresh`, `UnlockedFresh`: the lease, and what an unlocked Acquire is about to
  write, expire no later than the machine's TTL from now, so that a later grant to
  the same machine lowers the expiry by no more than the age of its clock reading;
- `GrantsCovered`: every expiry a client holds or has in hand is covered by the
  lease but for that age, or past by `margin_cp`, or was overwritten in the race for
  the first row (`raced`);
- `ReadIsOwn`: what Renew read first is the caller's own lease;
- `DeadlineKept`: a running local deadline is late by at most the seconds the
  monotonic clock missed;
- `OrdersCovered`: an order in flight arrives while the lease, with its margin,
  is its machine's, or by `raced` and `margin_cp`.

The argument: the lease moves only as `LeaseMoves` allows, and no move uncovers
an expiry or an order (`LeaseMovesKeeps`): a write under the row's lock by the lock
and the margin (`LockedWriteKeeps`), an unlocked one because `raced` remembers what
it overwrites (`UpsertKeeps`). A check passes only early enough
(`MayOrderIsEarly`, from `DeadlineKept`), so the order it lets out is covered
(`CheckBeforeOrderStep`, from the margins). `OrdersFenced` (`Fenced`),
`NeverPastExpiry` (`NoOrderPastExpiry`) and `TypeCorrect` follow.

**`OrchestratorProofs`** (assumptions `OrchestratorAssumption`: the shapes of the
constants; `InitClaimsAssumption`: the initial rows' claims are disjoint).
`TypeOK` is inductive: its parts (`SetsOK`, `SlotsOK`, `CtlOK`, `DeadlineOK`,
`RestOK`) follow the program's state, and each action's lemma proves the parts it
touches. `TypeCorrect` says in particular that the budget never goes negative and
that the controller has a row wherever `Reconcile` relies on one.
`ClaimsStayDisjoint` (`ClaimsDisjoint`): a row's claims depend on its spec and
its key (`ClaimsBySpecAndKey`); a status write, a mark and a deletion never make
a live set claim more (`ClaimsNoMore`), because `preserveDeleting` keeps a key and
a mark that are set; and the one step that does, `ApplyAssignmentSet`, re-checks
the claims under the lock (`ApplyClaims`). Neither the admission check of the API
nor the locking of the mark is needed.

`RollStaysGated` (`RollGated`) rests on two facts. A slot counted as awaited is not
ready, whatever its agent reports meanwhile (`AwaitedIsDown`). While a pass rolls and
has room left, the members due (given the pass's spec, still to come up) and the room
together stay within `maxUnavailable` (`BudgetKept`): when the pass looks, everything
due is in flight and so in the budget (`BudgetObserved`); a write moves one from the
room to the due (`BudgetWritten`); a human verb, a report and a family slot removed
only take from the due (`BudgetByOthers`). A fault, a restart or a new spec ends or
leaves the pass, and the next one looks again.

`ReadyStaysRolled` (`ReadyIsRolled`, from rows that satisfy it and observed nothing
yet to come, as the runs' do) rests on

- `RowsCurrent`: a row in hand (`Snaps`) is of the set there is now, one per set, no
  newer than it, at the same generation of the same spec, and of a live set only if it
  was alive when read; no live set has observed a generation it has not reached
  (`ObservedIsOld`);
- `QueueKept`: what a pass may still undeploy is no member of the row it works on, and
  a roll that waits for nothing has nothing to write;
- `Told`: a status about to be saved says no more than the row it is about
  (`SavedIsOld`), and when it says Ready the members the set wrote carry that row's
  spec (`Carry`).

The argument: a set's row moves only as `Moves` lists (`SetsMove`), an assignment
comes to be the set's by few steps (`WritesKeep`), and a Ready saved after a newer
spec was applied names the old generation, so it claims nothing of the new one
(`ReadyStep`).

`NoneOrphaned` (`NoOrphan`, from rows that record what is assigned for them, as the
runs' do) rests on `OrphanInv`: in a pass the rows in hand record what the rows of
now do (`Fresh`), since nobody but the controller writes a status; what the pass
has written goes into the status it will save (`Written`), with what the set had
recorded and still has (`Saves`); a set being deleted goes only when all of it was
undeployed (`Deletes`); so each slot is recorded, about to be, or lost (`Kept`).
It has two hypotheses, and the checker has a counterexample without either:
`MarkLocks = TRUE`, since the Postgres store's mark writes back the row it had read
and undoes an apply in between (23 states on the history of `orch_roll`); and
`OneFamily`, that no apply changes a set's strategy, since the family slot is looked
up by the name in the spec of now (4 states). `orch_settles` has the unlocked mark
in a history too short for the first.

**`SharedFilesProofs`**. `TypeCorrect` rests on `Shapes` and on `SlotsKept`: the
places of the semaphore and the workers that hold one add up. `LiveStaysComplete`
(`LiveIsComplete`), where `Recross = FALSE` and links can be removed, rests on
three groups:

- tokens: what is in flight is what is desired (`Held`), an object has one
  goroutine or one result (`OneEach`), and who works is waited for or works for
  what is not desired (`Waited`), so that a result switches a link once and a
  sweep beside a fetch takes nothing it is about to install;
- bytes: what stands under a final name is whole (`Whole`), and what a worker is
  about to install was checked (`Checked`);
- links: a link that is not stranded leads to a file (`Linked`) and, once the first
  pass of an incarnation is made, belongs to a name the loop knows or wants, between
  passes to one it knows (`Known`), so that a sweep takes nothing live.

**`PlacementProofs`** (assumptions `BoundAssumption`, `NoneAssumption`,
`StoredAssumption`: the shapes of the constants and of the record it begins with). `TypeCorrect`:
`TypeOK` in three parts, the control plane's record (`RecordOK`), the agent's loop
(`LoopOK`) and the machine (`WorldOK`). `PlacedOneAtATime` (`Placed`), where one human
verb is served at a time (`OneCaller`): what a verb read still holds when it writes
(`Fresh`: the volumes it mounts are there, the one it deletes nobody mounts), and who
else runs on them is looked for again at the write. With two verbs at a time it fails
(section 13). Nothing is assumed of the agent, which writes nothing into the record.

`OneWriterPerVolume` (`OneWriter`) and `ProcessesStandOnDisk` (`StandsOnDisk`) assume
`OneCaller` and `Haste = {}`, the operators that wait; each kind of haste breaks
`OneWriter` (section 13). They rest on four groups:

- `DeployInv`: the deploy in flight is its goroutine's, a goroutine that is neither
  withdrawn nor done is in flight, and what a withdrawn one still says cannot be
  taken for another's (`ToldApart`), the artifact by which they are told apart being
  asked for by nobody;
- `MountInv`: a strategy's process, deploys and assignment mount the same
  volumes, before and after the agent hears of a change;
- `WriterInv`: of what the agent wants to run at most one mounts a volume
  (`WantsOne`); a strategy whose volume the record, or the agent, gives to another
  has no deploy in flight (`GivesWay`, `GaveWay`); hence deploys in flight do not
  overlap, and one that has passed the second look at the writers
  (deploy.go:108) starts where nobody runs (`StartsAlone`);
- `DiskInv`: what the agent desires mounts volumes of the list it was sent
  (`Listed`, which needs `Counts`: a machine with volumes counts its changes), a
  wanted deploy and a process have their directories and their slot, and a slot
  under deletion has nothing in it and nothing on its way there (`Emptied`).

**`SessionProofs`**. `HeardNeverAhead` (`HeardIsReached`), for any number of
connections, changes, places and any interleaving of the two reads: a snapshot
holds at least the changes its label names, because the row, which carries the
generation, is read before the tables (`Snapshots`); what the agent says it
observed is the label of a snapshot it converged to (`Labels`, `Reports`), so what
the record has heard was reached.

**`DeliveryProofs`**. Of the catalog alone (`Ingest`), `Inv` (`ObjectsSound`, `WorkersSound`, `CallsSound`,
`RowSound`): a key that no client was given a url for holds its digest's bytes or
nothing, a worker about to finalize has uploaded its own, and the row and the calls
that read it stand (`Stands`, which has the two exceptions of section 10; no step makes
a ref that stood fall, `StandsStays`). `TypeOK` and `RefsStand` follow. That a superseded
worker may overwrite the row with FAILED is allowed for and harmless here.
The catalog's part of `Delivery` implements `Ingest`
(`DeliveryRefines`: every step is one of
`Ingest` or leaves the catalog alone), so that its invariant carries over and
`RefsStand` need not be proved again. `AgentInv` adds `DeliveryOK` and `WorksForRef`
(a deploy works for the ref it resolved). Where `Calm = TRUE`, `CalmInv` (`Alone`: at
most one download per version; `Stage`: what each stage of a deploy has on disk;
`ReleaseSound`: a release with its marker holds the marker's bytes; `RootSound`: a
root holds the bytes of the digest unpacked there last) gives
`RunsAsOrdered`: what the main loop launches from a root that was not displaced is what
its own deploy unpacked. That no start and no crash falls between a root and its marker
is used there (`Quiet`).

**`TransferProofs`** (assumption `SizeAssumption`). `TypeCorrect` (`TypeOK`): no
queue outgrows its channel and no more transfers run than there are places. It needs
`SendingKept` (a transfer has a connection and never goes past the last part of its
answer), `Waits` (a request about to send holds a session) and `PlacesKept` (the
transfers with a place can be counted).

**Hypotheses.** Where a theorem excepts something, so does the property the run
checks, and the exception is behaviour of the code listed in section 13: `Mistakable`
(events matched by digest), `Refuses` (a version known bad that is asked for again
is not started), `late` (a withdrawal the worker no longer sees), an agent restart
(`restarts > 0`, in the properties about what only the dead agent knew). The
assumptions `AgentAssumption` and `NoneAssumption` say besides the shapes of the
constants that `None` is distinct from every value it may stand in for.

**Only model-checked.** Every liveness property (`EventuallySettles`, `Settles`,
`EventuallyLands`, `EventuallyReclaimed`, `Converges`, `SnapshotArrives`,
`ReachableSettles`, `GenerationHeard`, `WatcherSees`, `NothingLeaks`,
`EventuallyDecided`): fairness is out of the prover's reach.
`DrainsOnlyOnOrder` and `DownloadIsWhole` are no theorems: they are the findings.

## 13. Findings and known disagreements

Two findings are kept as runs, since a text of the repository says otherwise:

1. **A restarted agent stops what it adopted before it heard from the control
   plane** (reconciler.go:419, run `agent_takeover`). Before the first snapshot the
   desired state is empty and any event, the tick included, reconciles against it.
2. **The parts of a download can reach the caller out of order**
   (grpcstream/server.go:235, run `transfer_order`). Each part is handed to the
   broker by a goroutine of its own, and goroutines are not ordered.

The others were met while modelling. They are listed with the hazard at their line,
and where a property would meet one, the model leaves it out by a named constant or
operator:

| where | what | left out by |
|---|---|---|
| `deploy.go:112` | a failure between switch and start leaves the old label on the new binary | `BeforeSwitch` in `agent_restart`, `StartsSucceed` in `RunningNamed` |
| `deploy.go:129` | events are matched by digest: when a called-off digest is deployed again, the first worker's events pass for the second's | `Mistakable` |
| `deploy.go:172` | a failed deploy clears `stopping` while the process it found still drains, whose exit then counts as a crash | the exception of `DrainIsExpected` |
| `rebuild.go:85` | `failedAtGen` is not in the supervision file, nor is a strategy without a process: a restarted agent tries what failed again | `restarts = 0` in `DeployOncePerGeneration` |
| `deploy.go:94` | a deploy withdrawn after the last look at its context starts a process reported to nobody | `Patient`, `late`, `Overtaken` |
| `postgres.go:1139` | before a strategy's first grant there is no row to lock: two Acquires at once are both granted, the second by `ON CONFLICT DO UPDATE` (postgres_sets.go:79-81 says of its own table that FOR UPDATE does not block a concurrent INSERT); "leases mean 'only one trader'" (docs/EPIC-declarative-orchestration.md:105) does not hold for that first tenure | `raced` in `Fenced` |
| `postgres.go:1140` | the store's clock is read before the row is locked: after a wait the grant is dated back and may lower an expiry already given out | bounded by `MaxLag` |
| `client.go:182` | the clock-jump check subtracts monotonic readings and never fires | bounded by `MaxLost` |
| `reconciler.go:345` | FAILED stands when the next generation asks for what runs | accepted by `EventuallySettles` |
| `reconciler.go:481` | a failed restart in the health window leaves the deploy in flight | one fault in `agent_rollout` |
| `reconciler.go:382` | the version rolled back to is restarted by nothing when it exits | one fault in `agent_rollout` |
| `reconciler.go:1067` | a probe answer on its way when the process dies marks it HEALTHY. The next reconcile restarts or redeploys it, except when what is desired is the known-bad version (deploy A, B rolled back, C, B again): then HEALTHY stands with no process, against the comment at reconciler.go:957 | three generations in `agent_rollout` |
| `memory_sets.go:188` | a deleting set reserves nothing, still owns its slots by spec and undeploys the members of a set applied on one freed early | the second set of the runs names a slot of its own |
| `reconciler/shared.go:86` | a restarted agent knows no link: that of a file withdrawn meanwhile, or of any file when a pass comes before the first snapshot, is never removed while its bytes are swept, and passes for the file when the same digest is asked for again | `stranded` in `LiveIsComplete`, `EventuallyLands`, `EventuallyReclaimed` |
| `reconciler/shared.go:95`, `artifact/shared.go:69` | a link that cannot be removed keeps naming a content that is swept; a digest asked for again shares a `.partial` with its cancelled fetch | `FaultKinds`, `Recross` |
| `volumes.go:99` | a volume is handed on, or remounted, while the first process drains or a withdrawn deploy has not ended | `Haste` |
| `server.go:593` | `setRunState` reads, then writes: two verbs at a time undo each other | one member in `Callers` |
| `pipeline.go:254` | a superseded worker that fails writes FAILED over the new row | modelled; `RefsStand` holds regardless |
| `api/server.go:945` | a registered `s3://` uri is READY with no look at the object, and the url of `CreateArtifactUpload` (control_service.proto:284) writes the key that an ingest writes, with any bytes: a READY ref may name no object, or another's bytes. The agent's hash refuses them | `outright`, `uploads` in `RefsStand` |
| `reconciler.go:441`, `deploy.go:218` | restarts and rollbacks start what the version's directory holds without `Verify`: after another digest of the version was unpacked there, they run its bytes under the digest rolled back to or restarted | `displaced` in `RunsAsOrdered`; `Agent` tells releases apart by digest, so its `RunningIsReal` does not cover this |
| `server.go:247` | `Deploy` reads the ref before it checks the state of the row | modelled; `RefsStand` holds regardless |
| `artifact.go:231` | two downloads of one version, or a crash between root and marker, leave bytes of one digest under the marker of another; so does a process started in between, from a directory that is then kept though the deploy fails | `Calm` |
| `oci_image.go:69` | a root is removed under the process that runs from it | `Delivery` speaks of the bytes at the start |
| `resolve.go:45` | a ref is resolved by the row of now, whatever the assignment was made for | modelled; the agent's hash refuses what was not ordered |
| `deploy.go:360` | a status report is dropped when the channel is full and not repeated | modelled; `GenerationHeard` holds through the heartbeats |
| `grpcstream/server.go:109` | `SendControl` waits on the channel of the session it found with the caller's context alone; when the handler ended meanwhile and the channel is full, a caller without a deadline, its goroutine and its broker entry stay | `Abandoned` in `NothingLeaks` |
| `postgres.go:328` | a machine is read in several statements | modelled; `HeardIsReached` holds regardless |
| `server.go:836` | a watcher subscribes after its first event | modelled; `WatcherSees` holds through the heartbeats |
| `deploy.go:70` | the retention sweep of a withdrawn worker keeps its own target, so it may take the release its successor is downloading | retention is not modelled |

`NoOrphan` also excuses slots whose status row was cut off by a failed write or a
restart (`lost`), and `MarkLocks` chooses between the two stores' marks.

## 14. What is not covered

Release retention (`artifact/gc.go`); the size of slots and volumes; the lease
interlock of the human verbs (assign.go:70), which joins `Lease` to the assign
service; BINARY releases in `Delivery`; several strategies with the full worker;
templates and configs beyond a version and a digest. Authentication, certificates,
secrets, telemetry, process isolation, the CLI, the wiring and the web interface
are cryptography, system calls or presentation and carry no protocol state worth a
model; the generated code, two fifths of the implementation's lines, carries none
at all. `PROJECT.json` says so for each. Time is modelled where a property is about
it (`Lease`) and is arbitrary elsewhere, so no bound on delays is claimed.
