------------------------------ MODULE Session ------------------------------
(***************************************************************************)
(* The stream that keeps one agent and the control plane in step: the      *)
(* agent's client (agent/stream) and the Connect handler with its session  *)
(* (grpcstream).  Snapshots of the desired state go down, status reports   *)
(* and heartbeats go up.  A human watches the machine's record             *)
(* (api.WatchMachine, store/hub.go).                                       *)
(*                                                                         *)
(* A connection that broke is noticed at each end in its own time, so the  *)
(* handler of a dead connection may end long after its successor began.    *)
(*                                                                         *)
(* The Postgres store reads a machine in several statements, first the row *)
(* with the generation, then the tables with what is assigned: a change in *)
(* between puts newer contents under an older generation.                  *)
(***************************************************************************)
EXTENDS Naturals, Sequences

CONSTANTS
  MaxConns,      \* bound: connections dialed, one after the other
  MaxGen,        \* bound: generations of the machine's desired state
  MaxFlight,     \* bound: messages on their way in one direction (flow control)
  OutCap         \* the reconciler's outgoing channel

ASSUME SizeAssumption ==
  /\ MaxConns \in Nat \ {0} /\ MaxGen \in Nat
  /\ MaxFlight \in Nat \ {0} /\ OutCap \in Nat \ {0}

Conns == 1..MaxConns
Gens  == 0..MaxGen
Up    == [kind : {"status", "beat"}, gen : Gens]

\* A DesiredState: the generation it is labelled with, and the generation whose
\* changes it holds at least.
Snapshot == [gen : Gens, of : Gens]
Empty    == [gen |-> 0, of |-> 0]

VARIABLES
  gen, reachable, heard,            \* the machine's record: generation, Reachable, ObservedGen
  sessions, handler, notified,      \* the session on record; Connect handlers and their notify channels
  label,                            \* the generation a push has read
  watch, woken, fresh,              \* WatchMachine: its stage, its signal, whether what it sent stands
  wire, up, down,                   \* connections, and what is on its way
  at, desired, observed, hand, out, \* the agent: its connection, snapshot, what it converged to, reports
  reached                           \* history: the newest changes it ever converged to

store  == <<gen, reachable, heard>>
server == <<sessions, handler, notified, label>>
net    == <<wire, up, down>>
watcher == <<watch, woken, fresh>>
agent  == <<at, desired, observed, hand, out, reached>>
vars   == <<store, server, watcher, net, agent>>

TypeOK ==
  /\ gen \in Gens /\ reachable \in BOOLEAN /\ heard \in Gens
  /\ sessions \in 0..MaxConns
  /\ handler \in [Conns -> {"unborn", "first", "begun", "loop", "push", "leaving", "left", "gone"}]
  /\ notified \in [Conns -> BOOLEAN] /\ label \in [Conns -> Gens]
  /\ watch \in {"sent", "subscribed"} /\ woken \in BOOLEAN /\ fresh \in BOOLEAN
  /\ wire \in [Conns -> {"unborn", "up", "cut"}]
  /\ up \in [Conns -> Seq(Up)] /\ down \in [Conns -> Seq(Snapshot)]
  /\ \A k \in Conns : Len(up[k]) <= MaxFlight /\ Len(down[k]) <= MaxFlight
  /\ at \in 0..MaxConns /\ desired \in Snapshot /\ observed \in Snapshot /\ hand \subseteq Snapshot
  /\ out \in Seq(Gens) /\ Len(out) <= OutCap /\ reached \in Gens

Init ==
  /\ gen = 0 /\ reachable = FALSE /\ heard = 0
  /\ sessions = 0 /\ handler = [k \in Conns |-> "unborn"]
  /\ notified = [k \in Conns |-> FALSE] /\ label = [k \in Conns |-> 0]
  /\ watch = "sent" /\ woken = FALSE /\ fresh = TRUE
  /\ wire = [k \in Conns |-> "unborn"]
  /\ up = [k \in Conns |-> <<>>] /\ down = [k \in Conns |-> <<>>]
  /\ at = 0 /\ desired = Empty /\ observed = Empty /\ hand = {} /\ out = <<>> /\ reached = 0

Later(a, b) == IF a > b THEN a ELSE b
Room(queue) == Len(queue) < MaxFlight

\* What is sent on a connection that broke is lost; what came before may be read.
Sent(queues, k, m) == IF wire[k] = "up" THEN [queues EXCEPT ![k] = Append(@, m)] ELSE queues

----------------------------------------------------------------------------
(* The watcher *)

\* Seeded fault: a write that changes nothing is not signalled.
HubNotify_OnChange == woken' = (woken \/ (watch = "subscribed" /\ store' # store))

\* Hub.Notify after a write: who subscribed is signalled, once for all writes
\* since it last looked.
HubNotify == woken' = (woken \/ watch = "subscribed")

Written == HubNotify /\ fresh' = (fresh /\ ~woken' /\ store' = store) /\ UNCHANGED watch

\* The first event has gone out, and now the watcher subscribes.
Subscribe ==
  /\ watch = "sent" /\ watch' = "subscribed"
  /\ UNCHANGED <<store, server, woken, fresh, net, agent>>

sendMachineEvent ==
  /\ woken /\ woken' = FALSE /\ fresh' = TRUE
  /\ UNCHANGED <<store, server, watch, net, agent>>

----------------------------------------------------------------------------
(* The wire *)

\* The last connection is not cut: the network comes to rest.
Cut(k) ==
  /\ wire[k] = "up" /\ k < MaxConns
  /\ wire' = [wire EXCEPT ![k] = "cut"]
  /\ UNCHANGED <<store, server, watcher, up, down, agent>>

----------------------------------------------------------------------------
(* The agent *)

\* session: dial and send Register.
Dial(k) ==
  /\ at = 0 /\ wire[k] = "unborn" /\ \A j \in 1..(k - 1) : wire[j] # "unborn"
  /\ at' = k /\ wire' = [wire EXCEPT ![k] = "up"]
  /\ UNCHANGED <<store, server, watcher, up, down, desired, observed, hand, out, reached>>

\* The session ends with the first error it meets.  Its receiver may still hold
\* a snapshot to submit.
EndSession ==
  /\ at # 0 /\ wire[at] = "cut"
  /\ at' = 0 /\ down' = [down EXCEPT ![at] = <<>>]
  /\ \/ UNCHANGED hand
     \/ down[at] # <<>> /\ hand' = hand \cup {Head(down[at])}
  /\ UNCHANGED <<store, server, watcher, wire, up, desired, observed, out, reached>>

\* SubmitDesired, then applyDesired: whatever snapshot comes last is the one.
SubmitLate ==
  /\ \E ds \in hand : desired' = ds /\ hand' = hand \ {ds}
  /\ UNCHANGED <<store, server, watcher, net, at, observed, out, reached>>

\* handleControl: a snapshot is submitted, and applied.
handleControl ==
  /\ at # 0 /\ down[at] # <<>>
  /\ desired' = Head(down[at]) /\ down' = [down EXCEPT ![at] = Tail(@)]
  /\ UNCHANGED <<store, server, watcher, wire, up, at, observed, hand, out, reached>>

\* send: what finds the channel full is dropped.
Kept(queue, m) == IF Len(queue) < OutCap THEN Append(queue, m) ELSE queue

\* The reconciler converges, and reports it.
Converge ==
  /\ observed # desired /\ observed' = desired
  /\ reached' = Later(reached, desired.of)
  /\ out' = Kept(out, desired.gen)
  /\ UNCHANGED <<store, server, watcher, net, at, desired, hand>>

SendReport ==
  /\ at # 0 /\ out # <<>> /\ Room(up[at])
  /\ up' = Sent(up, at, [kind |-> "status", gen |-> Head(out)])
  /\ out' = Tail(out)
  /\ UNCHANGED <<store, server, watcher, wire, down, at, desired, observed, hand, reached>>

Heartbeat ==
  /\ at # 0 /\ Room(up[at])
  /\ up' = Sent(up, at, [kind |-> "beat", gen |-> observed.gen])
  /\ UNCHANGED <<store, server, watcher, wire, down, agent>>

----------------------------------------------------------------------------
(* The Connect handler *)

\* Register: UpsertMachine, registerSession, and the first push is due.
Register(k) ==
  /\ handler[k] = "unborn" /\ wire[k] # "unborn"
  /\ reachable' = TRUE /\ sessions' = k
  /\ handler' = [handler EXCEPT ![k] = "first"]
  /\ UNCHANGED <<gen, heard, notified, label, net, agent>>
  /\ Written

\* pushDesired begins: loadMachine reads the machine's row.
RowRead(k, phase) ==
  /\ handler' = [handler EXCEPT ![k] = phase] /\ label' = [label EXCEPT ![k] = gen]
  /\ UNCHANGED <<store, watcher, sessions, net, agent>>

FirstPush(k) == handler[k] = "first" /\ RowRead(k, "begun") /\ UNCHANGED notified

NotifiedPush(k) ==
  /\ handler[k] = "loop" /\ notified[k] /\ notified' = [notified EXCEPT ![k] = FALSE]
  /\ RowRead(k, "push")

\* Seeded fault: only what is notified is pushed.
Resync_Never(k) == FALSE /\ UNCHANGED vars

Resync(k) == handler[k] = "loop" /\ RowRead(k, "push") /\ UNCHANGED notified

\* Seeded fault: the tables are read before the row, so that the generation may
\* be the newer of the two.
Loaded_TablesFirst(k) == [gen |-> gen, of |-> label[k]]

\* loadMachine goes on to the tables, whose changes are all committed by now.
Loaded(k) == [gen |-> label[k], of |-> gen]

Pushed(k) ==
  /\ handler[k] \in {"begun", "push"}
  /\ handler' = [handler EXCEPT ![k] = "loop"] /\ label' = [label EXCEPT ![k] = 0]
  /\ UNCHANGED <<store, watcher, sessions, notified, wire, up, agent>>

pushDesired(k) == Pushed(k) /\ Room(down[k]) /\ down' = Sent(down, k, Loaded(k))

\* The secrets of the snapshot do not resolve.
SkipPush(k) == Pushed(k) /\ UNCHANGED down

\* Seeded fault: a heartbeat is no sign of life.
Alive_Registered(m) == reachable

Alive(m) == IF m.kind = "beat" THEN TRUE ELSE reachable

\* Seeded fault: the generation is taken from status reports only.
Heard_Reported(m) == IF m.kind = "status" THEN Later(heard, m.gen) ELSE heard

Heard(m) == Later(heard, m.gen)

\* The receiver starts with the loop.
Receiving(k) == handler[k] \notin {"unborn", "first", "begun"}

\* ApplyStatus, ApplyHeartbeat.
handleAgentMessage(k) ==
  /\ Receiving(k) /\ up[k] # <<>>
  /\ LET m == Head(up[k])
     IN heard' = Heard(m) /\ reachable' = Alive(m)
  /\ up' = [up EXCEPT ![k] = Tail(@)]
  /\ UNCHANGED <<gen, server, wire, down, agent>>
  /\ Written

\* A push or the loop meets an error; without a receiver nothing will be read.
\* The deferred calls follow one by one.
LeaveLoop(k) ==
  /\ handler[k] \in {"begun", "loop", "push"} /\ wire[k] = "cut"
  /\ handler' = [handler EXCEPT ![k] = "leaving"] /\ label' = [label EXCEPT ![k] = 0]
  /\ up' = IF Receiving(k) THEN up ELSE [up EXCEPT ![k] = <<>>]
  /\ UNCHANGED <<store, watcher, sessions, notified, wire, down, agent>>

SetUnreachable(k) ==
  /\ handler[k] = "leaving"
  /\ handler' = [handler EXCEPT ![k] = "left"] /\ reachable' = FALSE
  /\ UNCHANGED <<gen, heard, sessions, notified, label, net, agent>>
  /\ Written

\* Whatever session is on record is removed.  The receiver may still be at work
\* on one message.
unregisterSession(k) ==
  /\ handler[k] = "left"
  /\ handler' = [handler EXCEPT ![k] = "gone"] /\ sessions' = 0
  /\ \/ up' = [up EXCEPT ![k] = <<>>]
     \/ up[k] # <<>> /\ up' = [up EXCEPT ![k] = <<Head(@)>>]
  /\ UNCHANGED <<store, watcher, notified, label, wire, down, agent>>

----------------------------------------------------------------------------
(* The human API *)

\* A verb that changes the desired state, and Notify.
Change ==
  /\ gen < MaxGen /\ gen' = gen + 1
  /\ notified' = IF sessions = 0 THEN notified ELSE [notified EXCEPT ![sessions] = TRUE]
  /\ UNCHANGED <<reachable, heard, sessions, handler, label, net, agent>>
  /\ Written

----------------------------------------------------------------------------
\* What is over after finitely many times.
Once ==
  \/ EndSession \/ SubmitLate \/ Converge \/ SendReport \/ Subscribe
  \/ \E k \in Conns :
       \/ Dial(k) \/ Register(k) \/ FirstPush(k) \/ NotifiedPush(k)
       \/ LeaveLoop(k) \/ SetUnreachable(k) \/ unregisterSession(k)

Next ==
  \/ Once \/ handleControl \/ Heartbeat \/ Change \/ sendMachineEvent
  \/ \E k \in Conns :
       Cut(k) \/ Resync(k) \/ pushDesired(k) \/ SkipPush(k) \/ handleAgentMessage(k)

Spec == Init /\ [][Next]_vars

\* Both ends read what arrives, tickers tick, secrets come to resolve, and the
\* rest runs its course.
FairSpec ==
  /\ Spec
  /\ SF_vars(Once) /\ WF_vars(handleControl) /\ SF_vars(Heartbeat)
  /\ SF_vars(\E k \in Conns : Resync(k)) /\ SF_vars(\E k \in Conns : pushDesired(k))
  /\ WF_vars(\E k \in Conns : handleAgentMessage(k)) /\ WF_vars(sendMachineEvent)

----------------------------------------------------------------------------
(* Properties *)

\* The generation a machine is said to have converged to is one whose changes
\* its agent has had and converged to, whatever was torn, lost or late.
HeardIsReached == heard <= reached

\* Whatever connections break, whichever handler ends late and takes the session
\* of its successor with it: the agent comes to the machine's newest generation
\* ("late or reconnecting agents always get a full snapshot").
SnapshotArrives == <>[](desired = [gen |-> gen, of |-> gen])

\* A machine whose agent is connected comes to be shown reachable, though the
\* handler of the dead connection may end last.
ReachableSettles == <>[]reachable

\* The record comes to the generation the agent converged to, though reports are
\* dropped and lost.
GenerationHeard == <>[](heard = gen /\ observed = [gen |-> gen, of |-> gen])

\* Who watches a machine sees its record as it is again and again, though a write
\* between the first event and the subscription is signalled to nobody.
WatcherSees == []<>fresh
=============================================================================
