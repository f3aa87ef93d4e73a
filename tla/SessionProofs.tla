--------------------------- MODULE SessionProofs ---------------------------
(***************************************************************************)
(* The generation a machine is said to have converged to never runs ahead  *)
(* of its agent: for any number of connections and changes, any flow       *)
(* control and any size of the agent's channel.                            *)
(***************************************************************************)
EXTENDS Session, TLAPS

\* A snapshot holds at least what its generation says.
Full(ds) == ds.gen <= ds.of

\* Every snapshot on its way, in hand or applied is a full one.
Snapshots ==
  /\ \A k \in Conns : \A i \in 1..Len(down[k]) : Full(down[k][i])
  /\ \A ds \in hand : Full(ds)
  /\ Full(desired) /\ Full(observed)

\* What a push has read so far is no news.
Labels == \A k \in Conns : label[k] <= gen

\* Whatever generation the agent ever told, it had reached.
Reports ==
  /\ observed.of <= reached
  /\ \A i \in 1..Len(out) : out[i] <= reached
  /\ \A k \in Conns : \A i \in 1..Len(up[k]) : up[k][i].gen <= reached
  /\ heard <= reached

Inv == TypeOK /\ Snapshots /\ Labels /\ Reports

----------------------------------------------------------------------------
(* Queues *)

\* Append keeps a queue's elements and adds one.
LEMMA Appended ==
  ASSUME NEW S, NEW q \in Seq(S), NEW m \in S
  PROVE  /\ Append(q, m) \in Seq(S) /\ Len(Append(q, m)) = Len(q) + 1
         /\ \A i \in 1..Len(Append(q, m)) :
              Append(q, m)[i] = m \/ (i \in 1..Len(q) /\ Append(q, m)[i] = q[i])
  OBVIOUS

\* Tail and Head take a queue apart.
LEMMA Taken ==
  ASSUME NEW S, NEW q \in Seq(S), q # <<>>
  PROVE  /\ Tail(q) \in Seq(S) /\ Len(Tail(q)) = Len(q) - 1 /\ Len(q) \in Nat \ {0}
         /\ Head(q) \in S /\ Head(q) = q[1] /\ 1 \in 1..Len(q)
         /\ \A i \in 1..Len(Tail(q)) : i + 1 \in 1..Len(q) /\ Tail(q)[i] = q[i + 1]
  OBVIOUS

\* What is in a queue is of its kind.
LEMMA ElementsOf ==
  ASSUME NEW S, NEW q \in Seq(S)
  PROVE  \A i \in 1..Len(q) : q[i] \in S
  OBVIOUS

\* An empty queue is within any bound.
LEMMA EmptyQueue ==
  ASSUME NEW S
  PROVE  <<>> \in Seq(S) /\ Len(<<>>) = 0 /\ (\A i \in 1..Len(<<>>) : FALSE)
  OBVIOUS

\* A queue of one element, which it took from another.
LEMMA OneQueue ==
  ASSUME NEW S, NEW m \in S
  PROVE  <<m>> \in Seq(S) /\ Len(<<m>>) = 1 /\ <<m>>[1] = m
  OBVIOUS

----------------------------------------------------------------------------
\* Init establishes the invariant: nothing is on its way.
LEMMA InitSound == Init => Inv
<1> SUFFICES ASSUME Init PROVE Inv
  OBVIOUS
<1> USE SizeAssumption DEF Init
<1>1. 0 \in Gens /\ Empty \in Snapshot /\ Full(Empty)
  BY DEF Gens, Snapshot, Empty, Full
<1>2. TypeOK
  <2>1. \A k \in Conns : up[k] = <<>> /\ down[k] = <<>>
    OBVIOUS
  <2>2. up \in [Conns -> Seq(Up)] /\ down \in [Conns -> Seq(Snapshot)]
    BY EmptyQueue
  <2>3. \A k \in Conns : Len(up[k]) <= MaxFlight /\ Len(down[k]) <= MaxFlight
    BY <2>1, EmptyQueue
  <2>4. out \in Seq(Gens) /\ Len(out) <= OutCap
    BY EmptyQueue
  <2>5. /\ handler \in [Conns -> {"unborn", "first", "begun", "loop", "push", "leaving", "left", "gone"}]
        /\ notified \in [Conns -> BOOLEAN] /\ label \in [Conns -> Gens]
        /\ wire \in [Conns -> {"unborn", "up", "cut"}]
    BY <1>1
  <2>6. sessions \in 0..MaxConns /\ at \in 0..MaxConns
    OBVIOUS
  <2> QED
    BY <1>1, <2>2, <2>3, <2>4, <2>5, <2>6 DEF TypeOK
<1>3. Snapshots
  BY <1>1, EmptyQueue DEF Snapshots
<1>4. Labels /\ Reports
  BY <1>1, EmptyQueue DEF Labels, Reports, Empty
<1> QED
  BY <1>2, <1>3, <1>4 DEF Inv

\* Later is one of the two, and no less than either.
LEMMA LaterIsMax ==
  ASSUME NEW a \in Gens, NEW b \in Gens
  PROVE  Later(a, b) \in Gens /\ a <= Later(a, b) /\ b <= Later(a, b) /\ Later(a, b) \in {a, b}
  BY SizeAssumption DEF Later, Gens

\* A write of the record wakes the watcher, and touches nothing else of it.
LEMMA WrittenTypes ==
  ASSUME TypeOK, Written
  PROVE  watch' \in {"sent", "subscribed"} /\ woken' \in BOOLEAN /\ fresh' \in BOOLEAN
  BY DEF TypeOK, Written, HubNotify

\* A step that leaves the queues, the agent and what was heard alone keeps all
\* but the types and the labels.
LEMMA OthersKeep ==
  ASSUME Snapshots, Reports, UNCHANGED <<heard, up, down, desired, observed, hand, out, reached>>
  PROVE  Snapshots' /\ Reports'
  BY DEF Snapshots, Reports, Full

\* The labels stand while neither they nor the generation changes.
LEMMA LabelsKeep ==
  ASSUME Labels, UNCHANGED <<gen, label>>
  PROVE  Labels'
  BY DEF Labels

----------------------------------------------------------------------------
(* The agent *)

\* The end of a session empties its queue; what its receiver holds was in it.
LEMMA EndSessionSound == ASSUME Inv, EndSession PROVE Inv'
<1> USE DEF Inv, EndSession
<1>1. at \in Conns /\ down' = [down EXCEPT ![at] = <<>>]
  BY SizeAssumption DEF TypeOK, Conns
<1>2. \A k \in Conns : down'[k] = IF k = at THEN <<>> ELSE down[k]
  BY <1>1 DEF TypeOK
<1>3. \A ds \in hand' : ds \in hand \/ (down[at] # <<>> /\ ds = Head(down[at]))
  OBVIOUS
<1>4. down[at] # <<>> => Head(down[at]) \in Snapshot /\ Full(Head(down[at]))
  BY <1>1, Taken DEF TypeOK, Snapshots
<1>5. TypeOK'
  <2>1. down' \in [Conns -> Seq(Snapshot)] /\ \A k \in Conns : Len(down'[k]) <= MaxFlight
    BY <1>1, <1>2, EmptyQueue, SizeAssumption DEF TypeOK
  <2>2. hand' \subseteq Snapshot
    BY <1>3, <1>4 DEF TypeOK
  <2> QED
    BY <2>1, <2>2, SizeAssumption DEF TypeOK, server, store, watcher
<1>6. Snapshots'
  <2>1. \A k \in Conns : \A i \in 1..Len(down'[k]) : Full(down'[k][i])
    BY <1>2, EmptyQueue DEF Snapshots
  <2> QED
    BY <2>1, <1>3, <1>4 DEF Snapshots, Full
<1>7. Labels' /\ Reports'
  BY LabelsKeep DEF Reports, server, store
<1> QED
  BY <1>5, <1>6, <1>7

\* A late snapshot was in hand.
LEMMA SubmitLateSound == ASSUME Inv, SubmitLate PROVE Inv'
<1> USE DEF Inv, SubmitLate
<1>1. TypeOK'
  BY DEF TypeOK, server, store, watcher, net
<1>2. Snapshots'
  BY DEF Snapshots, Full, net
<1>3. Labels' /\ Reports'
  BY LabelsKeep DEF Reports, server, store, net
<1> QED
  BY <1>1, <1>2, <1>3

\* A snapshot that arrives was on its way.
LEMMA handleControlSound == ASSUME Inv, handleControl PROVE Inv'
<1> USE DEF Inv, handleControl
<1>1. at \in Conns /\ down[at] \in Seq(Snapshot) /\ down[at] # <<>>
  BY SizeAssumption DEF TypeOK, Conns
<1>2. \A k \in Conns : down'[k] = IF k = at THEN Tail(down[k]) ELSE down[k]
  BY <1>1 DEF TypeOK
<1>3. desired' \in Snapshot /\ Full(desired')
  BY <1>1, Taken DEF Snapshots
<1>4. TypeOK'
  <2>1. /\ Tail(down[at]) \in Seq(Snapshot) /\ Len(Tail(down[at])) = Len(down[at]) - 1
        /\ Len(down[at]) \in Nat /\ Len(down[at]) <= MaxFlight
    BY <1>1, Taken DEF TypeOK
  <2>2. down' \in [Conns -> Seq(Snapshot)] /\ \A k \in Conns : Len(down'[k]) <= MaxFlight
    BY <1>1, <1>2, <2>1, SizeAssumption DEF TypeOK
  <2> QED
    BY <1>3, <2>2 DEF TypeOK, server, store, watcher
<1>5. Snapshots'
  <2>1. \A k \in Conns : \A i \in 1..Len(down'[k]) : Full(down'[k][i])
    BY <1>1, <1>2, Taken DEF Snapshots
  <2> QED
    BY <2>1, <1>3 DEF Snapshots, Full
<1>6. Labels' /\ Reports'
  BY LabelsKeep DEF Reports, server, store
<1> QED
  BY <1>4, <1>5, <1>6

\* The agent reaches what its snapshot holds, which is what the report says or more.
LEMMA ConvergeSound == ASSUME Inv, Converge PROVE Inv'
<1> USE DEF Inv, Converge
<1>1. /\ desired.gen \in Gens /\ desired.of \in Gens /\ desired.gen <= desired.of
      /\ observed.of \in Gens /\ reached \in Gens
  BY DEF TypeOK, Snapshots, Snapshot, Full
<1>2. reached' \in Gens /\ reached <= reached' /\ desired.of <= reached'
  BY <1>1, LaterIsMax
<1>3. /\ out' \in Seq(Gens) /\ Len(out') <= OutCap
      /\ \A i \in 1..Len(out') : out'[i] = desired.gen \/ (i \in 1..Len(out) /\ out'[i] = out[i])
  <2>1. out \in Seq(Gens) /\ Len(out) \in Nat /\ Len(out) <= OutCap
    BY DEF TypeOK
  <2>2. CASE Len(out) < OutCap
    BY <1>1, <2>1, <2>2, Appended, SizeAssumption DEF Kept
  <2>3. CASE ~(Len(out) < OutCap)
    BY <2>1, <2>3 DEF Kept
  <2> QED
    BY <2>2, <2>3
<1>4. TypeOK'
  BY <1>2, <1>3 DEF TypeOK, server, store, watcher, net
<1>5. Snapshots'
  BY DEF Snapshots, Full, net
<1>6. Reports'
  <2> HIDE DEF Converge
  <2>0. \A i \in 1..Len(out) : out[i] \in Gens /\ out[i] <= reached
    BY ElementsOf DEF TypeOK, Reports
  <2>1. \A i \in 1..Len(out') : out'[i] <= reached'
    BY <1>1, <1>2, <1>3, <2>0, SizeAssumption DEF Gens
  <2>2. \A k \in Conns : \A i \in 1..Len(up[k]) : up[k][i].gen \in Gens
    <3>1. \A k \in Conns : \A i \in 1..Len(up[k]) : up[k][i] \in Up
      BY ElementsOf DEF TypeOK
    <3> QED
      BY <3>1 DEF Up
  <2>3. \A k \in Conns : \A i \in 1..Len(up[k]) : up[k][i].gen <= reached'
    BY <1>1, <1>2, <2>2, SizeAssumption DEF Reports, Gens
  <2>4. heard <= reached'
    BY <1>1, <1>2, SizeAssumption DEF Reports, Gens, TypeOK
  <2> QED
    BY <1>2, <2>1, <2>3, <2>4 DEF Reports, store, net, Converge
<1>7. Labels'
  BY LabelsKeep DEF server, store
<1> QED
  BY <1>4, <1>5, <1>6, <1>7

\* What is sent up a connection was reached before.
LEMMA SentUp ==
  ASSUME Inv, at # 0, Room(up[at]), NEW m \in Up, m.gen <= reached, up' = Sent(up, at, m),
         UNCHANGED <<reached, wire>>
  PROVE  /\ up' \in [Conns -> Seq(Up)] /\ \A k \in Conns : Len(up'[k]) <= MaxFlight
         /\ \A k \in Conns : \A i \in 1..Len(up'[k]) : up'[k][i].gen <= reached
<1> USE DEF Inv
<1>1. at \in Conns /\ up[at] \in Seq(Up) /\ Len(up[at]) \in Nat /\ Len(up[at]) < MaxFlight
  BY SizeAssumption DEF TypeOK, Conns, Room
<1>2. CASE wire[at] # "up"
  BY <1>2 DEF TypeOK, Reports, Sent
<1>3. CASE wire[at] = "up"
  <2>1. \A k \in Conns : up'[k] = IF k = at THEN Append(up[k], m) ELSE up[k]
    BY <1>1, <1>3 DEF TypeOK, Sent
  <2>2. Append(up[at], m) \in Seq(Up) /\ Len(Append(up[at], m)) = Len(up[at]) + 1
    BY <1>1, Appended
  <2>3. up' \in [Conns -> Seq(Up)] /\ \A k \in Conns : Len(up'[k]) <= MaxFlight
    BY <1>1, <1>3, <2>1, <2>2, SizeAssumption DEF TypeOK, Sent
  <2>4. \A i \in 1..Len(Append(up[at], m)) : Append(up[at], m)[i].gen <= reached
    BY <1>1, Appended DEF Reports
  <2> QED
    BY <2>1, <2>3, <2>4 DEF Reports
<1> QED
  BY <1>2, <1>3

\* A report that is sent was waiting.
LEMMA SendReportSound == ASSUME Inv, SendReport PROVE Inv'
<1> USE DEF Inv, SendReport
<1>1. out \in Seq(Gens) /\ out # <<>> /\ Len(out) <= OutCap
  BY DEF TypeOK
<1>2. PICK m : m = [kind |-> "status", gen |-> Head(out)]
  OBVIOUS
<1>3. m \in Up /\ m.gen <= reached
  BY <1>1, <1>2, Taken DEF Reports, Up
<1>4. /\ up' \in [Conns -> Seq(Up)] /\ \A k \in Conns : Len(up'[k]) <= MaxFlight
      /\ \A k \in Conns : \A i \in 1..Len(up'[k]) : up'[k][i].gen <= reached
  BY <1>2, <1>3, SentUp
<1>5. out' \in Seq(Gens) /\ Len(out') <= OutCap /\ \A i \in 1..Len(out') : out'[i] <= reached
  BY <1>1, Taken, SizeAssumption DEF Reports
<1>6. TypeOK'
  BY <1>4, <1>5 DEF TypeOK, server, store, watcher
<1>7. Snapshots' /\ Labels'
  BY LabelsKeep DEF Snapshots, Full, server, store
<1>8. Reports'
  BY <1>4, <1>5 DEF Reports, store
<1> QED
  BY <1>6, <1>7, <1>8

\* A heartbeat tells what the agent converged to.
LEMMA HeartbeatSound == ASSUME Inv, Heartbeat PROVE Inv'
<1> USE DEF Inv, Heartbeat
<1>1. PICK m : m = [kind |-> "beat", gen |-> observed.gen]
  OBVIOUS
<1>2. m \in Up /\ m.gen <= reached
  <2>1. /\ observed.gen \in Gens /\ observed.of \in Gens /\ reached \in Gens
        /\ observed.gen <= observed.of /\ observed.of <= reached
    BY DEF TypeOK, Snapshots, Snapshot, Full, Reports
  <2> QED
    BY <1>1, <2>1, SizeAssumption DEF Up, Gens
<1>3. /\ up' \in [Conns -> Seq(Up)] /\ \A k \in Conns : Len(up'[k]) <= MaxFlight
      /\ \A k \in Conns : \A i \in 1..Len(up'[k]) : up'[k][i].gen <= reached
  BY <1>1, <1>2, SentUp DEF agent
<1>4. TypeOK'
  BY <1>3 DEF TypeOK, server, store, watcher, agent
<1>5. Snapshots' /\ Labels'
  BY LabelsKeep DEF Snapshots, Full, server, store, agent
<1>6. Reports'
  BY <1>3 DEF Reports, store, agent
<1> QED
  BY <1>4, <1>5, <1>6

----------------------------------------------------------------------------
(* The wire and the watcher *)

\* Connections come and go without touching what they carry.
LEMMA WireSound ==
  ASSUME Inv, NEW k \in Conns, Cut(k) \/ Dial(k)
  PROVE  Inv'
<1> USE DEF Inv
<1>1. wire' \in [Conns -> {"unborn", "up", "cut"}] /\ at' \in 0..MaxConns
  <2>1. CASE Cut(k)
    BY <2>1 DEF TypeOK, Cut, agent
  <2>2. CASE Dial(k)
    <3>1. k \in 0..MaxConns
      BY SizeAssumption DEF Conns
    <3> QED
      BY <2>2, <3>1 DEF TypeOK, Dial
  <2> QED
    BY <2>1, <2>2
<1>3. TypeOK'
  <2>1. CASE Cut(k)
    BY <1>1, <2>1 DEF TypeOK, Cut, server, store, watcher, agent
  <2>2. CASE Dial(k)
    BY <1>1, <2>2 DEF TypeOK, Dial, server, store, watcher
  <2> QED
    BY <2>1, <2>2
<1>2. Snapshots' /\ Labels' /\ Reports'
  BY OthersKeep, LabelsKeep DEF Cut, Dial, server, store, agent
<1> QED
  BY <1>2, <1>3

\* The watcher reads.
LEMMA WatcherSound == ASSUME Inv, Subscribe \/ sendMachineEvent PROVE Inv'
<1> USE DEF Inv
<1>1. TypeOK'
  BY DEF TypeOK, Subscribe, sendMachineEvent, server, store, net, agent
<1>2. Snapshots' /\ Labels' /\ Reports'
  BY OthersKeep, LabelsKeep DEF Subscribe, sendMachineEvent, server, store, net, agent
<1> QED
  BY <1>1, <1>2

----------------------------------------------------------------------------
(* The Connect handler *)

\* A handler's registration and its end write the record.
LEMMA HandlerSound ==
  ASSUME Inv, NEW k \in Conns, Register(k) \/ SetUnreachable(k)
  PROVE  Inv'
<1> USE DEF Inv
<1>1. TypeOK'
  <2>1. CASE Register(k)
    <3>1. sessions' \in 0..MaxConns /\ reachable' \in BOOLEAN
      BY <2>1, SizeAssumption DEF Register, Conns
    <3>2. handler' \in [Conns -> {"unborn", "first", "begun", "loop", "push", "leaving", "left", "gone"}]
      BY <2>1 DEF TypeOK, Register
    <3> QED
      BY <2>1, <3>1, <3>2, WrittenTypes DEF TypeOK, Register, net, agent
  <2>2. CASE SetUnreachable(k)
    <3>1. reachable' \in BOOLEAN
      BY <2>2 DEF SetUnreachable
    <3>2. handler' \in [Conns -> {"unborn", "first", "begun", "loop", "push", "leaving", "left", "gone"}]
      BY <2>2 DEF TypeOK, SetUnreachable
    <3> QED
      BY <2>2, <3>1, <3>2, WrittenTypes DEF TypeOK, SetUnreachable, net, agent
  <2> QED
    BY <2>1, <2>2
<1>2. Snapshots' /\ Labels' /\ Reports'
  BY OthersKeep, LabelsKeep DEF Register, SetUnreachable, net, agent
<1> QED
  BY <1>1, <1>2

\* A push begins with the generation of that moment.
LEMMA RowReadSound ==
  ASSUME Inv, NEW k \in Conns, FirstPush(k) \/ NotifiedPush(k) \/ Resync(k)
  PROVE  Inv'
<1> USE DEF Inv, FirstPush, NotifiedPush, Resync, RowRead
<1>1. TypeOK'
  <2>1. label' \in [Conns -> Gens] /\ notified' \in [Conns -> BOOLEAN]
    BY DEF TypeOK, store
  <2>2. handler' \in [Conns -> {"unborn", "first", "begun", "loop", "push", "leaving", "left", "gone"}]
    BY DEF TypeOK
  <2> QED
    BY <2>1, <2>2 DEF TypeOK, store, watcher, net, agent
<1>2. Labels'
  <2>1. \A c \in Conns : label'[c] = IF c = k THEN gen ELSE label[c]
    BY DEF TypeOK
  <2>2. gen \in Nat /\ gen' = gen
    BY SizeAssumption DEF TypeOK, store, Gens
  <2> QED
    BY <2>1, <2>2 DEF Labels
<1>3. Snapshots' /\ Reports'
  BY OthersKeep DEF store, net, agent
<1> QED
  BY <1>1, <1>2, <1>3

\* The row was read before the tables: the snapshot is a full one.
LEMMA LoadedIsFull ==
  ASSUME Inv, NEW k \in Conns
  PROVE  Loaded(k) \in Snapshot /\ Full(Loaded(k))
  BY DEF Inv, TypeOK, Labels, Loaded, Snapshot, Full

\* The end of a push resets its label.
LEMMA PushedLabels ==
  ASSUME Inv, NEW k \in Conns, label' = [label EXCEPT ![k] = 0], gen' = gen
  PROVE  label' \in [Conns -> Gens] /\ Labels'
  BY SizeAssumption DEF Inv, TypeOK, Labels, Gens

\* A snapshot is sent, on a connection that may be broken.
LEMMA pushDesiredSound ==
  ASSUME Inv, NEW k \in Conns, pushDesired(k)
  PROVE  Inv'
<1> USE DEF Inv, pushDesired, Pushed
<1>1. PICK ds : ds = Loaded(k)
  OBVIOUS
<1>2. ds \in Snapshot /\ Full(ds)
  BY <1>1, LoadedIsFull
<1>3. down[k] \in Seq(Snapshot) /\ Len(down[k]) \in Nat /\ Len(down[k]) < MaxFlight
  BY DEF TypeOK, Room
<1>4. /\ down' \in [Conns -> Seq(Snapshot)] /\ \A c \in Conns : Len(down'[c]) <= MaxFlight
      /\ \A c \in Conns : \A i \in 1..Len(down'[c]) : Full(down'[c][i])
  <2>1. CASE wire[k] # "up"
    BY <2>1 DEF TypeOK, Snapshots, Sent
  <2>2. CASE wire[k] = "up"
    <3>1. \A c \in Conns : down'[c] = IF c = k THEN Append(down[c], ds) ELSE down[c]
      BY <1>1, <2>2 DEF TypeOK, Sent
    <3>2. Append(down[k], ds) \in Seq(Snapshot) /\ Len(Append(down[k], ds)) = Len(down[k]) + 1
      BY <1>2, <1>3, Appended
    <3>3. down' \in [Conns -> Seq(Snapshot)] /\ \A c \in Conns : Len(down'[c]) <= MaxFlight
      BY <1>1, <1>3, <2>2, <3>1, <3>2, SizeAssumption DEF TypeOK, Sent
    <3>4. \A i \in 1..Len(Append(down[k], ds)) : Full(Append(down[k], ds)[i])
      BY <1>2, <1>3, Appended DEF Snapshots
    <3> QED
      BY <3>1, <3>3, <3>4 DEF Snapshots
  <2> QED
    BY <2>1, <2>2
<1>5. TypeOK'
  BY <1>4, PushedLabels DEF TypeOK, store, watcher, agent
<1>6. Snapshots' /\ Reports'
  BY <1>4 DEF Snapshots, Reports, Full, store, agent
<1> QED
  BY <1>5, <1>6, PushedLabels DEF store

\* Nothing is sent.
LEMMA SkipPushSound == ASSUME Inv, NEW k \in Conns, SkipPush(k) PROVE Inv'
<1> USE DEF Inv, SkipPush, Pushed
<1>1. TypeOK'
  BY PushedLabels DEF TypeOK, store, watcher, agent
<1> QED
  BY <1>1, OthersKeep, PushedLabels DEF store, agent

\* What the record hears was on its way, and reached before.
LEMMA handleAgentMessageSound ==
  ASSUME Inv, NEW k \in Conns, handleAgentMessage(k)
  PROVE  Inv'
<1> USE DEF Inv, handleAgentMessage
<1>1. up[k] \in Seq(Up) /\ up[k] # <<>> /\ Len(up[k]) <= MaxFlight
  BY DEF TypeOK
<1>2. PICK m : m = Head(up[k])
  OBVIOUS
<1>3. m \in Up /\ m.gen \in Gens /\ m.gen <= reached
  <2>1. m \in Up /\ m = up[k][1] /\ 1 \in 1..Len(up[k])
    BY <1>1, <1>2, Taken
  <2> QED
    BY <2>1 DEF Reports, Up
<1>4. heard' \in Gens /\ heard' <= reached
  BY <1>2, <1>3, LaterIsMax DEF TypeOK, Reports, Heard
<1>5. reachable' \in BOOLEAN
  BY DEF TypeOK, Alive
<1>6. \A c \in Conns : up'[c] = IF c = k THEN Tail(up[c]) ELSE up[c]
  BY DEF TypeOK
<1>7. /\ Tail(up[k]) \in Seq(Up) /\ Len(Tail(up[k])) <= MaxFlight
      /\ \A i \in 1..Len(Tail(up[k])) : Tail(up[k])[i].gen <= reached
  BY <1>1, Taken, SizeAssumption DEF Reports
<1>8. up' \in [Conns -> Seq(Up)] /\ \A c \in Conns : Len(up'[c]) <= MaxFlight
  BY <1>6, <1>7 DEF TypeOK
<1>9. TypeOK'
  BY <1>4, <1>5, <1>8, WrittenTypes DEF TypeOK, server, agent
<1>10. Snapshots' /\ Labels'
  BY LabelsKeep DEF Snapshots, Full, server, agent
<1>11. Reports'
  BY <1>4, <1>6, <1>7 DEF Reports, agent
<1> QED
  BY <1>9, <1>10, <1>11

\* A handler that ends leaves of its queue all, one message or nothing.
LEMMA LeftSound ==
  ASSUME Inv, NEW k \in Conns, up' \in {up, [up EXCEPT ![k] = <<>>]} \/
           (up[k] # <<>> /\ up' = [up EXCEPT ![k] = <<Head(up[k])>>])
  PROVE  /\ up' \in [Conns -> Seq(Up)] /\ \A c \in Conns : Len(up'[c]) <= MaxFlight
         /\ \A c \in Conns : \A i \in 1..Len(up'[c]) : up'[c][i].gen <= reached
<1> USE DEF Inv
<1>1. PICK q : /\ q \in {up[k], <<>>} \/ (up[k] # <<>> /\ q = <<Head(up[k])>>)
               /\ up' = [up EXCEPT ![k] = q]
  BY DEF TypeOK
<1>2. q \in Seq(Up) /\ Len(q) <= MaxFlight /\ \A i \in 1..Len(q) : q[i].gen <= reached
  <2>1. CASE q = up[k]
    BY <2>1 DEF TypeOK, Reports
  <2>3. CASE q = <<>>
    BY <2>3, EmptyQueue, SizeAssumption
  <2>2. CASE up[k] # <<>> /\ q = <<Head(up[k])>>
    <3>1. Head(up[k]) \in Up /\ Head(up[k]).gen <= reached
      BY <2>2, Taken DEF TypeOK, Reports
    <3>2. q \in Seq(Up) /\ Len(q) = 1 /\ q[1] = Head(up[k])
      BY <2>2, <3>1, OneQueue
    <3> QED
      BY <3>1, <3>2, SizeAssumption
  <2> QED
    BY <1>1, <2>1, <2>2, <2>3
<1>3. \A c \in Conns : up'[c] = IF c = k THEN q ELSE up[c]
  BY <1>1 DEF TypeOK
<1> QED
  BY <1>1, <1>2, <1>3 DEF TypeOK, Reports

\* The loop is left, and then the session is removed.
LEMMA LeaveSound ==
  ASSUME Inv, NEW k \in Conns, LeaveLoop(k) \/ unregisterSession(k)
  PROVE  Inv'
<1> USE DEF Inv
<1>1. /\ up' \in [Conns -> Seq(Up)] /\ \A c \in Conns : Len(up'[c]) <= MaxFlight
      /\ \A c \in Conns : \A i \in 1..Len(up'[c]) : up'[c][i].gen <= reached
  BY LeftSound DEF LeaveLoop, unregisterSession, TypeOK
<1>2. label' \in [Conns -> Gens] /\ Labels'
  BY PushedLabels, LabelsKeep DEF LeaveLoop, unregisterSession, store, TypeOK
<1>3. TypeOK'
  <2>1. handler' \in [Conns -> {"unborn", "first", "begun", "loop", "push", "leaving", "left", "gone"}]
    BY DEF TypeOK, LeaveLoop, unregisterSession
  <2>2. sessions' \in 0..MaxConns
    BY SizeAssumption DEF TypeOK, LeaveLoop, unregisterSession
  <2> QED
    BY <1>1, <1>2, <2>1, <2>2 DEF TypeOK, LeaveLoop, unregisterSession, store, watcher, agent
<1>4. Snapshots' /\ Reports'
  BY <1>1 DEF Snapshots, Reports, Full, LeaveLoop, unregisterSession, store, agent
<1> QED
  BY <1>2, <1>3, <1>4

\* A change of the desired state makes what was read older, never newer.
LEMMA ChangeSound == ASSUME Inv, Change PROVE Inv'
<1> USE DEF Inv, Change
<1>1. gen \in Nat /\ gen' \in Gens /\ gen <= gen'
  BY SizeAssumption DEF TypeOK, Gens
<1>2. TypeOK'
  BY <1>1, WrittenTypes DEF TypeOK, net, agent
<1>3. Labels'
  BY <1>1, SizeAssumption DEF TypeOK, Labels, Gens
<1>4. Snapshots' /\ Reports'
  BY OthersKeep DEF net, agent
<1> QED
  BY <1>2, <1>3, <1>4

----------------------------------------------------------------------------
\* Every step keeps the invariant.
LEMMA NextSound == Inv /\ [Next]_vars => Inv'
<1> SUFFICES ASSUME Inv, [Next]_vars PROVE Inv'
  OBVIOUS
<1>1. CASE UNCHANGED vars
  BY <1>1 DEF Inv, TypeOK, Snapshots, Labels, Reports, Full, vars, store, server, watcher, net, agent
<1>2. CASE EndSession \/ SubmitLate \/ Converge \/ SendReport \/ handleControl \/ Heartbeat
  BY <1>2, EndSessionSound, SubmitLateSound, ConvergeSound, SendReportSound, handleControlSound,
     HeartbeatSound
<1>3. CASE Subscribe \/ sendMachineEvent \/ Change
  BY <1>3, WatcherSound, ChangeSound
<1>4. ASSUME NEW k \in Conns,
             \/ Dial(k) \/ Register(k) \/ FirstPush(k) \/ NotifiedPush(k)
             \/ LeaveLoop(k) \/ SetUnreachable(k) \/ unregisterSession(k)
      PROVE  Inv'
  BY <1>4, WireSound, HandlerSound, RowReadSound, LeaveSound
<1>5. ASSUME NEW k \in Conns,
             Cut(k) \/ Resync(k) \/ pushDesired(k) \/ SkipPush(k) \/ handleAgentMessage(k)
      PROVE  Inv'
  BY <1>5, WireSound, RowReadSound, pushDesiredSound, SkipPushSound, handleAgentMessageSound
<1> QED
  BY <1>1, <1>2, <1>3, <1>4, <1>5 DEF Next, Once

\* The invariant holds in every state of every behaviour.
THEOREM Invariance == Spec => []Inv
  BY InitSound, NextSound, PTL DEF Spec

\* The generation recorded as converged to (ApplyStatus, ApplyHeartbeat) is one
\* whose changes the agent has had and converged to: loadMachine reads the row
\* with the generation first, and every later step only passes it on.
THEOREM HeardIsAlwaysReached == Spec => []HeardIsReached
  BY Invariance, PTL DEF Inv, Reports, HeardIsReached

\* Every variable keeps its type; in particular no queue outgrows the flow
\* control, nor the reports the channel they are dropped from (send).
THEOREM TypeCorrect == Spec => []TypeOK
  BY Invariance, PTL DEF Inv
============================================================================
