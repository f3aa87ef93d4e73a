--------------------------- MODULE TransferProofs ---------------------------
(***************************************************************************)
(* Proofs about Transfer, for any requests, parts, connections, channels   *)
(* and places: no queue outgrows its channel, no more transfers run than   *)
(* there are places, and what the agent sends are parts of the answer.     *)
(***************************************************************************)
EXTENDS Transfer, SequenceTheorems, FiniteSetTheorems, TLAPS

\* A transfer works on a connection and sends no more parts than its answer has.
SendingKept ==
  /\ at = 0 => queued = {} /\ \A r \in Requests : sending[r] = 0
  /\ \A r \in Requests : sending[r] <= Parts[r]

\* The transfers with a place can be counted.
PlacesKept == IsFiniteSet(Admitted)

Shapes ==
  /\ sessions \in 0..MaxConns /\ handler \in [Conns -> {"unborn", "loop", "gone"}]
  /\ wire \in [Conns -> {"unborn", "up", "cut"}]
  /\ at \in 0..MaxConns /\ queued \subseteq Requests /\ sending \in [Requests -> Nat]
  /\ delivering \subseteq Answers /\ got \in [Requests -> Seq(Nat)]

\* Requests are somewhere, and one that is about to send holds a session.
Waits ==
  /\ waiting \in [Requests -> Places] /\ holds \in [Requests -> 0..MaxConns]
  /\ \A r \in Requests : waiting[r] = "sends" => holds[r] # 0

Queues ==
  /\ sendCh \in [Conns -> Seq(Requests)] /\ \A k \in Conns : Len(sendCh[k]) <= SendCap
  /\ partCh \in [Requests -> Seq(Nat)] /\ \A r \in Requests : Len(partCh[r]) <= PartCap
  /\ asks \in [Conns -> Seq(Requests)] /\ answers \in [Conns -> Seq(Answers)]
  /\ \A k \in Conns : Len(asks[k]) <= MaxFlight /\ Len(answers[k]) <= MaxFlight

Inv == Shapes /\ Waits /\ Queues /\ SendingKept /\ PlacesKept /\ Cardinality(Admitted) <= MaxTransfers

LEMMA InvIsTyped == Inv => TypeOK
BY DEF Inv, Shapes, Waits, Queues, TypeOK

\* A queue of a family after one of them was emptied, shortened or lengthened.
LEMMA QueueEdit ==
  ASSUME NEW I, NEW S, NEW cap \in Nat, NEW q \in [I -> Seq(S)], \A j \in I : Len(q[j]) <= cap,
         NEW i \in I, NEW e \in Seq(S), Len(e) <= cap
  PROVE  /\ [q EXCEPT ![i] = e] \in [I -> Seq(S)]
         /\ \A j \in I : Len([q EXCEPT ![i] = e][j]) <= cap
OBVIOUS

LEMMA TailShort ==
  ASSUME NEW S, NEW s \in Seq(S), s # <<>>
  PROVE  /\ Head(s) \in S /\ Tail(s) \in Seq(S) /\ Len(Tail(s)) < Len(s)
OBVIOUS

LEMMA AppendLong ==
  ASSUME NEW S, NEW s \in Seq(S), NEW m \in S
  PROVE  /\ Append(s, m) \in Seq(S) /\ Len(Append(s, m)) = Len(s) + 1
OBVIOUS

\* What is sent fits where there was room for it.
LEMMA SentKept ==
  ASSUME NEW S, NEW queues \in [Conns -> Seq(S)], \A j \in Conns : Len(queues[j]) <= MaxFlight,
         NEW k \in Conns, Room(queues[k]), NEW m \in S
  PROVE  /\ Sent(queues, k, m) \in [Conns -> Seq(S)]
         /\ \A j \in Conns : Len(Sent(queues, k, m)[j]) <= MaxFlight
<1>1. CASE wire[k] = "up"
  <2>1. /\ queues[k] \in Seq(S) /\ MaxFlight \in Nat /\ Len(queues[k]) \in Nat
        /\ Append(queues[k], m) \in Seq(S) /\ Len(Append(queues[k], m)) = Len(queues[k]) + 1
    BY SizeAssumption, AppendLong
  <2>2. Len(Append(queues[k], m)) <= MaxFlight
    BY <2>1 DEF Room
  <2>3. Sent(queues, k, m) = [queues EXCEPT ![k] = Append(queues[k], m)]
    BY <1>1 DEF Sent
  <2> HIDE DEF Sent
  <2> QED BY <2>1, <2>2, <2>3, QueueEdit
<1>2. CASE wire[k] # "up"
  BY <1>2 DEF Sent
<1> QED BY <1>1, <1>2

\* Places are counted: who stops sending frees his, who starts takes one.
LEMMA PlacesFreed ==
  ASSUME Inv, NEW s \in [Requests -> Nat], sending' = s, \A r \in Requests \ Reaps : s[r] # 0 => sending[r] # 0
  PROVE  PlacesKept' /\ Cardinality(Admitted)' <= MaxTransfers
<1>1. Admitted' \subseteq Admitted
  BY DEF Admitted
<1>2. IsFiniteSet(Admitted) /\ Cardinality(Admitted) <= MaxTransfers /\ MaxTransfers \in Nat
  BY SizeAssumption DEF Inv, PlacesKept
<1>3. IsFiniteSet(Admitted') /\ Cardinality(Admitted') <= Cardinality(Admitted)
  BY <1>1, <1>2, FS_Subset
<1>4. Cardinality(Admitted') \in Nat /\ Cardinality(Admitted) \in Nat
  BY <1>2, <1>3, FS_CardinalityType
<1> QED BY <1>2, <1>3, <1>4 DEF PlacesKept

LEMMA PlaceTaken ==
  ASSUME Inv, Admits, NEW r \in Requests, sending' = [sending EXCEPT ![r] = 1]
  PROVE  PlacesKept' /\ Cardinality(Admitted)' <= MaxTransfers
<1>1. Admitted' \subseteq Admitted \cup {r}
  BY DEF Admitted, Inv, Shapes
<1>2. IsFiniteSet(Admitted) /\ Cardinality(Admitted) < MaxTransfers /\ MaxTransfers \in Nat
  BY SizeAssumption DEF Inv, PlacesKept, Admits
<1>3. /\ IsFiniteSet(Admitted \cup {r})
      /\ Cardinality(Admitted \cup {r}) \in {Cardinality(Admitted), Cardinality(Admitted) + 1}
  BY <1>2, FS_AddElement
<1>4. IsFiniteSet(Admitted') /\ Cardinality(Admitted') <= Cardinality(Admitted \cup {r})
  BY <1>1, <1>3, FS_Subset
<1>5. Cardinality(Admitted') \in Nat /\ Cardinality(Admitted) \in Nat
  BY <1>2, <1>4, FS_CardinalityType
<1> QED BY <1>2, <1>3, <1>4, <1>5 DEF PlacesKept

LEMMA PlacesStay ==
  ASSUME Inv, sending' = sending
  PROVE  PlacesKept' /\ Cardinality(Admitted)' <= MaxTransfers
BY DEF Inv, PlacesKept, Admitted

----------------------------------------------------------------------------
(* Connections, requests and the broker *)

LEMMA InvInit == Init => Inv
<1> SUFFICES ASSUME Init PROVE Inv
  OBVIOUS
<1>1. Shapes
  BY SizeAssumption DEF Init, Shapes, Conns, Answers
<1>5. Waits
  BY SizeAssumption DEF Init, Waits, Places
<1>2. Queues
  BY SizeAssumption DEF Init, Queues
<1>3. SendingKept
  BY SizeAssumption DEF Init, SendingKept
<1>4. Admitted = {}
  BY DEF Init, Admitted
<1> QED BY <1>1, <1>2, <1>3, <1>4, <1>5, FS_EmptySet, SizeAssumption DEF Inv, PlacesKept

\* The types of what a step reads.
LEMMA Facts ==
  ASSUME Inv
  PROVE  /\ MaxConns \in Nat /\ MaxFlight \in Nat /\ SendCap \in Nat /\ PartCap \in Nat
         /\ \A r \in Requests : Parts[r] \in Nat \ {0}
         /\ \A r \in Requests : <<r, 0>> \in Answers
         /\ \A r \in Requests : \A i \in 0..Parts[r] : <<r, i>> \in Answers
         /\ \A a \in Answers : a[1] \in Requests /\ a[2] \in Nat
         /\ at # 0 => at \in Conns
         /\ sessions # 0 => sessions \in Conns
BY SizeAssumption DEF Inv, Shapes, Answers, Conns

LEMMA CutStep ==
  ASSUME Inv, NEW k \in Conns, Cut(k)
  PROVE  Inv'
<1>1. Shapes' /\ Waits' /\ Queues' /\ SendingKept'
  BY DEF Inv, Cut, Shapes, Waits, Queues, SendingKept, server, broker, agent
<1> QED BY <1>1, PlacesStay DEF Inv, Cut, agent

LEMMA OpenStep ==
  ASSUME Inv, NEW k \in Conns, Open(k)
  PROVE  Inv'
<1>1. Shapes' /\ Waits' /\ Queues' /\ SendingKept'
  BY DEF Inv, Open, Shapes, Waits, Queues, SendingKept, broker, Conns
<1> QED BY <1>1, PlacesStay DEF Inv, Open

LEMMA EndSessionStep ==
  ASSUME Inv, EndSession
  PROVE  Inv'
<1>1. /\ at \in Conns /\ asks' = [asks EXCEPT ![at] = <<>>] /\ at' = 0 /\ queued' = {}
      /\ sending' = [r \in Requests |-> 0] /\ UNCHANGED <<server, broker, wire, answers>>
  BY Facts DEF EndSession
<1>2. Shapes' /\ Waits' /\ SendingKept'
  BY <1>1, Facts DEF Inv, Shapes, Waits, SendingKept, server, broker
<1>3. asks' \in [Conns -> Seq(Requests)] /\ \A k \in Conns : Len(asks'[k]) <= MaxFlight
  BY <1>1, Facts, QueueEdit DEF Inv, Queues
<1>4. Queues'
  BY <1>1, <1>3 DEF Inv, Queues, server, broker
<1> QED BY <1>1, <1>2, <1>4, PlacesFreed DEF Inv

LEMMA EndConnectStep ==
  ASSUME Inv, NEW k \in Conns, EndConnect(k)
  PROVE  Inv'
<1>1. /\ handler' = [handler EXCEPT ![k] = "gone"] /\ sessions' = 0
      /\ answers' = [answers EXCEPT ![k] = <<>>]
      /\ UNCHANGED <<sendCh, broker, wire, asks, agent>>
  BY DEF EndConnect
<1>2. Shapes' /\ Waits' /\ SendingKept'
  BY <1>1, Facts DEF Inv, Shapes, Waits, SendingKept, broker, agent
<1>3. answers' \in [Conns -> Seq(Answers)] /\ \A j \in Conns : Len(answers'[j]) <= MaxFlight
  BY <1>1, Facts, QueueEdit DEF Inv, Queues
<1>4. Queues'
  BY <1>1, <1>3 DEF Inv, Queues, broker
<1> QED BY <1>1, <1>2, <1>4, PlacesStay DEF Inv, agent

LEMMA SendStep ==
  ASSUME Inv, NEW r \in Requests, SendControl(r)
  PROVE  Inv'
<1>1. /\ waiting[r] = "sends" /\ Len(sendCh[holds[r]]) < SendCap
      /\ sendCh' = [sendCh EXCEPT ![holds[r]] = Append(sendCh[holds[r]], r)]
      /\ waiting' = [waiting EXCEPT ![r] = "waits"] /\ holds' = [holds EXCEPT ![r] = 0]
      /\ UNCHANGED <<sessions, handler, partCh, delivering, got, net, agent>>
  BY DEF SendControl
<1>2. Shapes' /\ Waits' /\ SendingKept'
  BY <1>1, Facts DEF Inv, Shapes, Waits, SendingKept, net, agent, Places, Entered
<1>3. holds[r] \in Conns /\ sendCh[holds[r]] \in Seq(Requests) /\ SendCap \in Nat
  <2>1. holds[r] \in 0..MaxConns /\ holds[r] # 0
    BY <1>1 DEF Inv, Waits
  <2>2. holds[r] \in Conns
    BY <2>1, Facts DEF Conns
  <2> QED BY <2>2, Facts DEF Inv, Queues
<1>4. /\ Append(sendCh[holds[r]], r) \in Seq(Requests)
      /\ Len(Append(sendCh[holds[r]], r)) = Len(sendCh[holds[r]]) + 1
      /\ Len(sendCh[holds[r]]) \in Nat
  BY <1>3, AppendLong
<1>5. Len(Append(sendCh[holds[r]], r)) <= SendCap
  BY <1>1, <1>3, <1>4
<1>6. sendCh' \in [Conns -> Seq(Requests)] /\ \A j \in Conns : Len(sendCh'[j]) <= SendCap
  BY <1>1, <1>3, <1>4, <1>5, QueueEdit DEF Inv, Queues
<1>7. Queues'
  BY <1>1, <1>6 DEF Inv, Queues, net
<1> QED BY <1>1, <1>2, <1>7, PlacesStay DEF Inv, agent

LEMMA BrokerStep ==
  ASSUME Inv, NEW r \in Requests, NEW e \in Seq(Nat), Len(e) <= PartCap,
         partCh' = [partCh EXCEPT ![r] = e],
         Waits',
         got' \in [Requests -> Seq(Nat)], delivering' \subseteq Answers,
         UNCHANGED <<server, net, agent>>
  PROVE  Inv'
<1>1. Shapes' /\ Waits' /\ SendingKept'
  BY DEF Inv, Shapes, Waits, SendingKept, server, net, agent
<1>2. partCh' \in [Requests -> Seq(Nat)] /\ \A j \in Requests : Len(partCh'[j]) <= PartCap
  BY Facts, QueueEdit DEF Inv, Queues
<1>3. Queues'
  BY <1>2 DEF Inv, Queues, server, net
<1> QED BY <1>1, <1>3, PlacesStay DEF Inv, agent

\* A request begins, finds a session or none, or its caller leaves.
LEMMA RequestStep ==
  ASSUME Inv, NEW r \in Requests, Request(r) \/ FindSession(r) \/ Leave(r)
  PROVE  Inv'
<1>1. UNCHANGED <<server, delivering, got, net, agent>>
  BY DEF Request, FindSession, Leave
<1>2. partCh' = [partCh EXCEPT ![r] = partCh[r]] \/ partCh' = [partCh EXCEPT ![r] = <<>>]
  BY DEF Request, FindSession, Leave, Ends, Inv, Queues
<1>3. Waits'
  <2>1. {"asked", "sends", "failed"} \subseteq Places
    BY DEF Places, Entered
  <2>2. /\ waiting \in [Requests -> Places] /\ holds \in [Requests -> 0..MaxConns]
        /\ \A q \in Requests : waiting[q] = "sends" => holds[q] # 0
        /\ sessions \in 0..MaxConns
    BY DEF Inv, Waits, Shapes
  <2> HIDE DEF Places
  <2>3. CASE Request(r)
    BY <2>1, <2>2, <2>3 DEF Request, Waits
  <2>4. CASE FindSession(r)
    BY <2>1, <2>2, <2>4 DEF FindSession, Ends, Waits
  <2>5. CASE Leave(r)
    BY <2>1, <2>2, <2>5, Facts DEF Leave, Ends, Waits
  <2> QED BY <2>3, <2>4, <2>5
<1>4. partCh[r] \in Seq(Nat) /\ Len(partCh[r]) <= PartCap /\ <<>> \in Seq(Nat) /\ Len(<<>>) <= PartCap
  BY Facts DEF Inv, Queues
<1>5. got' \in [Requests -> Seq(Nat)] /\ delivering' \subseteq Answers
  BY <1>1 DEF Inv, Shapes
<1> QED BY <1>1, <1>2, <1>3, <1>4, <1>5, BrokerStep

LEMMA ReceiveStep ==
  ASSUME Inv, NEW r \in Requests, Receive(r) \/ GiveUp(r)
  PROVE  Inv'
<1>1. partCh \in [Requests -> Seq(Nat)] /\ Len(partCh[r]) <= PartCap /\ PartCap \in Nat
      /\ partCh[r] \in Seq(Nat) /\ Len(partCh[r]) \in Nat /\ <<>> \in Seq(Nat) /\ Len(<<>>) <= PartCap
  BY Facts DEF Inv, Queues
<1>2. Waits'
  BY DEF Receive, GiveUp, Ends, Inv, Waits, Places, Entered
<1>3. partCh[r] # <<>> => /\ Head(partCh[r]) \in Nat /\ Tail(partCh[r]) \in Seq(Nat)
                          /\ Len(Tail(partCh[r])) <= PartCap
  BY <1>1, TailShort
<1>4. got' \in [Requests -> Seq(Nat)]
  <2>1. got \in [Requests -> Seq(Nat)]
    BY DEF Inv, Shapes
  <2>2. got' = got \/ \E i \in Nat : got' = [got EXCEPT ![r] = Append(got[r], i)]
    BY <1>3 DEF Receive, GiveUp
  <2>3. ASSUME NEW i \in Nat PROVE [got EXCEPT ![r] = Append(got[r], i)] \in [Requests -> Seq(Nat)]
    <3>1. Append(got[r], i) \in Seq(Nat)
      BY <2>1, AppendLong
    <3> QED BY <2>1, <3>1
  <2> QED BY <2>1, <2>2, <2>3
<1>5. \/ partCh' = [partCh EXCEPT ![r] = <<>>]
      \/ partCh[r] # <<>> /\ partCh' = [partCh EXCEPT ![r] = Tail(partCh[r])]
  BY DEF Receive, GiveUp, Ends
<1>6. UNCHANGED <<server, delivering, net, agent>> /\ delivering \subseteq Answers
  BY DEF Receive, GiveUp, Inv, Shapes
<1>7. CASE partCh' = [partCh EXCEPT ![r] = <<>>]
  BY <1>1, <1>2, <1>4, <1>6, <1>7, BrokerStep
<1>8. CASE partCh[r] # <<>> /\ partCh' = [partCh EXCEPT ![r] = Tail(partCh[r])]
  BY <1>2, <1>3, <1>4, <1>6, <1>8, BrokerStep
<1> QED BY <1>5, <1>7, <1>8

LEMMA DeliverStep ==
  ASSUME Inv, NEW part \in Answers, Deliver(part)
  PROVE  Inv'
<1> DEFINE r == part[1]
<1>1. /\ r \in Requests /\ part[2] \in Nat /\ partCh[r] \in Seq(Nat) /\ PartCap \in Nat
      /\ Len(partCh[r]) \in Nat /\ Len(partCh[r]) <= PartCap /\ partCh \in [Requests -> Seq(Nat)]
  BY Facts DEF Inv, Queues
<1>2. /\ delivering' \subseteq Answers
      /\ Waits'
      /\ got' \in [Requests -> Seq(Nat)] /\ UNCHANGED <<server, net, agent>>
  BY DEF Deliver, Inv, Shapes, Waits
<1>3. \/ UNCHANGED partCh
      \/ /\ Len(partCh[r]) < PartCap
         /\ partCh' = [partCh EXCEPT ![r] = Append(partCh[r], part[2])]
  BY DEF Deliver
<1> HIDE DEF r
<1>4. CASE UNCHANGED partCh
  <2>1. partCh' = [partCh EXCEPT ![r] = partCh[r]]
    BY <1>1, <1>4
  <2> QED BY <1>1, <1>2, <2>1, BrokerStep
<1>5. CASE /\ Len(partCh[r]) < PartCap
           /\ partCh' = [partCh EXCEPT ![r] = Append(partCh[r], part[2])]
  <2>1. Append(partCh[r], part[2]) \in Seq(Nat) /\ Len(Append(partCh[r], part[2])) = Len(partCh[r]) + 1
    BY <1>1, AppendLong
  <2>2. Len(Append(partCh[r], part[2])) <= PartCap
    BY <1>1, <1>5, <2>1
  <2> QED BY <1>1, <1>2, <1>5, <2>1, <2>2, BrokerStep
<1> QED BY <1>3, <1>4, <1>5

----------------------------------------------------------------------------
(* The handler and the agent *)

LEMMA SendAskStep ==
  ASSUME Inv, NEW k \in Conns, SendAsk(k)
  PROVE  Inv'
<1>1. /\ sendCh[k] # <<>> /\ Room(asks[k]) /\ asks' = Sent(asks, k, Head(sendCh[k]))
      /\ sendCh' = [sendCh EXCEPT ![k] = Tail(sendCh[k])]
      /\ UNCHANGED <<sessions, handler, broker, wire, answers, agent>>
  BY DEF SendAsk
<1>2. /\ sendCh[k] \in Seq(Requests) /\ Len(sendCh[k]) <= SendCap /\ SendCap \in Nat
      /\ Head(sendCh[k]) \in Requests /\ Tail(sendCh[k]) \in Seq(Requests)
      /\ Len(Tail(sendCh[k])) \in Nat /\ Len(sendCh[k]) \in Nat /\ Len(Tail(sendCh[k])) < Len(sendCh[k])
  BY <1>1, Facts, TailShort DEF Inv, Queues
<1>3. Len(Tail(sendCh[k])) <= SendCap
  BY <1>2
<1>4. sendCh' \in [Conns -> Seq(Requests)] /\ \A j \in Conns : Len(sendCh'[j]) <= SendCap
  BY <1>1, <1>2, <1>3, QueueEdit DEF Inv, Queues
<1>5. asks' \in [Conns -> Seq(Requests)] /\ \A j \in Conns : Len(asks'[j]) <= MaxFlight
  BY <1>1, <1>2, SentKept DEF Inv, Queues
<1>6. Shapes' /\ Waits' /\ SendingKept'
  BY <1>1 DEF Inv, Shapes, Waits, SendingKept, broker, agent
<1>7. Queues'
  BY <1>1, <1>4, <1>5 DEF Inv, Queues, broker
<1> QED BY <1>1, <1>6, <1>7, PlacesStay DEF Inv, agent

LEMMA AnswerStep ==
  ASSUME Inv, NEW k \in Conns, handleAgentMessage(k)
  PROVE  Inv'
<1>1. /\ answers[k] # <<>> /\ delivering' = delivering \cup {Head(answers[k])}
      /\ answers' = [answers EXCEPT ![k] = Tail(answers[k])]
      /\ UNCHANGED <<server, waiting, holds, partCh, got, wire, asks, agent>>
  BY DEF handleAgentMessage
<1>2. /\ answers[k] \in Seq(Answers) /\ Len(answers[k]) <= MaxFlight /\ MaxFlight \in Nat
      /\ Head(answers[k]) \in Answers /\ Tail(answers[k]) \in Seq(Answers)
      /\ Len(Tail(answers[k])) \in Nat /\ Len(answers[k]) \in Nat
      /\ Len(Tail(answers[k])) < Len(answers[k])
  BY <1>1, Facts, TailShort DEF Inv, Queues
<1>3. Len(Tail(answers[k])) <= MaxFlight
  BY <1>2
<1>4. answers' \in [Conns -> Seq(Answers)] /\ \A j \in Conns : Len(answers'[j]) <= MaxFlight
  BY <1>1, <1>2, <1>3, QueueEdit DEF Inv, Queues
<1>5. Shapes' /\ Waits' /\ SendingKept'
  BY <1>1, <1>2 DEF Inv, Shapes, Waits, SendingKept, server, agent
<1>6. Queues'
  BY <1>1, <1>4 DEF Inv, Queues, server
<1> QED BY <1>1, <1>5, <1>6, PlacesStay DEF Inv, agent

\* A reap is heard: it takes no place, only the transfers of Requests \ Reaps do.
LEMMA ControlStep ==
  ASSUME Inv, handleControl
  PROVE  Inv'
<1> DEFINE r == Head(asks[at])
<1>1. /\ at # 0 /\ asks[at] # <<>> /\ asks' = [asks EXCEPT ![at] = Tail(asks[at])]
      /\ UNCHANGED <<server, broker, wire, answers, at>>
      /\ \/ r \in Reaps /\ sending' = [sending EXCEPT ![r] = 1] /\ UNCHANGED queued
         \/ r \notin Reaps /\ queued' = queued \cup {r} /\ UNCHANGED sending
  BY DEF handleControl
<1>2. at \in Conns /\ MaxFlight \in Nat
  BY <1>1, Facts
<1>3. /\ asks[at] \in Seq(Requests) /\ Len(asks[at]) <= MaxFlight /\ r \in Requests
      /\ Tail(asks[at]) \in Seq(Requests) /\ Len(Tail(asks[at])) \in Nat /\ Len(asks[at]) \in Nat
      /\ Len(Tail(asks[at])) < Len(asks[at])
  BY <1>1, <1>2, TailShort DEF Inv, Queues
<1> HIDE DEF r
<1>4. Len(Tail(asks[at])) <= MaxFlight
  BY <1>2, <1>3
<1>5. asks' \in [Conns -> Seq(Requests)] /\ \A j \in Conns : Len(asks'[j]) <= MaxFlight
  BY <1>1, <1>2, <1>3, <1>4, QueueEdit DEF Inv, Queues
<1>6. /\ sending' \in [Requests -> Nat] /\ queued' \subseteq Requests
      /\ \A q \in Requests : sending'[q] <= Parts[q]
      /\ \A q \in Requests \ Reaps : sending'[q] = sending[q]
  <2>1. Parts[r] \in Nat \ {0}
    BY <1>3, Facts
  <2>2. /\ sending \in [Requests -> Nat] /\ queued \subseteq Requests
        /\ \A q \in Requests : sending[q] <= Parts[q]
    BY DEF Inv, Shapes, Waits, SendingKept
  <2>3. CASE r \in Reaps /\ sending' = [sending EXCEPT ![r] = 1] /\ UNCHANGED queued
    BY <1>3, <2>1, <2>2, <2>3
  <2>4. CASE queued' = queued \cup {r} /\ UNCHANGED sending
    BY <1>3, <2>2, <2>4
  <2> QED BY <1>1, <2>3, <2>4
<1>7. Shapes' /\ Waits' /\ SendingKept'
  BY <1>1, <1>6 DEF Inv, Shapes, Waits, SendingKept, server, broker
<1>8. Queues'
  BY <1>1, <1>5 DEF Inv, Queues, server, broker
<1> QED BY <1>6, <1>7, <1>8, PlacesFreed DEF Inv

LEMMA FetchFilesStep ==
  ASSUME Inv, NEW r \in Requests, handleFetchFiles(r)
  PROVE  Inv'
<1>1. /\ r \in queued /\ Admits /\ queued' = queued \ {r} /\ sending' = [sending EXCEPT ![r] = 1]
      /\ UNCHANGED <<server, broker, net, at>>
  BY DEF handleFetchFiles
<1>2. Parts[r] \in Nat \ {0}
  BY Facts
<1>3. Shapes' /\ Waits' /\ SendingKept'
  BY <1>1, <1>2 DEF Inv, Shapes, Waits, SendingKept, server, broker, net
<1>4. Queues'
  BY <1>1 DEF Inv, Queues, server, broker, net
<1> QED BY <1>1, <1>3, <1>4, PlaceTaken DEF Inv

LEMMA FetchStep ==
  ASSUME Inv, NEW r \in Requests, Fetch(r)
  PROVE  Inv'
<1>1. /\ sending[r] # 0 /\ Room(answers[at]) /\ UNCHANGED <<server, broker, wire, asks, at, queued>>
  BY DEF Fetch
<1>2. at \in Conns /\ sending[r] \in 0..Parts[r] /\ Parts[r] \in Nat /\ sending \in [Requests -> Nat]
  BY <1>1, Facts DEF Inv, Shapes, Waits, SendingKept
<1>3. PICK m \in Answers, n \in 0..Parts[r] :
        answers' = Sent(answers, at, m) /\ sending' = [sending EXCEPT ![r] = n]
  <2>1. <<r, sending[r]>> \in Answers /\ <<r, 0>> \in Answers
    BY <1>2, Facts
  <2> DEFINE n == IF sending[r] = Parts[r] THEN 0 ELSE sending[r] + 1
  <2>2. n \in 0..Parts[r] /\ 0 \in 0..Parts[r]
    BY <1>2
  <2>3. \/ answers' = Sent(answers, at, <<r, sending[r]>>) /\ sending' = [sending EXCEPT ![r] = n]
        \/ answers' = Sent(answers, at, <<r, 0>>) /\ sending' = [sending EXCEPT ![r] = 0]
    BY DEF Fetch
  <2> HIDE DEF n
  <2> QED BY <2>1, <2>2, <2>3
<1>4. answers' \in [Conns -> Seq(Answers)] /\ \A j \in Conns : Len(answers'[j]) <= MaxFlight
  BY <1>1, <1>2, <1>3, SentKept DEF Inv, Queues
<1>5. /\ sending' \in [Requests -> Nat]
      /\ \A q \in Requests : sending'[q] <= Parts[q] /\ (sending'[q] # 0 => sending[q] # 0)
  BY <1>1, <1>2, <1>3 DEF Inv, SendingKept
<1>6. Shapes' /\ Waits' /\ SendingKept'
  BY <1>1, <1>2, <1>5 DEF Inv, Shapes, Waits, SendingKept, server, broker
<1>7. Queues'
  BY <1>1, <1>4 DEF Inv, Queues, server, broker
<1> QED BY <1>5, <1>6, <1>7, PlacesFreed DEF Inv

----------------------------------------------------------------------------

LEMMA InvNext == Inv /\ [Next]_vars => Inv'
<1> SUFFICES ASSUME Inv, [Next]_vars PROVE Inv'
  OBVIOUS
<1>1. CASE UNCHANGED vars
  <2>1. Shapes' /\ Waits' /\ Queues' /\ SendingKept'
    BY <1>1 DEF Inv, Shapes, Waits, Queues, SendingKept, vars, server, broker, net, agent
  <2> QED BY <1>1, <2>1, PlacesStay DEF Inv, vars, agent
<1> QED BY <1>1, CutStep, OpenStep, EndSessionStep, EndConnectStep, RequestStep, SendStep, ReceiveStep,
           DeliverStep, SendAskStep, AnswerStep, ControlStep, FetchFilesStep, FetchStep
        DEF Next, Work

\* The invariant behind the types: a transfer sends the parts of its answer and no
\* more, on a connection, from one of the places of the semaphore.
THEOREM Invariance == Spec => []Inv
BY InvInit, InvNext, PTL DEF Spec

\* Every variable of the broker, the handlers and the agent keeps its type: no
\* channel and no direction of the stream holds more than it has room for, and no
\* more transfers run than the semaphore has places, whatever breaks or gives up
\* (filebrowse.go's semaphore, broker.go's channels).
THEOREM TypeCorrect == Spec => []TypeOK
BY Invariance, InvIsTyped, PTL
=============================================================================
