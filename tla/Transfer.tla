------------------------------ MODULE Transfer ------------------------------
(***************************************************************************)
(* A human request that the agent answers: the broker that ties the two    *)
(* together (filetransfer, BrowseDir, DownloadFiles, ReapStrategies), the  *)
(* session's send queue (grpcstream) and the agent's side of it            *)
(* (handleControl, filebrowse).                                            *)
(*                                                                         *)
(* The message that ends a request travels as any other, the goroutines    *)
(* that hand messages to the broker run in no order, and caller, handler   *)
(* and agent give up each in its own time.  How a session comes and goes   *)
(* is the subject of Session; here a connection is up, broken or closed.   *)
(***************************************************************************)
EXTENDS Naturals, Sequences, FiniteSets

CONSTANTS
  MaxConns,      \* bound: connections of the agent, one after the other
  MaxFlight,     \* bound: messages on their way in one direction (flow control)
  SendCap,       \* session.sendCh
  PartCap,       \* the waiter's channel in the broker
  MaxTransfers,  \* filebrowse.MaxConcurrentTransfers
  Requests,
  Reaps,         \* the requests that delete slots; the others read files
  Parts          \* messages that answer a request: one listing, or the chunks of a download

ASSUME SizeAssumption ==
  /\ MaxConns \in Nat \ {0} /\ MaxFlight \in Nat \ {0} /\ SendCap \in Nat \ {0}
  /\ PartCap \in Nat \ {0} /\ MaxTransfers \in Nat \ {0}
  /\ Reaps \subseteq Requests /\ Parts \in [Requests -> Nat \ {0}]

Conns   == 1..MaxConns
Answers == UNION {{r} \X (0..Parts[r]) : r \in Requests}   \* part 0 is an error

VARIABLES
  sessions, handler, sendCh,         \* the session on record; Connect handlers with their channels
  waiting, holds,                    \* requests, and the session one found and is about to send on
  partCh, delivering, got,           \* their channels, goroutines that deliver, what came out
  wire, asks, answers,               \* connections, and what is on its way
  at, queued, sending                \* the agent: its connection, transfers not admitted, the next part

server == <<sessions, handler, sendCh>>
broker == <<waiting, holds, partCh, delivering, got>>
net    == <<wire, asks, answers>>
agent  == <<at, queued, sending>>
vars   == <<server, broker, net, agent>>

\* Where a request is: its entry in the broker lasts from "asked" to "waits".
Entered == {"asked", "sends", "waits"}
Places  == {"unasked", "done", "failed"} \cup Entered

\* Transfers that hold a place of the semaphore.
Admitted == {r \in Requests \ Reaps : sending[r] # 0}

TypeOK ==
  /\ sessions \in 0..MaxConns /\ handler \in [Conns -> {"unborn", "loop", "gone"}]
  /\ sendCh \in [Conns -> Seq(Requests)] /\ \A k \in Conns : Len(sendCh[k]) <= SendCap
  /\ waiting \in [Requests -> Places] /\ holds \in [Requests -> 0..MaxConns]
  /\ partCh \in [Requests -> Seq(Nat)] /\ \A r \in Requests : Len(partCh[r]) <= PartCap
  /\ delivering \subseteq Answers /\ got \in [Requests -> Seq(Nat)]
  /\ wire \in [Conns -> {"unborn", "up", "cut"}]
  /\ asks \in [Conns -> Seq(Requests)] /\ answers \in [Conns -> Seq(Answers)]
  /\ \A k \in Conns : Len(asks[k]) <= MaxFlight /\ Len(answers[k]) <= MaxFlight
  /\ at \in 0..MaxConns /\ queued \subseteq Requests /\ sending \in [Requests -> Nat]
  /\ Cardinality(Admitted) <= MaxTransfers

Init ==
  /\ sessions = 0 /\ handler = [k \in Conns |-> "unborn"] /\ sendCh = [k \in Conns |-> <<>>]
  /\ waiting = [r \in Requests |-> "unasked"] /\ holds = [r \in Requests |-> 0]
  /\ partCh = [r \in Requests |-> <<>>]
  /\ delivering = {} /\ got = [r \in Requests |-> <<>>]
  /\ wire = [k \in Conns |-> "unborn"]
  /\ asks = [k \in Conns |-> <<>>] /\ answers = [k \in Conns |-> <<>>]
  /\ at = 0 /\ queued = {} /\ sending = [r \in Requests |-> 0]

Room(queue) == Len(queue) < MaxFlight

\* What is sent on a connection that broke is lost; what came before may be read.
Sent(queues, k, m) == IF wire[k] = "up" THEN [queues EXCEPT ![k] = Append(@, m)] ELSE queues

----------------------------------------------------------------------------
(* Connections *)

\* The last connection is not cut: the network comes to rest.
Cut(k) ==
  /\ wire[k] = "up" /\ k < MaxConns
  /\ wire' = [wire EXCEPT ![k] = "cut"]
  /\ UNCHANGED <<server, broker, asks, answers, agent>>

\* session (dial) and Connect (registerSession).
Open(k) ==
  /\ at = 0 /\ wire[k] = "unborn" /\ \A j \in 1..(k - 1) : wire[j] # "unborn"
  /\ at' = k /\ wire' = [wire EXCEPT ![k] = "up"]
  /\ sessions' = k /\ handler' = [handler EXCEPT ![k] = "loop"]
  /\ UNCHANGED <<sendCh, broker, asks, answers, queued, sending>>

\* session returns: its context ends the transfers.
EndSession ==
  /\ at # 0 /\ wire[at] = "cut"
  /\ at' = 0 /\ asks' = [asks EXCEPT ![at] = <<>>]
  /\ queued' = {} /\ sending' = [r \in Requests |-> 0]
  /\ UNCHANGED <<server, broker, wire, answers>>

\* Connect returns, and unregisterSession removes whatever session is on record.
\* What was queued on its channel stays there: nobody reads it any more.
EndConnect(k) ==
  /\ handler[k] = "loop" /\ wire[k] = "cut"
  /\ handler' = [handler EXCEPT ![k] = "gone"] /\ sessions' = 0
  /\ answers' = [answers EXCEPT ![k] = <<>>]
  /\ UNCHANGED <<sendCh, broker, wire, asks, agent>>

----------------------------------------------------------------------------
(* The human API and the broker *)

\* NewListing, NewDownload, NewReap: the broker's entry comes first.
Request(r) ==
  /\ waiting[r] = "unasked" /\ waiting' = [waiting EXCEPT ![r] = "asked"]
  /\ UNCHANGED <<server, holds, partCh, delivering, got, net, agent>>

\* cancel: the entry is removed, done closed and the channel drained.
Ends(r, how) ==
  waiting' = [waiting EXCEPT ![r] = how] /\ partCh' = [partCh EXCEPT ![r] = <<>>]

\* SendControl looks the session up and unlocks; without one the request fails.
FindSession(r) ==
  /\ waiting[r] = "asked"
  /\ \/ sessions = 0 /\ Ends(r, "failed") /\ UNCHANGED holds
     \/ /\ sessions # 0 /\ holds' = [holds EXCEPT ![r] = sessions]
        /\ waiting' = [waiting EXCEPT ![r] = "sends"] /\ UNCHANGED partCh
  /\ UNCHANGED <<server, delivering, got, net, agent>>

\* Then it waits for room on that session's channel, whatever became of the session.
SendControl(r) ==
  /\ waiting[r] = "sends" /\ Len(sendCh[holds[r]]) < SendCap
  /\ sendCh' = [sendCh EXCEPT ![holds[r]] = Append(@, r)]
  /\ waiting' = [waiting EXCEPT ![r] = "waits"] /\ holds' = [holds EXCEPT ![r] = 0]
  /\ UNCHANGED <<sessions, handler, partCh, delivering, got, net, agent>>

\* The caller's context alone ends that wait: the call's timer is not started yet.
Leave(r) ==
  /\ waiting[r] = "sends" /\ Ends(r, "failed") /\ holds' = [holds EXCEPT ![r] = 0]
  /\ UNCHANGED <<server, delivering, got, net, agent>>

\* The caller takes a message, in the order they come; the last part or an error ends it.
Receive(r) ==
  /\ waiting[r] = "waits" /\ partCh[r] # <<>>
  /\ LET i == Head(partCh[r])
     IN \/ i = 0 /\ Ends(r, "failed") /\ UNCHANGED got
        \/ /\ i # 0 /\ got' = [got EXCEPT ![r] = Append(@, i)]
           /\ \/ i = Parts[r] /\ Ends(r, "done")
              \/ /\ i # Parts[r] /\ partCh' = [partCh EXCEPT ![r] = Tail(@)]
                 /\ UNCHANGED waiting
  /\ UNCHANGED <<server, holds, delivering, net, agent>>

\* BrowseTimeout, DownloadTimeout, ReapTimeout, or the caller left.
GiveUp(r) ==
  /\ waiting[r] = "waits" /\ Ends(r, "failed")
  /\ UNCHANGED <<server, holds, delivering, got, net, agent>>

\* Seeded fault: a delivery waits for room alone, not for the end of the request.
Discards_Never(r) == FALSE

\* The broker does not know the request any more, or done is closed.
Discards(r) == waiting[r] \notin Entered

\* DeliverChunk, DeliverListing, DeliverReapResult: goroutines, in any order.
Deliver(part) ==
  /\ part \in delivering /\ delivering' = delivering \ {part}
  /\ LET r == part[1]
     IN \/ Discards(r) /\ UNCHANGED partCh
        \/ /\ waiting[r] \in Entered /\ Len(partCh[r]) < PartCap
           /\ partCh' = [partCh EXCEPT ![r] = Append(@, part[2])]
  /\ UNCHANGED <<server, waiting, holds, got, net, agent>>

----------------------------------------------------------------------------
(* The Connect handler *)

\* The loop sends what SendControl queued.
SendAsk(k) ==
  /\ handler[k] = "loop" /\ sendCh[k] # <<>> /\ Room(asks[k])
  /\ asks' = Sent(asks, k, Head(sendCh[k])) /\ sendCh' = [sendCh EXCEPT ![k] = Tail(@)]
  /\ UNCHANGED <<sessions, handler, broker, wire, answers, agent>>

\* handleAgentMessage: a goroutine for each message that answers a request.
handleAgentMessage(k) ==
  /\ handler[k] = "loop" /\ answers[k] # <<>>
  /\ delivering' = delivering \cup {Head(answers[k])}
  /\ answers' = [answers EXCEPT ![k] = Tail(@)]
  /\ UNCHANGED <<server, waiting, holds, partCh, got, wire, asks, agent>>

----------------------------------------------------------------------------
(* The agent *)

\* handleControl: a goroutine for each request; reaps need no place.
handleControl ==
  /\ at # 0 /\ asks[at] # <<>>
  /\ LET r == Head(asks[at])
     IN \/ r \in Reaps /\ sending' = [sending EXCEPT ![r] = 1] /\ UNCHANGED queued
        \/ r \notin Reaps /\ queued' = queued \cup {r} /\ UNCHANGED sending
  /\ asks' = [asks EXCEPT ![at] = Tail(@)]
  /\ UNCHANGED <<server, broker, wire, answers, at>>

\* Seeded fault: a transfer starts without a place of the semaphore.
Admits_Always == TRUE

\* A place of the semaphore is free.
Admits == Cardinality(Admitted) < MaxTransfers

\* handleListDir, handleFetchFiles
handleFetchFiles(r) ==
  /\ r \in queued /\ Admits
  /\ queued' = queued \ {r} /\ sending' = [sending EXCEPT ![r] = 1]
  /\ UNCHANGED <<server, broker, net, at>>

\* Fetch, listDir, Reap: the next message of the answer, or an error that ends it.
Fetch(r) ==
  /\ sending[r] # 0 /\ Room(answers[at])
  /\ \/ /\ answers' = Sent(answers, at, <<r, sending[r]>>)
        /\ sending' = [sending EXCEPT ![r] = IF @ = Parts[r] THEN 0 ELSE @ + 1]
     \/ /\ answers' = Sent(answers, at, <<r, 0>>)
        /\ sending' = [sending EXCEPT ![r] = 0]
  /\ UNCHANGED <<server, broker, wire, asks, at, queued>>

----------------------------------------------------------------------------
\* All of it but what people and the network do: it is over after finitely many times.
Work ==
  \/ EndSession \/ handleControl
  \/ \E k \in Conns : Open(k) \/ EndConnect(k) \/ SendAsk(k) \/ handleAgentMessage(k)
  \/ \E r \in Requests : FindSession(r) \/ SendControl(r) \/ Receive(r) \/ GiveUp(r)
  \/ \E r \in Requests : handleFetchFiles(r) \/ Fetch(r)
  \/ \E part \in Answers : Deliver(part)

Next ==
  \/ Work
  \/ \E k \in Conns : Cut(k)
  \/ \E r \in Requests : Request(r) \/ Leave(r)

Spec == Init /\ [][Next]_vars

\* Both ends read what arrives, goroutines run, timers fire.  Callers may stay.
FairSpec == Spec /\ WF_vars(Work)

----------------------------------------------------------------------------
(* Properties *)

\* A caller that found a session whose handler ended since, with its channel full:
\* nobody will read the channel, and only the caller's own context ends the call.
Abandoned(r) ==
  waiting[r] = "sends" /\ handler[holds[r]] = "gone" /\ Len(sendCh[holds[r]]) = SendCap

\* No goroutine, place of the semaphore or entry of the broker is left behind,
\* whoever gives up first (broker.go: "May block until the waiter receives or the
\* request is cancelled"), except those of a caller that SendControl abandoned and
\* that does not leave.
NothingLeaks ==
  <>[](/\ delivering = {} /\ queued = {}
       /\ \A r \in Requests : sending[r] = 0 /\ (waiting[r] \in Entered => Abandoned(r)))

\* A download that ends well is what was sent: "seq increments from 0; the final
\* message sets eof=true".
DownloadIsWhole == \A r \in Requests : waiting[r] = "done" => got[r] = [i \in 1..Parts[r] |-> i]
=============================================================================
