------------------------- MODULE SharedFilesProofs -------------------------
(***************************************************************************)
(* Proofs about SharedFiles: types and the fetch slots for every value of  *)
(* the constants, and, where no digest is asked for again while a fetch    *)
(* that was cancelled for it is still about, that what is live is          *)
(* complete.                                                               *)
(***************************************************************************)
EXTENDS SharedFiles, FiniteSetTheorems, TLAPS

\* TypeOK without the fetch slots.
Shapes ==
  /\ pc \in {"select", "shared"} /\ fresh \in BOOLEAN /\ stranded \subseteq Names
  /\ desired \in [Names -> Digests \cup {None}]
  /\ known \subseteq Names /\ blocked \subseteq Names
  /\ inflight \in [Names -> Op \cup {None}]
  /\ link \in [Names -> Digests \cup {None}]
  /\ store \in [Objects -> File] /\ partial \in [Objects -> File]
  /\ worker \in [Workers -> Task \cup {Idle}] /\ cancelled \subseteq Workers
  /\ sharedCh \in Seq(Result)
  /\ snapshots \in 0..MaxSnapshots /\ faults \in 0..MaxFaults /\ restarts \in 0..MaxRestarts

SlotsKept == Cardinality(Loading) <= MaxFetches

----------------------------------------------------------------------------
(* Shapes *)

\* None is no fetch, and who runs has a task.
LEMMA RunningHasTask ==
  ASSUME Shapes, NEW w \in Workers, Running(w)
  PROVE  worker[w] \in Task /\ Object(w) \in Objects
  BY DEF Shapes, Running, Idle, Task, Object, Objects

\* A snapshot.
LEMMA applyDesiredSharedShapes ==
  ASSUME Shapes, NEW ds \in Snapshots, applyDesiredShared(ds)
  PROVE  Shapes'
<1>1. ds \in [Names -> Digests \cup {None}]
  BY SourceAssumption
<1>2. \A n \in Names : inflight[n] # None => inflight[n].by \in Workers
  BY DEF Shapes, Op
<1>3. cancelled' \subseteq Workers
  BY <1>2 DEF applyDesiredShared, Shapes, Withdrawn
<1>4. inflight' \in [Names -> Op \cup {None}]
  BY DEF applyDesiredShared, Shapes
<1>5. snapshots' \in 0..MaxSnapshots
  BY CountAssumption DEF applyDesiredShared, Shapes
<1> QED BY <1>1, <1>3, <1>4, <1>5 DEF applyDesiredShared, Shapes, disk, history

\* A pass.
LEMMA reconcileSharedShapes ==
  ASSUME Shapes, reconcileShared
  PROVE  Shapes'
<1>1. PICK stuck \in SUBSET {n \in Dropped : link[n] # None} : DropLinks(stuck)
  BY DEF reconcileShared
<1>2. PICK S \in SUBSET Names :
        Batch(S) /\ (\E by \in [S -> Spare] : beginSharedFetch(S, by)) /\ Sweep(S)
  BY DEF reconcileShared
<1>3. PICK by \in [S -> Spare] : beginSharedFetch(S, by)
  BY <1>2
<1>4. \A n \in S : desired[n] \in Digests /\ by[n] \in Workers
  BY <1>2, <1>3 DEF Batch, Stale, Shapes, Spare
<1>5. inflight' \in [Names -> Op \cup {None}]
  BY <1>4, <1>3 DEF Shapes, Op, beginSharedFetch
<1>6. worker' \in [Workers -> Task \cup {Idle}]
  <2>1. ASSUME NEW w \in Workers, \E n \in S : by[n] = w
        PROVE  worker'[w] \in Task
    <3> DEFINE n == CHOOSE n \in S : by[n] = w
    <3>1. n \in S
      BY <2>1
    <3>2. worker'[w] = [phase |-> "check", name |-> n, digest |-> desired[n]]
      BY <1>3, <2>1 DEF beginSharedFetch
    <3> HIDE DEF n
    <3> QED BY <1>2, <1>4, <3>1, <3>2 DEF Task
  <2>2. ASSUME NEW w \in Workers, ~ \E n \in S : by[n] = w
        PROVE  worker'[w] = worker[w]
    BY <1>3, <2>2 DEF beginSharedFetch
  <2>3. worker' = [w \in Workers |-> worker'[w]]
    BY <1>3 DEF beginSharedFetch
  <2> QED BY <2>1, <2>2, <2>3 DEF Shapes
<1>7. link' \in [Names -> Digests \cup {None}] /\ known' \subseteq Names /\ cancelled' \subseteq Workers
      /\ stranded' \subseteq Names
  BY <1>1, <1>3 DEF Shapes, DropLinks, beginSharedFetch
<1>8. store' \in [Objects -> File] /\ partial' \in [Objects -> File]
  BY <1>2 DEF Shapes, Sweep, GCShared, File
<1>9. faults' \in 0..MaxFaults
  BY <1>1, CountAssumption DEF Shapes, DropLinks
<1> QED BY <1>5, <1>6, <1>7, <1>8, <1>9 DEF reconcileShared, Shapes

\* A result is taken.
LEMMA applySharedWorkerEventShapes ==
  ASSUME Shapes, applySharedWorkerEvent
  PROVE  Shapes'
<1> DEFINE ev == Head(sharedCh)
<1>1. ev \in Result /\ Tail(sharedCh) \in Seq(Result)
  BY DEF Shapes, applySharedWorkerEvent
<1>2. /\ inflight' \in [Names -> Op \cup {None}]
      /\ link' \in [Names -> Digests \cup {None}] /\ blocked' \subseteq Names
      /\ stranded' \subseteq Names
  BY <1>1 DEF Shapes, applySharedWorkerEvent, Result
<1> QED BY <1>1, <1>2 DEF Shapes, applySharedWorkerEvent, bounds

\* A step of a fetch worker.
LEMMA RunSharedFetchShapes ==
  ASSUME Shapes, NEW w \in Workers, RunSharedFetch(w)
  PROVE  Shapes'
<1>1. Running(w)
  BY DEF RunSharedFetch, EnsureStarts, FetchOpens, FetchFails, FetchEnds, VerifyShared,
         InstallShared, FetchReports, Running
<1>2. worker[w] \in Task /\ Object(w) \in Objects
  BY <1>1, RunningHasTask
<1>3. store' \in [Objects -> File] /\ partial' \in [Objects -> File]
  <2>1. \A files \in [Objects -> File], rest \in Rest : Settled(files, w, rest) \in [Objects -> File]
    BY DEF Settled, File
  <2>2. \A files \in [Objects -> File], o \in Objects, f \in File :
          [files EXCEPT ![o] = f] \in [Objects -> File]
    OBVIOUS
  <2>3. {None, "part", "bad", "full", w} \subseteq File /\ {"part", "bad", "full"} \subseteq Rest
    BY DEF File, Rest
  <2>4. store \in [Objects -> File] /\ partial \in [Objects -> File]
    BY DEF Shapes
  <2> HIDE DEF File, Rest
  <2>5. CASE EnsureStarts(w) \/ FetchOpens(w) \/ VerifyShared(w)
    BY <1>2, <2>2, <2>3, <2>4, <2>5 DEF EnsureStarts, FetchOpens, VerifyShared
  <2>6. CASE FetchFails(w)
    BY <1>2, <2>1, <2>2, <2>3, <2>4, <2>6 DEF FetchFails
  <2>7. CASE FetchEnds(w)
    BY <1>2, <2>1, <2>2, <2>3, <2>4, <2>7 DEF FetchEnds
  <2>8. CASE InstallShared(w)
    <3>1. partial[Object(w)] \in File
      BY <1>2, <2>4
    <3> QED BY <1>2, <2>2, <2>3, <2>4, <2>8, <3>1 DEF InstallShared
  <2>9. CASE FetchReports(w)
    BY <2>4, <2>9 DEF FetchReports, disk
  <2> QED BY <2>5, <2>6, <2>7, <2>8, <2>9 DEF RunSharedFetch
<1>4. worker' \in [Workers -> Task \cup {Idle}]
  BY <1>2 DEF Shapes, RunSharedFetch, EnsureStarts, FetchOpens, FetchFails, FetchEnds, VerifyShared,
     InstallShared, FetchReports, Goes, Task
<1>5. sharedCh' \in Seq(Result)
  <2>1. \A ok \in BOOLEAN : [name |-> worker[w].name, digest |-> worker[w].digest, ok |-> ok] \in Result
    BY <1>2 DEF Task, Result
  <2>2. (worker[w].phase = "ok") \in BOOLEAN
    OBVIOUS
  <2>3. \A r \in Result : Append(sharedCh, r) \in Seq(Result)
    BY DEF Shapes
  <2>4. CASE FetchReports(w)
    <3>1. CASE sharedCh' = sharedCh
      BY <3>1 DEF Shapes
    <3>2. CASE sharedCh' = Append(sharedCh, [name |-> worker[w].name, digest |-> worker[w].digest,
                                             ok |-> worker[w].phase = "ok"])
      BY <2>1, <2>2, <2>3, <3>2
    <3> QED BY <2>4, <3>1, <3>2 DEF FetchReports
  <2>5. CASE ~FetchReports(w)
    BY <2>5 DEF Shapes, RunSharedFetch, EnsureStarts, FetchOpens, FetchFails, FetchEnds, VerifyShared,
       InstallShared
  <2> QED BY <2>4, <2>5
<1>6. cancelled' \subseteq Workers /\ faults' \in 0..MaxFaults
  BY CountAssumption DEF Shapes, RunSharedFetch, EnsureStarts, FetchOpens, FetchFails, FetchEnds,
     VerifyShared, InstallShared, FetchReports, bounds
<1>7. UNCHANGED <<loop, history, link, snapshots, restarts>>
  BY DEF RunSharedFetch, EnsureStarts, FetchOpens, FetchFails, FetchEnds, VerifyShared,
     InstallShared, FetchReports, bounds, disk
<1> QED BY <1>3, <1>4, <1>5, <1>6, <1>7 DEF Shapes, loop, history

\* The agent goes away.
LEMMA CrashShapes ==
  ASSUME Shapes, Crash
  PROVE  Shapes'
<1>1. desired' \in [Names -> Digests \cup {None}] /\ pc' \in {"select", "shared"} /\ fresh' \in BOOLEAN
  BY DEF Crash, Shapes
<1>2. store' \in [Objects -> File] /\ partial' \in [Objects -> File]
  BY DEF Crash, Shapes, File, Rest
<1>3. inflight' \in [Names -> Op \cup {None}] /\ worker' \in [Workers -> Task \cup {Idle}]
      /\ sharedCh' \in Seq(Result) /\ restarts' \in 0..MaxRestarts
  BY CountAssumption DEF Crash, Shapes
<1> QED BY <1>1, <1>2, <1>3 DEF Crash, Shapes

\* Every step keeps the shapes.
LEMMA StepShapes == Shapes /\ [Next]_vars => Shapes'
<1> SUFFICES ASSUME Shapes, [Next]_vars PROVE Shapes'
  OBVIOUS
<1>1. ASSUME NEW n \in Names, BackoffElapses(n) PROVE Shapes'
  BY <1>1 DEF BackoffElapses, Shapes, disk, fetch, history, bounds
<1>2. CASE UNCHANGED vars
  BY <1>2 DEF vars, Shapes, loop, disk, fetch, history, bounds
<1> QED BY <1>1, <1>2, applyDesiredSharedShapes, reconcileSharedShapes, applySharedWorkerEventShapes,
           RunSharedFetchShapes, CrashShapes DEF Next

\* At the start nothing is there.
LEMMA InitShapes == Init => Shapes
<1> SUFFICES ASSUME Init PROVE Shapes
  OBVIOUS
<1>1. /\ inflight \in [Names -> Op \cup {None}] /\ worker \in [Workers -> Task \cup {Idle}]
      /\ store \in [Objects -> File] /\ partial \in [Objects -> File]
      /\ sharedCh \in Seq(Result)
  BY DEF Init, File
<1>2. /\ desired \in [Names -> Digests \cup {None}] /\ link \in [Names -> Digests \cup {None}]
      /\ pc \in {"select", "shared"} /\ fresh \in BOOLEAN /\ stranded \subseteq Names
      /\ known \subseteq Names /\ blocked \subseteq Names /\ cancelled \subseteq Workers
  BY DEF Init
<1>3. snapshots \in 0..MaxSnapshots /\ faults \in 0..MaxFaults /\ restarts \in 0..MaxRestarts
  BY CountAssumption DEF Init
<1> QED BY <1>1, <1>2, <1>3 DEF Shapes

----------------------------------------------------------------------------
(* The fetch slots *)

\* What is in flight is finite, and less of it keeps to the slots.
LEMMA FewerLoading ==
  ASSUME SlotsKept, Loading' \subseteq Loading
  PROVE  SlotsKept'
<1>1. IsFiniteSet(Loading)
  BY NamesAssumption, FS_Subset DEF Loading
<1>2. IsFiniteSet(Loading') /\ Cardinality(Loading') <= Cardinality(Loading)
  BY <1>1, FS_Subset
<1>3. Cardinality(Loading) \in Nat /\ Cardinality(Loading') \in Nat
  BY <1>1, <1>2, FS_CardinalityType
<1> QED BY <1>2, <1>3, CountAssumption DEF SlotsKept

\* A pass begins no more fetches than there are free slots.
LEMMA PassKeepsSlots ==
  ASSUME Shapes, SlotsKept, reconcileShared
  PROVE  SlotsKept'
<1>1. PICK S \in SUBSET Names :
        Batch(S) /\ (\E by \in [S -> Spare] : beginSharedFetch(S, by)) /\ Sweep(S)
  BY DEF reconcileShared
<1>2. Loading' \subseteq Loading \cup S
  BY <1>1 DEF beginSharedFetch, Loading
<1>3. IsFiniteSet(S) /\ IsFiniteSet(Loading)
  BY NamesAssumption, FS_Subset DEF Loading
<1>4. /\ IsFiniteSet(Loading \cup S) /\ Cardinality(S) \in Nat /\ Cardinality(Loading) \in Nat
      /\ Cardinality(Loading \cup S) <= Cardinality(Loading) + Cardinality(S)
  <2>1. /\ IsFiniteSet(Loading \cup S)
        /\ Cardinality(Loading \cup S) = Cardinality(Loading) + Cardinality(S) - Cardinality(Loading \cap S)
    BY <1>3, FS_Union
  <2>2. IsFiniteSet(Loading \cap S)
    BY <1>3, FS_Intersection
  <2> QED BY <1>3, <2>1, <2>2, FS_CardinalityType
<1>5. IsFiniteSet(Loading') /\ Cardinality(Loading') <= Cardinality(Loading \cup S)
  BY <1>2, <1>4, FS_Subset
<1>6. Cardinality(Loading') \in Nat /\ Cardinality(Loading \cup S) \in Nat
  BY <1>4, <1>5, FS_CardinalityType
<1>7. Cardinality(S) <= FreeSlots
  BY <1>1 DEF Batch
<1>8. Cardinality(Loading) + Cardinality(S) <= MaxFetches
  BY <1>4, <1>7, CountAssumption DEF FreeSlots, SlotsKept
<1> QED BY <1>4, <1>5, <1>6, <1>8, CountAssumption DEF SlotsKept

\* No other step begins a fetch.
LEMMA OthersKeepSlots ==
  ASSUME Shapes, SlotsKept, [Next]_vars, ~reconcileShared
  PROVE  SlotsKept'
<1> SUFFICES Loading' \subseteq Loading
  BY FewerLoading
<1>1. ASSUME NEW ds \in Snapshots, applyDesiredShared(ds) PROVE Loading' \subseteq Loading
  BY <1>1 DEF applyDesiredShared, Loading
<1>2. CASE applySharedWorkerEvent
  BY <1>2 DEF applySharedWorkerEvent, Loading, Shapes
<1>3. ASSUME NEW w \in Workers, RunSharedFetch(w) PROVE Loading' \subseteq Loading
  BY <1>3 DEF RunSharedFetch, EnsureStarts, FetchOpens, FetchFails, FetchEnds, VerifyShared,
     InstallShared, FetchReports, loop, Loading
<1>4. CASE Crash
  BY <1>4 DEF Crash, Loading
<1>5. ASSUME NEW n \in Names, BackoffElapses(n) PROVE Loading' \subseteq Loading
  BY <1>5 DEF BackoffElapses, Loading
<1>6. CASE UNCHANGED vars
  BY <1>6 DEF vars, loop, Loading
<1> QED BY <1>1, <1>2, <1>3, <1>4, <1>5, <1>6 DEF Next

\* Every variable keeps its type, and never more than MaxFetches fetches are in
\* flight, for any names, digests, snapshots and faults (maxSharedFetches).
THEOREM TypeCorrect == Spec => []TypeOK
<1>1. Init => Shapes /\ SlotsKept
  <2> SUFFICES ASSUME Init PROVE SlotsKept
    BY InitShapes
  <2>1. Loading = {}
    BY DEF Init, Loading
  <2> QED BY <2>1, FS_EmptySet, CountAssumption DEF SlotsKept
<1>2. (Shapes /\ SlotsKept) /\ [Next]_vars => (Shapes /\ SlotsKept)'
  BY StepShapes, PassKeepsSlots, OthersKeepSlots
<1>3. Shapes /\ SlotsKept => TypeOK
  BY DEF Shapes, SlotsKept, Loading, TypeOK
<1> QED BY <1>1, <1>2, <1>3, PTL DEF Spec

----------------------------------------------------------------------------
(* Fetches of one object *)

\* None is no fetch in flight.
LEMMA OpIsNotNone == \A op \in Op : op # None
  BY NoneAssumption DEF Op

IsFor(w) ==
  LET op == inflight[worker[w].name]
  IN op # None /\ op.by = w /\ op.digest = worker[w].digest

Target(i) == <<sharedCh[i].name, sharedCh[i].digest>>

\* What is in flight is what is desired.
Held == \A n \in Names : inflight[n] # None => inflight[n].digest = desired[n]

\* An object has one worker or one result at most.
OneEach ==
  /\ \A v, w \in Workers : Running(v) /\ Running(w) /\ Object(v) = Object(w) => v = w
  /\ \A i, j \in DOMAIN sharedCh : Target(i) = Target(j) => i = j
  /\ \A w \in Workers, i \in DOMAIN sharedCh : Running(w) => Object(w) # Target(i)

\* A worker or a result is waited for, or what it is for is not desired.
Waited ==
  /\ \A w \in Workers : Running(w) =>
       IsFor(w) \/ (w \in cancelled /\ desired[worker[w].name] # worker[w].digest)
  /\ \A i \in DOMAIN sharedCh :
       Inflight(sharedCh[i].name) = sharedCh[i].digest \/ desired[sharedCh[i].name] # sharedCh[i].digest

Tokens == Held /\ OneEach /\ Waited

\* A snapshot asks for nothing that a cancelled fetch may still bring.
LEMMA applyDesiredSharedTokens ==
  ASSUME ~Recross, Shapes, Tokens, NEW ds \in Snapshots, applyDesiredShared(ds)
  PROVE  Tokens'
<1>1. /\ desired' = ds /\ UNCHANGED <<worker, sharedCh>>
      /\ cancelled' = cancelled \cup {inflight[n].by : n \in Withdrawn(ds)}
      /\ inflight' = [n \in Names |-> IF n \in Withdrawn(ds) THEN None ELSE inflight[n]]
      /\ \A a \in Abandoned(cancelled') : ds[a.name] # a.digest
  BY DEF applyDesiredShared
<1>2. Held'
  BY <1>1 DEF Held, Withdrawn
<1>3. OneEach'
  BY <1>1 DEF Tokens, OneEach, Running, Object, Target
<1>4. ASSUME NEW w \in Workers, Running(w)
      PROVE  IsFor(w)' \/ (w \in cancelled' /\ ds[worker[w].name] # worker[w].digest)
  <2>1. CASE w \in cancelled'
    BY <1>1, <1>4, <2>1 DEF Abandoned
  <2>2. CASE w \notin cancelled'
    <3>1. worker[w] \in Task
      BY <1>4, RunningHasTask
    <3>2. worker[w].name \in Names /\ IsFor(w)
      BY <1>1, <1>4, <2>2, <3>1 DEF Tokens, Waited, Task
    <3>3. worker[w].name \notin Withdrawn(ds)
      BY <1>1, <2>2, <3>2 DEF IsFor
    <3> QED BY <1>1, <3>2, <3>3 DEF IsFor
  <2> QED BY <2>1, <2>2
<1>5. ASSUME NEW i \in DOMAIN sharedCh
      PROVE  Inflight(sharedCh[i].name)' = sharedCh[i].digest \/ ds[sharedCh[i].name] # sharedCh[i].digest
  <2>1. sharedCh[i] \in Result
    BY DEF Shapes
  <2>2. CASE sharedCh[i] \in Abandoned(cancelled')
    BY <1>1, <2>2
  <2>3. CASE sharedCh[i] \notin Abandoned(cancelled')
    <3> DEFINE n == sharedCh[i].name
    <3>1. n \in Names /\ Inflight(n) = sharedCh[i].digest /\ inflight[n].by \notin cancelled'
      BY <2>1, <2>3 DEF Abandoned, Result
    <3>2. n \notin Withdrawn(ds)
      BY <1>1, <3>1
    <3> QED BY <1>1, <3>1, <3>2 DEF Inflight
  <2> QED BY <2>2, <2>3
<1>6. Waited'
  BY <1>1, <1>4, <1>5 DEF Waited, Running
<1> QED BY <1>2, <1>3, <1>6 DEF Tokens

\* A pass begins a fetch only where none is about.
LEMMA reconcileSharedTokens ==
  ASSUME Shapes, Tokens, reconcileShared
  PROVE  Tokens'
<1>1. PICK S \in SUBSET Names :
        Batch(S) /\ (\E by \in [S -> Spare] : beginSharedFetch(S, by)) /\ Sweep(S)
  BY DEF reconcileShared
<1>2. PICK who \in [S -> Spare] : beginSharedFetch(S, who)
  BY <1>1
<1>3. UNCHANGED <<desired, sharedCh>>
  BY DEF reconcileShared
<1>4. \A n \in S : desired[n] \in Digests /\ inflight[n] = None /\ who[n] \in Workers /\ ~Running(who[n])
  BY <1>1, <1>2 DEF Batch, Stale, Spare, Shapes
<1>5. /\ \A n \in Names \ S : inflight'[n] = inflight[n]
      /\ \A n \in S : inflight'[n] # None /\ inflight'[n].by = who[n] /\ inflight'[n].digest = desired[n]
  <2>1. \A n \in Names \ S : inflight'[n] = inflight[n]
    BY <1>2 DEF beginSharedFetch
  <2>2. ASSUME NEW n \in S
        PROVE  inflight'[n] # None /\ inflight'[n].by = who[n] /\ inflight'[n].digest = desired[n]
    <3>1. inflight'[n] = [by |-> who[n], digest |-> desired[n]]
      BY <1>2 DEF beginSharedFetch
    <3>2. inflight'[n] \in Op
      BY <1>4, <3>1 DEF Op
    <3> QED BY <3>1, <3>2, OpIsNotNone
  <2> QED BY <2>1, <2>2
<1>6. \A n \in S : worker'[who[n]].name = n /\ worker'[who[n]].digest = desired[n]
  <2> SUFFICES ASSUME NEW n \in S
               PROVE  worker'[who[n]].name = n /\ worker'[who[n]].digest = desired[n]
    OBVIOUS
  <2>1. PICK w \in Workers : w = who[n]
    BY <1>4
  <2> DEFINE m == CHOOSE m \in S : who[m] = w
  <2>2. m \in S /\ who[m] = w
    BY <2>1
  <2>3. m = n
    BY <1>2, <2>1, <2>2 DEF beginSharedFetch
  <2>4. worker'[w] = [phase |-> "check", name |-> m, digest |-> desired[m]]
    BY <1>2, <2>1 DEF beginSharedFetch
  <2> HIDE DEF m
  <2> QED BY <2>1, <2>3, <2>4
<1>7. \A w \in Workers : (~ \E n \in S : who[n] = w) => worker'[w] = worker[w]
  BY <1>2 DEF beginSharedFetch
<1>8. cancelled' = cancelled \ {who[n] : n \in S}
  BY <1>2 DEF beginSharedFetch
<1>9. \A w \in Workers : Running(w) => worker'[w] = worker[w] /\ worker[w] \in Task
  BY <1>4, <1>7, RunningHasTask
<1>10. \A w \in Workers : Running(w)' => Running(w) \/ \E n \in S : who[n] = w
  BY <1>7 DEF Running
<1>11. Held'
  BY <1>3, <1>5 DEF Tokens, Held
<1>12. \A n \in S, w \in Workers : Running(w) => Object(w) # <<n, desired[n]>>
  BY <1>4, <1>9 DEF Tokens, Waited, IsFor, Object, Task
<1>13. \A n \in S, i \in DOMAIN sharedCh : Target(i) # <<n, desired[n]>>
  <2>1. \A i \in DOMAIN sharedCh, n \in S : sharedCh[i].name = n => desired[n] # sharedCh[i].digest
    <3>1. \A n \in S : Inflight(n) = None /\ desired[n] # None
      BY <1>4, NoneAssumption DEF Inflight
    <3> QED BY <3>1 DEF Tokens, Waited
  <2> QED BY <2>1 DEF Target
<1>14. \A w \in Workers : Running(w) => Object(w)' = Object(w)
  BY <1>9 DEF Object
<1>15. \A n \in S : Object(who[n])' = <<n, desired[n]>>
  BY <1>6 DEF Object
<1>16. OneEach'
  <2>1. ASSUME NEW v \in Workers, NEW w \in Workers, Running(v)', Running(w)', Object(v)' = Object(w)'
        PROVE  v = w
    BY <1>10, <1>12, <1>14, <1>15, <2>1 DEF Tokens, OneEach
  <2>2. ASSUME NEW w \in Workers, NEW i \in DOMAIN sharedCh, Running(w)'
        PROVE  Object(w)' # Target(i)
    BY <1>10, <1>13, <1>14, <1>15, <2>2 DEF Tokens, OneEach
  <2> QED BY <1>3, <2>1, <2>2 DEF OneEach, Target, Tokens
<1>17. Waited'
  <2>1. ASSUME NEW w \in Workers, Running(w)
        PROVE  IsFor(w)' \/ (w \in cancelled' /\ desired[worker[w].name] # worker[w].digest)
    BY <1>4, <1>5, <1>8, <1>9, <2>1 DEF Tokens, Waited, IsFor, Task
  <2>2. \A n \in S : IsFor(who[n])'
    BY <1>4, <1>5, <1>6 DEF IsFor
  <2>3. \A i \in DOMAIN sharedCh :
          Inflight(sharedCh[i].name)' = sharedCh[i].digest \/ desired[sharedCh[i].name] # sharedCh[i].digest
    <3> SUFFICES ASSUME NEW i \in DOMAIN sharedCh, sharedCh[i].digest = desired[sharedCh[i].name]
                 PROVE  Inflight(sharedCh[i].name)' = sharedCh[i].digest
      OBVIOUS
    <3>1. sharedCh[i] \in Result
      BY DEF Shapes
    <3>2. sharedCh[i].name \in Names \ S
      BY <1>13, <3>1 DEF Target, Result
    <3> QED BY <1>3, <1>5, <3>2 DEF Tokens, Waited, Inflight
  <2> QED BY <1>3, <1>9, <1>10, <2>1, <2>2, <2>3 DEF Waited
<1> QED BY <1>11, <1>16, <1>17 DEF Tokens

\* The first result is taken; it was the only one about for its object.
LEMMA applySharedWorkerEventTokens ==
  ASSUME Shapes, Tokens, applySharedWorkerEvent
  PROVE  Tokens'
<1> DEFINE ev == Head(sharedCh)
<1>1. /\ sharedCh # <<>> /\ sharedCh' = Tail(sharedCh) /\ sharedCh \in Seq(Result)
      /\ UNCHANGED <<desired, worker, cancelled>>
  BY DEF applySharedWorkerEvent, Shapes
<1>2. /\ 1 \in DOMAIN sharedCh /\ ev = sharedCh[1] /\ ev \in Result
      /\ \A i \in DOMAIN sharedCh' : i + 1 \in DOMAIN sharedCh /\ i + 1 # 1 /\ sharedCh'[i] = sharedCh[i + 1]
      /\ \A i \in DOMAIN sharedCh' : i \in Nat
  BY <1>1
<1>3. /\ \A n \in Names : n # ev.name => inflight'[n] = inflight[n]
      /\ \/ inflight'[ev.name] = inflight[ev.name]
         \/ inflight'[ev.name] = None /\ Inflight(ev.name) = ev.digest /\ inflight[ev.name] # None
  <2>1. CASE inflight' = inflight
    BY <2>1
  <2>2. CASE inflight' # inflight
    BY <1>2, <2>2 DEF applySharedWorkerEvent, Shapes, Inflight, Result
  <2> QED BY <2>1, <2>2
<1>4. Held'
  BY <1>1, <1>3 DEF Tokens, Held
<1>5. OneEach'
  <2>1. \A i \in DOMAIN sharedCh' : Target(i)' = Target(i + 1)
    BY <1>2 DEF Target
  <2>2. \A i, j \in DOMAIN sharedCh' : i + 1 = j + 1 => i = j
    BY <1>2
  <2> QED BY <1>1, <1>2, <2>1, <2>2 DEF Tokens, OneEach, Running, Object
<1>6. ASSUME NEW w \in Workers, Running(w)
      PROVE  IsFor(w)' \/ (w \in cancelled /\ desired[worker[w].name] # worker[w].digest)
  <2>1. worker[w].name \in Names /\ Object(w) # Target(1)
    BY <1>2, <1>6, RunningHasTask DEF Tokens, OneEach, Task
  <2>2. CASE IsFor(w)
    <3>1. inflight'[worker[w].name] = inflight[worker[w].name]
      BY <1>2, <1>3, <2>1, <2>2 DEF IsFor, Inflight, Object, Target
    <3> QED BY <1>1, <2>2, <3>1 DEF IsFor
  <2>3. CASE ~IsFor(w)
    BY <1>6, <2>3 DEF Tokens, Waited
  <2> QED BY <2>2, <2>3
<1>7. ASSUME NEW i \in DOMAIN sharedCh, i # 1, desired[sharedCh[i].name] = sharedCh[i].digest
      PROVE  inflight'[sharedCh[i].name] = inflight[sharedCh[i].name]
  <2>1. Target(i) # Target(1) /\ Inflight(sharedCh[i].name) = sharedCh[i].digest /\ sharedCh[i] \in Result
    BY <1>1, <1>2, <1>7 DEF Tokens, OneEach, Waited
  <2> QED BY <1>2, <1>3, <2>1 DEF Target, Result
<1>8. Waited'
  <2>1. \A w \in Workers : Running(w)' => Running(w)
    BY <1>1 DEF Running
  <2>2. ASSUME NEW i \in DOMAIN sharedCh', desired[sharedCh'[i].name] = sharedCh'[i].digest
        PROVE  Inflight(sharedCh[i].name)' = sharedCh'[i].digest
    <3>1. inflight'[sharedCh'[i].name] = inflight[sharedCh'[i].name]
      BY <1>2, <1>7, <2>2
    <3>2. Inflight(sharedCh'[i].name) = sharedCh'[i].digest
      BY <1>2, <2>2 DEF Tokens, Waited
    <3> QED BY <3>1, <3>2 DEF Inflight
  <2> QED BY <1>1, <1>6, <2>1, <2>2 DEF Waited
<1> QED BY <1>4, <1>5, <1>8 DEF Tokens

\* A worker that goes on keeps its object, and one that reports hands it to its
\* result.
LEMMA RunSharedFetchTokens ==
  ASSUME Shapes, Tokens, NEW w \in Workers, RunSharedFetch(w)
  PROVE  Tokens'
<1>1. Running(w) /\ worker[w] \in Task /\ UNCHANGED <<desired, inflight>>
  <2>1. Running(w)
    BY DEF RunSharedFetch, EnsureStarts, FetchOpens, FetchFails, FetchEnds, VerifyShared,
           InstallShared, FetchReports, Running
  <2> QED BY <2>1, RunningHasTask DEF RunSharedFetch, EnsureStarts, FetchOpens, FetchFails, FetchEnds,
       VerifyShared, InstallShared, FetchReports, loop
<1>2. Held'
  BY <1>1 DEF Tokens, Held
<1>3. CASE ~FetchReports(w)
  <2>1. /\ \E p \in {"ok", "get", "copy", "err", "sum", "install"} : Goes(w, p)
        /\ UNCHANGED <<cancelled, sharedCh>>
    BY <1>3 DEF RunSharedFetch, EnsureStarts, FetchOpens, FetchFails, FetchEnds, VerifyShared, InstallShared
  <2>2. /\ \A v \in Workers : worker'[v].name = worker[v].name /\ worker'[v].digest = worker[v].digest
        /\ \A v \in Workers : Running(v)' => Running(v)
    BY <1>1, <2>1 DEF Goes, Running, Shapes, Task
  <2>3. \A v \in Workers : Object(v)' = Object(v) /\ (IsFor(v) => IsFor(v)')
    BY <1>1, <2>2 DEF Object, IsFor
  <2> QED BY <1>1, <1>2, <2>1, <2>2, <2>3 DEF Tokens, OneEach, Waited, Target, Inflight
<1>4. CASE FetchReports(w)
  <2> DEFINE r == [name |-> worker[w].name, digest |-> worker[w].digest, ok |-> worker[w].phase = "ok"]
  <2>1. /\ \A v \in Workers : Running(v)' => Running(v) /\ v # w /\ worker'[v] = worker[v]
        /\ cancelled' = cancelled \ {w}
        /\ sharedCh' = Append(sharedCh, r) \/ sharedCh' = sharedCh
    BY <1>4 DEF FetchReports, Running, Shapes, Idle
  <2>2. \A v \in Workers : Running(v)' =>
          Object(v)' = Object(v) /\ (IsFor(v) => IsFor(v)') /\ (v \in cancelled => v \in cancelled')
    BY <1>1, <2>1 DEF Object, IsFor
  <2>3. \A v \in Workers : Running(v)' =>
          IsFor(v)' \/ (v \in cancelled' /\ desired'[worker'[v].name] # worker'[v].digest)
    BY <1>1, <2>1, <2>2 DEF Tokens, Waited
  <2>4. CASE sharedCh' = sharedCh
    BY <1>1, <1>2, <2>1, <2>2, <2>3, <2>4 DEF Tokens, OneEach, Waited, Target, Inflight
  <2>5. CASE sharedCh' = Append(sharedCh, r)
    <3>1. sharedCh \in Seq(Result)
      BY DEF Shapes
    <3>2. PICK k \in Nat : k = Len(sharedCh) + 1
      BY <3>1
    <3>3. /\ DOMAIN sharedCh' = DOMAIN sharedCh \cup {k} /\ k \notin DOMAIN sharedCh
          /\ sharedCh'[k] = r
          /\ \A i \in DOMAIN sharedCh : sharedCh'[i] = sharedCh[i]
      BY <2>5, <3>1, <3>2
    <3>4. Target(k)' = Object(w) /\ \A i \in DOMAIN sharedCh : Target(i)' = Target(i)
      BY <3>3 DEF Target, Object
    <3>5. OneEach'
      BY <1>1, <2>1, <2>2, <3>3, <3>4 DEF Tokens, OneEach
    <3>6. Inflight(r.name) = r.digest \/ desired[r.name] # r.digest
      BY <1>1 DEF Tokens, Waited, IsFor, Inflight
    <3> HIDE DEF r
    <3>7. \A i \in DOMAIN sharedCh' :
            Inflight(sharedCh[i].name)' = sharedCh'[i].digest \/ desired'[sharedCh'[i].name] # sharedCh'[i].digest
      BY <1>1, <3>3, <3>6 DEF Tokens, Waited, Inflight
    <3> QED BY <1>2, <2>3, <3>5, <3>7 DEF Tokens, Waited
  <2> QED BY <2>1, <2>4, <2>5
<1> QED BY <1>3, <1>4

\* Every step keeps one fetch an object.
LEMMA StepTokens ==
  ASSUME ~Recross, Shapes, Tokens, [Next]_vars
  PROVE  Tokens'
<1>1. CASE Crash
  <2>1. /\ \A n \in Names : inflight'[n] = None
        /\ \A w \in Workers : ~Running(w)' /\ DOMAIN sharedCh' = {}
    BY <1>1 DEF Crash, Running, Idle
  <2> QED BY <1>1, <2>1 DEF Tokens, Held, OneEach, Waited, Crash
<1>2. CASE UNCHANGED vars \/ \E n \in Names : BackoffElapses(n)
  BY <1>2 DEF vars, BackoffElapses, loop, fetch, Tokens, Held, OneEach, Waited, Running, Object, Target,
     IsFor, Inflight
<1> QED BY <1>1, <1>2, applyDesiredSharedTokens, reconcileSharedTokens, applySharedWorkerEventTokens,
           RunSharedFetchTokens DEF Next

----------------------------------------------------------------------------
(* What the store holds *)

\* The store has complete files only.
Whole == \A o \in Objects : store[o] \in {None, "full"}

\* What a worker is about to install is complete, unless it was swept away.
Checked == \A w \in Workers : worker[w].phase = "install" => partial[Object(w)] \in {None, "full"}

\* A worker's step touches its own object's .partial, and installs what it checked.
LEMMA RunSharedFetchFiles ==
  ASSUME Shapes, OneEach, Whole, Checked, NEW w \in Workers, RunSharedFetch(w)
  PROVE  Whole' /\ Checked' /\ (\A o \in Objects : store[o] # None => store'[o] # None)
<1>1. Running(w)
  BY DEF RunSharedFetch, EnsureStarts, FetchOpens, FetchFails, FetchEnds, VerifyShared,
         InstallShared, FetchReports, Running
<1>2. Object(w) \in Objects
  BY <1>1, RunningHasTask
<1>3. {None, "full"} \cap Workers = {}
  BY NoneAssumption
<1>4. \A v \in Workers : v # w => worker'[v] = worker[v]
  BY DEF Shapes, RunSharedFetch, EnsureStarts, FetchOpens, FetchFails, FetchEnds, VerifyShared,
     InstallShared, FetchReports, Goes
<1>5. \A v \in Workers : v # w /\ worker[v].phase = "install" =>
        Object(v) # Object(w) /\ Object(v)' = Object(v) /\ Object(v) \in Objects
  <2>1. \A v \in Workers : worker[v].phase = "install" => Running(v)
    BY DEF Running
  <2> QED BY <1>1, <1>4, <2>1, RunningHasTask DEF OneEach, Object
<1>6. \A rest : Settled(store, w, rest) = store
  BY <1>3 DEF Settled, Whole, Shapes
<1>7. store' = store \/ (InstallShared(w) /\ store' = [store EXCEPT ![Object(w)] = "full"])
  <2>1. CASE InstallShared(w)
    BY <1>2, <2>1 DEF InstallShared, Checked
  <2>2. CASE ~InstallShared(w)
    BY <1>6, <2>2 DEF RunSharedFetch, EnsureStarts, FetchOpens, FetchFails, FetchEnds, VerifyShared,
       FetchReports, disk
  <2> QED BY <2>1, <2>2
<1>8. Whole' /\ (\A o \in Objects : store[o] # None => store'[o] # None)
  BY <1>2, <1>7, NoneAssumption DEF Whole, Shapes
<1>9. \A o \in Objects : o # Object(w) /\ partial[o] \in {None, "full"} => partial'[o] = partial[o]
  <2>1. \A rest : \A o \in Objects : partial[o] \in {None, "full"} => Settled(partial, w, rest)[o] = partial[o]
    BY <1>3 DEF Settled
  <2>2. \A rest : Settled(partial, w, rest) = [o \in Objects |-> Settled(partial, w, rest)[o]]
    BY DEF Settled
  <2>3. CASE FetchFails(w) \/ FetchEnds(w)
    <3>1. \E rest : partial' = Settled(partial, w, rest)
                  \/ partial' = [Settled(partial, w, rest) EXCEPT ![Object(w)] = None]
      BY <2>3 DEF FetchFails, FetchEnds
    <3>2. PICK rest : partial' = Settled(partial, w, rest)
                        \/ partial' = [Settled(partial, w, rest) EXCEPT ![Object(w)] = None]
      BY <3>1
    <3> DEFINE files == Settled(partial, w, rest)
    <3>3. /\ files = [o \in Objects |-> files[o]]
          /\ \A o \in Objects : partial[o] \in {None, "full"} => files[o] = partial[o]
      BY <2>1, <2>2
    <3>4. partial' = files \/ partial' = [files EXCEPT ![Object(w)] = None]
      BY <3>2
    <3> HIDE DEF files
    <3> QED BY <1>2, <3>3, <3>4
  <2>4. CASE ~(FetchFails(w) \/ FetchEnds(w))
    BY <1>2, <2>4 DEF Shapes, RunSharedFetch, EnsureStarts, FetchOpens, VerifyShared, InstallShared,
       FetchReports, disk
  <2> QED BY <2>3, <2>4
<1>10. worker'[w].phase = "install" => Object(w)' = Object(w) /\ partial'[Object(w)] = "full"
  <2>1. worker[w] \in Task /\ worker \in [Workers -> Task \cup {Idle}]
    BY <1>1, RunningHasTask DEF Shapes
  <2>2. ASSUME NEW p, Goes(w, p)
        PROVE  /\ worker'[w].phase = p /\ worker'[w].name = worker[w].name
               /\ worker'[w].digest = worker[w].digest
    BY <2>1, <2>2 DEF Goes, Task
  <2>3. CASE VerifyShared(w)
    <3>1. worker'[w].phase = "install" => partial[Object(w)] = "full" /\ partial' = partial
      BY <2>2, <2>3 DEF VerifyShared
    <3> QED BY <2>2, <2>3, <3>1 DEF VerifyShared, Object
  <2>4. CASE FetchReports(w)
    BY <2>1, <2>4 DEF FetchReports, Idle
  <2>5. CASE ~VerifyShared(w) /\ ~FetchReports(w)
    <3>1. \E p \in {"ok", "get", "copy", "err", "sum"} : Goes(w, p)
      BY <2>5 DEF RunSharedFetch, EnsureStarts, FetchOpens, FetchFails, FetchEnds, InstallShared
    <3> QED BY <2>2, <3>1
  <2> QED BY <2>3, <2>4, <2>5
<1>11. Checked'
  BY <1>4, <1>5, <1>9, <1>10 DEF Checked
<1> QED BY <1>8, <1>11

\* The other steps only take away.
LEMMA OthersFiles ==
  ASSUME Shapes, Whole, Checked, [Next]_vars, ~ \E w \in Workers : RunSharedFetch(w)
  PROVE  Whole' /\ Checked'
<1>1. ASSUME NEW ds \in Snapshots, applyDesiredShared(ds) PROVE Whole' /\ Checked'
  BY <1>1 DEF applyDesiredShared, disk, Whole, Checked, Object
<1>2. CASE reconcileShared
  <2>1. PICK S \in SUBSET Names :
          Batch(S) /\ (\E by \in [S -> Spare] : beginSharedFetch(S, by)) /\ Sweep(S)
    BY <1>2 DEF reconcileShared
  <2>2. PICK who \in [S -> Spare] : beginSharedFetch(S, who)
    BY <2>1
  <2>3. \A o \in Objects : store'[o] \in {None, store[o]} /\ partial'[o] \in {None, partial[o]}
    BY <2>1 DEF Sweep, GCShared
  <2>4. \A w \in Workers : worker'[w].phase = "install" => worker'[w] = worker[w]
    BY <2>2 DEF beginSharedFetch
  <2>5. \A w \in Workers : worker[w].phase = "install" => Object(w) \in Objects
    BY RunningHasTask DEF Running
  <2> QED BY <2>3, <2>4, <2>5 DEF Whole, Checked, Object
<1>3. CASE applySharedWorkerEvent
  BY <1>3 DEF applySharedWorkerEvent, Whole, Checked, Object
<1>4. CASE Crash
  BY <1>4, NoneAssumption DEF Crash, Whole, Checked, Idle
<1>5. CASE UNCHANGED vars \/ \E n \in Names : BackoffElapses(n)
  BY <1>5 DEF vars, BackoffElapses, disk, fetch, Whole, Checked, Object
<1> QED BY <1>1, <1>2, <1>3, <1>4, <1>5 DEF Next

----------------------------------------------------------------------------
(* What is live *)

\* A link that is not stranded leads to a file.
Linked == \A n \in Names \ stranded : link[n] # None => store[<<n, link[n]>>] # None

\* Once the first pass is made, the loop knows every link that is not stranded;
\* between passes they are of desired names only.
Known ==
  ~fresh => \A n \in Names \ stranded : link[n] # None =>
              /\ n \in known \/ desired[n] # None
              /\ pc = "select" => n \in known

Calm == ~Recross /\ "unlink" \notin FaultKinds

\* A pass removes every link it should, and the sweep keeps what is live.
LEMMA reconcileSharedLive ==
  ASSUME Calm, Shapes, Linked, Known, reconcileShared
  PROVE  Linked' /\ Known'
<1>1. PICK stuck \in SUBSET {n \in Dropped : link[n] # None} : DropLinks(stuck)
  BY DEF reconcileShared
<1>2. /\ link' = [n \in Names |-> IF n \in Dropped THEN None ELSE link[n]]
      /\ known' = (known \ Dropped) \cup {n \in Names : desired[n] # None}
      /\ stranded' = (stranded \ Dropped) \cup {n \in Names : fresh /\ link[n] # None /\ desired[n] = None}
      /\ desired' = desired
  BY <1>1 DEF DropLinks, Calm, reconcileShared
<1>3. \A n \in Names \ stranded' : link'[n] # None =>
        /\ link'[n] = link[n] /\ link[n] \in Digests /\ store[<<n, link[n]>>] # None
        /\ desired[n] # None /\ n \in known'
  BY <1>2 DEF Linked, Known, Dropped, Shapes
<1>4. ASSUME NEW n \in Names \ stranded', link'[n] # None
      PROVE  store'[<<n, link[n]>>] # None
  <2>1. CASE UNCHANGED store
    BY <1>3, <1>4, <2>1
  <2>2. CASE ~UNCHANGED store
    <3>1. PICK keep \in [Names -> SUBSET Digests] :
            /\ \A m \in Names : IF desired[m] = None THEN keep[m] = {} ELSE Retained(m, keep[m])
            /\ GCShared(keep)
      BY <2>2 DEF reconcileShared, Sweep
    <3>2. link[n] \in Present(n) /\ desired[n] # None
      BY <1>3, <1>4 DEF Present
    <3>3. link[n] \in keep[n]
      BY <3>1, <3>2 DEF Retained
    <3>4. <<n, link[n]>> \in Objects
      BY <1>3, <1>4 DEF Objects
    <3> QED BY <1>3, <1>4, <3>1, <3>2, <3>3, <3>4 DEF GCShared
  <2> QED BY <2>1, <2>2
<1> QED BY <1>2, <1>3, <1>4 DEF Linked, Known

\* The other steps link what is there, and take away nothing that is live.
LEMMA OthersLive ==
  ASSUME Shapes, Held, OneEach, Whole, Checked, Linked, Known, [Next]_vars, ~reconcileShared
  PROVE  Linked' /\ Known'
<1>1. ASSUME NEW ds \in Snapshots, applyDesiredShared(ds) PROVE Linked' /\ Known'
  BY <1>1 DEF applyDesiredShared, disk, history, Linked, Known
<1>2. CASE applySharedWorkerEvent
  <2> DEFINE ev == Head(sharedCh)
  <2>1. /\ pc' = "shared" /\ UNCHANGED <<known, desired, store, fresh>>
        /\ \/ link' = link /\ stranded' = stranded
           \/ /\ link' = [link EXCEPT ![ev.name] = ev.digest] /\ store[<<ev.name, ev.digest>>] # None
              /\ stranded' = stranded \ {ev.name}
              /\ inflight[ev.name] # None /\ inflight[ev.name].digest = ev.digest
    BY <1>2 DEF applySharedWorkerEvent
  <2>2. sharedCh # <<>> /\ sharedCh \in Seq(Result)
    BY <1>2 DEF applySharedWorkerEvent, Shapes
  <2>3. ev \in Result
    BY <2>2
  <2>4. ev.name \in Names /\ ev.digest \in Digests /\ ev.digest # None
    BY <2>3, NoneAssumption DEF Result
  <2>5. pc = "select"
    BY <1>2 DEF applySharedWorkerEvent
  <2> HIDE DEF ev
  <2> QED BY <2>1, <2>4, <2>5 DEF Linked, Known, Held, Shapes
<1>3. ASSUME NEW w \in Workers, RunSharedFetch(w) PROVE Linked' /\ Known'
  <2>1. UNCHANGED <<loop, history, link>>
    BY <1>3 DEF RunSharedFetch, EnsureStarts, FetchOpens, FetchFails, FetchEnds, VerifyShared,
       InstallShared, FetchReports, disk
  <2>2. \A n \in Names : link[n] # None => <<n, link[n]>> \in Objects
    BY DEF Shapes, Objects
  <2> QED BY <1>3, <2>1, <2>2, RunSharedFetchFiles DEF loop, history, Linked, Known
<1>4. CASE Crash
  <2>1. fresh' /\ UNCHANGED <<link, stranded>>
    BY <1>4 DEF Crash
  <2>2. \A n \in Names : link[n] # None => <<n, link[n]>> \in Objects
    BY DEF Shapes, Objects
  <2>3. \A o \in Objects : store[o] # None => store'[o] # None
    BY <1>4, NoneAssumption DEF Crash
  <2> QED BY <2>1, <2>2, <2>3 DEF Linked, Known
<1>5. CASE UNCHANGED vars \/ \E n \in Names : BackoffElapses(n)
  BY <1>5 DEF vars, BackoffElapses, loop, disk, history, Linked, Known
<1> QED BY <1>1, <1>2, <1>3, <1>4, <1>5 DEF Next

\* The invariant of calm runs.
LiveInv == Shapes /\ Tokens /\ Whole /\ Checked /\ Linked /\ Known

\* Where no digest is asked for again while a fetch cancelled for it is about and
\* links can be removed (Calm), a live link of a desired file that is not stranded
\* by a restart leads to complete bytes of its digest, for any files, snapshots,
\* sources, failures and crashes (LiveIsComplete).
THEOREM LiveStaysComplete ==
  ASSUME Calm
  PROVE  Spec => []LiveIsComplete
<1>1. Init => LiveInv
  <2> SUFFICES ASSUME Init PROVE LiveInv
    OBVIOUS
  <2>1. Shapes
    BY InitShapes
  <2>2. Tokens
    BY DEF Init, Tokens, Held, OneEach, Waited, Running, Idle
  <2>3. Whole /\ Checked /\ Linked /\ Known
    BY DEF Init, Whole, Checked, Linked, Known, Idle
  <2> QED BY <2>1, <2>2, <2>3 DEF LiveInv
<1>2. LiveInv /\ [Next]_vars => LiveInv'
  <2> SUFFICES ASSUME LiveInv, [Next]_vars PROVE LiveInv'
    OBVIOUS
  <2>1. Shapes' /\ Tokens'
    BY StepShapes, StepTokens DEF LiveInv, Calm
  <2>2. Whole' /\ Checked'
    BY RunSharedFetchFiles, OthersFiles DEF LiveInv, Tokens
  <2>3. Linked' /\ Known'
    BY reconcileSharedLive, OthersLive DEF LiveInv, Tokens
  <2> QED BY <2>1, <2>2, <2>3 DEF LiveInv
<1>3. LiveInv => LiveIsComplete
  <2> SUFFICES ASSUME LiveInv, NEW n \in Names \ stranded, link[n] # None
               PROVE  store[<<n, link[n]>>] = "full"
    BY DEF LiveIsComplete
  <2>1. <<n, link[n]>> \in Objects /\ store[<<n, link[n]>>] # None
    BY DEF LiveInv, Linked, Shapes, Objects
  <2> QED BY <2>1 DEF LiveInv, Whole
<1> QED BY <1>1, <1>2, <1>3, PTL DEF Spec
=============================================================================
