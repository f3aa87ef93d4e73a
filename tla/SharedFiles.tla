---------------------------- MODULE SharedFiles ----------------------------
(***************************************************************************)
(* The machine-level shared files of one agent: the main loop's passes     *)
(* over them (reconciler/shared.go), the fetch workers it starts and       *)
(* cancels, and what they do to the files under <base>/shared              *)
(* (artifact/shared.go).                                                   *)
(*                                                                         *)
(* A path of the store holds nothing, a file that a worker is writing (the *)
(* worker's name), or a file at rest: "full" (the bytes its digest names), *)
(* "part" (truncated) or "bad" (other bytes).  A file keeps its writer     *)
(* when it is renamed, as an open descriptor does.                         *)
(***************************************************************************)
EXTENDS Naturals, FiniteSets, Sequences

CONSTANTS
  Names,          \* shared files the control plane may ask for
  Digests,        \* their possible contents
  Workers,        \* names for the fetch goroutines alive at a time
  None,
  BadSources,     \* <<name, digest>> whose source delivers other bytes
  Snapshots,      \* what the control plane may ask for
  MaxFetches,     \* maxSharedFetches
  Retention,      \* Deps.SharedRetention
  MaxSnapshots,   \* bound: snapshots of the control plane
  MaxFaults,      \* bound: failing transfers and unlinks
  MaxRestarts,    \* bound: crashes of the agent
  FaultKinds,     \* which of "fetch", "unlink" may fail
  Recross         \* a digest may be asked for again while the fetch that was
                  \* cancelled for it still runs or its result is unread

ASSUME CountAssumption ==
  /\ MaxFetches \in Nat \ {0}
  /\ Retention \in Nat \ {0}
  /\ MaxSnapshots \in Nat /\ MaxFaults \in Nat /\ MaxRestarts \in Nat
ASSUME NoneAssumption ==
  /\ None \notin Digests \cup Names \cup Workers \cup [by : Workers, digest : Digests]
  /\ Workers \cap {"full", "part", "bad"} = {} /\ None \notin {"full", "part", "bad"}
ASSUME SourceAssumption ==
  /\ BadSources \subseteq Names \X Digests
  /\ Snapshots \subseteq [Names -> Digests \cup {None}]
ASSUME NamesAssumption == IsFiniteSet(Names)
ASSUME FlagAssumption == Recross \in BOOLEAN

VARIABLES
  pc,        \* the main loop: "select" an event, or owing a pass over "shared"
  desired,   \* desiredShared: digest asked for per name, or None
  known,     \* names with an entry in sharedActual
  inflight,  \* sharedFileState.inflight: the fetch a name waits for, or None
  blocked,   \* names in crash backoff
  link,      \* <base>/shared/<name>: the digest it points at, or None
  store,     \* <base>/shared/store/<digest>/<name>
  partial,   \* the .partial file beside it
  worker,    \* the fetch goroutines
  cancelled, \* workers whose context is cancelled
  sharedCh,  \* results on their way to the main loop
  fresh,     \* history: this incarnation has made no pass yet
  stranded,  \* history: names whose link an earlier incarnation left, and the
             \* first pass of a later one did not want
  snapshots, faults, restarts   \* bounds

loop    == <<pc, desired, known, inflight, blocked>>
disk    == <<link, store, partial>>
fetch   == <<worker, cancelled, sharedCh>>
history == <<fresh, stranded>>
bounds  == <<snapshots, faults, restarts>>
vars    == <<loop, disk, fetch, history, bounds>>

Objects == Names \X Digests
Rest    == {"full", "part", "bad"}
File    == Rest \cup Workers \cup {None}
Op      == [by : Workers, digest : Digests]
Idle    == [phase |-> "none", name |-> None, digest |-> None]
Task    == [phase : {"check", "get", "copy", "sum", "install", "ok", "err"},
            name : Names, digest : Digests]
Result  == [name : Names, digest : Digests, ok : BOOLEAN]

TypeOK ==
  /\ pc \in {"select", "shared"} /\ fresh \in BOOLEAN /\ stranded \subseteq Names
  /\ desired \in [Names -> Digests \cup {None}]
  /\ known \subseteq Names /\ blocked \subseteq Names
  /\ inflight \in [Names -> Op \cup {None}]
  /\ Cardinality({n \in Names : inflight[n] # None}) <= MaxFetches
  /\ link \in [Names -> Digests \cup {None}]
  /\ store \in [Objects -> File] /\ partial \in [Objects -> File]
  /\ worker \in [Workers -> Task \cup {Idle}] /\ cancelled \subseteq Workers
  /\ sharedCh \in Seq(Result)
  /\ snapshots \in 0..MaxSnapshots /\ faults \in 0..MaxFaults /\ restarts \in 0..MaxRestarts

Init ==
  /\ pc = "select" /\ fresh = TRUE /\ stranded = {}
  /\ desired = [n \in Names |-> None] /\ known = {} /\ blocked = {}
  /\ inflight = [n \in Names |-> None]
  /\ link = [n \in Names |-> None]
  /\ store = [o \in Objects |-> None] /\ partial = [o \in Objects |-> None]
  /\ worker = [w \in Workers |-> Idle] /\ cancelled = {} /\ sharedCh = << >>
  /\ snapshots = 0 /\ faults = 0 /\ restarts = 0

----------------------------------------------------------------------------
(* The main loop *)

Running(w) == worker[w].phase # "none"
Spare      == {w \in Workers : ~Running(w) /\ \A n \in Names : inflight[n] = None \/ inflight[n].by # w}

Inflight(n) == IF inflight[n] = None THEN None ELSE inflight[n].digest

\* Fetches whose target is no longer the desired one.
Withdrawn(ds) == {n \in Names : inflight[n] # None /\ ds[n] # inflight[n].digest}

\* Fetches nobody waits for that still run, or have sent their result.
Abandoned(late) ==
  {worker[w] : w \in {w \in late : Running(w)}}
    \cup {sharedCh[i] : i \in {i \in DOMAIN sharedCh :
                                  Inflight(sharedCh[i].name) # sharedCh[i].digest
                                    \/ inflight[sharedCh[i].name].by \in late}}

\* A snapshot: cancel what it makes pointless, then overwrite the desired set.
\* Without Recross it asks for nothing a cancelled worker is still fetching.
applyDesiredShared(ds) ==
  LET gone == Withdrawn(ds)
  IN /\ pc = "select" /\ snapshots < MaxSnapshots
     /\ cancelled' = cancelled \cup {inflight[n].by : n \in gone}
     /\ Recross \/ \A a \in Abandoned(cancelled') : ds[a.name] # a.digest
     /\ inflight' = [n \in Names |-> IF n \in gone THEN None ELSE inflight[n]]
     /\ desired' = ds /\ pc' = "shared"
     /\ snapshots' = snapshots + 1
     /\ UNCHANGED <<known, blocked, disk, worker, sharedCh, history, faults, restarts>>

Loading == {n \in Names : inflight[n] # None}

\* Seeded fault: a name is retried without waiting for its backoff.
Stale_Hammers(n) == desired[n] # None /\ inflight[n] = None /\ link[n] # desired[n]

\* Seeded fault: the fetch that takes the last slot is not counted.
FreeSlots_OffByOne ==
  IF Cardinality(Loading) > MaxFetches THEN 0 ELSE MaxFetches + 1 - Cardinality(Loading)

\* What one pass fetches: a name of every desired file that is not live at its
\* digest, not held off and not in flight, up to the free fetch slots.  The
\* order is that of a Go map: any.
Stale(n)  == desired[n] # None /\ n \notin blocked /\ inflight[n] = None /\ link[n] # desired[n]
FreeSlots == IF Cardinality(Loading) >= MaxFetches THEN 0 ELSE MaxFetches - Cardinality(Loading)
Batch(S) ==
  /\ S \subseteq {n \in Names : Stale(n)}
  /\ Cardinality(S) <= FreeSlots
  /\ \/ S = {n \in Names : Stale(n)}
     \/ Cardinality(S) = FreeSlots

Present(n) == {d \in Digests : store[<<n, d>>] # None}

\* Seeded fault: retention counts the live entry like any other.
Retained_ByAge(n, K) ==
  K \subseteq Present(n) /\ (K = Present(n) \/ Cardinality(K) = Retention)

\* GCShared for a desired name: the live entry and others up to Retention stay.
\* Which of the others is decided by install times, here by choice.
Retained(n, K) ==
  /\ K \subseteq Present(n)
  /\ link[n] \in Present(n) => link[n] \in K
  /\ \/ K = Present(n)
     \/ Cardinality(K \cup ({link[n]} \ {None})) = Retention

\* Seeded fault: the sweep of .partial leftovers is missing.
GCShared_LeavesPartials(keep) ==
  /\ store' = [o \in Objects |-> IF desired[o[1]] # None /\ o[2] \in keep[o[1]] THEN store[o] ELSE None]
  /\ UNCHANGED partial

\* What is left of the store: nothing of a name that is not desired, what is
\* retained of the others, and no .partial.
GCShared(keep) ==
  /\ store' = [o \in Objects |-> IF desired[o[1]] # None /\ o[2] \in keep[o[1]] THEN store[o] ELSE None]
  /\ partial' = [o \in Objects |-> None]

\* Links of names no longer desired go, if sharedActual has the name: a link that
\* was there before the agent's start is not looked for.  One that cannot be
\* removed is kept in sharedActual and tried again.
Dropped == {n \in known : desired[n] = None}

DropLinks(stuck) ==
  /\ stuck = {} \/ ("unlink" \in FaultKinds /\ faults < MaxFaults)
  /\ faults' = IF stuck = {} THEN faults ELSE faults + 1
  /\ known' = (known \ (Dropped \ stuck)) \cup {n \in Names : desired[n] # None}
  /\ link' = [n \in Names |-> IF n \in Dropped \ stuck THEN None ELSE link[n]]
  /\ stranded' = (stranded \ (Dropped \ stuck))
                   \cup {n \in Names : fresh /\ link[n] # None /\ desired[n] = None}

\* A worker, with a context of its own, for each name of the batch.
beginSharedFetch(S, by) ==
  /\ \A m, n \in S : by[m] = by[n] => m = n
  /\ inflight' = [n \in Names |-> IF n \in S THEN [by |-> by[n], digest |-> desired[n]]
                                  ELSE inflight[n]]
  /\ worker' = [w \in Workers |->
       IF \E n \in S : by[n] = w
       THEN LET n == CHOOSE n \in S : by[n] = w
            IN [phase |-> "check", name |-> n, digest |-> desired[n]]
       ELSE worker[w]]
  /\ cancelled' = cancelled \ {by[n] : n \in S}

\* A pass that neither begins a fetch nor waits for one sweeps the store.
Sweep(S) ==
  IF S = {} /\ Loading = {}
  THEN \E keep \in [Names -> SUBSET Digests] :
         /\ \A n \in Names : IF desired[n] = None THEN keep[n] = {} ELSE Retained(n, keep[n])
         /\ GCShared(keep)
  ELSE UNCHANGED <<store, partial>>

\* A pass follows every event of the loop at once, and the ticker's or another
\* strategy's events at any time, in a new incarnation even before a snapshot.
reconcileShared ==
  /\ pc' = "select" /\ fresh' = FALSE
  /\ \E stuck \in SUBSET {n \in Dropped : link[n] # None} : DropLinks(stuck)
  /\ \E S \in SUBSET Names :
       Batch(S) /\ (\E by \in [S -> Spare] : beginSharedFetch(S, by)) /\ Sweep(S)
  /\ UNCHANGED <<desired, blocked, sharedCh, snapshots, restarts>>

\* A worker's result.  It is taken for the fetch in flight if the digests
\* agree; the live link is switched here and nowhere else.
applySharedWorkerEvent ==
  /\ pc = "select" /\ sharedCh # << >>
  /\ LET ev == Head(sharedCh)
     IN IF inflight[ev.name] = None \/ inflight[ev.name].digest # ev.digest
        THEN UNCHANGED <<inflight, blocked, link, stranded>>
        ELSE /\ inflight' = [inflight EXCEPT ![ev.name] = None]
             /\ IF ev.ok /\ store[<<ev.name, ev.digest>>] # None
                THEN /\ link' = [link EXCEPT ![ev.name] = ev.digest]
                     /\ blocked' = blocked \ {ev.name}
                     /\ stranded' = stranded \ {ev.name}
                ELSE blocked' = blocked \cup {ev.name} /\ UNCHANGED <<link, stranded>>
  /\ sharedCh' = Tail(sharedCh)
  /\ pc' = "shared"
  /\ UNCHANGED <<desired, known, store, partial, worker, cancelled, fresh, bounds>>

\* The backoff of a name runs out: a second or more, not between an event and
\* the pass it makes.
BackoffElapses(n) ==
  /\ pc = "select" /\ n \in blocked /\ blocked' = blocked \ {n}
  /\ UNCHANGED <<pc, desired, known, inflight, disk, fetch, history, bounds>>

----------------------------------------------------------------------------
(* runSharedFetch: EnsureSharedFile in a goroutine of its own *)

Object(w)  == <<worker[w].name, worker[w].digest>>
Goes(w, p) == worker' = [worker EXCEPT ![w].phase = p]

\* A file a worker no longer writes: what is left of it where it stands.
Settled(files, w, rest) == [o \in Objects |-> IF files[o] = w THEN rest ELSE files[o]]

\* A verified entry is not fetched again; otherwise a leftover goes.
EnsureStarts(w) ==
  /\ worker[w].phase = "check"
  /\ IF store[Object(w)] = "full"
     THEN Goes(w, "ok") /\ UNCHANGED partial
     ELSE Goes(w, "get") /\ partial' = [partial EXCEPT ![Object(w)] = None]
  /\ UNCHANGED <<loop, link, store, cancelled, sharedCh, history, bounds>>

\* The answer begins: the .partial file is created, or truncated in place.
FetchOpens(w) ==
  /\ worker[w].phase = "get"
  /\ Goes(w, "copy")
  /\ partial' = [partial EXCEPT ![Object(w)] = w]
  /\ UNCHANGED <<loop, link, store, cancelled, sharedCh, history, bounds>>

\* The transfer breaks, by a fault or by its context.
FetchFails(w) ==
  /\ worker[w].phase \in {"get", "copy"}
  /\ \/ w \in cancelled /\ UNCHANGED faults
     \/ "fetch" \in FaultKinds /\ faults < MaxFaults /\ faults' = faults + 1
  /\ Goes(w, "err")
  /\ store' = Settled(store, w, "part")
  /\ partial' = [Settled(partial, w, "part") EXCEPT ![Object(w)] = None]
  /\ UNCHANGED <<loop, link, cancelled, sharedCh, history, snapshots, restarts>>

\* The last byte is written; a cancelled worker removes its .partial.
FetchEnds(w) ==
  LET rest == IF Object(w) \in BadSources THEN "bad" ELSE "full"
      done == Settled(partial, w, rest)
  IN /\ worker[w].phase = "copy"
     /\ store' = Settled(store, w, rest)
     /\ IF w \in cancelled
        THEN Goes(w, "err") /\ partial' = [done EXCEPT ![Object(w)] = None]
        ELSE Goes(w, "sum") /\ partial' = done
     /\ UNCHANGED <<loop, link, cancelled, sharedCh, history, bounds>>

\* The digest of whatever is at the .partial path.
VerifyShared(w) ==
  /\ worker[w].phase = "sum"
  /\ IF partial[Object(w)] = "full"
     THEN Goes(w, "install") /\ UNCHANGED partial
     ELSE Goes(w, "err") /\ partial' = [partial EXCEPT ![Object(w)] = None]
  /\ UNCHANGED <<loop, link, store, cancelled, sharedCh, history, bounds>>

\* Rename whatever is at the .partial path into the store.
InstallShared(w) ==
  /\ worker[w].phase = "install"
  /\ IF partial[Object(w)] # None
     THEN /\ Goes(w, "ok")
          /\ store' = [store EXCEPT ![Object(w)] = partial[Object(w)]]
          /\ partial' = [partial EXCEPT ![Object(w)] = None]
     ELSE Goes(w, "err") /\ UNCHANGED <<store, partial>>
  /\ UNCHANGED <<loop, link, cancelled, sharedCh, history, bounds>>

\* The result is sent; a cancelled worker may send it or drop it.
FetchReports(w) ==
  /\ worker[w].phase \in {"ok", "err"}
  /\ \/ sharedCh' = Append(sharedCh, [name |-> worker[w].name, digest |-> worker[w].digest,
                                      ok |-> worker[w].phase = "ok"])
     \/ w \in cancelled /\ UNCHANGED sharedCh
  /\ worker' = [worker EXCEPT ![w] = Idle]
  /\ cancelled' = cancelled \ {w}
  /\ UNCHANGED <<loop, disk, history, bounds>>

RunSharedFetch(w) ==
  EnsureStarts(w) \/ FetchOpens(w) \/ FetchFails(w) \/ FetchEnds(w)
    \/ VerifyShared(w) \/ InstallShared(w) \/ FetchReports(w)

----------------------------------------------------------------------------
(* The agent's process ends and is started again; strategies run on.  Only *)
(* the disk survives, with whatever the workers had written.               *)

Crash ==
  /\ restarts < MaxRestarts /\ restarts' = restarts + 1
  /\ pc' = "select" /\ desired' = [n \in Names |-> None] /\ fresh' = TRUE
  /\ known' = {} /\ blocked' = {} /\ inflight' = [n \in Names |-> None]
  /\ store' = [o \in Objects |-> IF store[o] \in Workers THEN "part" ELSE store[o]]
  /\ partial' = [o \in Objects |-> IF partial[o] \in Workers THEN "part" ELSE partial[o]]
  /\ worker' = [w \in Workers |-> Idle] /\ cancelled' = {} /\ sharedCh' = << >>
  /\ UNCHANGED <<link, stranded, snapshots, faults>>

----------------------------------------------------------------------------
Next ==
  \/ \E ds \in Snapshots : applyDesiredShared(ds)
  \/ reconcileShared \/ applySharedWorkerEvent
  \/ \E n \in Names : BackoffElapses(n)
  \/ \E w \in Workers : RunSharedFetch(w)
  \/ Crash

Spec == Init /\ [][Next]_vars

\* The loop runs, takes what is sent to it, goroutines run and backoffs end.
\* Transfers end: the HTTP client has a timeout.
FairSpec ==
  /\ Spec
  /\ WF_vars(reconcileShared) /\ SF_vars(applySharedWorkerEvent)
  /\ \A n \in Names : SF_vars(BackoffElapses(n))
  /\ \A w \in Workers : WF_vars(RunSharedFetch(w))

----------------------------------------------------------------------------
(* Properties *)

\* A live link of a desired file always leads to the complete, verified bytes
\* of the digest it names: no cancelled, failed or interrupted fetch, no
\* retention sweep and no restart takes them away or leaves others in their
\* place (GCShared's "Never deletes the live symlink target of a kept name",
\* EnsureSharedFile's "a cancelled fetch cannot leave a truncated object").  The
\* gate in front of deploys (sharedPresent) looks for the link alone.  Except
\* where the first pass after a restart did not want the file, withdrawn while
\* the agent was down or not asked for yet: its bytes are swept, its link is not.
LiveIsComplete ==
  \A n \in Names \ stranded :
    desired[n] # None /\ link[n] # None => store[<<n, link[n]>>] = "full"

\* Once snapshots stop, every desired file whose source is sound goes live,
\* whatever its neighbours' sources deliver and however few slots there are.  A
\* stranded link that already names the digest passes for the file itself.
EventuallyLands ==
  \A o \in Objects \ BadSources :
    <>[](desired[o[1]] = o[2]) =>
      <>[](link[o[1]] = o[2] /\ (store[o] = "full" \/ o[1] \in stranded))

\* Once snapshots stop, nothing of a file that is not desired is left, not even
\* what a worker installed after its cancellation ("Next pass reclaims once
\* inflight is clear"), but the link of one withdrawn across a restart.
EventuallyReclaimed ==
  \A n \in Names :
    <>[](desired[n] = None) =>
      <>[](/\ link[n] = None \/ n \in stranded
           /\ \A d \in Digests : store[<<n, d>>] = None /\ partial[<<n, d>>] = None)
=============================================================================
