------------------------------- MODULE Ingest -------------------------------
(***************************************************************************)
(* The artifact catalog and its ingest (controlplane/ingest, the store's   *)
(* artifact rows, RegisterArtifact and the READY check of Deploy), for one *)
(* name and version: every row, its workers and its objects are separate   *)
(* from the others'.                                                       *)
(*                                                                         *)
(* A version may be registered again while the worker of its previous      *)
(* registration is still at work, or with the uri of an object that a      *)
(* client wrote, or did not, by a url it was given; and the control plane  *)
(* may restart at any moment, which no worker survives.                    *)
(***************************************************************************)
EXTENDS Naturals

CONSTANTS
  Digests,
  Callers,         \* human callers
  None,
  MaxRequests,       \* bound: rows written and urls given out
  Outright,          \* bound: refs that are registered as READY
  MaxRestarts        \* bound: restarts of the control plane

\* Where a ref's bytes are: at a source that wants the control plane's
\* credential, at a public source, or in the object store under a key.
Keys   == Digests
Uris   == {"source", "public"} \cup Keys
Ref    == [digest : Digests, uri : Uris]
Record == [ref : Ref, state : {"READY", "PENDING", "FAILED"}]

ASSUME IngestAssumption ==
  /\ None \notin Digests /\ None \notin Record
  /\ "source" \notin Digests /\ "public" \notin Digests
  /\ Outright \subseteq {ref \in Ref : ref.uri # "source"}
  /\ MaxRequests \in Nat /\ MaxRestarts \in Nat

Workers == 1..MaxRequests   \* named by the request that started them
Steps   == {"none", "download", "upload", "finalize"}

VARIABLES
  row,            \* the catalog row of the version
  objects,        \* the object store
  uploads,        \* the keys that clients were given a url to write
  outright,       \* history: refs into the object store that were registered as READY
  workers,        \* Service.Run, one goroutine a registration
  calls,          \* what a caller read and is about to act on
  taken,          \* refs that deploys put into assignments
  requests, restarts

store == <<objects, uploads>>
vars == <<row, store, outright, workers, calls, taken, requests, restarts>>

TypeOK ==
  /\ row \in Record \cup {None}
  /\ row # None /\ row.state = "PENDING" => row.ref.uri = "source"
  /\ objects \in [Keys -> Digests \cup {None}] /\ uploads \subseteq Keys
  /\ outright \subseteq Ref
  /\ workers \in [Workers -> [at : Steps, digest : Digests \cup {None}]]
  /\ calls \in [Callers -> [verb : {"register", "deploy"}, ref : Ref] \cup {None}]
  /\ taken \subseteq Ref
  /\ requests \in 0..MaxRequests /\ restarts \in 0..MaxRestarts

Idle == [at |-> "none", digest |-> None]

Init ==
  /\ row = None /\ objects = [k \in Keys |-> None] /\ uploads = {} /\ outright = {}
  /\ workers = [w \in Workers |-> Idle] /\ calls = [c \in Callers |-> None]
  /\ taken = {} /\ requests = 0 /\ restarts = 0

\* ObjectKey: the key holds the digest.
ObjectKey(d) == d

----------------------------------------------------------------------------
(* The human API *)

\* Seeded fault: a row that is registered again keeps the uri it had.
Registered_KeepsUri(ref, state) ==
  [ref |-> IF row = None THEN ref ELSE [ref EXCEPT !.uri = row.ref.uri], state |-> state]

\* RegisterArtifactRecord replaces ref and state of the row.
Registered(ref, state) == [ref |-> ref, state |-> state]

\* The digest is in the catalog, or on its way there.
InHand(d) == row # None /\ row.ref.digest = d /\ row.state \in {"READY", "PENDING"}

\* RegisterArtifact, up to the check of the row it finds.
RegisterArtifact(c, d) ==
  /\ calls[c] = None /\ requests < MaxRequests /\ ~InHand(d)
  /\ calls' = [calls EXCEPT ![c] = [verb |-> "register", ref |-> [digest |-> d, uri |-> "source"]]]
  /\ UNCHANGED <<row, store, outright, workers, taken, requests, restarts>>

\* The rest of it: the row is PENDING, and a worker starts.
StartIngest(c) ==
  /\ calls[c] # None /\ calls[c].verb = "register" /\ requests < MaxRequests
  /\ row' = Registered(calls[c].ref, "PENDING")
  /\ requests' = requests + 1
  /\ workers' = [workers EXCEPT ![requests + 1] = [at |-> "download", digest |-> calls[c].ref.digest]]
  /\ calls' = [calls EXCEPT ![c] = None]
  /\ UNCHANGED <<store, outright, taken, restarts>>

\* RegisterArtifact of a uri that needs no ingest: READY at once.  Nobody looks
\* whether an object is there, or what it holds.
RegisterOutright(ref) ==
  /\ requests < MaxRequests
  /\ row' = Registered(ref, "READY")
  /\ requests' = requests + 1
  /\ outright' = IF ref.uri \in Keys THEN outright \cup {ref} ELSE outright
  /\ UNCHANGED <<store, workers, calls, taken, restarts>>

\* A url to write the digest's object, the one that its ingest writes.
CreateArtifactUpload(d) ==
  /\ requests < MaxRequests /\ requests' = requests + 1
  /\ uploads' = uploads \cup {ObjectKey(d)}
  /\ UNCHANGED <<row, objects, outright, workers, calls, taken, restarts>>

\* A client uses it, once or often, with any bytes.
Put(key, bytes) ==
  /\ key \in uploads
  /\ objects' = [objects EXCEPT ![key] = bytes]
  /\ UNCHANGED <<row, uploads, outright, workers, calls, taken, requests, restarts>>

\* Deploy reads the ref (resolveArtifact) ...
Deploy(c) ==
  /\ calls[c] = None /\ row # None
  /\ calls' = [calls EXCEPT ![c] = [verb |-> "deploy", ref |-> row.ref]]
  /\ UNCHANGED <<row, store, outright, workers, taken, requests, restarts>>

\* ... and then the state of the row it finds (requireArtifactReady).
requireArtifactReady(c) ==
  /\ calls[c] # None /\ calls[c].verb = "deploy"
  /\ taken' = IF row.state = "READY" THEN taken \cup {calls[c].ref} ELSE taken
  /\ calls' = [calls EXCEPT ![c] = None]
  /\ UNCHANGED <<row, store, outright, workers, requests, restarts>>

----------------------------------------------------------------------------
(* The worker *)

Ends(w) == workers' = [workers EXCEPT ![w] = Idle]

Goes(w, step) == workers' = [workers EXCEPT ![w].at = step]

\* SetArtifactState FAILED, on whatever row is there.
Fails(w) ==
  /\ workers[w].at # "none" /\ Ends(w)
  /\ row' = [row EXCEPT !.state = "FAILED"]
  /\ UNCHANGED <<store, outright, calls, taken, requests, restarts>>

\* The bytes came, and have the digest that was registered.
Download(w) ==
  /\ workers[w].at = "download" /\ Goes(w, "upload")
  /\ UNCHANGED <<row, store, outright, calls, taken, requests, restarts>>

\* PutObject: two workers of one digest write the same bytes.
PutObject(w) ==
  /\ workers[w].at = "upload" /\ Goes(w, "finalize")
  /\ objects' = [objects EXCEPT ![ObjectKey(workers[w].digest)] = workers[w].digest]
  /\ UNCHANGED <<row, uploads, outright, calls, taken, requests, restarts>>

\* Seeded fault: the state alone is the fence.
Superseded_ByState(d) == row.state # "PENDING"

\* ErrIngestSuperseded: another ingest won, or the digest was replaced.
Superseded(d) == row.state # "PENDING" \/ row.ref.digest # d

\* FinalizeIngest: the row takes the object's uri, unless it is another's by now.
FinalizeIngest(w) ==
  /\ workers[w].at = "finalize" /\ Ends(w)
  /\ LET d == workers[w].digest
     IN row' = IF Superseded(d) THEN row
               ELSE [row EXCEPT !.ref.uri = ObjectKey(d), !.state = "READY"]
  /\ UNCHANGED <<store, outright, calls, taken, requests, restarts>>

----------------------------------------------------------------------------
(* The control plane restarts *)

\* Seeded fault: rows in flight are left as they are.
Interrupted_Left == row

\* FailPendingArtifacts("interrupted by restart")
Interrupted ==
  IF row # None /\ row.state = "PENDING" THEN [row EXCEPT !.state = "FAILED"] ELSE row

\* Calls and workers end; the catalog and the objects stay.
Restart ==
  /\ restarts < MaxRestarts /\ restarts' = restarts + 1
  /\ workers' = [w \in Workers |-> Idle] /\ calls' = [c \in Callers |-> None]
  /\ row' = Interrupted
  /\ UNCHANGED <<store, outright, taken, requests>>

----------------------------------------------------------------------------
Run(w) == Download(w) \/ PutObject(w) \/ FinalizeIngest(w) \/ Fails(w)

Others ==
  \/ \E w \in Workers : Run(w)
  \/ \E c \in Callers : StartIngest(c) \/ Deploy(c)
  \/ \E c \in Callers, d \in Digests : RegisterArtifact(c, d)
  \/ \E ref \in Outright : RegisterOutright(ref)
  \/ \E d \in Digests : CreateArtifactUpload(d)
  \/ \E key \in Keys, bytes \in Digests : Put(key, bytes)
  \/ Restart

Next == Others \/ \E c \in Callers : requireArtifactReady(c)

Spec == Init /\ [][Next]_vars

\* A worker comes to an end: downloads have a timeout.
FairSpec == Spec /\ \A w \in Workers : WF_vars(Run(w))

----------------------------------------------------------------------------
(* Properties *)

\* A ref into the object store names bytes of its digest.  Nobody vouches for an
\* object that clients may write, nor for a ref that was registered as READY.
Stands(ref) ==
  ref.uri \in Keys \ uploads /\ ref \notin outright => objects[ref.uri] = ref.digest

\* The READY row and every ref that a deploy took from it stand, if they come from
\* an ingest whose key no client was given a url to write, whatever was
\* registered, uploaded elsewhere, failed or interrupted since ("content-addressed
\* object remains valid even if the catalog row was re-registered").
RefsStand ==
  /\ row # None /\ row.state = "READY" => Stands(row.ref) /\ row.ref.uri # "source"
  /\ \A ref \in taken : Stands(ref)

\* No row stays PENDING: some worker decides it, whichever others fail or are
\* superseded, or the restart that ended the worker does.
EventuallyDecided == <>[](row # None => row.state # "PENDING")
=============================================================================
