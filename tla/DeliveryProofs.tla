--------------------------- MODULE DeliveryProofs ---------------------------
(***************************************************************************)
(* Proofs about Ingest, the catalog, and Delivery, the catalog with the    *)
(* agent that deploys from it: whatever a row or a deployed ref names in   *)
(* the object store by an ingest is there, and is what its digest says;    *)
(* and, for calm deploys, a process that starts where no other digest was  *)
(* unpacked since executes the bytes its deploy was ordered with.  For     *)
(* any digests, callers, requests and restarts.                            *)
(***************************************************************************)
EXTENDS Delivery, TLAPS

----------------------------------------------------------------------------
(* The catalog alone: what the object store holds *)

\* A key of the object store that no client may write holds its digest's bytes or
\* nothing.
ObjectsSound == \A k \in Keys \ uploads : objects[k] \in {None, k}

\* A worker works for a digest on a row that exists, and has uploaded what it
\* is about to finalize, where no client may write.
WorkersSound ==
  \A w \in Workers : workers[w].at # "none" =>
    /\ row # None /\ workers[w].digest \in Digests
    /\ workers[w].at = "finalize" /\ workers[w].digest \notin uploads =>
         objects[workers[w].digest] = workers[w].digest

\* What a caller has in hand stands, and it read it off a row.
CallsSound ==
  \A c \in Callers : calls[c] # None =>
    /\ Stands(calls[c].ref) /\ (calls[c].verb = "deploy" => row # None)
    /\ calls[c].verb = "register" => calls[c].ref.uri = "source"

\* The row's ref stands in every state.
RowSound == row # None => Stands(row.ref) /\ (row.state = "READY" => row.ref.uri # "source")

Inv ==
  /\ TypeOK /\ ObjectsSound /\ WorkersSound /\ CallsSound /\ RowSound
  /\ \A ref \in taken : Stands(ref)

----------------------------------------------------------------------------
\* Init establishes the invariant: there is no row and nobody at work.
LEMMA InitSound == Init => Inv
  BY IngestAssumption DEF Init, Inv, TypeOK, ObjectsSound, WorkersSound, CallsSound, RowSound,
     Idle, Workers, Steps, Keys

\* A ref that stands keeps standing while objects only come (PutObject), but where a
\* client may write (Put), and whatever is registered or given out for a write.
LEMMA StandsStays ==
  ASSUME NEW ref \in Ref, Stands(ref), uploads \subseteq uploads', outright \subseteq outright',
         \A k \in Keys \ uploads : objects[k] # None => objects'[k] = objects[k]
  PROVE  Stands(ref)'
  BY IngestAssumption DEF Stands, Ref, Keys, Uris

\* None is not a row.
LEMMA NoneIsNoRecord == \A r \in Record : r # None
  BY IngestAssumption

\* What FinalizeIngest makes of a row is a row.
LEMMA UploadedIsRecord ==
  ASSUME NEW d \in Digests
  PROVE  [ref |-> [digest |-> d, uri |-> d], state |-> "READY"] \in Record
  BY DEF Record, Ref, Uris, Keys

\* RegisterArtifact up to its check only takes a ref in hand, at the source.
LEMMA RegisterArtifactSound ==
  ASSUME Inv, NEW c \in Callers, NEW d \in Digests, RegisterArtifact(c, d)
  PROVE  Inv'
<1> DEFINE call == [verb |-> "register", ref |-> [digest |-> d, uri |-> "source"]]
<1> USE DEF Inv, RegisterArtifact, store
<1>1. call.ref \in Ref /\ Stands(call.ref) /\ call.verb = "register"
  BY IngestAssumption DEF Stands, Ref, Uris, Keys
<1>2. TypeOK'
  BY <1>1 DEF TypeOK
<1>3. ObjectsSound' /\ WorkersSound' /\ RowSound' /\ (\A ref \in taken : Stands(ref))'
  BY DEF ObjectsSound, WorkersSound, RowSound, Stands
<1>4. CallsSound'
  BY <1>1 DEF CallsSound, TypeOK, Stands
<1> QED BY <1>2, <1>3, <1>4

\* StartIngest writes a row at the source, and its worker starts at the download.
LEMMA StartIngestSound ==
  ASSUME Inv, NEW c \in Callers, StartIngest(c)
  PROVE  Inv'
<1> DEFINE ref == calls[c].ref
<1> USE DEF Inv, StartIngest, store
<1>1. ref \in Ref /\ ref.uri = "source" /\ ref.digest \in Digests
  BY DEF TypeOK, CallsSound, Ref
<1>2. row' = [ref |-> ref, state |-> "PENDING"] /\ row' \in Record
  BY <1>1 DEF Registered, Record
<1>3. row' # None
  BY <1>2, NoneIsNoRecord
<1>4. requests + 1 \in Workers
  BY IngestAssumption DEF TypeOK, Workers
<1>5. TypeOK'
  BY <1>1, <1>2, <1>4 DEF TypeOK, Steps, Workers
<1>6. ObjectsSound' /\ (\A r \in taken : Stands(r))'
  BY DEF ObjectsSound, Stands
<1>7. WorkersSound'
  BY <1>1, <1>3, <1>4 DEF WorkersSound, TypeOK
<1>8. RowSound'
  BY <1>1, <1>2, IngestAssumption DEF RowSound, Stands, Keys
<1>9. CallsSound'
  BY <1>3 DEF CallsSound, TypeOK, Stands
<1> QED BY <1>5, <1>6, <1>7, <1>8, <1>9

\* A row that is READY at once names no object, or one that nobody vouches for.
LEMMA RegisterOutrightSound ==
  ASSUME Inv, NEW ref \in Outright, RegisterOutright(ref)
  PROVE  Inv'
<1> USE DEF Inv, RegisterOutright, store
<1>1. ref \in Ref /\ ref.uri # "source"
  BY IngestAssumption
<1>2. row' = [ref |-> ref, state |-> "READY"] /\ row' \in Record
  BY <1>1 DEF Registered, Record
<1>3. row' # None /\ row'.ref = ref /\ row'.state = "READY"
  BY <1>2, NoneIsNoRecord
<1>4. outright \subseteq outright' /\ outright' \subseteq Ref /\ (ref.uri \in Keys => ref \in outright')
  BY <1>1 DEF TypeOK
<1>5. \A r \in Ref : Stands(r) => Stands(r)'
  BY <1>4, StandsStays
<1>6. TypeOK'
  BY <1>2, <1>3, <1>4, IngestAssumption DEF TypeOK
<1>7. ObjectsSound' /\ WorkersSound'
  BY <1>3 DEF ObjectsSound, WorkersSound
<1>8. CallsSound' /\ (\A r \in taken : Stands(r))'
  BY <1>3, <1>5 DEF CallsSound, TypeOK
<1>9. RowSound'
  <2>1. Stands(ref)'
    BY <1>4 DEF Stands
  <2> QED BY <2>1, <1>1, <1>3 DEF RowSound, Stands
<1> QED BY <1>6, <1>7, <1>8, <1>9

\* A key whose url was given out is nobody's word any more; the others stand.
LEMMA CreateArtifactUploadSound ==
  ASSUME Inv, NEW d \in Digests, CreateArtifactUpload(d)
  PROVE  Inv'
<1> USE DEF Inv, CreateArtifactUpload
<1>1. uploads' = uploads \cup {d} /\ UNCHANGED <<row, objects, outright, workers, calls, taken, restarts>>
  BY DEF ObjectKey
<1>2. TypeOK'
  BY <1>1, IngestAssumption DEF TypeOK, Keys
<1>3. \A r \in Ref : Stands(r) => Stands(r)'
  BY <1>1, StandsStays
<1>4. ObjectsSound' /\ WorkersSound'
  BY <1>1 DEF ObjectsSound, WorkersSound
<1>5. CallsSound' /\ RowSound' /\ (\A r \in taken : Stands(r))'
  BY <1>1, <1>3 DEF CallsSound, RowSound, TypeOK, Record
<1> QED BY <1>2, <1>4, <1>5

\* A client writes only where it was given a url.
LEMMA PutSound ==
  ASSUME Inv, NEW key \in Keys, NEW bytes \in Digests, Put(key, bytes)
  PROVE  Inv'
<1> USE DEF Inv, Put
<1>1. \A k \in Keys : objects'[k] = IF k = key THEN bytes ELSE objects[k]
  BY DEF TypeOK
<1>2. key \in uploads /\ UNCHANGED <<row, uploads, outright, workers, calls, taken, requests, restarts>>
  OBVIOUS
<1>3. TypeOK'
  BY <1>2 DEF TypeOK, Keys
<1>4. \A r \in Ref : Stands(r) => Stands(r)'
  BY <1>1, <1>2, StandsStays
<1>5. ObjectsSound' /\ WorkersSound'
  BY <1>1, <1>2 DEF ObjectsSound, WorkersSound, Keys
<1>6. CallsSound' /\ RowSound' /\ (\A r \in taken : Stands(r))'
  BY <1>2, <1>4 DEF CallsSound, RowSound, TypeOK, Record
<1> QED BY <1>3, <1>5, <1>6

\* Deploy takes the row's ref in hand, whatever its state.
LEMMA DeploySound ==
  ASSUME Inv, NEW c \in Callers, Deploy(c)
  PROVE  Inv'
<1> USE DEF Inv, Deploy, store
<1>1. row.ref \in Ref /\ Stands(row.ref)
  BY DEF TypeOK, Record, RowSound
<1>2. TypeOK'
  BY <1>1 DEF TypeOK
<1>3. ObjectsSound' /\ WorkersSound' /\ RowSound' /\ (\A r \in taken : Stands(r))'
  BY DEF ObjectsSound, WorkersSound, RowSound, Stands
<1>4. CallsSound'
  BY <1>1 DEF CallsSound, TypeOK, Stands
<1> QED BY <1>2, <1>3, <1>4

\* The check passes on a ref in hand, which stands.
LEMMA requireArtifactReadySound ==
  ASSUME Inv, NEW c \in Callers, requireArtifactReady(c)
  PROVE  Inv'
<1> USE DEF Inv, requireArtifactReady, store
<1>1. calls[c].ref \in Ref /\ Stands(calls[c].ref)
  BY DEF TypeOK, CallsSound
<1>2. TypeOK'
  BY <1>1 DEF TypeOK
<1>3. ObjectsSound' /\ WorkersSound' /\ RowSound'
  BY DEF ObjectsSound, WorkersSound, RowSound, Stands
<1>4. CallsSound'
  BY DEF CallsSound, TypeOK, Stands
<1>5. (\A r \in taken : Stands(r))'
  BY <1>1 DEF Stands
<1> QED BY <1>2, <1>3, <1>4, <1>5

----------------------------------------------------------------------------
\* A step of a worker that leaves catalog and objects alone.
LEMMA DownloadSound ==
  ASSUME Inv, NEW w \in Workers, Download(w)
  PROVE  Inv'
<1> USE DEF Inv, Download, Goes, store
<1>1. TypeOK'
  BY DEF TypeOK, Steps
<1>2. WorkersSound'
  BY DEF WorkersSound, TypeOK
<1>3. ObjectsSound' /\ CallsSound' /\ RowSound' /\ (\A r \in taken : Stands(r))'
  BY DEF ObjectsSound, CallsSound, RowSound, Stands
<1> QED BY <1>1, <1>2, <1>3

\* The upload puts a digest's bytes under its own key: what stood, stands.
LEMMA PutObjectSound ==
  ASSUME Inv, NEW w \in Workers, PutObject(w)
  PROVE  Inv'
<1> DEFINE d == workers[w].digest
<1> USE DEF Inv, PutObject, Goes, ObjectKey
<1>1. d \in Digests /\ row # None
  BY DEF WorkersSound
<1>2. objects' = [objects EXCEPT ![d] = d] /\ objects \in [Keys -> Digests \cup {None}] /\ d \in Keys
  BY <1>1 DEF TypeOK, Keys
<1>3. \A k \in Keys : objects'[k] = IF k = d THEN d ELSE objects[k]
  BY <1>2
<1>4. TypeOK'
  BY <1>1, <1>2 DEF TypeOK, Steps
<1>5. ObjectsSound'
  BY <1>3 DEF ObjectsSound
<1>6. \A k \in Keys \ uploads : objects[k] # None => objects'[k] = objects[k]
  BY <1>3 DEF ObjectsSound
<1>7. \A ref \in Ref : Stands(ref) => Stands(ref)'
  BY <1>6, StandsStays
<1>8. WorkersSound'
  <2> SUFFICES ASSUME NEW v \in Workers, workers'[v].at # "none"
               PROVE  /\ workers'[v].digest \in Digests
                      /\ workers'[v].at = "finalize" /\ workers'[v].digest \notin uploads =>
                           objects'[workers'[v].digest] = workers'[v].digest
    BY <1>1 DEF WorkersSound
  <2>1. workers'[v].digest = workers[v].digest /\ workers'[v].at \in {workers[v].at, "finalize"}
        /\ (v # w => workers'[v] = workers[v])
    BY DEF TypeOK
  <2>2. CASE v = w
    BY <2>1, <2>2, <1>1, <1>3 DEF Keys
  <2>3. CASE v # w
    BY <2>1, <2>3, <1>3 DEF WorkersSound, Keys
  <2> QED BY <2>2, <2>3
<1>9. CallsSound'
  BY <1>7 DEF CallsSound, TypeOK
<1>10. RowSound' /\ (\A r \in taken : Stands(r))'
  BY <1>7 DEF RowSound, TypeOK, Record
<1> QED BY <1>4, <1>5, <1>8, <1>9, <1>10

\* A row whose state alone changes, its ref or its ref's uri that stands, keeps
\* the invariant while a worker ends.
LEMMA WorkerEndsSound ==
  ASSUME Inv, NEW w \in Workers, Ends(w),
         UNCHANGED <<store, outright, calls, taken, requests, restarts>>,
         row # None, row' \in Record, row'.state = "PENDING" => row'.ref.uri = "source",
         Stands(row'.ref), row'.state = "READY" => row'.ref.uri # "source"
  PROVE  Inv'
<1> USE DEF Inv, Ends, store
<1>1. row' # None
  BY NoneIsNoRecord
<1>2. TypeOK'
  BY DEF TypeOK, Idle, Steps
<1>3. ObjectsSound' /\ CallsSound' /\ (\A r \in taken : Stands(r))'
  BY <1>1 DEF ObjectsSound, CallsSound, Stands
<1>4. RowSound'
  BY DEF RowSound, Stands
<1>5. WorkersSound'
  BY <1>1 DEF WorkersSound, TypeOK, Idle
<1> QED BY <1>2, <1>3, <1>4, <1>5

\* A failure leaves the row's ref, and FAILED promises nothing.
LEMMA FailsSound ==
  ASSUME Inv, NEW w \in Workers, Fails(w)
  PROVE  Inv'
<1> USE DEF Inv, Fails, store
<1>1. row # None /\ row \in Record /\ Stands(row.ref)
  BY DEF WorkersSound, TypeOK, RowSound
<1>2. row' \in Record /\ row'.state = "FAILED" /\ row'.ref = row.ref
  BY <1>1 DEF Record
<1> QED BY <1>1, <1>2, WorkerEndsSound

\* The uri that the fence lets through leads to what the worker uploaded, for
\* the digest that the row still has.
LEMMA FinalizeIngestSound ==
  ASSUME Inv, NEW w \in Workers, FinalizeIngest(w)
  PROVE  Inv'
<1> DEFINE d == workers[w].digest
<1>1. row # None /\ row \in Record /\ Stands(row.ref) /\ d \in Digests
      /\ (d \notin uploads => objects[d] = d)
  BY DEF Inv, FinalizeIngest, WorkersSound, TypeOK, RowSound
<1>2. Ends(w) /\ UNCHANGED <<store, outright, calls, taken, requests, restarts>>
  BY DEF FinalizeIngest
<1>3. CASE Superseded(d)
  <2>1. row' = row
    BY <1>3 DEF FinalizeIngest
  <2> QED BY <1>1, <1>2, <2>1, WorkerEndsSound DEF Inv, TypeOK, RowSound
<1>4. CASE ~Superseded(d)
  <2>1. row' = [row EXCEPT !.ref.uri = d, !.state = "READY"] /\ row.ref.digest = d
    BY <1>4 DEF FinalizeIngest, ObjectKey, Superseded
  <2>2. row' = [ref |-> [digest |-> d, uri |-> d], state |-> "READY"]
    BY <1>1, <2>1 DEF Record, Ref
  <2>3. row' \in Record
    BY <1>1, <2>2, UploadedIsRecord
  <2>4. row'.state = "READY" /\ row'.ref.uri = d /\ row'.ref.digest = d
    BY <2>2
  <2>5. Stands(row'.ref) /\ row'.ref.uri # "source"
    BY <1>1, <2>4, IngestAssumption DEF Stands
  <2> QED BY <1>1, <1>2, <2>3, <2>4, <2>5, WorkerEndsSound
<1> QED BY <1>3, <1>4

----------------------------------------------------------------------------
\* The restart ends calls and workers, and fails the row that was in flight.
LEMMA RestartSound ==
  ASSUME Inv, Restart
  PROVE  Inv'
<1> USE DEF Inv, Restart, store
<1>1. \/ row = None /\ row' = None
      \/ /\ row # None /\ row' \in Record /\ row'.ref = row.ref /\ row'.state # "PENDING"
         /\ row'.state = "READY" => row.state = "READY"
  <2>1. CASE row = None
    BY <2>1 DEF Interrupted
  <2>2. CASE row # None
    <3>1. row \in Record
      BY <2>2 DEF TypeOK
    <3>2. row.state = "PENDING" => row' = [row EXCEPT !.state = "FAILED"]
      BY <2>2 DEF Interrupted
    <3>3. row.state # "PENDING" => row' = row
      BY DEF Interrupted
    <3> QED BY <2>2, <3>1, <3>2, <3>3 DEF Record
  <2> QED BY <2>1, <2>2
<1>2. TypeOK'
  BY <1>1, IngestAssumption DEF TypeOK, Idle, Steps
<1>3. ObjectsSound' /\ WorkersSound' /\ CallsSound' /\ (\A r \in taken : Stands(r))'
  BY DEF ObjectsSound, WorkersSound, CallsSound, Stands, Idle
<1>4. RowSound'
  BY <1>1 DEF RowSound, Stands
<1> QED BY <1>2, <1>3, <1>4

\* Every step keeps the invariant.
LEMMA StepSound == Inv /\ [Next]_vars => Inv'
<1> SUFFICES ASSUME Inv, [Next]_vars PROVE Inv'
  OBVIOUS
<1>1. CASE UNCHANGED vars
  BY <1>1 DEF vars, store, Inv, TypeOK, ObjectsSound, WorkersSound, CallsSound, RowSound, Stands
<1>2. ASSUME NEW w \in Workers, Run(w) PROVE Inv'
  BY <1>2, DownloadSound, PutObjectSound, FinalizeIngestSound, FailsSound DEF Run
<1>3. ASSUME NEW c \in Callers, StartIngest(c) \/ Deploy(c) \/ requireArtifactReady(c) PROVE Inv'
  BY <1>3, StartIngestSound, DeploySound, requireArtifactReadySound
<1>4. ASSUME NEW d \in Digests, CreateArtifactUpload(d) \/ \E c \in Callers : RegisterArtifact(c, d)
      PROVE  Inv'
  BY <1>4, RegisterArtifactSound, CreateArtifactUploadSound
<1>6. ASSUME NEW ref \in Outright, RegisterOutright(ref) PROVE Inv'
  BY <1>6, RegisterOutrightSound
<1>7. ASSUME NEW key \in Keys, NEW bytes \in Digests, Put(key, bytes) PROVE Inv'
  BY <1>7, PutSound
<1>5. CASE Restart
  BY <1>5, RestartSound
<1> QED BY <1>1, <1>2, <1>3, <1>4, <1>5, <1>6, <1>7 DEF Next, Others

\* The invariant of the specification.
THEOREM Invariance == Spec => []Inv
<1>1. Init => Inv
  BY InitSound
<1>2. Inv /\ [Next]_vars => Inv'
  BY StepSound
<1> QED BY <1>1, <1>2, PTL DEF Spec

\* Rows, workers, calls and refs keep their types; what is PENDING is at its
\* source still.
THEOREM TypeCorrect == Spec => []TypeOK
<1>1. Inv => TypeOK
  BY DEF Inv
<1> QED BY <1>1, Invariance, PTL

\* A READY row and a ref that a deploy took from one stand for ever (FinalizeIngest's
\* fence, content-addressed keys), unless they were registered as READY or a client
\* was given a url to write their object (Stands).
THEOREM RefsAlwaysStand == Spec => []RefsStand
<1>1. Inv => RefsStand
  BY DEF Inv, RowSound, RefsStand
<1> QED BY <1>1, Invariance, PTL


----------------------------------------------------------------------------
(* The catalog's invariant, with the agent beside it *)

\* A version deployed before was ingested.
LEMMA DeliveryInitSound == DeliveryInit => Inv
<1> SUFFICES ASSUME DeliveryInit PROVE Inv
  OBVIOUS
<1>1. CASE Deployed = None
  BY <1>1, InitSound DEF DeliveryInit
<1>2. CASE Deployed # None
  <2> DEFINE ref == [digest |-> Deployed, uri |-> Deployed]
  <2>1. Deployed \in Digests /\ ref \in Ref /\ [ref |-> ref, state |-> "READY"] \in Record
    BY <1>2, DeliveryAssumption DEF Ref, Record, Uris, Keys
  <2>2. /\ row = [ref |-> ref, state |-> "READY"] /\ taken = {ref}
        /\ objects = [k \in Keys |-> IF k = Deployed THEN Deployed ELSE None]
        /\ uploads = {} /\ outright = {}
        /\ workers = [w \in Workers |-> Idle] /\ calls = [c \in Callers |-> None]
        /\ requests = 0 /\ restarts = 0
    BY <1>2 DEF DeliveryInit, ObjectKey
  <2>3. TypeOK
    BY <2>1, <2>2, IngestAssumption, NoneIsNoRecord DEF TypeOK, Idle, Workers, Steps, Keys
  <2>4. ObjectsSound /\ WorkersSound /\ CallsSound
    BY <2>2 DEF ObjectsSound, WorkersSound, CallsSound, Idle
  <2>5. Stands(ref) /\ Deployed # "source"
    BY <2>1, <2>2, IngestAssumption DEF Stands, Keys
  <2> QED BY <2>2, <2>3, <2>4, <2>5 DEF Inv, RowSound
<1> QED BY <1>1, <1>2

\* What the agent does leaves the catalog alone, and Catalog takes its steps.
LEMMA DeliveryRefines == [DeliveryNext]_allVars => [Next]_vars
  BY DEF DeliveryNext, allVars, Catalog, Next, Undeploy, applyDesired, Crash, runDeploy, Look,
         Resolve, Fetch, Hash, Unpack, Swap, writeOCIMeta, Start, DownloadRest, handleExit, tick,
         startProcess, ProcessRest, AgentRest

\* The catalog's invariant holds in the composition.
LEMMA CatalogInvariance == DeliverySpec => []Inv
<1>1. DeliveryInit => Inv
  BY DeliveryInitSound
<1>2. Inv /\ [DeliveryNext]_allVars => Inv'
  BY DeliveryRefines, StepSound
<1> QED BY <1>1, <1>2, PTL DEF DeliverySpec

\* A ref the catalog offers, or that a deploy took, stands, whichever version was
\* deployed at the start and whatever the agent does (RefsStand).
THEOREM RefsStandInDelivery == DeliverySpec => []RefsStand
<1>1. Inv => RefsStand
  BY DEF Inv, RowSound, RefsStand
<1> QED BY <1>1, CatalogInvariance, PTL

----------------------------------------------------------------------------
(* Types *)

\* One runDeploy goroutine.
Goroutine == [at : Stages, ref : Ref \cup {None}, from : Uris \cup {None},
              got : Maybe, cancelled : BOOLEAN, already : BOOLEAN]

\* A process, and what the agent has in mind of it.
Process == [want : Digests, bytes : Digests, rooted : BOOLEAN, displaced : BOOLEAN]
Mind    == [running : Maybe, prev : Maybe, window : {"closed", "deploy", "bare"}, bad : BOOLEAN]

\* Who is at work, works for a ref.
WorksForRef == \A i \in Deploys : deploy[i].at # "none" => deploy[i].ref \in Ref

AgentInv == DeliveryOK /\ WorksForRef

\* Cancelling contexts keeps the goroutines.
LEMMA WithdrawnTyped ==
  ASSUME deploy \in [Deploys -> Goroutine], NEW digests
  PROVE  Withdrawn(digests) \in [Deploys -> Goroutine]
  BY DEF Withdrawn, Goroutine

\* A failed download leaves an archive or nothing; and the directory as it was, or none.
LEMMA FailTyped ==
  ASSUME DeliveryOK, NEW i \in Deploys,
         NEW archive \in Maybe, NEW dir \in [rootfs : Maybe, meta : Maybe],
         DownloadFails(i, archive, dir)
  PROVE  /\ deploy' \in [Deploys -> Goroutine]
         /\ tar' \in Maybe /\ release' \in [rootfs : Maybe, meta : Maybe]
<1>1. NoDeploy \in Goroutine
  BY DEF NoDeploy, Goroutine, Stages, Maybe
<1>2. deploy \in [Deploys -> Goroutine]
  BY DEF DeliveryOK, Goroutine
<1>3. Removed \in [rootfs : Maybe, meta : Maybe] /\ None \in Maybe
  BY DEF Removed, Maybe
<1> QED BY <1>1, <1>2, <1>3 DEF DownloadFails, CleanedUp

\* What is launched from a release directory is a process.
LEMMA LaunchedTyped ==
  ASSUME DeliveryOK, NEW digest \in Digests
  PROVE  \A p \in Launched(digest) : p \in Process
<1>1. release \in [rootfs : Maybe, meta : Maybe]
  BY DEF DeliveryOK
<1>2. release.rootfs # None => release.rootfs \in Digests
  BY <1>1 DEF Maybe
<1> DEFINE displaced == unpacked # digest
<1>3. displaced \in BOOLEAN
  OBVIOUS
<1>4. Launched(digest) =
        IF release.meta = None \/ release.rootfs = None THEN {}
        ELSE {[want |-> digest, bytes |-> release.rootfs, rooted |-> TRUE, displaced |-> displaced]}
  BY DEF Launched
<1>5. SUFFICES ASSUME NEW p \in Launched(digest) PROVE p \in Process
  OBVIOUS
<1> HIDE DEF displaced
<1>6. /\ release.rootfs # None
      /\ p = [want |-> digest, bytes |-> release.rootfs, rooted |-> TRUE, displaced |-> displaced]
  BY <1>4, <1>5
<1> QED BY <1>2, <1>3, <1>6 DEF Process

\* A rollback keeps the types.
LEMMA RollbackTyped ==
  ASSUME DeliveryOK, beginRollback
  PROVE  proc' \in Process \cup {None} /\ st' \in Mind
<1>1. st \in Mind
  BY DEF DeliveryOK, Mind
<1>2. CASE st.prev = None
  BY <1>1, <1>2 DEF beginRollback, Mind
<1>3. CASE st.prev # None
  <2>1. st.prev \in Digests
    BY <1>1, <1>3 DEF Mind, Maybe
  <2>2. proc' \in Process \cup {None}
    BY <1>3, <2>1, LaunchedTyped DEF beginRollback
  <2>3. st' = [[st EXCEPT !.bad = TRUE, !.window = "closed"] EXCEPT !.running = st.prev]
    BY <1>3 DEF beginRollback
  <2> QED BY <1>1, <2>2, <2>3 DEF Mind
<1> QED BY <1>2, <1>3

\* A step of a download keeps the types.
LEMMA DownloadTyped ==
  ASSUME AgentInv, NEW i \in Deploys, runDeploy(i)
  PROVE  AgentInv'
<1> USE DEF AgentInv
<1>1. /\ deploy \in [Deploys -> Goroutine] /\ tar \in Maybe
      /\ release \in [rootfs : Maybe, meta : Maybe]
      /\ proc \in Process \cup {None} /\ st \in Mind /\ unpacked \in Maybe
  BY DEF DeliveryOK, Goroutine, Process, Mind
<1>2. UNCHANGED <<vars, assigned, want, begun, crashes>>
  BY DEF runDeploy, Look, Resolve, Fetch, Hash, Unpack, Swap, writeOCIMeta, Start, DownloadRest,
         AgentRest
<1>3. deploy[i].at # "none" => deploy[i].ref \in Ref /\ deploy[i].ref.digest \in Digests
  BY DEF WorksForRef, Ref
<1>4. Unrooted \in Process \cup {None}
  BY <1>1 DEF Unrooted, Process
<1> DEFINE Kept == proc' \in Process \cup {None} /\ st' \in Mind /\ unpacked' \in Maybe
<1>5. /\ deploy' \in [Deploys -> Goroutine] /\ tar' \in Maybe
      /\ release' \in [rootfs : Maybe, meta : Maybe]
      /\ Kept
  <2>1. CASE Look(i)
    <3> DEFINE found == HasVerifiedRelease(deploy[i].ref.digest)
    <3> DEFINE stage == IF found THEN "start" ELSE "resolve"
    <3>1. found \in BOOLEAN /\ stage \in Stages
      BY DEF HasVerifiedRelease, Stages
    <3>2. /\ deploy' = [deploy EXCEPT ![i].already = found, ![i].at = stage]
          /\ UNCHANGED <<tar, release, proc, st, unpacked>>
      BY <2>1 DEF Look, DownloadRest
    <3> HIDE DEF found, stage
    <3> QED BY <1>1, <3>1, <3>2 DEF Goroutine
  <2>2. CASE Resolve(i)
    <3>1. CASE DownloadFails(i, tar, release)
      BY <1>1, <2>2, <3>1, FailTyped DEF Resolve, DownloadRest
    <3>2. CASE ~DownloadFails(i, tar, release)
      BY <1>1, <2>2, <3>2 DEF Resolve, Goroutine, Stages, DownloadRest
    <3> QED BY <3>1, <3>2
  <2>3. CASE Fetch(i)
    <3>1. CASE DownloadFails(i, None, release)
      BY <1>1, <2>3, <3>1, FailTyped DEF Fetch, DownloadRest, Maybe
    <3>2. CASE ~DownloadFails(i, None, release)
      BY <1>1, <2>3, <3>2 DEF Fetch, Goroutine, Stages, Maybe, DownloadRest
    <3> QED BY <3>1, <3>2
  <2>4. CASE Hash(i)
    <3>1. CASE Matches(i)
      BY <1>1, <2>4, <3>1 DEF Hash, Goroutine, Stages, DownloadRest
    <3>2. CASE ~Matches(i)
      BY <1>1, <2>4, <3>2, FailTyped DEF Hash, Maybe, DownloadRest
    <3> QED BY <3>1, <3>2
  <2>5. CASE Unpack(i)
    <3> DEFINE dir == [release EXCEPT !.rootfs = None]
    <3>1. dir \in [rootfs : Maybe, meta : Maybe]
      BY <1>1 DEF Maybe
    <3>2. CASE DownloadFails(i, None, dir) /\ proc' = Unrooted
      BY <1>1, <1>4, <2>5, <3>1, <3>2, FailTyped DEF Maybe, Unpack, DownloadRest
    <3>3. CASE ~(DownloadFails(i, None, dir) /\ proc' = Unrooted)
      BY <1>1, <2>5, <3>3 DEF Unpack, Goroutine, Stages, Maybe, DownloadRest
    <3> QED BY <3>2, <3>3
  <2>6. CASE Swap(i)
    <3> DEFINE g == [[deploy[i] EXCEPT !.at = "mark"] EXCEPT !.got = None]
    <3>1. deploy' \in [Deploys -> Goroutine]
      <4>1. g \in Goroutine
        BY <1>1 DEF Goroutine, Stages, Maybe
      <4>2. deploy' = [deploy EXCEPT ![i] = g]
        BY <1>1, <2>6 DEF Swap
      <4> HIDE DEF g
      <4> QED BY <1>1, <4>1, <4>2
    <3>2. release' \in [rootfs : Maybe, meta : Maybe]
      BY <1>1, <2>6 DEF Swap, Goroutine
    <3>3. Kept
      BY <1>1, <1>3, <1>4, <2>6 DEF Swap, At, Maybe, DownloadRest
    <3> QED BY <2>6, <3>1, <3>2, <3>3 DEF Swap, Maybe
  <2>7. CASE writeOCIMeta(i)
    <3>1. CASE DownloadFails(i, tar, release)
      BY <1>1, <2>7, <3>1, FailTyped DEF writeOCIMeta, DownloadRest
    <3>2. CASE ~DownloadFails(i, tar, release)
      BY <1>1, <1>3, <2>7, <3>2 DEF writeOCIMeta, At, Goroutine, Stages, Maybe, DownloadRest
    <3> QED BY <3>1, <3>2
  <2>8. CASE Start(i)
    <3> DEFINE digest == deploy[i].ref.digest
    <3>1. NoDeploy \in Goroutine
      BY DEF NoDeploy, Goroutine, Stages, Maybe
    <3>2. digest \in Digests /\ UNCHANGED <<tar, release, unpacked>>
      BY <1>3, <2>8 DEF Start, At
    <3>3. CASE beginRollback
      BY <1>1, <2>8, <3>1, <3>2, <3>3, RollbackTyped DEF Start
    <3>4. CASE proc' \in {proc, None} /\ UNCHANGED st
      BY <1>1, <2>8, <3>1, <3>2, <3>4 DEF Start
    <3>5. CASE /\ HasVerifiedRelease(digest)
               /\ proc' = [want |-> digest, bytes |-> release.rootfs, rooted |-> TRUE, displaced |-> FALSE]
               /\ st' = [st EXCEPT !.running = digest, !.window = "deploy"]
      <4>1. proc' \in Process
        BY <1>1, <3>2, <3>5 DEF HasVerifiedRelease, Maybe, Process
      <4>2. st' \in Mind
        BY <1>1, <3>2, <3>5 DEF Mind, Maybe
      <4> QED BY <1>1, <2>8, <3>1, <3>2, <4>1, <4>2 DEF Start
    <3> QED BY <2>8, <3>3, <3>4, <3>5 DEF Start
  <2> QED BY <2>1, <2>2, <2>3, <2>4, <2>5, <2>6, <2>7, <2>8 DEF runDeploy
<1>6. WorksForRef'
  <2>1. CASE \E archive, dir : DownloadFails(i, archive, dir)
    BY <1>1, <2>1 DEF WorksForRef, DownloadFails, NoDeploy
  <2>2. CASE ~\E archive, dir : DownloadFails(i, archive, dir)
    BY <1>1, <2>2 DEF WorksForRef, runDeploy, Look, Resolve, Fetch, Hash, Unpack, Swap,
       writeOCIMeta, Start, At, NoDeploy, Goroutine
  <2> QED BY <2>1, <2>2
<1> QED BY <1>2, <1>5, <1>6 DEF DeliveryOK, TypeOK, vars, store, Goroutine, Process, Mind

\* A step of the main loop about the process keeps the types.
LEMMA ProcessTyped ==
  ASSUME AgentInv, handleExit \/ tick \/ startProcess
  PROVE  AgentInv'
<1> USE DEF AgentInv
<1>1. proc \in Process \cup {None} /\ st \in Mind /\ UNCHANGED <<vars, assigned, want, begun, crashes>>
      /\ UNCHANGED <<deploy, tar, release, unpacked>>
  BY DEF DeliveryOK, Process, Mind, handleExit, tick, startProcess, ProcessRest, AgentRest
<1>2. proc' \in Process \cup {None} /\ st' \in Mind
  <2>1. CASE beginRollback
    BY <2>1, RollbackTyped
  <2>2. CASE handleExit /\ ~beginRollback
    BY <1>1, <2>2 DEF handleExit
  <2>3. CASE tick /\ ~beginRollback
    BY <1>1, <2>3 DEF tick, Mind
  <2>4. CASE startProcess
    <3>1. st.running \in Digests
      <4>1. proc' \in Launched(st.running) /\ st.running = want[1].digest
        BY <2>4 DEF startProcess
      <4>2. want[1] \in Ref
        BY <2>4 DEF startProcess, DeliveryOK
      <4> QED BY <4>1, <4>2 DEF Ref
    <3>2. proc' \in Process
      BY <2>4, <3>1, LaunchedTyped DEF startProcess
    <3> QED BY <1>1, <2>4, <3>2 DEF startProcess, Mind
  <2> QED BY <2>1, <2>2, <2>3, <2>4
<1> QED BY <1>1, <1>2 DEF DeliveryOK, WorksForRef, TypeOK, vars, store, Process, Mind

\* A step of the catalog, which may assign the ref a caller has in hand.
LEMMA CatalogTyped ==
  ASSUME AgentInv, Catalog, TypeOK'
  PROVE  AgentInv'
<1>1. assigned' \in Ref \cup {None}
  BY DEF AgentInv, DeliveryOK, Catalog, requireArtifactReady, TypeOK
<1> QED BY <1>1 DEF AgentInv, DeliveryOK, WorksForRef, Catalog, agentVars

\* The agent takes its assignment up.
LEMMA applyDesiredTyped ==
  ASSUME AgentInv, applyDesired
  PROVE  AgentInv'
<1> USE DEF AgentInv
<1>1. deploy \in [Deploys -> Goroutine] /\ assigned \in Ref \cup {None} /\ begun \in 0..MaxDeploys
  BY DEF DeliveryOK, Goroutine
<1>2. ASSUME NEW digests
      PROVE  /\ Withdrawn(digests) \in [Deploys -> Goroutine]
             /\ \A i \in Deploys : /\ Withdrawn(digests)[i].at = deploy[i].at
                                  /\ Withdrawn(digests)[i].ref = deploy[i].ref
  BY <1>1, WithdrawnTyped DEF Withdrawn, Goroutine
<1> DEFINE MindOK == st' \in Mind
<1>4. st \in Mind
  BY DEF DeliveryOK, Mind
<1>3. /\ deploy' \in [Deploys -> Goroutine] /\ begun' \in 0..MaxDeploys
      /\ proc' = proc \/ proc' = None
      /\ WorksForRef' /\ MindOK
  <2>1. CASE Retire
    BY <1>1, <1>2, <2>1 DEF Retire, WorksForRef, Fresh, Mind, Maybe
  <2>2. CASE assigned # None /\ Stay(assigned)
    BY <1>1, <1>2, <1>4, <2>2 DEF Stay, WorksForRef, Mind
  <2>3. CASE assigned # None /\ BeginDeploy(assigned)
    <3> DEFINE g == [NoDeploy EXCEPT !.at = "look", !.ref = assigned]
    <3>1. g \in Goroutine /\ g.ref \in Ref
      BY <1>1, <2>3 DEF NoDeploy, Goroutine, Stages, Maybe
    <3>2. /\ deploy' = [Withdrawn({}) EXCEPT ![begun + 1] = g]
          /\ begun' = begun + 1 /\ begun < MaxDeploys /\ UNCHANGED proc
      BY <2>3 DEF BeginDeploy
    <3>3. st' \in Mind
      BY <1>4, <2>3 DEF BeginDeploy, Mind
    <3> HIDE DEF g
    <3> QED BY <1>1, <1>2, <3>1, <3>2, <3>3, DeliveryAssumption DEF WorksForRef, Deploys
  <2> QED BY <2>1, <2>2, <2>3 DEF applyDesired
<1> QED BY <1>1, <1>3 DEF applyDesired, DeliveryOK, TypeOK, vars, store, Goroutine, Mind

\* Every step keeps the types.
LEMMA AgentInvStep ==
  ASSUME Inv, AgentInv, [DeliveryNext]_allVars
  PROVE  AgentInv'
<1>1. CASE Catalog
  BY <1>1, CatalogTyped, DeliveryRefines, StepSound DEF Inv
<1>2. CASE Undeploy
  BY <1>2 DEF Undeploy, AgentInv, DeliveryOK, WorksForRef, TypeOK, vars, store, agentVars
<1>3. CASE applyDesired
  BY <1>3, applyDesiredTyped
<1>4. CASE Crash
  <2>1. NoDeploy \in Goroutine /\ NoDeploy.at = "none"
    BY DEF NoDeploy, Goroutine, Stages, Maybe
  <2>2. deploy' \in [Deploys -> Goroutine] /\ WorksForRef' /\ crashes' \in 0..MaxCrashes
    BY <1>4, <2>1, DeliveryAssumption DEF Crash, WorksForRef, AgentInv, DeliveryOK
  <2>3. st' \in Mind
    <3>1. st \in Mind /\ Fresh \in Mind
      BY DEF AgentInv, DeliveryOK, Mind, Fresh, Maybe
    <3> QED BY <1>4, <3>1 DEF Crash, Mind
  <2> QED BY <1>4, <2>2, <2>3 DEF Crash, AgentInv, DeliveryOK, TypeOK, vars, store, Goroutine, Mind
<1>5. ASSUME NEW i \in Deploys, runDeploy(i) PROVE AgentInv'
  BY <1>5, DownloadTyped
<1>6. CASE UNCHANGED allVars
  BY <1>6 DEF allVars, vars, store, agentVars, AgentInv, DeliveryOK, WorksForRef, TypeOK
<1>7. CASE handleExit \/ tick \/ startProcess
  BY <1>7, ProcessTyped
<1> QED BY <1>1, <1>2, <1>3, <1>4, <1>5, <1>6, <1>7 DEF DeliveryNext

\* Nobody is at work at the start.
LEMMA AgentInvInit == DeliveryInit => AgentInv
<1> SUFFICES ASSUME DeliveryInit PROVE AgentInv
  OBVIOUS
<1>1. TypeOK
  BY DeliveryInitSound DEF Inv
<1>2. NoDeploy \in Goroutine /\ NoDeploy.at = "none"
  BY DEF NoDeploy, Goroutine, Stages, Maybe
<1>3. deploy \in [Deploys -> Goroutine] /\ WorksForRef
  BY <1>2 DEF DeliveryInit, WorksForRef
<1>4. /\ assigned \in Ref \cup {None} /\ want = <<>> /\ tar = None
      /\ release \in [rootfs : Maybe, meta : Maybe]
      /\ proc \in Process \cup {None} /\ st \in Mind /\ unpacked \in Maybe
  <2>1. CASE Deployed = None
    <3>1. assigned = None /\ release = Removed /\ proc = None /\ st = Fresh /\ unpacked = None
          /\ want = <<>> /\ tar = None
      BY <2>1 DEF DeliveryInit
    <3> QED BY <3>1 DEF Removed, Maybe, Fresh, Mind
  <2>2. CASE Deployed # None
    <3>1. Deployed \in Digests
      BY <2>2, DeliveryAssumption
    <3>2. /\ assigned = [digest |-> Deployed, uri |-> Deployed]
          /\ release = [rootfs |-> Deployed, meta |-> Deployed]
          /\ proc = [want |-> Deployed, bytes |-> Deployed, rooted |-> TRUE, displaced |-> FALSE]
          /\ st = [running |-> Deployed, prev |-> None, window |-> "closed", bad |-> FALSE]
          /\ want = <<>> /\ tar = None /\ unpacked = Deployed
      BY <2>2 DEF DeliveryInit, ObjectKey
    <3> QED BY <3>1, <3>2 DEF Maybe, Ref, Uris, Keys, Process, Mind
  <2> QED BY <2>1, <2>2
<1>5. begun \in 0..MaxDeploys /\ crashes \in 0..MaxCrashes
  BY DeliveryAssumption DEF DeliveryInit
<1>6. tar \in Maybe /\ want \in {<<>>} \cup {<<ref>> : ref \in Ref \cup {None}}
  BY <1>4 DEF Maybe
<1> QED BY <1>1, <1>3, <1>4, <1>5, <1>6 DEF AgentInv, DeliveryOK, Goroutine, Process, Mind

\* The types of the composition are kept, and a deploy at work always has the
\* ref it is for (DeliveryOK).
THEOREM DeliveryTypeCorrect == DeliverySpec => []DeliveryOK
<1>1. DeliveryInit => Inv /\ AgentInv
  BY DeliveryInitSound, AgentInvInit
<1>2. (Inv /\ AgentInv) /\ [DeliveryNext]_allVars => (Inv /\ AgentInv)'
  BY DeliveryRefines, StepSound, AgentInvStep
<1>3. AgentInv => DeliveryOK
  BY DEF AgentInv
<1> QED BY <1>1, <1>2, <1>3, PTL DEF DeliverySpec

----------------------------------------------------------------------------
(* Calm deploys *)

\* One download at a time has the release directory.
Alone == \A i, j \in Deploys : deploy[i].at # "none" /\ deploy[j].at # "none" => i = j

\* How far a download is tells what the archive and the root hold; the old root
\* is gone, and the process with it unrooted, when the new one has no marker yet.
Stage(i) ==
  /\ deploy[i].at \notin {"none", "start"} => ~deploy[i].already
  /\ deploy[i].at = "unpack" => tar = deploy[i].ref.digest
  /\ deploy[i].at = "swap" => deploy[i].got = deploy[i].ref.digest
  /\ deploy[i].at = "mark" =>
       release.rootfs = deploy[i].ref.digest /\ (proc # None => ~proc.rooted)

\* The marker names the bytes of the root, but between the swap and its writing.
Marked == release.rootfs # None /\ release.meta # None => release.rootfs = release.meta
ReleaseSound == (\A i \in Deploys : deploy[i].at # "mark") => Marked

\* The root is, by its bytes, of the digest whose deploy put it there.
RootSound == release.rootfs # None => release.rootfs = unpacked

CalmInv ==
  /\ Alone /\ ReleaseSound /\ RootSound /\ RunsAsOrdered
  /\ \A i \in Deploys : Stage(i)

\* What is launched from the directory without a look runs as ordered, or had
\* another's root put there for it.
LEMMA LaunchedCalm ==
  ASSUME RootSound, NEW digest, NEW p \in Launched(digest)
  PROVE  ~p.displaced => p.bytes = p.want
<1>1. /\ release.rootfs # None
      /\ p = [want |-> digest, bytes |-> release.rootfs, rooted |-> TRUE,
              displaced |-> unpacked # digest]
  BY DEF Launched
<1>2. p.want = digest /\ p.bytes = release.rootfs /\ p.displaced = (unpacked # digest)
  BY <1>1
<1> QED BY <1>1, <1>2 DEF RootSound

\* So does what is rolled back to.
LEMMA RollbackCalm ==
  ASSUME RootSound, beginRollback
  PROVE  RunsAsOrdered'
<1>1. proc' = None \/ \E digest : proc' \in Launched(digest)
  BY DEF beginRollback
<1> QED BY <1>1, LaunchedCalm DEF RunsAsOrdered

\* A step of the only download keeps what its stage says.
LEMMA DownloadCalm ==
  ASSUME AgentInv, CalmInv, NEW i \in Deploys, runDeploy(i)
  PROVE  CalmInv'
<1>1. deploy \in [Deploys -> Goroutine] /\ release \in [rootfs : Maybe, meta : Maybe]
      /\ proc \in Process \cup {None}
  BY DEF AgentInv, DeliveryOK, Goroutine, Process
<1>2. deploy[i].at # "none" /\ deploy[i].ref \in Ref /\ deploy[i].ref.digest \in Digests
  BY DEF runDeploy, Look, Resolve, Fetch, Hash, Unpack, Swap, writeOCIMeta, Start, At,
         AgentInv, WorksForRef, Ref
<1>3. \A j \in Deploys : j # i => deploy[j].at = "none" /\ deploy'[j] = deploy[j]
  BY <1>1, <1>2 DEF CalmInv, Alone, runDeploy, Look, Resolve, Fetch, Hash, Unpack, Swap,
     writeOCIMeta, Start, DownloadFails
<1>4. Alone' /\ (\A j \in Deploys : j # i => Stage(j)')
  BY <1>3 DEF Alone, Stage
<1>5. ASSUME NEW archive, NEW dir, DownloadFails(i, archive, dir), ~deploy[i].already,
             dir = release \/ dir.rootfs = None,
             deploy[i].at = "mark" => dir = release, UNCHANGED unpacked
      PROVE  Stage(i)' /\ Marked' /\ RootSound'
  <2>1. deploy'[i] = NoDeploy
    BY <1>1, <1>5 DEF DownloadFails
  <2>2. release' = Removed \/ (release' = dir /\ deploy[i].at # "mark") \/ (release' = dir /\ dir.rootfs = None)
    BY <1>5 DEF DownloadFails, CleanedUp, CalmInv, Stage
  <2>3. deploy[i].at # "mark" => Marked
    BY <1>3 DEF CalmInv, ReleaseSound
  <2> QED BY <1>5, <2>1, <2>2, <2>3 DEF Stage, NoDeploy, Marked, Removed, CalmInv, RootSound
<1>6. Stage(i)' /\ (deploy'[i].at # "mark" => Marked') /\ RunsAsOrdered' /\ RootSound'
  <2> USE <1>1, <1>2 DEF CalmInv, Stage, At
  <2>1. Look(i) \/ Resolve(i) \/ Fetch(i) \/ Hash(i) =>
          deploy[i].at # "mark" /\ Marked /\ UNCHANGED <<proc, unpacked>>
    BY <1>3 DEF Look, Resolve, Fetch, Hash, ReleaseSound
  <2>2. CASE Look(i)
    <3>1. CASE HasVerifiedRelease(deploy[i].ref.digest)
      <4>1. deploy'[i].at = "start"
        BY <2>2, <3>1 DEF Look
      <4> QED BY <2>1, <2>2, <4>1 DEF Look, Marked, RunsAsOrdered, RootSound
    <3>2. CASE ~HasVerifiedRelease(deploy[i].ref.digest)
      <4>1. deploy'[i].at = "resolve" /\ ~deploy'[i].already
        BY <2>2, <3>2 DEF Look
      <4> QED BY <2>1, <2>2, <4>1 DEF Look, Marked, RunsAsOrdered, RootSound
    <3> QED BY <3>1, <3>2
  <2>3. CASE Resolve(i)
    <3>1. CASE DownloadFails(i, tar, release)
      BY <1>5, <2>1, <2>3, <3>1 DEF Resolve, RunsAsOrdered
    <3>2. CASE ~DownloadFails(i, tar, release)
      <4>1. deploy'[i].at = "fetch" /\ ~deploy'[i].already
        BY <2>3, <3>2 DEF Resolve, Goroutine
      <4> QED BY <2>1, <2>3, <3>2, <4>1 DEF Resolve, Marked, RunsAsOrdered, RootSound
    <3> QED BY <3>1, <3>2
  <2>4. CASE Fetch(i)
    <3>1. CASE DownloadFails(i, None, release)
      BY <1>5, <2>1, <2>4, <3>1 DEF Fetch, RunsAsOrdered
    <3>2. CASE ~DownloadFails(i, None, release)
      <4>1. deploy'[i].at = "hash" /\ ~deploy'[i].already
        BY <2>4, <3>2 DEF Fetch, Goroutine
      <4> QED BY <2>1, <2>4, <3>2, <4>1 DEF Fetch, Marked, RunsAsOrdered, RootSound
    <3> QED BY <3>1, <3>2
  <2>5. CASE Hash(i)
    <3>1. CASE ~Matches(i)
      BY <1>5, <2>1, <2>5, <3>1 DEF Hash, RunsAsOrdered
    <3>2. CASE Matches(i)
      <4>1. /\ deploy'[i].at = "unpack" /\ ~deploy'[i].already
            /\ deploy'[i].ref = deploy[i].ref
        BY <2>5, <3>2 DEF Hash, Goroutine
      <4> QED BY <2>1, <2>5, <3>2, <4>1 DEF Hash, Matches, Marked, RunsAsOrdered, RootSound
    <3> QED BY <3>1, <3>2
  <2>6. CASE Unpack(i)
    <3> DEFINE dir == [release EXCEPT !.rootfs = None]
    <3>1. RunsAsOrdered'
      <4>1. proc' = proc \/ proc' = Unrooted
        BY <2>6 DEF Unpack
      <4> QED BY <4>1 DEF RunsAsOrdered, Unrooted, Process
    <3>2. CASE DownloadFails(i, None, dir)
      BY <1>5, <2>6, <3>1, <3>2 DEF Unpack
    <3>3. CASE ~DownloadFails(i, None, dir)
      <4>1. /\ deploy'[i].at = "swap" /\ ~deploy'[i].already
            /\ deploy'[i].ref = deploy[i].ref /\ deploy'[i].got = tar
            /\ UNCHANGED <<release, unpacked>>
        BY <2>6, <3>3 DEF Unpack, Goroutine
      <4> QED BY <1>3, <2>6, <3>1, <4>1 DEF Unpack, Marked, ReleaseSound, RootSound
    <3> QED BY <3>2, <3>3
  <2>7. CASE Swap(i)
    <3>1. /\ deploy'[i].at = "mark" /\ ~deploy'[i].already
          /\ deploy'[i].ref = deploy[i].ref
          /\ release'.rootfs = deploy[i].got /\ unpacked' = deploy[i].ref.digest
      BY <2>7 DEF Swap, Goroutine
    <3>2. proc' # None => /\ proc # None /\ ~proc'.rooted /\ proc'.displaced = proc.displaced
                         /\ proc'.bytes = proc.bytes /\ proc'.want = proc.want
      BY <2>7 DEF Swap, Unrooted, Process
    <3> QED BY <2>7, <3>1, <3>2 DEF Swap, RunsAsOrdered, RootSound
  <2>8. CASE writeOCIMeta(i)
    <3>1. CASE DownloadFails(i, tar, release)
      BY <1>5, <2>8, <3>1 DEF writeOCIMeta, RunsAsOrdered
    <3>2. CASE ~DownloadFails(i, tar, release)
      <4>1. deploy'[i].at = "start" /\ release' = [release EXCEPT !.meta = deploy[i].ref.digest]
        BY <2>8, <3>2 DEF writeOCIMeta, Goroutine
      <4> QED BY <2>8, <4>1 DEF writeOCIMeta, Marked, RunsAsOrdered, RootSound
    <3> QED BY <3>1, <3>2
  <2>9. CASE Start(i)
    <3>1. deploy'[i].at = "none" /\ Marked /\ UNCHANGED <<release, unpacked>>
      BY <1>3, <2>9 DEF Start, ReleaseSound, NoDeploy
    <3>2. HasVerifiedRelease(deploy[i].ref.digest) => release.rootfs = deploy[i].ref.digest
      <4>1. None \notin Digests
        BY IngestAssumption
      <4> QED BY <3>1, <4>1 DEF Marked, HasVerifiedRelease
    <3>3. RunsAsOrdered'
      <4>1. CASE beginRollback
        BY <4>1, RollbackCalm
      <4>2. CASE ~beginRollback
        BY <2>9, <3>2, <4>2 DEF Start, RunsAsOrdered
      <4> QED BY <4>1, <4>2
    <3> QED BY <3>1, <3>3 DEF Marked, RootSound
  <2> QED BY <2>2, <2>3, <2>4, <2>5, <2>6, <2>7, <2>8, <2>9 DEF runDeploy
<1>7. ReleaseSound'
  BY <1>6 DEF ReleaseSound
<1> QED BY <1>4, <1>6, <1>7 DEF CalmInv

\* A start that verifies nothing, an exit and a verdict leave the directory alone, and
\* nothing starts between a root and its marker.
LEMMA ProcessCalm ==
  ASSUME Calm, CalmInv, handleExit \/ tick \/ startProcess
  PROVE  CalmInv'
<1>1. UNCHANGED <<deploy, tar, release, unpacked>>
  BY DEF handleExit, tick, startProcess, ProcessRest
<1>2. proc' \in {proc, None} \/ \A i \in Deploys : deploy[i].at # "mark"
  BY DEF handleExit, tick, startProcess, beginRollback, Quiet, At
<1>3. RunsAsOrdered'
  <2>1. CASE beginRollback
    BY <2>1, RollbackCalm DEF CalmInv
  <2>2. CASE startProcess
    BY <2>2, LaunchedCalm DEF startProcess, CalmInv, RunsAsOrdered
  <2>3. CASE ~beginRollback /\ ~startProcess
    BY <2>3 DEF handleExit, tick, CalmInv, RunsAsOrdered
  <2> QED BY <2>1, <2>2, <2>3
<1>4. \A i \in Deploys : Stage(i)'
  BY <1>1, <1>2 DEF CalmInv, Stage
<1> QED BY <1>1, <1>3, <1>4 DEF CalmInv, Alone, ReleaseSound, Marked, RootSound

\* The agent takes its assignment up when the deploy before has ended.
LEMMA applyDesiredCalm ==
  ASSUME Calm, AgentInv, CalmInv, applyDesired
  PROVE  CalmInv'
<1>1. deploy \in [Deploys -> Goroutine] /\ begun \in 0..MaxDeploys /\ UNCHANGED <<tar, release, unpacked>>
  BY DEF AgentInv, DeliveryOK, Goroutine, applyDesired
<1>2. ASSUME NEW digests, NEW i \in Deploys
      PROVE  LET g == Withdrawn(digests)[i]
             IN /\ g.at = deploy[i].at /\ g.ref = deploy[i].ref /\ g.got = deploy[i].got
                /\ g.already => deploy[i].already
  BY <1>1 DEF Withdrawn, Goroutine
<1>3. proc' = proc \/ proc' = None
  BY DEF applyDesired, Retire, Stay, BeginDeploy
<1>4. CASE \E digests : deploy' = Withdrawn(digests)
  BY <1>1, <1>2, <1>3, <1>4 DEF CalmInv, Alone, Stage, ReleaseSound, Marked, RunsAsOrdered, RootSound
<1>5. CASE BeginDeploy(assigned)
  <2> DEFINE g == [NoDeploy EXCEPT !.at = "look", !.ref = assigned]
  <2>1. g.at = "look" /\ ~g.already
    BY DEF NoDeploy
  <2>2. deploy' = [Withdrawn({}) EXCEPT ![begun + 1] = g] /\ begun + 1 \in Deploys
        /\ UNCHANGED proc
    BY <1>1, <1>5, DeliveryAssumption DEF BeginDeploy, Deploys
  <2>3. \A i \in Deploys : deploy[i].at = "none"
    BY <1>5 DEF BeginDeploy, AtWork
  <2> HIDE DEF g
  <2>4. \A i \in Deploys : deploy'[i] = IF i = begun + 1 THEN g ELSE Withdrawn({})[i]
    BY <2>2 DEF Withdrawn
  <2>5. \A i \in Deploys : deploy'[i].at = IF i = begun + 1 THEN "look" ELSE "none"
    BY <1>2, <2>1, <2>3, <2>4
  <2>6. Alone' /\ \A i \in Deploys : Stage(i)'
    BY <2>1, <2>4, <2>5 DEF Alone, Stage
  <2> QED BY <1>1, <2>2, <2>3, <2>6 DEF CalmInv, ReleaseSound, Marked, RunsAsOrdered, RootSound
<1> QED BY <1>4, <1>5 DEF applyDesired, Retire, Stay

\* Every step keeps the calm invariant.
LEMMA CalmStep ==
  ASSUME Calm, AgentInv, CalmInv, [DeliveryNext]_allVars
  PROVE  CalmInv'
<1> USE DEF CalmInv, Alone, Stage, ReleaseSound, Marked, RunsAsOrdered, RootSound
<1>1. CASE Catalog \/ Undeploy \/ UNCHANGED allVars
  BY <1>1 DEF Catalog, Undeploy, allVars, agentVars
<1>2. CASE applyDesired
  BY <1>2, applyDesiredCalm
<1>3. CASE Crash
  <2>1. \A i \in Deploys : deploy[i].at # "mark" /\ deploy'[i] = NoDeploy
    BY <1>3 DEF Crash, At, Quiet
  <2> QED BY <1>3, <2>1 DEF Crash, NoDeploy
<1>4. ASSUME NEW i \in Deploys, runDeploy(i) PROVE CalmInv'
  BY <1>4, DownloadCalm
<1>5. CASE handleExit \/ tick \/ startProcess
  BY <1>5, ProcessCalm
<1> QED BY <1>1, <1>2, <1>3, <1>4, <1>5 DEF DeliveryNext

\* What was deployed at the start runs as it was ordered.
LEMMA CalmInit == DeliveryInit => CalmInv
<1> SUFFICES ASSUME DeliveryInit PROVE CalmInv
  OBVIOUS
<1>1. \A i \in Deploys : deploy[i] = NoDeploy
  BY DEF DeliveryInit
<1>2. /\ release.rootfs = release.meta /\ release.rootfs = unpacked
      /\ proc # None => proc.bytes = proc.want
  BY DEF DeliveryInit, Removed
<1> QED BY <1>1, <1>2 DEF CalmInv, Alone, Stage, ReleaseSound, Marked, RunsAsOrdered, RootSound,
                        NoDeploy

\* With one download of a version at a time, and neither a crash nor a start between
\* a root and its marker, a process executes the bytes its deploy was ordered with,
\* unless it was started again or rolled back to where another digest had been
\* unpacked; for any catalog, number of requests, deploys, failures, exits and
\* crashes (RunsAsOrdered).
THEOREM CalmRunsAsOrdered ==
  ASSUME Calm
  PROVE  DeliverySpec => []RunsAsOrdered
<1>1. DeliveryInit => Inv /\ AgentInv /\ CalmInv
  BY DeliveryInitSound, AgentInvInit, CalmInit
<1>2. (Inv /\ AgentInv /\ CalmInv) /\ [DeliveryNext]_allVars => (Inv /\ AgentInv /\ CalmInv)'
  BY DeliveryRefines, StepSound, AgentInvStep, CalmStep
<1>3. CalmInv => RunsAsOrdered
  BY DEF CalmInv
<1> QED BY <1>1, <1>2, <1>3, PTL DEF DeliverySpec
=============================================================================
