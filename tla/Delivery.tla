------------------------------ MODULE Delivery ------------------------------
(***************************************************************************)
(* How an image gets from the catalog to a process: Ingest, the deploy of  *)
(* a ref to one machine, and that machine's agent, which has the ref       *)
(* resolved (grpcstream/resolve.go, artifact/resolver.go), fetches the     *)
(* archive, unpacks it into the version's release directory                *)
(* (artifact/artifact.go, oci_image.go) and starts it.                     *)
(*                                                                         *)
(* The ref names the digest, but is resolved by name and version: by what  *)
(* the catalog holds under them at that moment.  And a version registered  *)
(* again with another digest has the same release directory, from which    *)
(* the main loop starts a process again, or rolls back, without a look at  *)
(* what the directory holds by then.                                       *)
(*                                                                         *)
(* Agent models the deploy around Download and the phases of a process,    *)
(* for releases that are told apart by their digest.                       *)
(***************************************************************************)
EXTENDS Ingest

CONSTANTS
  Deployed,     \* the digest that was ingested, deployed and started before, if any
  MaxDeploys,   \* bound: deploys the agent begins
  MaxCrashes,   \* bound: crashes of the agent
  Calm          \* a deploy is asked for when those before it have ended; and while a
                \* release has its root but not its marker, the agent does not crash,
                \* nor start a process from it

ASSUME DeliveryAssumption ==
  /\ Deployed \in Digests \cup {None}
  /\ MaxDeploys \in Nat /\ MaxCrashes \in Nat /\ Calm \in BOOLEAN

Deploys == 1..MaxDeploys
Maybe   == Digests \cup {None}
Stages  == {"none", "look", "resolve", "fetch", "hash", "unpack", "swap", "mark", "start"}

VARIABLES
  assigned,   \* the ref in the machine's assignment
  want,       \* the agent's snapshot: the ref it assigns, in a sequence empty before the first
  deploy,     \* runDeploy goroutines: [at, ref, from, got, cancelled, already]
  tar,        \* image.tar of the release: a whole archive, if it is one
  release,    \* its rootfs, and the digest its marker oci.json names
  proc,       \* the process: the digest it was started for, the bytes it executes,
              \* whether its root is (still) the release's, and whether another's
              \* root had been put there for it (displaced)
  st,         \* what the agent takes to be running, and to be the one before; whether a
              \* health window is open, of a deploy in flight or bare; a version known bad
  unpacked,   \* history: the digest whose deploy put the root there last
  begun, crashes

agentVars == <<want, deploy, tar, release, proc, st, unpacked, begun, crashes>>
allVars == <<vars, assigned, agentVars>>

NoDeploy == [at |-> "none", ref |-> None, from |-> None, got |-> None, cancelled |-> FALSE, already |-> FALSE]
Removed  == [rootfs |-> None, meta |-> None]
Fresh    == [running |-> None, prev |-> None, window |-> "closed", bad |-> FALSE]

DeliveryOK ==
  /\ TypeOK
  /\ assigned \in Ref \cup {None} /\ want \in {<<>>} \cup {<<ref>> : ref \in Ref \cup {None}}
  /\ deploy \in [Deploys -> [at : Stages, ref : Ref \cup {None}, from : Uris \cup {None},
                             got : Maybe, cancelled : BOOLEAN, already : BOOLEAN]]
  /\ tar \in Maybe /\ release \in [rootfs : Maybe, meta : Maybe]
  /\ proc \in [want : Digests, bytes : Digests, rooted : BOOLEAN, displaced : BOOLEAN] \cup {None}
  /\ st \in [running : Maybe, prev : Maybe, window : {"closed", "deploy", "bare"}, bad : BOOLEAN]
  /\ unpacked \in Maybe
  /\ begun \in 0..MaxDeploys /\ crashes \in 0..MaxCrashes

DeliveryInit ==
  /\ IF Deployed = None
     THEN Init /\ assigned = None /\ release = Removed /\ proc = None /\ st = Fresh
     ELSE LET ref == [digest |-> Deployed, uri |-> ObjectKey(Deployed)]
          IN /\ row = [ref |-> ref, state |-> "READY"]
             /\ objects = [k \in Keys |-> IF k = ObjectKey(Deployed) THEN Deployed ELSE None]
             /\ uploads = {} /\ outright = {}
             /\ workers = [w \in Workers |-> Idle] /\ calls = [c \in Callers |-> None]
             /\ taken = {ref} /\ requests = 0 /\ restarts = 0
             /\ assigned = ref /\ release = [rootfs |-> Deployed, meta |-> Deployed]
             /\ proc = [want |-> Deployed, bytes |-> Deployed, rooted |-> TRUE, displaced |-> FALSE]
             /\ st = [running |-> Deployed, prev |-> None, window |-> "closed", bad |-> FALSE]
  /\ unpacked = Deployed
  /\ want = <<>> /\ deploy = [i \in Deploys |-> NoDeploy] /\ tar = None
  /\ begun = 0 /\ crashes = 0

----------------------------------------------------------------------------
(* The control plane *)

\* A step of the catalog; a deploy that finds its row READY assigns the ref.
Catalog ==
  /\ \/ Others /\ UNCHANGED assigned
     \/ \E c \in Callers : requireArtifactReady(c)
          /\ assigned' = IF row.state = "READY" THEN calls[c].ref ELSE assigned
  /\ UNCHANGED agentVars

Undeploy ==
  /\ assigned # None /\ assigned' = None
  /\ UNCHANGED <<vars, agentVars>>

\* ResolveArtifactSource: a presigned url of the object that the row names now,
\* for a machine whose desired state refers to the version.
ResolveArtifactSource(key) ==
  /\ assigned # None
  /\ row # None /\ row.ref.uri \in Keys /\ key = row.ref.uri

----------------------------------------------------------------------------
(* The agent takes a snapshot up *)

AtWork == {i \in Deploys : deploy[i].at # "none"}

\* The context of a deploy of another digest is cancelled.
Withdrawn(digests) ==
  [i \in Deploys |-> IF i \in AtWork /\ deploy[i].ref.digest \notin digests
                     THEN [deploy[i] EXCEPT !.cancelled = TRUE] ELSE deploy[i]]

\* versionMatches, or a deploy of the digest is in flight.
InPlace(ref) ==
  \/ st.running = ref.digest
  \/ \E i \in AtWork : ~deploy[i].cancelled /\ deploy[i].ref.digest = ref.digest

BeginDeploy(ref) ==
  /\ ~InPlace(ref) /\ ~st.bad /\ begun < MaxDeploys
  /\ Calm => AtWork = {}
  /\ begun' = begun + 1
  /\ deploy' = [Withdrawn({}) EXCEPT ![begun + 1] = [NoDeploy EXCEPT !.at = "look", !.ref = ref]]
  /\ st' = [st EXCEPT !.prev = st.running, !.window = "closed"]
  /\ UNCHANGED proc

\* What was there is drained, and forgotten.
Retire ==
  /\ deploy' = Withdrawn({}) /\ proc' = None /\ st' = Fresh
  /\ UNCHANGED begun

\* Nothing to do, or a version known bad: the digest does not matter.
Stay(ref) ==
  /\ InPlace(ref) \/ st.bad
  /\ deploy' = Withdrawn({ref.digest})
  /\ st' = IF st.window = "deploy" /\ st.running # ref.digest THEN [st EXCEPT !.window = "bare"] ELSE st
  /\ UNCHANGED <<proc, begun>>

applyDesired ==
  /\ want' = <<assigned>>
  /\ IF assigned = None THEN Retire ELSE BeginDeploy(assigned) \/ Stay(assigned)
  /\ UNCHANGED <<vars, assigned, tar, release, unpacked, crashes>>

----------------------------------------------------------------------------
(* Download *)

At(i, stage) == i \in Deploys /\ deploy[i].at = stage
AgentRest    == UNCHANGED <<vars, assigned, want, begun, crashes>>
DownloadRest == AgentRest /\ UNCHANGED st

\* HasVerifiedRelease reads the marker, and that there is a rootfs.
HasVerifiedRelease(digest) == release.meta = digest /\ release.rootfs # None

\* The directory goes with a failed download, unless it was verified before or is
\* some process's root.
CleanedUp(i, dir) ==
  IF deploy[i].already \/ (proc # None /\ proc.rooted /\ dir.rootfs # None) THEN dir ELSE Removed

\* Download ends with an error and leaves the archive and the directory so.
DownloadFails(i, archive, dir) ==
  /\ deploy' = [deploy EXCEPT ![i] = NoDeploy]
  /\ release' = CleanedUp(i, dir)
  /\ tar' = IF release' = Removed THEN None ELSE archive

Unrooted == IF proc = None THEN proc ELSE [proc EXCEPT !.rooted = FALSE]

Look(i) ==
  /\ At(i, "look")
  /\ LET found == HasVerifiedRelease(deploy[i].ref.digest)
     IN deploy' = [deploy EXCEPT ![i].already = found, ![i].at = IF found THEN "start" ELSE "resolve"]
  /\ UNCHANGED <<tar, release, proc, unpacked>> /\ DownloadRest

\* CPResolver: other refs than those into the object store are fetched as they are.
Resolve(i) ==
  /\ At(i, "resolve")
  /\ \/ \E from \in Uris :
          /\ IF deploy[i].ref.uri \in Keys
             THEN ResolveArtifactSource(from) /\ ~deploy[i].cancelled
             ELSE from = deploy[i].ref.uri
          /\ deploy' = [deploy EXCEPT ![i].at = "fetch", ![i].from = from]
          /\ UNCHANGED <<tar, release>>
     \/ DownloadFails(i, tar, release)
  /\ UNCHANGED <<proc, unpacked>> /\ DownloadRest

\* A public source may deliver anything, and a local one heeds no context.
Delivers(i, bytes) ==
  deploy[i].from \in Keys => bytes = objects[deploy[i].from] /\ ~deploy[i].cancelled

Fetch(i) ==
  /\ At(i, "fetch")
  /\ \/ /\ tar' \in Digests /\ Delivers(i, tar')
        /\ deploy' = [deploy EXCEPT ![i].at = "hash", ![i].from = None]
        /\ UNCHANGED release
     \/ DownloadFails(i, None, release)
  /\ UNCHANGED <<proc, unpacked>> /\ DownloadRest

\* Seeded fault: the archive is not hashed.
Matches_Always(i) == tar # None

Matches(i) == tar = deploy[i].ref.digest

Hash(i) ==
  /\ At(i, "hash")
  /\ IF Matches(i)
     THEN deploy' = [deploy EXCEPT ![i].at = "unpack"] /\ UNCHANGED <<tar, release>>
     ELSE DownloadFails(i, None, release)
  /\ UNCHANGED <<proc, unpacked>> /\ DownloadRest

\* unpackOCIImage, as far as rootfs.tmp; when it fails, what was at rootfs goes too.
Unpack(i) ==
  /\ At(i, "unpack")
  /\ \/ /\ tar \in Digests /\ ~deploy[i].cancelled
        /\ deploy' = [deploy EXCEPT ![i].at = "swap", ![i].got = tar]
        /\ UNCHANGED <<tar, release, proc>>
     \/ /\ DownloadFails(i, None, [release EXCEPT !.rootfs = None])
        /\ proc' = Unrooted
  /\ UNCHANGED unpacked /\ DownloadRest

\* The rest of it: the old root is removed, and the new one renamed into its place.
Swap(i) ==
  /\ At(i, "swap")
  /\ deploy' = [deploy EXCEPT ![i].at = "mark", ![i].got = None]
  /\ release' = [release EXCEPT !.rootfs = deploy[i].got]
  /\ unpacked' = deploy[i].ref.digest
  /\ tar' = None /\ proc' = Unrooted
  /\ DownloadRest

writeOCIMeta(i) ==
  /\ At(i, "mark")
  /\ \/ /\ release' = [release EXCEPT !.meta = deploy[i].ref.digest]
        /\ deploy' = [deploy EXCEPT ![i].at = "start"]
        /\ UNCHANGED tar
     \/ DownloadFails(i, tar, release)
  /\ UNCHANGED <<proc, unpacked>> /\ DownloadRest

----------------------------------------------------------------------------
(* Processes start and end *)

\* What comes to run, when it starts, from a release directory that nobody looks at:
\* buildOCIStartSpec wants a marker and a root.
Launched(digest) ==
  IF release.meta = None \/ release.rootfs = None THEN {}
  ELSE {[want |-> digest, bytes |-> release.rootfs, rooted |-> TRUE, displaced |-> unpacked # digest]}

Quiet == Calm => \A i \in Deploys : ~At(i, "mark")

\* Back to the digest before, in the directory that it shares with the one that
\* failed.  The start may fail; without one before, there is none.
beginRollback ==
  /\ want \notin {<<>>, <<None>>} /\ Quiet
  /\ LET back == [st EXCEPT !.bad = TRUE, !.window = "closed"]
     IN IF st.prev = None THEN st' = back /\ proc' = None
        ELSE st' = [back EXCEPT !.running = st.prev] /\ proc' \in {None} \cup Launched(st.prev)

\* Verify, the drain of the old process, SwitchTo and Start: the end before the
\* drain or after it, a process, or none, which is rolled back.
Start(i) ==
  /\ At(i, "start")
  /\ deploy' = [deploy EXCEPT ![i] = NoDeploy]
  /\ \/ proc' \in {proc, None} /\ UNCHANGED st
     \/ /\ HasVerifiedRelease(deploy[i].ref.digest) /\ ~deploy[i].cancelled
        /\ \/ LET digest == deploy[i].ref.digest
              IN /\ proc' = [want |-> digest, bytes |-> release.rootfs, rooted |-> TRUE, displaced |-> FALSE]
                 /\ st' = [st EXCEPT !.running = digest, !.window = "deploy"]
           \/ beginRollback
  /\ UNCHANGED <<tar, release, unpacked>> /\ AgentRest

ProcessRest == UNCHANGED <<deploy, tar, release, unpacked>> /\ AgentRest

\* A process ends, or is ended; in a health window it may be the crash too many.
handleExit ==
  /\ proc # None
  /\ \/ proc' = None /\ UNCHANGED st
     \/ st.window # "closed" /\ beginRollback
  /\ ProcessRest

\* The health window of a live process closes: it is healthy, or failed, or rolled
\* back while its deploy is in flight.
tick ==
  /\ proc # None /\ st.window # "closed"
  /\ \/ st' = [st EXCEPT !.window = "closed"] /\ UNCHANGED proc
     \/ st.window = "deploy" /\ beginRollback
  /\ ProcessRest

\* What is wanted and matches is started again, after an exit or a stop: a window
\* that its deploy holds stays open, and a resume opens one.
startProcess ==
  /\ proc = None /\ want \notin {<<>>, <<None>>} /\ Quiet
  /\ st.running = want[1].digest
  /\ \A i \in AtWork : deploy[i].cancelled
  /\ proc' \in Launched(st.running)
  /\ \E window \in {"bare", IF st.window = "deploy" THEN "deploy" ELSE "closed"} :
       st' = [st EXCEPT !.window = window]
  /\ ProcessRest

runDeploy(i) ==
  \/ Look(i) \/ Resolve(i) \/ Fetch(i) \/ Hash(i) \/ Unpack(i) \/ Swap(i)
  \/ writeOCIMeta(i) \/ Start(i)

\* The agent dies.  Its files stay; so does the process, with what is in the
\* supervision file of it, unless it ends meanwhile or is drained before the first
\* snapshot.
Crash ==
  /\ crashes < MaxCrashes /\ crashes' = crashes + 1 /\ Quiet
  /\ deploy' = [i \in Deploys |-> NoDeploy] /\ want' = <<>>
  /\ proc' \in {proc, None}
  /\ st' = IF proc' = None THEN Fresh
           ELSE [st EXCEPT !.window = IF st.window = "closed" THEN "closed" ELSE "bare"]
  /\ UNCHANGED <<vars, assigned, tar, release, unpacked, begun>>

----------------------------------------------------------------------------
DeliveryNext ==
  \/ Catalog \/ Undeploy \/ applyDesired \/ handleExit \/ tick \/ startProcess \/ Crash
  \/ \E i \in Deploys : runDeploy(i)

DeliverySpec == DeliveryInit /\ [][DeliveryNext]_allVars

\* A worker comes to an end, whatever the agent does.
FairDelivery ==
  DeliverySpec /\ \A w \in Workers : WF_allVars(Run(w) /\ UNCHANGED <<assigned, agentVars>>)

----------------------------------------------------------------------------
(* Properties *)

\* A process executes the bytes its deploy was ordered with, whatever was
\* registered or uploaded under the same version between the order, the resolution
\* of the ref and the download, wherever a download failed or the agent died, and
\* however often it was started again (HasVerifiedRelease "is true when the on-disk
\* release matches ref.digest").  Except for a process that the main loop started,
\* or rolled back to, after a deploy of another digest under the same version had
\* put its root in the directory: those starts verify nothing.
RunsAsOrdered == proc # None /\ ~proc.displaced => proc.bytes = proc.want
=============================================================================
