------------------------------- MODULE Lease -------------------------------
(***************************************************************************)
(* The fencing lease of ONE strategy: the control plane's lease store and  *)
(* LeaseService (internal/controlplane/lease, store/lease.go,              *)
(* store/postgres.go) and the SDK inside the strategy processes            *)
(* (sdk/lease).  A process may send orders while CheckBeforeOrder passes;  *)
(* the lease fences machines, so that an order of one machine never        *)
(* overlaps the tenure of another.                                         *)
(*                                                                         *)
(* The store is the Postgres one.  Its transactions lock the strategy's    *)
(* row, if there is one, and read the clock before they do.  The memory    *)
(* store takes the same decisions under a mutex: its behaviours are those  *)
(* in which no reading ages and no first Acquire meets another.            *)
(*                                                                         *)
(* Time is the control plane's clock.  A client's wall clock is off by a   *)
(* bounded skew; its monotonic clock stands still while its machine is     *)
(* suspended, which CheckBeforeOrder sets out to notice and does not.      *)
(* Calls may be served late, and their answers lost or applied late.       *)
(***************************************************************************)
EXTENDS Integers

CONSTANTS
  Clients, Machines,   \* strategy processes, and the machines they run on
  Home,                \* Home[c]: the machine of client c
  None,                \* no lease
  TTL,                 \* TTL[m]: what the processes on m ask for
  MarginCP,            \* --lease-margin-cp
  MarginAgent,         \* Config.MarginAgent
  Threshold,           \* Config.ClockJumpThreshold
  Skew,                \* Skew[c]: c's wall clock minus the control plane's
  MaxSkew,             \* bound on it, either way
  MaxDelay,            \* bound: from CheckBeforeOrder to the exchange
  MaxLag,              \* bound: how long a transaction waits for the row it locks
  MaxLost,             \* bound: how long a machine is suspended between two grants
  MaxFaults,           \* bound: suspensions, calls given up, loops closed, restarts
  MaxTime, MaxGrants   \* bounds of the instance

LeaseInfo == [machine : Machines, id : Nat, exp : Nat]

ASSUME LeaseAssumption ==
  /\ None \notin Machines \cup LeaseInfo
  /\ Home \in [Clients -> Machines]
  /\ TTL \in [Machines -> Nat \ {0}]
  /\ MarginCP \in Nat /\ MarginAgent \in Nat /\ Threshold \in Nat
  /\ Skew \in [Clients -> -MaxSkew..MaxSkew]
  /\ MaxSkew \in Nat /\ MaxDelay \in Nat /\ MaxLag \in Nat /\ MaxLost \in Nat
  /\ MaxFaults \in Nat /\ MaxTime \in Nat /\ MaxGrants \in Nat

\* The rule of DefaultLeaseMarginCP, margin_agent + margin_cp > skew + RTT, with
\* suspensions counted in, for the clock-jump check lets them through, and the age
\* of the store's own clock reading.
ASSUME MarginAssumption ==
  MaxSkew + MaxDelay + MaxLag + MaxLost =< MarginAgent + MarginCP

VARIABLES
  now,      \* the control plane's clock
  lease,    \* the store's lease of the strategy
  grants,   \* lease ids given out
  raced,    \* the latest expiry overwritten by an Acquire that had found no row
  cl,       \* cl[c]: the SDK Client of process c
  acq, ren, \* the Acquire and the Renew call of each client
  stray,    \* requests nobody waits for any more
  asleep,   \* clients whose machine is suspended
  lost,     \* lost[c]: what c's monotonic clock missed since its last grant
  order,    \* order[c]: the last moment the last order c checked may arrive, 0 once it has
  faults    \* budget spent

vars == <<now, lease, grants, raced, cl, acq, ren, stray, asleep, lost, order, faults>>
clockVars == <<now, asleep, lost>>
storeVars == <<lease, grants, raced>>

----------------------------------------------------------------------------
(* The SDK client *)

\* left is what deadlineMono leaves of time.Since(anchor).
NewClient == [id |-> 0, expiresAt |-> 0, left |-> 0, renewing |-> FALSE]

IdleAcquire == [stage |-> "idle", id |-> 0, exp |-> 0]
IdleRenew   == [stage |-> "idle", id |-> 0, machine |-> None, exp |-> 0]

Wall(c) == now + Skew[c]
Awake(c) == c \notin asleep

\* (seeded fault: an answer that comes after the expiry leaves a negative deadline)
Until_Unclamped(c, exp) == exp - Wall(c) - MarginAgent

Until(c, exp) == LET u == exp - Wall(c) - MarginAgent IN IF u < 0 THEN 0 ELSE u

\* (seeded fault: a renewal adds to the deadline in force)
applyGrant_Adds(c, id, exp) ==
  [cl[c] EXCEPT !.id = id, !.expiresAt = exp, !.left = @ + Until(c, exp)]

\* applyGrant, on client c.
applyGrant(c, id, exp) ==
  [cl[c] EXCEPT !.id = id, !.expiresAt = exp, !.left = Until(c, exp)]

Fault == faults < MaxFaults /\ faults' = faults + 1

Acquire(c) ==
  /\ Awake(c) /\ acq[c].stage = "idle"
  /\ acq' = [acq EXCEPT ![c].stage = "sent"]
  /\ UNCHANGED <<storeVars, cl, ren, stray, order, faults, clockVars>>

\* The server may still serve a request whose caller has given up on it.
AbandonedAcquire(c) ==
  IF acq[c].stage \in {"sent", "unlocked"}
  THEN {[client |-> c, id |-> 0, exp |-> acq[c].exp]} ELSE {}
AbandonedRenew(c) ==
  IF ren[c].stage \in {"sent", "read"}
  THEN {[client |-> c, id |-> ren[c].id, exp |-> 0]} ELSE {}

\* A call of the renew loop is given up.
DropRenew(c) ==
  /\ ren' = [ren EXCEPT ![c] = IdleRenew]
  /\ stray' = stray \cup AbandonedRenew(c)

\* Cancelling the loop gives up the call it is in; a grant that has come in may
\* still be applied.
CancelRenew(c) ==
  \/ DropRenew(c)
  \/ ren[c].stage = "granted" /\ UNCHANGED <<ren, stray>>

\* Acquire is granted (a denial changes nothing of the client); StartRenewLoop
\* cancels the old loop, if any.
AcquireReturns(c) ==
  /\ Awake(c) /\ acq[c].stage = "granted"
  /\ acq' = [acq EXCEPT ![c] = IdleAcquire]
  /\ cl' = [cl EXCEPT ![c] = [applyGrant(c, acq[c].id, acq[c].exp) EXCEPT !.renewing = TRUE]]
  /\ lost' = [lost EXCEPT ![c] = 0]
  /\ CancelRenew(c)
  /\ UNCHANGED <<storeVars, now, asleep, order, faults>>

\* renewOnce, from the loop's ticker.
renewOnce(c) ==
  /\ Awake(c) /\ cl[c].renewing /\ ren[c].stage = "idle"
  /\ ren' = [ren EXCEPT ![c] = [IdleRenew EXCEPT !.stage = "sent", !.id = cl[c].id]]
  /\ UNCHANGED <<storeVars, cl, acq, stray, order, faults, clockVars>>

\* renewOnce's answer; the loop ends at the first one that is not a grant.
RenewReturns(c) ==
  /\ Awake(c) /\ ren[c].stage \in {"granted", "denied"}
  /\ ren' = [ren EXCEPT ![c] = IdleRenew]
  /\ \/ /\ ren[c].stage = "granted"
        /\ cl' = [cl EXCEPT ![c] = applyGrant(c, ren[c].id, ren[c].exp)]
        /\ lost' = [lost EXCEPT ![c] = 0]
     \/ /\ ren[c].stage = "denied"
        /\ cl' = [cl EXCEPT ![c].renewing = FALSE]
        /\ UNCHANGED lost
  /\ UNCHANGED <<storeVars, now, asleep, acq, stray, order, faults>>

\* The transport gives up on a call, before or after it was served; the renew
\* loop ends with it.
CallFails(c) ==
  /\ Awake(c)
  /\ \/ /\ acq[c].stage # "idle"
        /\ acq' = [acq EXCEPT ![c] = IdleAcquire]
        /\ stray' = stray \cup AbandonedAcquire(c)
        /\ UNCHANGED <<cl, ren>>
     \/ /\ ren[c].stage # "idle" /\ DropRenew(c)
        /\ cl' = [cl EXCEPT ![c].renewing = FALSE]
        /\ UNCHANGED acq
  /\ Fault /\ UNCHANGED <<storeVars, order, clockVars>>

\* Close: the process goes on, and its lease runs out.
Close(c) ==
  /\ Awake(c) /\ cl[c].renewing
  /\ CancelRenew(c)
  /\ cl' = [cl EXCEPT ![c].renewing = FALSE]
  /\ Fault /\ UNCHANGED <<storeVars, acq, order, clockVars>>

\* dWall - dMono since the last check.  nowWall and lastWall are both what time.Now
\* returned, monotonic readings included, and these are what Time.Sub subtracts: a
\* suspension is in neither, and the two never differ.
Delta(c) == 0

ClockJumped(c) == Delta(c) > Threshold

MayOrder(c) == Awake(c) /\ cl[c].id # 0 /\ cl[c].left > 0 /\ ~ClockJumped(c)

CheckBeforeOrder(c) ==
  /\ MayOrder(c)
  /\ order' = [order EXCEPT ![c] = now + MaxDelay]
  /\ UNCHANGED <<storeVars, cl, acq, ren, stray, faults, clockVars>>

\* The process dies; its successor on the same machine starts from nothing.
Restart(c) ==
  /\ Awake(c) /\ cl[c] # NewClient
  /\ cl' = [cl EXCEPT ![c] = NewClient]
  /\ acq' = [acq EXCEPT ![c] = IdleAcquire]
  /\ ren' = [ren EXCEPT ![c] = IdleRenew]
  /\ lost' = [lost EXCEPT ![c] = 0]
  /\ stray' = stray \cup AbandonedAcquire(c) \cup AbandonedRenew(c)
  /\ Fault /\ UNCHANGED <<storeVars, now, asleep, order>>

----------------------------------------------------------------------------
(* LeaseService and the lease store *)

\* What p.now() returned at the start of a transaction that holds the row by now.
ClockReadings == {now - lag : lag \in 0..MaxLag} \cap Nat

\* (seeded fault: the lease is free the moment it expires)
leaseFreeFor_NoMargin(m, at) == lease.machine = m \/ at > lease.exp

\* A machine may take over the lease in the row.
leaseFreeFor(m, at) == lease.machine = m \/ at > lease.exp + MarginCP

Granted(m, exp) ==
  /\ grants < MaxGrants /\ grants' = grants + 1
  /\ lease' = [machine |-> m, id |-> grants + 1, exp |-> exp]

\* Under the lock of its row a free lease is handed over under a new id, also to
\* the machine that holds it.
HandOver(m) ==
  \E at \in ClockReadings : leaseFreeFor(m, at) /\ Granted(m, at + TTL[m]) /\ UNCHANGED raced

AcquireLease(c) ==
  /\ acq[c].stage = "sent" /\ lease # None
  /\ \/ /\ HandOver(Home[c])
        /\ acq' = [acq EXCEPT ![c] = [stage |-> "granted", id |-> lease'.id, exp |-> lease'.exp]]
     \/ /\ \E at \in ClockReadings : ~leaseFreeFor(Home[c], at)
        /\ acq' = [acq EXCEPT ![c] = IdleAcquire]
        /\ UNCHANGED storeVars
  /\ UNCHANGED <<cl, ren, stray, order, faults, clockVars>>

\* Before the first grant there is no row to lock: the Acquire goes on unlocked ...
FindNoRow(c) ==
  /\ acq[c].stage = "sent" /\ lease = None
  /\ acq' = [acq EXCEPT ![c].stage = "unlocked", ![c].exp = now + TTL[Home[c]]]
  /\ UNCHANGED <<storeVars, cl, ren, stray, order, faults, clockVars>>

\* ... and writes over what may be there by then (ON CONFLICT DO UPDATE).
Upsert(m, exp) ==
  /\ Granted(m, exp)
  /\ raced' = IF lease # None /\ lease.exp > raced THEN lease.exp ELSE raced

InsertLease(c) ==
  /\ acq[c].stage = "unlocked"
  /\ Upsert(Home[c], acq[c].exp)
  /\ acq' = [acq EXCEPT ![c] = [stage |-> "granted", id |-> lease'.id, exp |-> lease'.exp]]
  /\ UNCHANGED <<cl, ren, stray, order, faults, clockVars>>

\* LeaseService.Renew first reads whose the lease is (GetLease) ...
GetLease(c) ==
  /\ ren[c].stage = "sent"
  /\ ren' = IF lease = None \/ lease.machine # Home[c]   \* authorizeMachine
            THEN [ren EXCEPT ![c].stage = "denied"]
            ELSE [ren EXCEPT ![c].stage = "read", ![c].machine = lease.machine]
  /\ UNCHANGED <<storeVars, cl, acq, stray, order, faults, clockVars>>

Holds(m, id) == lease # None /\ lease.machine = m /\ lease.id = id

\* ... then renews it in a second transaction, which looks again.
Extend(at) ==
  /\ at < lease.exp
  /\ lease' = [lease EXCEPT !.exp = at + TTL[lease.machine]]
  /\ UNCHANGED <<grants, raced>>

RenewLease(c) ==
  /\ ren[c].stage = "read"
  /\ \E at \in ClockReadings :
       IF Holds(ren[c].machine, ren[c].id) /\ at < lease.exp
       THEN Extend(at) /\ ren' = [ren EXCEPT ![c].stage = "granted", ![c].exp = lease'.exp]
       ELSE UNCHANGED storeVars /\ ren' = [ren EXCEPT ![c].stage = "denied"]
  /\ UNCHANGED <<cl, acq, stray, order, faults, clockVars>>

\* A request whose caller has gone is served all the same, or denied.
ServeStray ==
  /\ \E r \in stray :
       \/ /\ r.id = 0 /\ r.exp = 0 /\ lease = None
          /\ stray' = (stray \ {r}) \cup {[r EXCEPT !.exp = now + TTL[Home[r.client]]]}
          /\ UNCHANGED storeVars
       \/ /\ stray' = stray \ {r}
          /\ \/ r.id = 0 /\ r.exp # 0 /\ Upsert(Home[r.client], r.exp)
             \/ r.id = 0 /\ r.exp = 0 /\ lease # None /\ HandOver(Home[r.client])
             \/ /\ Holds(Home[r.client], r.id)
                /\ \E at \in ClockReadings : Extend(at)
             \/ UNCHANGED storeVars
  /\ UNCHANGED <<cl, acq, ren, order, faults, clockVars>>

----------------------------------------------------------------------------
(* Clocks *)

\* A second passes; the monotonic clock of a suspended machine misses it.
OneSecond(c) ==
  IF Awake(c) /\ cl[c].left > 0 THEN [cl[c] EXCEPT !.left = @ - 1] ELSE cl[c]

Tick ==
  /\ now < MaxTime /\ now' = now + 1
  /\ \A c \in asleep : lost[c] < MaxLost
  /\ lost' = [c \in Clients |-> IF Awake(c) THEN lost[c] ELSE lost[c] + 1]
  /\ cl' = [c \in Clients |-> OneSecond(c)]
  /\ order' = [c \in Clients |-> IF order[c] =< now THEN 0 ELSE order[c]]
  /\ UNCHANGED <<storeVars, acq, ren, stray, asleep, faults>>

Sleep(c) ==
  /\ Awake(c) /\ lost[c] < MaxLost
  /\ asleep' = asleep \cup {c}
  /\ Fault /\ UNCHANGED <<storeVars, now, cl, acq, ren, stray, lost, order>>

Wake(c) ==
  /\ c \in asleep /\ asleep' = asleep \ {c}
  /\ UNCHANGED <<storeVars, now, cl, acq, ren, stray, lost, order, faults>>

----------------------------------------------------------------------------

Init ==
  /\ now = 1 /\ lease = None /\ grants = 0 /\ raced = 0
  /\ cl = [c \in Clients |-> NewClient]
  /\ acq = [c \in Clients |-> IdleAcquire]
  /\ ren = [c \in Clients |-> IdleRenew]
  /\ stray = {} /\ asleep = {}
  /\ lost = [c \in Clients |-> 0]
  /\ order = [c \in Clients |-> 0]
  /\ faults = 0

Next ==
  \/ \E c \in Clients :
       \/ Acquire(c) \/ FindNoRow(c) \/ InsertLease(c) \/ AcquireLease(c) \/ AcquireReturns(c)
       \/ renewOnce(c) \/ GetLease(c) \/ RenewLease(c) \/ RenewReturns(c)
       \/ CallFails(c) \/ Close(c) \/ CheckBeforeOrder(c) \/ Restart(c)
       \/ Sleep(c) \/ Wake(c)
  \/ ServeStray \/ Tick

Spec == Init /\ [][Next]_vars

----------------------------------------------------------------------------
(* Types *)

Client ==
  [id : Nat, expiresAt : Nat, left : Nat, renewing : BOOLEAN]

AcquireCall ==
  [stage : {"idle", "sent", "unlocked", "granted"}, id : Nat, exp : Nat]
RenewCall ==
  [stage : {"idle", "sent", "read", "granted", "denied"}, id : Nat,
   machine : Machines \cup {None}, exp : Nat]

TypeOK ==
  /\ now \in Nat /\ lease \in LeaseInfo \cup {None} /\ grants \in Nat /\ raced \in Nat
  /\ cl \in [Clients -> Client]
  /\ acq \in [Clients -> AcquireCall]
  /\ ren \in [Clients -> RenewCall]
  /\ stray \subseteq [client : Clients, id : Nat, exp : Nat]
  /\ asleep \subseteq Clients
  /\ lost \in [Clients -> 0..MaxLost]
  /\ order \in [Clients -> Nat] /\ faults \in Nat

----------------------------------------------------------------------------
(* Safety *)

\* While an order of a machine may still reach the exchange, the lease is that
\* machine's: no other machine was granted it.  What margin_agent, margin_cp
\* and the local deadline are there for (leaseFreeFor, CheckBeforeOrder).  The
\* exception is the strategy's first grant, when two Acquires that both found no
\* row are both granted: the one overwritten counts until its expiry and margin_cp.
Fenced ==
  \A c \in Clients : order[c] # 0 =>
    \/ lease # None /\ lease.machine = Home[c]
    \/ raced # 0 /\ order[c] =< raced + MarginCP

\* A client may order only before the expiry it was last granted, by its margin,
\* but for its clock's error and what its machine slept: late answers, renewals,
\* lost calls and cancelled loops never stretch its deadline (applyGrant).
NoOrderPastExpiry ==
  \A c \in Clients : MayOrder(c) =>
    now + MarginAgent < cl[c].expiresAt + MaxSkew + MaxLost
=============================================================================
