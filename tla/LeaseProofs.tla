---------------------------- MODULE LeaseProofs ----------------------------
(* The fencing guarantee of Lease for every number of clients and machines, *)
(* all TTLs, margins, skews and delays that satisfy MarginAssumption.       *)
EXTENDS Lease, TLAPS

----------------------------------------------------------------------------
(* Strengthening *)

\* The lease is not further away than what its holder may ask for, nor is what an
\* unlocked Acquire is about to write.
LeaseFresh == lease # None => 0 < lease.exp /\ lease.exp =< now + TTL[lease.machine]

UnlockedFresh ==
  /\ \A c \in Clients :
       /\ acq[c].stage # "granted" => acq[c].exp =< now + TTL[Home[c]]
       /\ acq[c].stage = "unlocked" => acq[c].exp # 0
  /\ \A r \in stray : r.id = 0 => r.exp =< now + TTL[Home[r.client]]

\* An expiry granted to c is covered by the lease but for the age of a clock
\* reading, or past by margin_cp, or was overwritten in the race for the first row.
Covered(c, e) ==
  /\ e =< now + TTL[Home[c]]
  /\ \/ lease # None /\ lease.machine = Home[c] /\ e =< lease.exp + MaxLag
     \/ e + MarginCP < now + MaxLag
     \/ raced # 0 /\ e =< raced + MaxLag

GrantsCovered ==
  \A c \in Clients :
    /\ acq[c].stage = "granted" => Covered(c, acq[c].exp)
    /\ ren[c].stage = "granted" => Covered(c, ren[c].exp)
    /\ cl[c].id # 0 => Covered(c, cl[c].expiresAt)

\* What a Renew read in its first transaction is the caller's own lease.
ReadIsOwn == \A c \in Clients : ren[c].stage = "read" => ren[c].machine = Home[c]

\* How late c's local deadline is against its margin and its clock: no more than
\* its monotonic clock missed.
Late(c) == now + cl[c].left + Skew[c] + MarginAgent - cl[c].expiresAt

DeadlineKept ==
  \A c \in Clients : cl[c].id # 0 /\ cl[c].left # 0 => Late(c) =< lost[c]

\* An order on its way arrives before anyone else may be granted the lease.
OrdersCovered ==
  \A c \in Clients : order[c] # 0 =>
    /\ now =< order[c] /\ order[c] + MaxLag =< now + TTL[Home[c]] + MarginCP
    /\ \/ lease # None /\ lease.machine = Home[c] /\ order[c] =< lease.exp + MarginCP
       \/ raced # 0 /\ order[c] =< raced + MarginCP

Inv ==
  /\ TypeOK /\ LeaseFresh /\ UnlockedFresh /\ GrantsCovered /\ ReadIsOwn
  /\ DeadlineKept /\ OrdersCovered

----------------------------------------------------------------------------
(* Facts about the constants and the record of one client *)

\* What the assumptions say of each constant.
LEMMA Constants ==
  /\ MarginCP \in Nat /\ MarginAgent \in Nat /\ Threshold \in Nat
  /\ MaxSkew \in Nat /\ MaxDelay \in Nat /\ MaxLag \in Nat /\ MaxLost \in Nat
  /\ MaxSkew + MaxDelay + MaxLag + MaxLost =< MarginAgent + MarginCP
  /\ \A c \in Clients : /\ Home[c] \in Machines
                        /\ Skew[c] \in Int /\ Skew[c] =< MaxSkew /\ -MaxSkew =< Skew[c]
  /\ \A m \in Machines : TTL[m] \in Nat /\ TTL[m] > 0
BY LeaseAssumption, MarginAssumption

\* A client that may order is before its expiry, but for its clocks.
LEMMA MayOrderIsEarly ==
  ASSUME Inv, NEW c \in Clients, MayOrder(c)
  PROVE  now + MarginAgent < cl[c].expiresAt + MaxSkew + MaxLost
<1>1. cl[c] \in Client /\ now \in Nat /\ lost[c] \in 0..MaxLost
  BY DEF Inv, TypeOK
<1>2. /\ cl[c].left \in Nat /\ cl[c].expiresAt \in Nat
      /\ cl[c].left > 0 /\ cl[c].id # 0
  BY <1>1 DEF Client, MayOrder
<1>3. Late(c) =< lost[c]
  BY <1>2 DEF Inv, DeadlineKept
<1> QED BY <1>1, <1>2, <1>3, Constants DEF Late

----------------------------------------------------------------------------
(* The store *)

\* The lease stays, is handed over under its margin, written unlocked, or extended.
LeaseMoves ==
  \/ UNCHANGED <<lease, raced>>
  \/ \E m \in Machines : lease # None /\ HandOver(m)
  \/ \E m \in Machines, e \in Nat \ {0} : e =< now + TTL[m] /\ Upsert(m, e)
  \/ lease # None /\ \E at \in ClockReadings : Extend(at)

\* A clock reading is a time of the last MaxLag seconds.
LEMMA Readings ==
  ASSUME now \in Nat, NEW at \in ClockReadings
  PROVE  at \in Nat /\ at =< now /\ now =< at + MaxLag
BY Constants DEF ClockReadings

\* A row written to its own machine's advantage, or after its holder's time,
\* uncovers nothing.
LEMMA LockedWriteKeeps ==
  ASSUME Inv, UNCHANGED <<now, order, raced>>, lease # None,
         NEW m \in Machines, NEW at \in ClockReadings,
         lease.machine = m \/ at > lease.exp + MarginCP,
         lease' # None, lease'.machine = m, lease'.exp = at + TTL[m]
  PROVE  /\ LeaseFresh' /\ OrdersCovered'
         /\ \A c \in Clients, e \in Nat : Covered(c, e) => Covered(c, e)'
<1>1. /\ now \in Nat /\ order \in [Clients -> Nat] /\ raced \in Nat
      /\ lease.exp \in Nat /\ lease.machine \in Machines
  BY DEF Inv, TypeOK, LeaseInfo
<1>2. at \in Nat /\ at =< now /\ now =< at + MaxLag /\ TTL[m] \in Nat /\ TTL[m] > 0
  BY <1>1, Readings, Constants
<1>3. LeaseFresh'
  BY <1>1, <1>2 DEF LeaseFresh
<1>4. OrdersCovered'
  <2>1. SUFFICES ASSUME NEW c \in Clients, order[c] # 0
                 PROVE  \/ m = Home[c] /\ order[c] =< at + TTL[m] + MarginCP
                        \/ raced # 0 /\ order[c] =< raced + MarginCP
    BY DEF Inv, OrdersCovered
  <2>2. /\ now =< order[c] /\ order[c] + MaxLag =< now + TTL[Home[c]] + MarginCP
        /\ \/ lease.machine = Home[c] /\ order[c] =< lease.exp + MarginCP
           \/ raced # 0 /\ order[c] =< raced + MarginCP
    BY <2>1 DEF Inv, OrdersCovered
  <2>3. order[c] \in Nat /\ TTL[Home[c]] \in Nat
    BY <1>1, Constants
  <2>4. CASE m = Home[c]
    BY <1>1, <1>2, <2>2, <2>3, <2>4, Constants
  <2>5. CASE m # Home[c] /\ lease.machine = Home[c] /\ order[c] =< lease.exp + MarginCP
    BY <1>1, <1>2, <2>2, <2>3, <2>5, Constants
  <2> QED BY <2>2, <2>4, <2>5
<1>5. ASSUME NEW c \in Clients, NEW e \in Nat, Covered(c, e)
      PROVE  Covered(c, e)'
  <2>1. e =< now + TTL[Home[c]] /\ TTL[Home[c]] \in Nat
    BY <1>5, Constants DEF Covered
  <2>2. CASE m = Home[c]
    BY <1>1, <1>2, <2>1, <2>2, Constants DEF Covered
  <2>3. CASE lease.machine = Home[c] /\ e =< lease.exp + MaxLag /\ m # Home[c]
    <3>1. e + MarginCP < now + MaxLag
      BY <1>1, <1>2, <2>3, Constants
    <3> QED BY <2>1, <3>1 DEF Covered
  <2>4. CASE \/ e + MarginCP < now + MaxLag
             \/ raced # 0 /\ e =< raced + MaxLag
    BY <2>1, <2>4 DEF Covered
  <2> QED BY <1>5, <2>2, <2>3, <2>4 DEF Covered
<1> QED BY <1>3, <1>4, <1>5

\* A row written unlocked is remembered with what it overwrites.
LEMMA UpsertKeeps ==
  ASSUME Inv, UNCHANGED <<now, order>>, NEW m \in Machines, NEW x \in Nat \ {0},
         x =< now + TTL[m], Upsert(m, x)
  PROVE  /\ lease' \in LeaseInfo /\ lease' # None /\ lease'.machine = m /\ lease'.exp = x
         /\ raced' \in Nat /\ LeaseFresh' /\ OrdersCovered'
         /\ \A c \in Clients, e \in Nat : Covered(c, e) => Covered(c, e)'
<1>1. /\ now \in Nat /\ order \in [Clients -> Nat] /\ raced \in Nat /\ grants \in Nat
      /\ lease # None => lease.exp \in Nat /\ lease.exp > 0
      /\ None \notin LeaseInfo
  BY LeaseAssumption DEF Inv, TypeOK, LeaseInfo, LeaseFresh
<1>2. /\ lease' \in LeaseInfo /\ lease'.machine = m /\ lease'.exp = x
  BY <1>1 DEF Upsert, Granted, LeaseInfo
<1>3. /\ raced' \in Nat /\ raced =< raced' /\ (raced # 0 => raced' # 0)
      /\ lease # None => lease.exp =< raced' /\ raced' # 0
  BY <1>1 DEF Upsert
<1>4. lease' # None /\ LeaseFresh'
  BY <1>1, <1>2 DEF LeaseFresh
<1>5. OrdersCovered'
  <2>1. SUFFICES ASSUME NEW c \in Clients, order[c] # 0
                 PROVE  raced' # 0 /\ order[c] =< raced' + MarginCP
    BY DEF Inv, OrdersCovered
  <2>2. \/ lease # None /\ order[c] =< lease.exp + MarginCP
        \/ raced # 0 /\ order[c] =< raced + MarginCP
    BY <2>1 DEF Inv, OrdersCovered
  <2> QED BY <1>1, <1>3, <2>2, Constants
<1>6. ASSUME NEW c \in Clients, NEW e \in Nat, Covered(c, e)
      PROVE  Covered(c, e)'
  BY <1>1, <1>3, <1>6, Constants DEF Covered
<1> QED BY <1>2, <1>3, <1>4, <1>5, <1>6

\* No move of the lease uncovers an expiry or an order.
LEMMA LeaseMovesKeeps ==
  ASSUME Inv, LeaseMoves, UNCHANGED <<now, order>>
  PROVE  /\ lease' \in LeaseInfo \cup {None} /\ raced' \in Nat
         /\ LeaseFresh' /\ OrdersCovered'
         /\ \A c \in Clients, e \in Nat : Covered(c, e) => Covered(c, e)'
<1>1. /\ now \in Nat /\ grants \in Nat /\ raced \in Nat /\ lease \in LeaseInfo \cup {None}
      /\ lease # None => lease \in LeaseInfo /\ lease.exp \in Nat /\ lease.machine \in Machines
      /\ None \notin LeaseInfo
  BY LeaseAssumption DEF Inv, TypeOK, LeaseInfo
<1>2. CASE UNCHANGED <<lease, raced>>
  BY <1>1, <1>2 DEF Inv, LeaseFresh, OrdersCovered, Covered
<1>3. ASSUME NEW m \in Machines, lease # None, HandOver(m)
      PROVE  /\ lease' \in LeaseInfo /\ raced' = raced /\ LeaseFresh' /\ OrdersCovered'
             /\ \A c \in Clients, e \in Nat : Covered(c, e) => Covered(c, e)'
  <2>1. PICK at \in ClockReadings :
          leaseFreeFor(m, at) /\ Granted(m, at + TTL[m]) /\ UNCHANGED raced
    BY <1>3 DEF HandOver
  <2>2. at \in Nat /\ TTL[m] \in Nat
    BY <1>1, Readings, Constants
  <2>3. /\ lease' \in LeaseInfo /\ lease'.machine = m /\ lease'.exp = at + TTL[m]
    BY <1>1, <2>1, <2>2 DEF Granted, LeaseInfo
  <2> QED BY <1>1, <1>3, <2>1, <2>3, LockedWriteKeeps DEF leaseFreeFor
<1>4. ASSUME NEW m \in Machines, NEW e \in Nat \ {0}, e =< now + TTL[m], Upsert(m, e)
      PROVE  /\ lease' \in LeaseInfo /\ raced' \in Nat /\ LeaseFresh' /\ OrdersCovered'
             /\ \A c \in Clients, d \in Nat : Covered(c, d) => Covered(c, d)'
  BY <1>4, UpsertKeeps
<1>5. ASSUME lease # None, NEW at \in ClockReadings, Extend(at)
      PROVE  /\ lease' \in LeaseInfo /\ raced' = raced /\ LeaseFresh' /\ OrdersCovered'
             /\ \A c \in Clients, e \in Nat : Covered(c, e) => Covered(c, e)'
  <2>1. at \in Nat /\ TTL[lease.machine] \in Nat
    BY <1>1, <1>5, Readings, Constants
  <2>2. /\ lease' \in LeaseInfo /\ lease'.machine = lease.machine
        /\ lease'.exp = at + TTL[lease.machine] /\ raced' = raced
    BY <1>1, <1>5, <2>1 DEF Extend, LeaseInfo
  <2> QED BY <1>1, <1>5, <2>2, LockedWriteKeeps
<1> QED BY <1>1, <1>2, <1>3, <1>4, <1>5 DEF LeaseMoves

----------------------------------------------------------------------------
(* Steps of the server: clients' records and clocks stay *)

\* A server step that leaves the clients keeps the invariant if what it answers
\* is covered.
LEMMA ServerStep ==
  ASSUME Inv, LeaseMoves, UNCHANGED <<cl, order, clockVars>>,
         grants' \in Nat, stray' \subseteq [client : Clients, id : Nat, exp : Nat], faults' \in Nat,
         acq' \in [Clients -> AcquireCall], ren' \in [Clients -> RenewCall], UnlockedFresh',
         \A c \in Clients :
           /\ acq'[c].stage = "granted" =>
                \/ Covered(c, acq[c].exp)'
                \/ acq'[c].exp = acq[c].exp /\ acq[c].stage = "granted"
           /\ ren'[c].stage = "granted" =>
                \/ Covered(c, ren[c].exp)'
                \/ ren'[c].exp = ren[c].exp /\ ren[c].stage = "granted"
           /\ ren'[c].stage = "read" => ren'[c].machine = Home[c]
  PROVE  Inv'
<1>1. /\ lease' \in LeaseInfo \cup {None} /\ raced' \in Nat /\ LeaseFresh' /\ OrdersCovered'
      /\ \A c \in Clients, e \in Nat : Covered(c, e) => Covered(c, e)'
  BY LeaseMovesKeeps DEF clockVars
<1>2. TypeOK'
  BY <1>1 DEF clockVars, Inv, TypeOK
<1>3. GrantsCovered'
  <2>1. SUFFICES ASSUME NEW c \in Clients
                 PROVE  /\ acq'[c].stage = "granted" => Covered(c, acq[c].exp)'
                        /\ ren'[c].stage = "granted" => Covered(c, ren[c].exp)'
                        /\ cl'[c].id # 0 => Covered(c, cl[c].expiresAt)'
    BY DEF GrantsCovered, Covered
  <2>2. acq[c].exp \in Nat /\ ren[c].exp \in Nat /\ cl[c].expiresAt \in Nat
    BY DEF Inv, TypeOK, AcquireCall, RenewCall, Client
  <2> QED BY <1>1, <2>2 DEF Inv, GrantsCovered
<1>4. DeadlineKept'
  BY DEF Inv, DeadlineKept, Late, Awake, clockVars
<1>5. ReadIsOwn'
  BY DEF ReadIsOwn
<1> QED BY <1>1, <1>2, <1>3, <1>4, <1>5 DEF Inv

\* What the records of the calls keep for the writes to come.
LEMMA UnlockedKept ==
  ASSUME Inv, UNCHANGED now,
         \A d \in Clients :
           \/ acq'[d] = acq[d]
           \/ acq'[d].stage \in {"idle", "sent"} /\ acq'[d].exp = 0
           \/ acq'[d].stage = "sent" /\ acq'[d].exp = acq[d].exp /\ acq[d].stage = "idle"
           \/ acq'[d].stage = "unlocked" /\ acq'[d].exp = now + TTL[Home[d]]
           \/ acq'[d].stage = "granted",
         \A r \in stray' :
           \/ r \in stray
           \/ r.client \in Clients /\ (r.exp = 0 \/ r.exp = now + TTL[Home[r.client]])
           \/ \E c \in Clients : r \in AbandonedAcquire(c)
  PROVE  UnlockedFresh'
<1>1. /\ now \in Nat /\ acq \in [Clients -> AcquireCall]
      /\ \A c \in Clients : TTL[Home[c]] \in Nat /\ TTL[Home[c]] > 0
  BY Constants DEF Inv, TypeOK
<1>2. \A c \in Clients :
        /\ acq'[c].stage # "granted" => acq'[c].exp =< now + TTL[Home[c]]
        /\ acq'[c].stage = "unlocked" => acq'[c].exp # 0
  BY <1>1 DEF Inv, UnlockedFresh
<1>3. ASSUME NEW r \in stray', r.id = 0
      PROVE  r.exp =< now + TTL[Home[r.client]]
  <2>1. CASE r \in stray
    BY <1>3, <2>1 DEF Inv, UnlockedFresh
  <2>2. CASE r.client \in Clients /\ (r.exp = 0 \/ r.exp = now + TTL[Home[r.client]])
    BY <1>1, <2>2
  <2>3. ASSUME NEW c \in Clients, r \in AbandonedAcquire(c)
        PROVE  r.exp =< now + TTL[Home[r.client]]
    BY <2>3 DEF AbandonedAcquire, Inv, UnlockedFresh
  <2> QED BY <1>3, <2>1, <2>2, <2>3
<1> QED BY <1>2, <1>3 DEF UnlockedFresh

\* A grant answers with what the row says.
LEMMA GrantAnswered ==
  ASSUME Inv, NEW c \in Clients, LeaseMoves,
         UNCHANGED <<cl, ren, stray, order, faults, clockVars>>,
         grants' = grants + 1, lease' \in LeaseInfo, lease'.machine = Home[c],
         acq' = [acq EXCEPT ![c] = [stage |-> "granted", id |-> lease'.id, exp |-> lease'.exp]]
  PROVE  Inv'
<1>1. /\ UNCHANGED now /\ ren' \in [Clients -> RenewCall] /\ grants' \in Nat /\ faults' \in Nat
      /\ stray' \subseteq [client : Clients, id : Nat, exp : Nat]
      /\ acq \in [Clients -> AcquireCall]
      /\ \A d \in Clients : ren[d].stage = "read" => ren[d].machine = Home[d]
  BY DEF Inv, TypeOK, ReadIsOwn, clockVars
<1>2. /\ lease' # None /\ lease'.id \in Nat /\ lease'.exp \in Nat
  BY LeaseAssumption DEF LeaseInfo
<1>3. acq' \in [Clients -> AcquireCall]
  BY <1>1, <1>2 DEF AcquireCall
<1>4. Covered(c, lease.exp)'
  <2>1. LeaseFresh' /\ UNCHANGED <<now, order>>
    BY LeaseMovesKeeps DEF clockVars
  <2> QED BY <1>2, <2>1, Constants DEF Covered, LeaseFresh
<1>5. \A d \in Clients : acq'[d].stage = "granted" =>
        \/ Covered(d, acq[d].exp)'
        \/ acq'[d].exp = acq[d].exp /\ acq[d].stage = "granted"
  BY <1>1, <1>2, <1>4 DEF Covered
<1>6. UnlockedFresh'
  BY <1>1, UnlockedKept
<1> QED BY <1>1, <1>3, <1>5, <1>6, ServerStep

\* An Acquire served under the row's lock.
LEMMA AcquireLeaseStep ==
  ASSUME Inv, NEW c \in Clients, AcquireLease(c)
  PROVE  Inv'
<1>1. /\ UNCHANGED <<cl, ren, stray, order, faults, clockVars>> /\ UNCHANGED now
      /\ ren' \in [Clients -> RenewCall] /\ stray' \subseteq [client : Clients, id : Nat, exp : Nat]
      /\ faults' \in Nat /\ acq \in [Clients -> AcquireCall] /\ grants \in Nat
      /\ Home[c] \in Machines /\ lease # None
      /\ \A d \in Clients : ren[d].stage = "read" => ren[d].machine = Home[d]
  BY Constants DEF AcquireLease, Inv, TypeOK, ReadIsOwn, clockVars
<1>2. CASE /\ HandOver(Home[c])
           /\ acq' = [acq EXCEPT ![c] = [stage |-> "granted", id |-> lease'.id, exp |-> lease'.exp]]
  <2>1. LeaseMoves
    BY <1>1, <1>2 DEF LeaseMoves
  <2>2. PICK at \in ClockReadings : Granted(Home[c], at + TTL[Home[c]])
    BY <1>2 DEF HandOver
  <2>3. at \in Nat /\ TTL[Home[c]] \in Nat
    BY Readings, Constants DEF Inv, TypeOK
  <2>4. lease' \in LeaseInfo /\ lease'.machine = Home[c] /\ grants' = grants + 1
    BY <1>1, <2>2, <2>3 DEF Granted, LeaseInfo
  <2> QED BY <1>1, <1>2, <2>1, <2>4, GrantAnswered
<1>3. CASE acq' = [acq EXCEPT ![c] = IdleAcquire] /\ UNCHANGED storeVars
  <2>1. /\ acq' \in [Clients -> AcquireCall]
        /\ \A d \in Clients : \/ acq'[d] = acq[d]
                              \/ acq'[d].stage = "idle" /\ acq'[d].exp = 0
    BY <1>1, <1>3 DEF AcquireCall, IdleAcquire
  <2>2. UnlockedFresh'
    BY <1>1, <2>1, UnlockedKept
  <2>3. \A d \in Clients : acq'[d].stage = "granted" =>
          acq'[d].exp = acq[d].exp /\ acq[d].stage = "granted"
    BY <2>1
  <2>4. LeaseMoves /\ grants' \in Nat
    BY <1>1, <1>3 DEF LeaseMoves, storeVars
  <2> QED BY <1>1, <2>1, <2>2, <2>3, <2>4, ServerStep
<1> QED BY <1>2, <1>3 DEF AcquireLease

\* An Acquire that finds no row goes on with the expiry it will write.
LEMMA FindNoRowStep ==
  ASSUME Inv, NEW c \in Clients, FindNoRow(c)
  PROVE  Inv'
<1>1. /\ UNCHANGED <<storeVars, cl, ren, stray, order, faults, clockVars>> /\ UNCHANGED now
      /\ ren' \in [Clients -> RenewCall] /\ stray' \subseteq [client : Clients, id : Nat, exp : Nat]
      /\ faults' \in Nat /\ acq \in [Clients -> AcquireCall] /\ grants' \in Nat
      /\ now + TTL[Home[c]] \in Nat
      /\ acq' = [acq EXCEPT ![c].stage = "unlocked", ![c].exp = now + TTL[Home[c]]]
      /\ \A d \in Clients : ren[d].stage = "read" => ren[d].machine = Home[d]
  BY Constants DEF FindNoRow, Inv, TypeOK, ReadIsOwn, clockVars, storeVars
<1>2. /\ acq' \in [Clients -> AcquireCall]
      /\ \A d \in Clients :
           \/ acq'[d] = acq[d]
           \/ acq'[d].stage = "unlocked" /\ acq'[d].exp = now + TTL[Home[d]]
  BY <1>1 DEF AcquireCall
<1>3. UnlockedFresh'
  BY <1>1, <1>2, UnlockedKept
<1>4. LeaseMoves
  BY <1>1 DEF LeaseMoves, storeVars
<1> QED BY <1>1, <1>2, <1>3, <1>4, ServerStep

\* The unlocked write grants what it was sent for.
LEMMA InsertLeaseStep ==
  ASSUME Inv, NEW c \in Clients, InsertLease(c)
  PROVE  Inv'
<1>1. /\ UNCHANGED <<cl, ren, stray, order, faults, clockVars>>
      /\ Upsert(Home[c], acq[c].exp) /\ Home[c] \in Machines /\ UNCHANGED <<now, order>>
      /\ acq' = [acq EXCEPT ![c] = [stage |-> "granted", id |-> lease'.id, exp |-> lease'.exp]]
      /\ acq[c] \in AcquireCall /\ acq \in [Clients -> AcquireCall]
  BY Constants DEF InsertLease, clockVars, Inv, TypeOK
<1>2. acq[c].exp \in Nat \ {0} /\ acq[c].exp =< now + TTL[Home[c]]
  BY <1>1 DEF InsertLease, Inv, UnlockedFresh, AcquireCall
<1>3. LeaseMoves
  BY <1>1, <1>2 DEF LeaseMoves
<1>4. /\ lease' \in LeaseInfo /\ lease'.machine = Home[c] /\ lease'.exp = acq[c].exp
  BY <1>1, <1>2, UpsertKeeps
<1>5. grants' = grants + 1
  BY <1>1 DEF Upsert, Granted
<1> QED BY <1>1, <1>3, <1>4, <1>5, GrantAnswered

\* Renew's first transaction reads the caller's own lease or denies.
LEMMA GetLeaseStep ==
  ASSUME Inv, NEW c \in Clients, GetLease(c)
  PROVE  Inv'
<1>1. /\ UNCHANGED <<storeVars, cl, acq, stray, order, faults, clockVars>> /\ UNCHANGED now
      /\ acq' \in [Clients -> AcquireCall] /\ stray' \subseteq [client : Clients, id : Nat, exp : Nat]
      /\ faults' \in Nat /\ ren \in [Clients -> RenewCall] /\ grants' \in Nat
      /\ \A d \in Clients : ren[d].stage = "read" => ren[d].machine = Home[d]
  BY DEF GetLease, Inv, TypeOK, ReadIsOwn, storeVars, clockVars
<1>2. lease # None => lease.machine \in Machines
  BY DEF Inv, TypeOK, LeaseInfo
<1>3. \/ ren' = [ren EXCEPT ![c].stage = "denied"]
      \/ /\ lease # None /\ lease.machine = Home[c]
         /\ ren' = [ren EXCEPT ![c].stage = "read", ![c].machine = lease.machine]
  BY DEF GetLease
<1>4. /\ ren' \in [Clients -> RenewCall]
      /\ \A d \in Clients : ren'[d].stage = "granted" =>
           ren'[d].exp = ren[d].exp /\ ren[d].stage = "granted"
      /\ \A d \in Clients : ren'[d].stage = "read" => ren'[d].machine = Home[d]
  BY <1>1, <1>2, <1>3 DEF RenewCall
<1>5. UnlockedFresh'
  BY <1>1, UnlockedKept
<1> QED BY <1>1, <1>4, <1>5, ServerStep DEF LeaseMoves, storeVars

\* Renew's second transaction extends only the lease it was asked for.
LEMMA RenewLeaseStep ==
  ASSUME Inv, NEW c \in Clients, RenewLease(c)
  PROVE  Inv'
<1>1. /\ UNCHANGED <<cl, acq, stray, order, faults, clockVars>> /\ UNCHANGED <<now, order>>
      /\ acq' \in [Clients -> AcquireCall] /\ stray' \subseteq [client : Clients, id : Nat, exp : Nat]
      /\ faults' \in Nat /\ ren \in [Clients -> RenewCall] /\ grants \in Nat
      /\ \A d \in Clients : ren[d].stage = "read" => ren[d].machine = Home[d]
      /\ ren[c].stage = "read"
  BY DEF RenewLease, Inv, TypeOK, ReadIsOwn, clockVars
<1>2. UnlockedFresh'
  BY <1>1, UnlockedKept
<1>3. PICK at \in ClockReadings :
        IF Holds(ren[c].machine, ren[c].id) /\ at < lease.exp
        THEN Extend(at) /\ ren' = [ren EXCEPT ![c].stage = "granted", ![c].exp = lease'.exp]
        ELSE UNCHANGED storeVars /\ ren' = [ren EXCEPT ![c].stage = "denied"]
  BY DEF RenewLease
<1>4. CASE /\ Holds(ren[c].machine, ren[c].id) /\ Extend(at)
           /\ ren' = [ren EXCEPT ![c].stage = "granted", ![c].exp = lease'.exp]
  <2>1. lease # None /\ lease.machine = Home[c] /\ lease \in LeaseInfo
    BY <1>1, <1>4 DEF Holds, Inv, TypeOK
  <2>2. LeaseMoves /\ grants' \in Nat
    BY <1>1, <1>4, <2>1 DEF LeaseMoves, Extend
  <2>3. at + TTL[lease.machine] \in Nat
    BY <2>1, Readings, Constants DEF Inv, TypeOK, LeaseInfo
  <2>4. lease' \in LeaseInfo /\ lease' # None /\ lease'.machine = Home[c] /\ lease'.exp \in Nat
    BY <1>4, <2>1, <2>3, LeaseAssumption DEF Extend, LeaseInfo
  <2>5. ren' \in [Clients -> RenewCall]
    BY <1>1, <1>4, <2>4 DEF RenewCall
  <2>6. Covered(c, lease.exp)'
    <3>1. LeaseFresh'
      BY <1>1, <2>2, LeaseMovesKeeps
    <3> QED BY <2>4, <3>1, Constants DEF Covered, LeaseFresh
  <2>7. \A d \in Clients : ren'[d].stage = "granted" =>
          \/ Covered(d, ren[d].exp)'
          \/ ren'[d].exp = ren[d].exp /\ ren[d].stage = "granted"
    BY <1>1, <1>4, <2>6 DEF Covered
  <2>8. \A d \in Clients : ren'[d].stage = "read" => ren'[d].machine = Home[d]
    BY <1>1, <1>4
  <2> QED BY <1>1, <1>2, <2>2, <2>5, <2>7, <2>8, ServerStep
<1>5. CASE UNCHANGED storeVars /\ ren' = [ren EXCEPT ![c].stage = "denied"]
  <2>1. /\ ren' \in [Clients -> RenewCall]
        /\ \A d \in Clients : ren'[d].stage = "granted" =>
             ren'[d].exp = ren[d].exp /\ ren[d].stage = "granted"
        /\ \A d \in Clients : ren'[d].stage = "read" => ren'[d].machine = Home[d]
    BY <1>1, <1>5 DEF RenewCall
  <2>2. LeaseMoves /\ grants' \in Nat
    BY <1>1, <1>5 DEF LeaseMoves, storeVars
  <2> QED BY <1>1, <1>2, <2>1, <2>2, ServerStep
<1> QED BY <1>3, <1>4, <1>5

\* A request nobody waits for moves the lease like any other.
LEMMA ServeStrayStep ==
  ASSUME Inv, ServeStray
  PROVE  Inv'
<1>1. /\ UNCHANGED <<cl, acq, ren, order, faults, clockVars>> /\ UNCHANGED now
      /\ acq' \in [Clients -> AcquireCall] /\ ren' \in [Clients -> RenewCall]
      /\ faults' \in Nat /\ grants \in Nat /\ now \in Nat
      /\ stray \subseteq [client : Clients, id : Nat, exp : Nat]
      /\ \A d \in Clients : ren[d].stage = "read" => ren[d].machine = Home[d]
  BY DEF ServeStray, Inv, TypeOK, ReadIsOwn, clockVars
<1>2. PICK r \in stray :
        \/ /\ stray' = (stray \ {r}) \cup {[r EXCEPT !.exp = now + TTL[Home[r.client]]]}
           /\ UNCHANGED storeVars
        \/ /\ stray' = stray \ {r}
           /\ \/ r.id = 0 /\ r.exp # 0 /\ Upsert(Home[r.client], r.exp)
              \/ lease # None /\ HandOver(Home[r.client])
              \/ lease # None /\ \E at \in ClockReadings : Extend(at)
              \/ UNCHANGED storeVars
  BY DEF ServeStray, Holds
<1>3. r.client \in Clients /\ r.exp \in Nat /\ Home[r.client] \in Machines
      /\ r \in [client : Clients, id : Nat, exp : Nat]
  BY <1>1, Constants
<1>4. /\ stray' \subseteq [client : Clients, id : Nat, exp : Nat]
      /\ \A q \in stray' : \/ q \in stray
                           \/ q.client \in Clients /\ q.exp = now + TTL[Home[q.client]]
  <2>1. now + TTL[Home[r.client]] \in Nat
    BY <1>1, <1>3, Constants
  <2> DEFINE s == [r EXCEPT !.exp = now + TTL[Home[r.client]]]
  <2>2. /\ s \in [client : Clients, id : Nat, exp : Nat]
        /\ s.client \in Clients /\ s.exp = now + TTL[Home[s.client]]
    BY <1>3, <2>1
  <2>3. stray' \subseteq stray \cup {s}
    BY <1>2
  <2> HIDE DEF s
  <2> QED BY <1>1, <2>2, <2>3
<1>5. UnlockedFresh'
  BY <1>1, <1>4, UnlockedKept
<1>6. LeaseMoves /\ grants' \in Nat
  <2>1. CASE r.id = 0 /\ r.exp # 0 /\ Upsert(Home[r.client], r.exp)
    <3>1. r.exp \in Nat \ {0} /\ r.exp =< now + TTL[Home[r.client]]
      BY <1>3, <2>1 DEF Inv, UnlockedFresh
    <3> QED BY <1>1, <1>3, <2>1, <3>1 DEF LeaseMoves, Upsert, Granted
  <2>2. CASE lease # None /\ HandOver(Home[r.client])
    BY <1>1, <1>3, <2>2 DEF LeaseMoves, HandOver, Granted
  <2>3. CASE lease # None /\ \E at \in ClockReadings : Extend(at)
    BY <1>1, <2>3 DEF LeaseMoves, Extend
  <2>4. CASE UNCHANGED storeVars
    BY <1>1, <2>4 DEF LeaseMoves, storeVars
  <2> QED BY <1>2, <2>1, <2>2, <2>3, <2>4
<1> QED BY <1>1, <1>4, <1>5, <1>6, ServerStep

----------------------------------------------------------------------------
(* Steps of the clients: the lease and the clock stay *)

\* What a step may do to the deadline of client d: leave it, take a covered
\* grant, or start over.
DeadlineMoves(d) ==
  \/ /\ cl'[d].id = cl[d].id /\ cl'[d].expiresAt = cl[d].expiresAt
     /\ cl'[d].left = cl[d].left /\ lost'[d] = lost[d]
  \/ /\ lost'[d] = 0
     /\ Covered(d, cl'[d].expiresAt) /\ cl'[d].left = Until(d, cl'[d].expiresAt)
  \/ cl'[d].id = 0

\* A fresh deadline is not late.
LEMMA UntilIsKept ==
  ASSUME Inv, NEW c \in Clients, NEW e \in Nat
  PROVE  /\ Until(c, e) \in Nat
         /\ Until(c, e) # 0 => now + Until(c, e) + Skew[c] + MarginAgent - e = 0
BY Constants DEF Until, Wall, Inv, TypeOK

\* A client step that moves deadlines so keeps the invariant if no answer is
\* made up.
LEMMA ClientStep ==
  ASSUME Inv, UNCHANGED <<storeVars, now, asleep, order>>, UnlockedFresh',
         cl' \in [Clients -> Client], lost' \in [Clients -> 0..MaxLost],
         acq' \in [Clients -> AcquireCall], ren' \in [Clients -> RenewCall],
         stray' \subseteq [client : Clients, id : Nat, exp : Nat], faults' \in Nat,
         \A d \in Clients :
           /\ acq'[d].stage = "granted" => acq'[d] = acq[d]
           /\ ren'[d].stage \in {"granted", "read"} => ren'[d] = ren[d],
         \A d \in Clients : DeadlineMoves(d)
  PROVE  Inv'
<1>1. TypeOK' /\ LeaseFresh' /\ OrdersCovered'
  BY DEF Inv, TypeOK, LeaseFresh, OrdersCovered, storeVars
<1>2. ReadIsOwn'
  BY DEF Inv, ReadIsOwn
<1>3. \A d \in Clients, e \in Nat : Covered(d, e)' <=> Covered(d, e)
  BY DEF Covered, storeVars
<1>4. GrantsCovered'
  <2>1. SUFFICES ASSUME NEW d \in Clients
                 PROVE  /\ acq'[d].stage = "granted" => Covered(d, acq[d].exp)'
                        /\ ren'[d].stage = "granted" => Covered(d, ren[d].exp)'
                        /\ cl'[d].id # 0 => Covered(d, cl[d].expiresAt)'
    BY DEF GrantsCovered, Covered
  <2>2. /\ acq'[d].stage = "granted" => Covered(d, acq[d].exp)'
        /\ ren'[d].stage = "granted" => Covered(d, ren[d].exp)'
    BY DEF Inv, GrantsCovered, Covered, storeVars
  <2>3. cl'[d].id # 0 => Covered(d, cl[d].expiresAt)'
    BY DEF Inv, GrantsCovered, Covered, DeadlineMoves, storeVars
  <2> QED BY <2>2, <2>3
<1>5. DeadlineKept'
  <2>1. SUFFICES ASSUME NEW d \in Clients, cl'[d].id # 0, cl'[d].left # 0
                 PROVE  Late(d)' =< lost'[d]
    BY DEF DeadlineKept
  <2>2. CASE /\ cl'[d].id = cl[d].id /\ cl'[d].expiresAt = cl[d].expiresAt
             /\ cl'[d].left = cl[d].left /\ lost'[d] = lost[d]
    BY <2>1, <2>2 DEF Inv, DeadlineKept, Late
  <2>3. CASE lost'[d] = 0 /\ cl'[d].left = Until(d, cl'[d].expiresAt)
    <3>1. cl'[d].expiresAt \in Nat
      BY DEF Client
    <3>2. Late(d)' = 0
      BY <2>1, <2>3, <3>1, UntilIsKept DEF Late
    <3> QED BY <2>3, <3>2
  <2> QED BY <2>1, <2>2, <2>3 DEF DeadlineMoves
<1> QED BY <1>1, <1>2, <1>4, <1>5 DEF Inv

\* The types of the variables, one by one.
LEMMA Typed ==
  ASSUME Inv
  PROVE  /\ now \in Nat /\ grants \in Nat /\ faults \in Nat /\ asleep \subseteq Clients
         /\ cl \in [Clients -> Client] /\ acq \in [Clients -> AcquireCall]
         /\ ren \in [Clients -> RenewCall] /\ stray \subseteq [client : Clients, id : Nat, exp : Nat]
         /\ lost \in [Clients -> 0..MaxLost] /\ order \in [Clients -> Nat]
BY DEF Inv, TypeOK

\* Idle calls and a new client are what their types say.
LEMMA Fresh ==
  /\ IdleAcquire \in AcquireCall /\ IdleAcquire.stage = "idle" /\ IdleAcquire.exp = 0
  /\ IdleRenew \in RenewCall /\ IdleRenew.stage = "idle"
  /\ NewClient \in Client /\ NewClient.id = 0
BY DEF IdleAcquire, IdleRenew, NewClient, AcquireCall, RenewCall, Client

\* Abandoned requests are requests, a renewal's without an expiry.
LEMMA Abandoned ==
  ASSUME Inv, NEW c \in Clients
  PROVE  /\ AbandonedAcquire(c) \subseteq [client : Clients, id : Nat, exp : Nat]
         /\ AbandonedRenew(c) \subseteq [client : Clients, id : Nat, exp : Nat]
         /\ \A r \in AbandonedRenew(c) : r.client \in Clients /\ r.exp = 0
BY DEF Inv, TypeOK, AbandonedAcquire, AbandonedRenew, RenewCall, AcquireCall

\* A call sent changes no deadline.
LEMMA AcquireStep ==
  ASSUME Inv, NEW c \in Clients, Acquire(c)
  PROVE  Inv'
<1>1. /\ UNCHANGED <<storeVars, now, asleep, lost, order, faults, cl, ren, stray>>
      /\ acq[c].stage = "idle" /\ acq' = [acq EXCEPT ![c].stage = "sent"]
  BY DEF Acquire, clockVars
<1>2. /\ acq' \in [Clients -> AcquireCall]
      /\ \A d \in Clients :
           \/ acq'[d] = acq[d]
           \/ acq'[d].stage = "sent" /\ acq'[d].exp = acq[d].exp /\ acq[d].stage = "idle"
  BY <1>1, Typed DEF AcquireCall
<1>4. UnlockedFresh'
  BY <1>1, <1>2, UnlockedKept
<1>3. \A d \in Clients : DeadlineMoves(d)
  BY <1>1 DEF DeadlineMoves
<1> QED BY <1>1, <1>2, <1>3, <1>4, Typed, ClientStep

\* So does a renewal sent.
LEMMA renewOnceStep ==
  ASSUME Inv, NEW c \in Clients, renewOnce(c)
  PROVE  Inv'
<1>1. /\ UNCHANGED <<storeVars, now, asleep, lost, order, faults, cl, acq, stray>>
      /\ ren' = [ren EXCEPT ![c] = [IdleRenew EXCEPT !.stage = "sent", !.id = cl[c].id]]
  BY DEF renewOnce, clockVars
<1>2. cl[c].id \in Nat
  BY Typed DEF Client
<1>3. /\ [IdleRenew EXCEPT !.stage = "sent", !.id = cl[c].id] \in RenewCall
      /\ [IdleRenew EXCEPT !.stage = "sent", !.id = cl[c].id].stage = "sent"
  BY <1>2 DEF IdleRenew, RenewCall
<1>4. /\ ren' \in [Clients -> RenewCall]
      /\ \A d \in Clients : ren'[d].stage \in {"granted", "read"} => ren'[d] = ren[d]
  BY <1>1, <1>3, Typed
<1>5. \A d \in Clients : DeadlineMoves(d)
  BY <1>1 DEF DeadlineMoves
<1>6. UnlockedFresh'
  BY <1>1, UnlockedKept
<1> QED BY <1>1, <1>4, <1>5, <1>6, Typed, ClientStep

\* Calls that become idle, and the requests they abandon, keep their types.
LEMMA CallsDropped ==
  ASSUME Inv, NEW c \in Clients
  PROVE  /\ [acq EXCEPT ![c] = IdleAcquire] \in [Clients -> AcquireCall]
         /\ [ren EXCEPT ![c] = IdleRenew] \in [Clients -> RenewCall]
         /\ \A d \in Clients :
              /\ \/ [acq EXCEPT ![c] = IdleAcquire][d] = acq[d]
                 \/ /\ [acq EXCEPT ![c] = IdleAcquire][d].stage = "idle"
                    /\ [acq EXCEPT ![c] = IdleAcquire][d].exp = 0
              /\ [acq EXCEPT ![c] = IdleAcquire][d].stage = "granted" =>
                   [acq EXCEPT ![c] = IdleAcquire][d] = acq[d]
              /\ [ren EXCEPT ![c] = IdleRenew][d].stage \in {"granted", "read"} =>
                   [ren EXCEPT ![c] = IdleRenew][d] = ren[d]
BY Typed, Fresh

\* A renew call that is given up, or left with its grant, keeps its type.
LEMMA LoopCancelled ==
  ASSUME Inv, NEW c \in Clients, CancelRenew(c) \/ DropRenew(c)
  PROVE  /\ ren' \in [Clients -> RenewCall] /\ stray' \subseteq [client : Clients, id : Nat, exp : Nat]
         /\ \A d \in Clients : ren'[d].stage \in {"granted", "read"} => ren'[d] = ren[d]
         /\ \A r \in stray' : r \in stray \/ (r.client \in Clients /\ r.exp = 0)
BY Typed, Abandoned, CallsDropped DEF CancelRenew, DropRenew

\* A grant in hand is a number with an expiry that is covered.
LEMMA GrantInHand ==
  ASSUME Inv, NEW c \in Clients
  PROVE  /\ acq[c].exp \in Nat /\ acq[c].id \in Nat
         /\ ren[c].exp \in Nat /\ ren[c].id \in Nat
         /\ acq[c].stage = "granted" => Covered(c, acq[c].exp)
         /\ ren[c].stage = "granted" => Covered(c, ren[c].exp)
<1>1. acq[c] \in AcquireCall /\ ren[c] \in RenewCall
  BY Typed
<1> QED BY <1>1 DEF Inv, GrantsCovered, AcquireCall, RenewCall

\* applyGrant keeps the record's type and sets the deadline.
LEMMA Applied ==
  ASSUME Inv, NEW c \in Clients, NEW id \in Nat, NEW e \in Nat
  PROVE  /\ applyGrant(c, id, e) \in Client
         /\ applyGrant(c, id, e).expiresAt = e
         /\ applyGrant(c, id, e).left = Until(c, e)
         /\ [applyGrant(c, id, e) EXCEPT !.renewing = TRUE] \in Client
         /\ [applyGrant(c, id, e) EXCEPT !.renewing = TRUE].expiresAt = e
         /\ [applyGrant(c, id, e) EXCEPT !.renewing = TRUE].left = Until(c, e)
<1>1. cl[c] \in Client /\ Until(c, e) \in Nat
  BY Typed, UntilIsKept
<1> QED BY <1>1 DEF applyGrant, Client

\* A client that takes a covered grant.
LEMMA GrantMoves ==
  ASSUME Inv, NEW c \in Clients, NEW e \in Nat, Covered(c, e),
         NEW r \in Client, r.expiresAt = e, r.left = Until(c, e),
         cl' = [cl EXCEPT ![c] = r], lost' = [lost EXCEPT ![c] = 0]
  PROVE  /\ cl' \in [Clients -> Client] /\ lost' \in [Clients -> 0..MaxLost]
         /\ \A d \in Clients : DeadlineMoves(d)
<1>1. cl' \in [Clients -> Client] /\ cl'[c] = r /\ lost'[c] = 0
      /\ \A d \in Clients \ {c} : cl'[d] = cl[d] /\ lost'[d] = lost[d]
  BY Typed
<1>2. lost' \in [Clients -> 0..MaxLost]
  BY Typed, LeaseAssumption
<1>3. DeadlineMoves(c)
  BY <1>1 DEF DeadlineMoves
<1>4. \A d \in Clients \ {c} : DeadlineMoves(d)
  BY <1>1 DEF DeadlineMoves
<1> QED BY <1>1, <1>2, <1>3, <1>4

\* A grant applied sets a deadline its expiry covers.
LEMMA AcquireReturnsStep ==
  ASSUME Inv, NEW c \in Clients, AcquireReturns(c)
  PROVE  Inv'
<1>1. /\ UNCHANGED <<storeVars, now, asleep, order, faults>>
      /\ acq[c].stage = "granted" /\ acq' = [acq EXCEPT ![c] = IdleAcquire]
      /\ cl' = [cl EXCEPT ![c] = [applyGrant(c, acq[c].id, acq[c].exp) EXCEPT !.renewing = TRUE]]
      /\ lost' = [lost EXCEPT ![c] = 0]
      /\ CancelRenew(c)
  BY DEF AcquireReturns
<1>2. /\ cl' \in [Clients -> Client] /\ lost' \in [Clients -> 0..MaxLost]
      /\ \A d \in Clients : DeadlineMoves(d)
  <2> DEFINE r == [applyGrant(c, acq[c].id, acq[c].exp) EXCEPT !.renewing = TRUE]
  <2>1. acq[c].exp \in Nat /\ acq[c].id \in Nat /\ Covered(c, acq[c].exp)
    BY <1>1, GrantInHand
  <2>2. r \in Client /\ r.expiresAt = acq[c].exp /\ r.left = Until(c, acq[c].exp)
    BY <2>1, Applied
  <2>3. cl' = [cl EXCEPT ![c] = r]
    BY <1>1
  <2> HIDE DEF r
  <2> QED BY <1>1, <2>1, <2>2, <2>3, GrantMoves
<1>3. /\ \A d \in Clients : \/ acq'[d] = acq[d]
                            \/ acq'[d].stage = "idle" /\ acq'[d].exp = 0
      /\ acq' \in [Clients -> AcquireCall]
      /\ \A d \in Clients : acq'[d].stage = "granted" => acq'[d] = acq[d]
  BY <1>1, CallsDropped
<1>4. UnlockedFresh'
  BY <1>1, <1>3, LoopCancelled, UnlockedKept
<1> QED BY <1>1, <1>2, <1>3, <1>4, Typed, LoopCancelled, ClientStep

\* A client whose renew loop ends keeps its deadline.
LEMMA LoopEnds ==
  ASSUME Inv, NEW c \in Clients, UNCHANGED lost,
         cl' = [cl EXCEPT ![c].renewing = FALSE]
  PROVE  /\ cl' \in [Clients -> Client]
         /\ \A d \in Clients : DeadlineMoves(d)
<1>1. cl' \in [Clients -> Client]
  BY Typed DEF Client
<1>2. \A d \in Clients : DeadlineMoves(d)
  BY Typed DEF DeadlineMoves, Client
<1> QED BY <1>1, <1>2

\* So does a renewal applied, late as it may be.
LEMMA RenewReturnsStep ==
  ASSUME Inv, NEW c \in Clients, RenewReturns(c)
  PROVE  Inv'
<1>1. /\ UNCHANGED <<storeVars, now, asleep, acq, stray, order, faults>>
      /\ Awake(c) /\ ren' = [ren EXCEPT ![c] = IdleRenew]
  BY DEF RenewReturns
<1>u. UnlockedFresh'
  BY <1>1, UnlockedKept
<1>2. CASE /\ ren[c].stage = "granted"
           /\ cl' = [cl EXCEPT ![c] = applyGrant(c, ren[c].id, ren[c].exp)]
           /\ lost' = [lost EXCEPT ![c] = 0]
  <2>1. /\ cl' \in [Clients -> Client] /\ lost' \in [Clients -> 0..MaxLost]
        /\ \A d \in Clients : DeadlineMoves(d)
    <3> DEFINE r == applyGrant(c, ren[c].id, ren[c].exp)
    <3>1. ren[c].exp \in Nat /\ ren[c].id \in Nat /\ Covered(c, ren[c].exp)
      BY <1>2, GrantInHand
    <3>2. r \in Client /\ r.expiresAt = ren[c].exp /\ r.left = Until(c, ren[c].exp)
      BY <3>1, Applied
    <3>3. cl' = [cl EXCEPT ![c] = r]
      BY <1>2
    <3> HIDE DEF r
    <3> QED BY <1>1, <1>2, <3>1, <3>2, <3>3, GrantMoves
  <2> QED BY <1>1, <1>u, <2>1, Typed, CallsDropped, ClientStep
<1>3. CASE cl' = [cl EXCEPT ![c].renewing = FALSE] /\ UNCHANGED lost
  BY <1>1, <1>u, <1>3, LoopEnds, Typed, CallsDropped, ClientStep
<1> QED BY <1>2, <1>3 DEF RenewReturns

\* The renew loop ends, by a failed call or by Close.
LEMMA LoopEndsStep ==
  ASSUME Inv, NEW c \in Clients, CancelRenew(c) \/ DropRenew(c), faults' \in Nat,
         cl' = [cl EXCEPT ![c].renewing = FALSE],
         UNCHANGED <<storeVars, acq, order, clockVars>>
  PROVE  Inv'
<1>1. cl' \in [Clients -> Client] /\ \A d \in Clients : DeadlineMoves(d)
  BY LoopEnds DEF clockVars
<1>2. UnlockedFresh'
  BY LoopCancelled, UnlockedKept DEF clockVars
<1> QED BY <1>1, <1>2, Typed, LoopCancelled, ClientStep DEF clockVars

\* A call given up leaves the deadline in force.
LEMMA CallFailsStep ==
  ASSUME Inv, NEW c \in Clients, CallFails(c)
  PROVE  Inv'
<1>1. UNCHANGED <<storeVars, order, clockVars>> /\ faults' \in Nat
  BY Typed DEF CallFails, Fault
<1>2. CASE /\ acq' = [acq EXCEPT ![c] = IdleAcquire]
           /\ stray' = stray \cup AbandonedAcquire(c)
           /\ UNCHANGED <<cl, ren>>
  <2>1. stray' \subseteq [client : Clients, id : Nat, exp : Nat]
    BY <1>2, Typed, Abandoned
  <2>2. \A d \in Clients : DeadlineMoves(d)
    BY <1>1, <1>2 DEF DeadlineMoves, clockVars
  <2>3. UnlockedFresh'
    BY <1>1, <1>2, Typed, CallsDropped, UnlockedKept DEF clockVars
  <2> QED BY <1>1, <1>2, <2>1, <2>2, <2>3, Typed, CallsDropped, ClientStep DEF clockVars
<1>3. CASE DropRenew(c) /\ cl' = [cl EXCEPT ![c].renewing = FALSE] /\ UNCHANGED acq
  BY <1>1, <1>3, LoopEndsStep
<1> QED BY <1>2, <1>3 DEF CallFails

\* So does a closed renew loop.
LEMMA CloseStep ==
  ASSUME Inv, NEW c \in Clients, Close(c)
  PROVE  Inv'
<1>1. faults' \in Nat /\ CancelRenew(c) /\ cl' = [cl EXCEPT ![c].renewing = FALSE]
      /\ UNCHANGED <<storeVars, acq, order, clockVars>>
  BY Typed DEF Close, Fault
<1> QED BY <1>1, LoopEndsStep

\* A process that starts over has no lease.
LEMMA RestartStep ==
  ASSUME Inv, NEW c \in Clients, Restart(c)
  PROVE  Inv'
<1>1. /\ UNCHANGED <<storeVars, now, asleep, order>> /\ Awake(c)
      /\ cl' = [cl EXCEPT ![c] = NewClient] /\ lost' = [lost EXCEPT ![c] = 0]
      /\ acq' = [acq EXCEPT ![c] = IdleAcquire] /\ ren' = [ren EXCEPT ![c] = IdleRenew]
      /\ stray' = stray \cup AbandonedAcquire(c) \cup AbandonedRenew(c)
      /\ faults' \in Nat
  BY Typed DEF Restart, Fault
<1>2. stray' \subseteq [client : Clients, id : Nat, exp : Nat]
  BY <1>1, Typed, Abandoned
<1>3. cl' \in [Clients -> Client] /\ lost' \in [Clients -> 0..MaxLost]
  BY <1>1, Typed, Fresh, LeaseAssumption
<1>4. \A d \in Clients : DeadlineMoves(d)
  BY <1>1, Typed, Fresh DEF DeadlineMoves
<1>5. UnlockedFresh'
  BY <1>1, Abandoned, CallsDropped, UnlockedKept
<1> QED BY <1>1, <1>2, <1>3, <1>4, <1>5, Typed, CallsDropped, ClientStep

\* The order in flight is covered by the margins.
LEMMA CheckBeforeOrderStep ==
  ASSUME Inv, NEW c \in Clients, CheckBeforeOrder(c)
  PROVE  Inv'
<1>1. /\ UNCHANGED <<now, asleep, lost, lease, grants, raced, cl, acq, ren, stray, faults>>
      /\ MayOrder(c) /\ order' = [order EXCEPT ![c] = now + MaxDelay]
  BY DEF CheckBeforeOrder, clockVars, storeVars
<1>2. cl[c] \in Client /\ now \in Nat /\ now + MaxDelay \in Nat /\ TTL[Home[c]] \in Nat
  BY Typed, Constants
<1>3. order' \in [Clients -> Nat]
  BY <1>1, <1>2, Typed
<1>4. TypeOK' /\ LeaseFresh' /\ UnlockedFresh' /\ ReadIsOwn' /\ GrantsCovered' /\ DeadlineKept'
  BY <1>1, <1>3 DEF Inv, TypeOK, LeaseFresh, UnlockedFresh, ReadIsOwn, GrantsCovered, Covered,
                    DeadlineKept, Late
<1>5. OrdersCovered'
  <2> DEFINE e == cl[c].expiresAt
  <2>1. now + MarginAgent < e + MaxSkew + MaxLost
    BY <1>1, MayOrderIsEarly
  <2>2. e \in Nat /\ cl[c].id # 0
    BY <1>1, <1>2 DEF Client, MayOrder
  <2> HIDE DEF e
  <2>3. now + MaxDelay + MaxLag < e + MarginCP
    BY <1>2, <2>1, <2>2, Constants
  <2>4. Covered(c, e)
    BY <2>2 DEF Inv, GrantsCovered, e
  <2>5. (now + MaxDelay) + MaxLag =< now + TTL[Home[c]] + MarginCP
    BY <1>2, <2>2, <2>3, <2>4, Constants DEF Covered
  <2>6. ~(e + MarginCP < now + MaxLag)
    BY <1>2, <2>2, <2>3, Constants
  <2>7. CASE lease # None /\ lease.machine = Home[c] /\ e =< lease.exp + MaxLag
    <3>1. lease.exp \in Nat
      BY <2>7 DEF Inv, TypeOK, LeaseInfo
    <3>2. now + MaxDelay =< lease.exp + MarginCP /\ now =< now + MaxDelay
      BY <1>2, <2>2, <2>3, <2>7, <3>1, Constants
    <3> QED BY <1>1, <2>5, <2>7, <3>2, Typed DEF Inv, OrdersCovered
  <2>8. CASE raced # 0 /\ e =< raced + MaxLag
    <3>1. raced \in Nat
      BY DEF Inv, TypeOK
    <3>2. now + MaxDelay =< raced + MarginCP /\ now =< now + MaxDelay
      BY <1>2, <2>2, <2>3, <2>8, <3>1, Constants
    <3> QED BY <1>1, <2>5, <2>8, <3>2, Typed DEF Inv, OrdersCovered
  <2> QED BY <2>4, <2>6, <2>7, <2>8 DEF Covered
<1> QED BY <1>4, <1>5 DEF Inv

----------------------------------------------------------------------------
(* Clocks *)

\* What a second does to a deadline.
LEMMA SecondPasses ==
  ASSUME Inv, NEW c \in Clients
  PROVE  /\ OneSecond(c) \in Client
         /\ OneSecond(c).id = cl[c].id /\ OneSecond(c).expiresAt = cl[c].expiresAt
         /\ Awake(c) /\ cl[c].id # 0 /\ OneSecond(c).left # 0 =>
              cl[c].left # 0 /\ OneSecond(c).left = cl[c].left - 1
         /\ ~Awake(c) => OneSecond(c).left = cl[c].left
<1>1. cl[c] \in Client
  BY Typed
<1>2. CASE Awake(c) /\ cl[c].left > 0
  <2>1. cl[c].left - 1 \in Nat /\ cl[c].left # 0
    BY <1>1, <1>2 DEF Client
  <2>2. OneSecond(c) = [cl[c] EXCEPT !.left = cl[c].left - 1]
    BY <1>1, <1>2 DEF OneSecond, Client
  <2> QED BY <1>1, <1>2, <2>1, <2>2 DEF Client
<1>3. CASE ~(Awake(c) /\ cl[c].left > 0)
  BY <1>1, <1>3 DEF OneSecond, Client
<1> QED BY <1>2, <1>3

\* A second that passes makes a sleeping client late by one, and no other.
LEMMA TickStep ==
  ASSUME Inv, Tick
  PROVE  Inv'
<1>1. /\ UNCHANGED <<lease, grants, raced, acq, ren, stray, asleep, faults>>
      /\ \A c \in asleep : lost[c] < MaxLost
      /\ lost' = [c \in Clients |-> IF Awake(c) THEN lost[c] ELSE lost[c] + 1]
      /\ now' = now + 1 /\ now \in Nat
      /\ cl' = [c \in Clients |-> OneSecond(c)]
      /\ order' = [c \in Clients |-> IF order[c] =< now THEN 0 ELSE order[c]]
  BY Typed DEF Tick, storeVars
<1>2. cl' \in [Clients -> Client] /\ \A c \in Clients : cl'[c] = OneSecond(c)
  BY <1>1, SecondPasses
<1>3. order' \in [Clients -> Nat]
      /\ \A c \in Clients : order'[c] # 0 => order'[c] = order[c] /\ ~(order[c] =< now)
  BY <1>1, Typed
<1>a. lost' \in [Clients -> 0..MaxLost]
  <2>1. \A c \in Clients : lost[c] \in 0..MaxLost
    BY Typed
  <2>2. \A c \in Clients : ~Awake(c) => lost[c] + 1 \in 0..MaxLost
    BY <1>1, <2>1, Constants DEF Awake
  <2> QED BY <1>1, <2>1, <2>2
<1>4. TypeOK' /\ ReadIsOwn'
  BY <1>1, <1>2, <1>3, <1>a DEF Inv, TypeOK, ReadIsOwn
<1>5. lease # None => lease.exp \in Nat /\ lease.machine \in Machines
  BY DEF Inv, TypeOK, LeaseInfo
<1>6. LeaseFresh'
  BY <1>1, <1>5, Constants DEF Inv, LeaseFresh
<1>u. UnlockedFresh'
  BY <1>1, Typed, Constants DEF Inv, UnlockedFresh, AcquireCall
<1>7. \A c \in Clients, e \in Nat : Covered(c, e) => Covered(c, e)'
  BY <1>1, Constants DEF Covered
<1>8. GrantsCovered'
  <2>1. SUFFICES ASSUME NEW c \in Clients
                 PROVE  /\ acq[c].stage = "granted" => Covered(c, acq[c].exp)'
                        /\ ren[c].stage = "granted" => Covered(c, ren[c].exp)'
                        /\ cl'[c].id # 0 => Covered(c, cl[c].expiresAt)'
    BY <1>1 DEF GrantsCovered, Covered
  <2>2. /\ acq[c].stage = "granted" => Covered(c, acq[c].exp)'
        /\ ren[c].stage = "granted" => Covered(c, ren[c].exp)'
    BY <1>1, <1>7, GrantInHand DEF Covered
  <2>3. cl'[c].id = cl[c].id /\ cl'[c].expiresAt = cl[c].expiresAt /\ cl[c].expiresAt \in Nat
    BY <1>2, SecondPasses, Typed DEF Client
  <2>4. cl'[c].id # 0 => Covered(c, cl[c].expiresAt)'
    BY <1>7, <2>3 DEF Inv, GrantsCovered, Covered
  <2> QED BY <2>2, <2>4
<1>9. OrdersCovered'
  BY <1>1, <1>3, <1>5, Typed, Constants DEF Inv, OrdersCovered
<1>10. DeadlineKept'
  <2>1. SUFFICES ASSUME NEW c \in Clients, cl'[c].id # 0, cl'[c].left # 0
                 PROVE  Late(c)' =< lost'[c]
    BY DEF DeadlineKept
  <2>2. /\ cl[c].left \in Nat /\ cl[c].expiresAt \in Nat /\ lost[c] \in Nat
        /\ cl'[c] = OneSecond(c) /\ cl[c].id # 0 /\ cl'[c].expiresAt = cl[c].expiresAt
    BY <1>2, <2>1, SecondPasses, Typed DEF Client
  <2>3. CASE Awake(c)
    <3>1. cl[c].left # 0 /\ cl'[c].left = cl[c].left - 1 /\ lost'[c] = lost[c]
      BY <1>1, <2>1, <2>2, <2>3, SecondPasses
    <3>2. Late(c)' = Late(c)
      BY <1>1, <2>2, <3>1, Constants DEF Late
    <3> QED BY <2>2, <3>1, <3>2 DEF Inv, DeadlineKept
  <2>4. CASE ~Awake(c)
    <3>1. cl'[c].left = cl[c].left /\ lost'[c] = lost[c] + 1 /\ cl[c].left # 0
      BY <1>1, <2>1, <2>2, <2>4, SecondPasses
    <3>2. Late(c)' = Late(c) + 1 /\ Late(c) \in Int
      BY <1>1, <2>2, <3>1, Constants DEF Late
    <3>3. Late(c) =< lost[c]
      BY <2>2, <3>1 DEF Inv, DeadlineKept
    <3> QED BY <2>2, <3>1, <3>2, <3>3
  <2> QED BY <2>3, <2>4
<1> QED BY <1>4, <1>u, <1>6, <1>8, <1>9, <1>10 DEF Inv

\* Who sleeps matters to the clock alone.
LEMMA SuspendStep ==
  ASSUME Inv, NEW c \in Clients, Sleep(c) \/ Wake(c)
  PROVE  Inv'
<1>1. /\ UNCHANGED <<now, lease, grants, raced, cl, acq, ren, stray, lost, order>>
      /\ asleep' \subseteq Clients /\ faults' \in Nat
  BY Typed DEF Sleep, Wake, Fault, storeVars
<1> QED BY <1>1 DEF Inv, TypeOK, LeaseFresh, UnlockedFresh, GrantsCovered, Covered, ReadIsOwn, OrdersCovered,
                    DeadlineKept, Late

----------------------------------------------------------------------------
(* The invariant *)

\* The protocol starts within the invariant.
LEMMA InvInit == Init => Inv
<1> SUFFICES ASSUME Init PROVE Inv
  OBVIOUS
<1>1. TypeOK
  BY Fresh, LeaseAssumption DEF Init, TypeOK
<1>2. LeaseFresh /\ OrdersCovered
  BY DEF Init, LeaseFresh, OrdersCovered
<1>u. UnlockedFresh
  BY Fresh, Constants DEF Init, UnlockedFresh
<1>3. GrantsCovered /\ ReadIsOwn /\ DeadlineKept
  BY Fresh DEF Init, GrantsCovered, ReadIsOwn, DeadlineKept
<1> QED BY <1>1, <1>2, <1>u, <1>3 DEF Inv

\* Every step keeps the invariant.
LEMMA InvNext == Inv /\ [Next]_vars => Inv'
<1> SUFFICES ASSUME Inv, [Next]_vars PROVE Inv'
  OBVIOUS
<1>1. ASSUME NEW c \in Clients,
             \/ Acquire(c) \/ FindNoRow(c) \/ InsertLease(c) \/ AcquireLease(c) \/ AcquireReturns(c)
             \/ renewOnce(c) \/ GetLease(c) \/ RenewLease(c) \/ RenewReturns(c)
             \/ CallFails(c) \/ Close(c) \/ CheckBeforeOrder(c) \/ Restart(c)
             \/ Sleep(c) \/ Wake(c)
      PROVE  Inv'
  BY <1>1, AcquireStep, FindNoRowStep, InsertLeaseStep, AcquireLeaseStep, AcquireReturnsStep, renewOnceStep, GetLeaseStep,
     RenewLeaseStep, RenewReturnsStep, CallFailsStep, CloseStep, CheckBeforeOrderStep,
     RestartStep, SuspendStep
<1>2. CASE ServeStray
  BY <1>2, ServeStrayStep
<1>3. CASE Tick
  BY <1>3, TickStep
<1>4. CASE UNCHANGED vars
  BY <1>4 DEF vars, Inv, TypeOK, LeaseFresh, UnlockedFresh, GrantsCovered, Covered, ReadIsOwn,
              DeadlineKept, Late, Awake, OrdersCovered
<1> QED BY <1>1, <1>2, <1>3, <1>4 DEF Next

\* Inv holds in every reachable state of the lease protocol.
THEOREM Invariance == Spec => []Inv
BY InvInit, InvNext, PTL DEF Spec

\* Every variable of the lease server and of its clients keeps its type.
THEOREM TypeCorrect == Spec => []TypeOK
<1>1. Inv => TypeOK
  BY DEF Inv
<1> QED BY <1>1, Invariance, PTL

\* leaseFreeFor and CheckBeforeOrder together fence the machines: an order of
\* one never arrives in the tenure of another, but for the machine whose first
\* grant an Acquire that had found no row overwrote, until that grant's expiry
\* and margin_cp.
THEOREM OrdersFenced == Spec => []Fenced
<1>1. Inv => Fenced
  BY DEF Inv, OrdersCovered, Fenced
<1> QED BY <1>1, Invariance, PTL

\* CheckBeforeOrder passes only before the granted expiry, by margin_agent less
\* the error of its clock and what its machine slept.
THEOREM NeverPastExpiry == Spec => []NoOrderPastExpiry
<1>1. Inv => NoOrderPastExpiry
  BY MayOrderIsEarly DEF NoOrderPastExpiry
<1> QED BY <1>1, Invariance, PTL

=============================================================================
