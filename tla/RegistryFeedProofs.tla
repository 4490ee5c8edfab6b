------------------------- MODULE RegistryFeedProofs -------------------------
(***************************************************************************)
(* Theorems about ConfigurationService and about RegistryFeed on top of it, *)
(* for any devices, items, definitions, profile, lease and bounds.  The     *)
(* first half is about the service alone; the second about its audit log    *)
(* and the client that follows it: every step of the feed is a step of the  *)
(* service or leaves it alone, so the service keeps there what is proved of *)
(* it here.                                                                *)
(***************************************************************************)
EXTENDS RegistryFeed, FiniteSetTheorems, TLAPS

-----------------------------------------------------------------------------
(* What the operations of the lock table do to a table, for any lease.     *)

(* u has no lock t did not have: every entry of u is an entry of t under   *)
(* the same item and acquisition, live in t if it is live in u.            *)
Shrinks(t, u) ==
    \A d \in Device :
        u[d] # NoLock =>
            /\ t[d] # NoLock
            /\ u[d].item = t[d].item
            /\ u[d].at = t[d].at
            /\ Active(u, d) => Active(t, d)

(* The empty table is a table without a live lock.                         *)
LEMMA EmptyTableType == EmptyTable \in Table /\ \A d \in Device : ~ Active(EmptyTable, d)
BY DEF EmptyTable, Table, Active

(* A renewal yields a table and creates no lock: a lapsed one stays lapsed. *)
LEMMA RenewedShrinks ==
    ASSUME NEW t \in Table, NEW D \in SUBSET Device, NEW i \in Item
    PROVE  Renewed(t, D, i) \in Table /\ Shrinks(t, Renewed(t, D, i))
<1>1. \A d \in RenewedDevices(t, D, i) :
         d \in Device /\ t[d] \in Lock /\ Active(t, d)
  BY TableAssumption DEF RenewedDevices, HeldBy, ActiveLocks, Active, Table
<1>2. \A d \in RenewedDevices(t, D, i) : [t[d] EXCEPT !.left = LeaseTTL] \in Lock
  BY <1>1, TableAssumption DEF Lock
<1>3. Renewed(t, D, i) \in Table
  BY <1>2 DEF Renewed, Table
<1>4. ASSUME NEW d \in Device, d \in RenewedDevices(t, D, i)
      PROVE  /\ t[d] # NoLock
             /\ Renewed(t, D, i)[d].item = t[d].item
             /\ Renewed(t, D, i)[d].at = t[d].at
             /\ Active(t, d)
  BY <1>1, <1>4 DEF Renewed, Lock, Active
<1>5. ASSUME NEW d \in Device, d \notin RenewedDevices(t, D, i)
      PROVE  Renewed(t, D, i)[d] = t[d]
  BY <1>5 DEF Renewed
<1>6. QED
  BY <1>3, <1>4, <1>5 DEF Shrinks, Active

(* Releasing yields a table that shrinks.                                  *)
LEMMA ReleasedShrinks ==
    ASSUME NEW t \in Table, NEW D \in SUBSET Device
    PROVE  Released(t, D) \in Table /\ Shrinks(t, Released(t, D))
BY DEF Released, Table, Shrinks, Active

(* The passing of time yields a table that shrinks.                        *)
LEMMA AgedShrinks ==
    ASSUME NEW t \in Table
    PROVE  Aged(t) \in Table /\ Shrinks(t, Aged(t))
<1>1. ASSUME NEW d \in Device, t[d] # NoLock, t[d].left > 0
      PROVE  /\ [t[d] EXCEPT !.left = @ - 1] \in Lock
             /\ [t[d] EXCEPT !.left = @ - 1].item = t[d].item
             /\ [t[d] EXCEPT !.left = @ - 1].at = t[d].at
             /\ Active(t, d)
  <2>1. t[d] \in Lock
    BY <1>1 DEF Table
  <2>2. t[d].left - 1 \in 0..LeaseTTL
    BY <1>1, <2>1, TableAssumption DEF Lock
  <2>3. QED
    BY <1>1, <2>1, <2>2 DEF Lock, Active, IsExpired
<1>2. Aged(t) \in Table
  BY <1>1 DEF Aged, Table
<1>3. ASSUME NEW d \in Device, t[d] # NoLock, t[d].left > 0
      PROVE  /\ Aged(t)[d].item = t[d].item
             /\ Aged(t)[d].at = t[d].at
             /\ Active(t, d)
  BY <1>1, <1>3 DEF Aged
<1>4. ASSUME NEW d \in Device, ~ (t[d] # NoLock /\ t[d].left > 0)
      PROVE  Aged(t)[d] = t[d]
  BY <1>4 DEF Aged
<1>5. QED
  BY <1>2, <1>3, <1>4 DEF Shrinks, Active

(* An acquisition yields a table; the devices it names hold its lock, the   *)
(* others keep theirs.                                                      *)
LEMMA AcquiredTable ==
    ASSUME NEW t \in Table, NEW D \in SUBSET Device, NEW i \in Item, NEW v \in Nat
    PROVE  /\ Acquired(t, D, i, v) \in Table
           /\ \A d \in D : /\ Acquired(t, D, i, v)[d] = FreshLock(i, v)
                           /\ Acquired(t, D, i, v)[d] # NoLock
           /\ \A d \in Device \ D : Acquired(t, D, i, v)[d] = t[d]
<1>1. FreshLock(i, v) \in Lock
  BY TableAssumption DEF FreshLock, Lock
<1>2. QED
  BY <1>1, TableAssumption DEF Acquired, Table

(* An acquisition that answers 200 names only enabled devices without a     *)
(* live lock.                                                               *)
LEMMA AcquireAdmits ==
    ASSUME NEW t, NEW D \in SUBSET Device, NEW status,
           \A d \in D : status[d] \in {"absent", "missing", "disabled", "active"},
           AcquireCode(t, D, status) = 200
    PROVE  \A d \in D : status[d] = "active" /\ ~ Active(t, d)
<1> SUFFICES ASSUME NEW d \in D
             PROVE  status[d] = "active" /\ ~ Active(t, d)
  OBVIOUS
<1>1. LET reasons == {Reason(t, e, status) : e \in D}
      IN  reasons \cap {"spec_missing", "not_found", "disabled", "already_locked"} = {}
  BY DEF AcquireCode
<1>2. Reason(t, d, status) \notin {"spec_missing", "not_found", "disabled", "already_locked"}
  BY <1>1
<1>3. QED
  BY <1>2 DEF Reason


-----------------------------------------------------------------------------
(* Types.                                                                  *)

LEMMA RowTypes ==
    /\ Empty \in Registry
    /\ Idle \in Work
    /\ \A r \in Registry, d \in Device : [r EXCEPT ![d] = NoRow] \in Registry
    /\ \A r \in Registry, d \in Device, w \in Row : [r EXCEPT ![d] = w] \in Registry
BY DEF Empty, Idle, Work, Registry

LEMMA EnabledRow ==
    ASSUME NEW r \in Registry, NEW d \in Device, r[d] # NoRow,
           NEW s \in {"disabled", "active"}
    PROVE  [r EXCEPT ![d].spec = s] \in Registry
<1>1. r[d] \in Row
  BY DEF Registry
<1>2. [r[d] EXCEPT !.spec = s] \in Row
  BY <1>1 DEF Row
<1>3. [r EXCEPT ![d].spec = s] = [r EXCEPT ![d] = [r[d] EXCEPT !.spec = s]]
  OBVIOUS
<1>4. QED
  BY <1>2, <1>3, RowTypes

(* Every variable keeps its type.                                          *)
LEMMA TypeStep == TypeOK /\ [Next]_vars => TypeOK'
<1> SUFFICES ASSUME TypeOK, [Next]_vars PROVE TypeOK'
  OBVIOUS
<1> USE ServiceAssumption, TableAssumption
<1>1. CASE Lifecycle
  <2>1. CASE Start
    <3>1. (IF seeded THEN db ELSE Profile) \in Registry /\ Merged(db, Profile) \in Registry
      BY DEF TypeOK, Merged, Registry
    <3>2. QED
      BY <2>1, <3>1, EmptyTableType DEF Start, TypeOK
  <2>2. CASE Crash
    <3>1. lockAll' \in BOOLEAN
      BY <2>2, Zenon DEF Crash
    <3>2. /\ locks' \in Table /\ mem' \in Registry /\ busy' \in Work
          /\ version' \in 0..MaxVersion
      BY <2>2, EmptyTableType, RowTypes DEF Crash
    <3>3. QED
      BY <2>2, <3>1, <3>2 DEF Crash, TypeOK
  <2>3. QED
    BY <1>1, <2>1, <2>2 DEF Lifecycle
<1>2. CASE LockStep
  <2>1. ASSUME NEW D \in SUBSET Device, NEW i \in Item, Acquire(D, i) PROVE TypeOK'
    <3>1. locks' \in Table
      BY <2>1, AcquiredTable DEF Acquire, TypeOK
    <3>2. QED
      BY <2>1, <3>1 DEF Acquire, TypeOK
  <2>2. ASSUME NEW D \in SUBSET Device, NEW i \in Item, Renew(D, i) PROVE TypeOK'
    BY <2>2, RenewedShrinks DEF Renew, TypeOK
  <2>3. ASSUME NEW D \in SUBSET Device, NEW i \in Item, Release(D, i) PROVE TypeOK'
    BY <2>3, ReleasedShrinks DEF Release, TypeOK
  <2>4. ASSUME NEW D \in SUBSET Device, ForceUnlock(D) PROVE TypeOK'
    BY <2>4, ReleasedShrinks DEF ForceUnlock, TypeOK
  <2>5. ASSUME NEW e \in BOOLEAN, SetLockAll(e) PROVE TypeOK'
    BY <2>5 DEF SetLockAll, TypeOK
  <2>6. CASE Tick
    BY <2>6, AgedShrinks DEF Tick, TypeOK
  <2>7. QED
    BY <1>2, <2>1, <2>2, <2>3, <2>4, <2>5, <2>6 DEF LockStep
<1>3. CASE RegistryRequest
  <2>1. ASSUME NEW stage \in {"write", "wipe"}, NEW D \in SUBSET Device,
               NEW goal \in Registry, Take(stage, D, goal)
        PROVE  TypeOK'
    BY <2>1 DEF Take, TypeOK, Work, DbStages
  <2>2. ASSUME NEW d \in Device, NEW r \in Row, Create(d, r) \/ Update(d, r) PROVE TypeOK'
    BY <2>1, <2>2, RowTypes DEF Create, Update, TypeOK
  <2>3. ASSUME NEW d \in Device, Enable(d) \/ Disable(d) PROVE TypeOK'
    <3>1. PICK s \in {"disabled", "active"} :
             mem[d] # NoRow /\ Take("write", {d}, [mem EXCEPT ![d].spec = s])
      BY <2>3 DEF Enable, Disable, SetEnabled
    <3>2. [mem EXCEPT ![d].spec = s] \in Registry
      BY <3>1, EnabledRow DEF TypeOK
    <3>3. QED
      BY <2>1, <3>1, <3>2
  <2>4. ASSUME NEW d \in Device, Delete(d) PROVE TypeOK'
    BY <2>1, <2>4, RowTypes DEF Delete, TypeOK
  <2>5. CASE Reset \/ Clear
    BY <2>1, <2>5, RowTypes DEF Reset, Clear
  <2>6. QED
    BY <1>3, <2>2, <2>3, <2>4, <2>5 DEF RegistryRequest
<1>4. CASE RegistryStep
  <2>1. CASE WriteDb
    BY <2>1 DEF WriteDb, TypeOK, Work, Registry, DbStages
  <2>2. CASE WipeDb
    BY <2>2, RowTypes DEF WipeDb, TypeOK, Work, DbStages
  <2>3. CASE SeedDb
    BY <2>3 DEF SeedDb, TypeOK, Work, DbStages
  <2>4. CASE ApplyPVs
    BY <2>4 DEF ApplyPVs, TypeOK, Work, DbStages
  <2>5. CASE DbFails
    BY <2>5, RowTypes DEF DbFails, TypeOK
  <2>6. CASE Publish
    BY <2>6, RowTypes DEF Publish, TypeOK, Work
  <2>7. CASE Swap
    BY <2>7, RowTypes, EmptyTableType DEF Swap, TypeOK, Work
  <2>8. QED
    BY <1>4, <2>1, <2>2, <2>3, <2>4, <2>5, <2>6, <2>7 DEF RegistryStep
<1>5. CASE UNCHANGED vars
  BY <1>5 DEF vars, TypeOK
<1>6. QED
  BY <1>1, <1>2, <1>3, <1>4, <1>5 DEF Next

LEMMA TypeInit == Init => TypeOK
<1> SUFFICES ASSUME Init PROVE TypeOK
  OBVIOUS
<1>1. lockAll \in BOOLEAN
  BY ServiceAssumption, Zenon DEF Init
<1>2. /\ locks \in Table /\ mem \in Registry /\ db \in Registry /\ busy \in Work
      /\ version \in 0..MaxVersion /\ epoch \in 0..MaxEpoch
  BY ServiceAssumption, EmptyTableType, RowTypes DEF Init
<1>3. QED
  BY <1>1, <1>2 DEF Init, TypeOK

(* TypeOK holds in every reachable state.                                  *)
THEOREM TypeCorrect == Spec => []TypeOK
BY TypeInit, TypeStep, PTL DEF Spec

-----------------------------------------------------------------------------
(* Locks and registry together.  LiveLockRegistered is not inductive: a    *)
(* registry handler checks a device some steps before it changes memory,   *)
(* so the invariant must also say that what is about to be published       *)
(* respects the locks that are live now, and that no lock outlives its     *)
(* process.                                                                *)

DownIsEmpty == ~ up => locks = EmptyTable /\ mem = Empty /\ busy = Idle

PendingRespectsLocks ==
    busy.stage \in {"write", "mem"} =>
        \A d \in ActiveLocks(locks) :
            busy.goal[d] # NoRow /\ busy.goal[d].def = mem[d].def

LockInv ==
    /\ TypeOK
    /\ DownIsEmpty
    /\ LiveLockRegistered
    /\ AcquisitionsOrdered
    /\ PendingRespectsLocks

LEMMA LockInit == Init => LockInv
<1> SUFFICES ASSUME Init PROVE LockInv
  OBVIOUS
<1>1. TypeOK
  BY TypeInit
<1>2. ActiveLocks(locks) = {} /\ \A d \in Device : locks[d] = NoLock
  BY EmptyTableType DEF Init, ActiveLocks, EmptyTable
<1>3. QED
  BY <1>1, <1>2 DEF Init, LockInv, DownIsEmpty, LiveLockRegistered,
                    AcquisitionsOrdered, PendingRespectsLocks, Idle

(* A step that takes locks away, and leaves the registry alone, keeps the  *)
(* invariant.                                                              *)
LEMMA ShrinkStep ==
    ASSUME LockInv, TypeOK', Shrinks(locks, locks'), version' >= version,
           up, UNCHANGED <<up, mem, busy>>
    PROVE  LockInv'
<1>1. ActiveLocks(locks') \subseteq ActiveLocks(locks)
  BY DEF Shrinks, ActiveLocks, Active
<1>2. DownIsEmpty' /\ LiveLockRegistered' /\ PendingRespectsLocks'
  BY <1>1 DEF LockInv, DownIsEmpty, LiveLockRegistered, PendingRespectsLocks
<1>3. AcquisitionsOrdered'
  BY DEF LockInv, AcquisitionsOrdered, Shrinks, TypeOK, Table, Lock
<1>4. QED
  BY <1>2, <1>3 DEF LockInv

(* An acquisition keeps the invariant: the devices are registered, no      *)
(* registry handler is at work, and the acquisition is the latest.         *)
LEMMA AcquireStep ==
    ASSUME LockInv, TypeOK', NEW D \in SUBSET Device, NEW i \in Item, Acquire(D, i)
    PROVE  LockInv'
<1>1. \A d \in D : mem[d] # NoRow /\ ~ Active(locks, d)
  <2>1. \A d \in D : Status(mem)[d] \in {"absent", "missing", "disabled", "active"}
    BY DEF LockInv, TypeOK, Registry, Row, Status
  <2>2. \A d \in D : Status(mem)[d] = "active" /\ ~ Active(locks, d)
    BY <2>1, AcquireAdmits DEF Acquire
  <2>3. QED
    BY <2>2 DEF Status
<1>2. /\ \A d \in D : locks'[d] # NoLock /\ locks'[d].item = i /\ locks'[d].at = version + 1
      /\ \A d \in Device \ D : locks'[d] = locks[d]
  <2>1. locks \in Table /\ version + 1 \in Nat
    BY DEF LockInv, TypeOK
  <2>2. /\ \A d \in D : locks'[d] = FreshLock(i, version + 1) /\ locks'[d] # NoLock
        /\ \A d \in Device \ D : locks'[d] = locks[d]
    BY <2>1, AcquiredTable DEF Acquire
  <2>3. QED
    BY <2>2 DEF FreshLock
<1>3. DownIsEmpty' /\ PendingRespectsLocks'
  <2>1. up' /\ busy'.stage = "idle"
    BY DEF Acquire, Free
  <2>2. QED
    BY <2>1 DEF DownIsEmpty, PendingRespectsLocks
<1>4. LiveLockRegistered'
  BY <1>1, <1>2 DEF LockInv, LiveLockRegistered, ActiveLocks, Active, Acquire
<1>5. AcquisitionsOrdered'
  <2>1. version' = version + 1 /\ version \in Nat
    BY DEF Acquire, LockInv, TypeOK
  <2>2. \A d \in Device : locks[d] # NoLock => locks[d].at \in Nat /\ locks[d].at <= version
    BY DEF LockInv, AcquisitionsOrdered, TypeOK, Table, Lock
  <2>3. QED
    BY <1>2, <2>1, <2>2 DEF LockInv, AcquisitionsOrdered
<1>6. QED
  BY <1>3, <1>4, <1>5 DEF LockInv

(* A registry request plans nothing against a live lock.                   *)
LEMMA RequestStep ==
    ASSUME LockInv, TypeOK', RegistryRequest
    PROVE  LockInv'
<1> USE DEF LockInv
<1>1. UNCHANGED <<up, locks, version, mem>> /\ up
  <2>1. ASSUME NEW d \in Device, NEW r \in Row, Create(d, r) \/ Update(d, r)
        PROVE  UNCHANGED <<up, locks, version, mem>> /\ up
    BY <2>1 DEF Create, Update, Take, Free
  <2>2. ASSUME NEW d \in Device, Enable(d) \/ Disable(d) \/ Delete(d)
        PROVE  UNCHANGED <<up, locks, version, mem>> /\ up
    BY <2>2 DEF Enable, Disable, SetEnabled, Delete, Take, Free
  <2>3. CASE Reset \/ Clear
    BY <2>3 DEF Reset, Clear, Take, Free
  <2>4. QED
    BY <2>1, <2>2, <2>3 DEF RegistryRequest
<1>2. DownIsEmpty' /\ LiveLockRegistered' /\ AcquisitionsOrdered'
  BY <1>1 DEF DownIsEmpty, LiveLockRegistered, AcquisitionsOrdered
<1>3. PendingRespectsLocks'
  <2> SUFFICES ASSUME busy'.stage = "write", NEW e \in ActiveLocks(locks)
               PROVE  busy'.goal[e] # NoRow /\ busy'.goal[e].def = mem[e].def
    <3>1. busy'.stage \in {"write", "wipe"}
      BY DEF RegistryRequest, Create, Update, Enable, Disable, SetEnabled, Delete, Reset,
             Clear, Take
    <3>2. QED
      BY <1>1, <3>1 DEF PendingRespectsLocks
  <2>0. e \in Device /\ mem[e] # NoRow /\ Active(locks, e) /\ mem \in [Device -> Row \cup {NoRow}]
    BY DEF LiveLockRegistered, ActiveLocks, TypeOK, Registry
  <2>1. ASSUME NEW d \in Device, NEW r \in Row, Create(d, r)
        PROVE  busy'.goal[e] = mem[e]
    BY <2>0, <2>1 DEF Create, Take
  <2>2. ASSUME NEW d \in Device, NEW r \in Row, Update(d, r)
        PROVE  busy'.goal[e] = mem[e]
    BY <2>0, <2>2 DEF Update, Take
  <2>3. ASSUME NEW d \in Device, Delete(d)
        PROVE  busy'.goal[e] = mem[e]
    BY <2>0, <2>3 DEF Delete, Take
  <2>4. ASSUME NEW d \in Device, Enable(d) \/ Disable(d)
        PROVE  busy'.goal[e] # NoRow /\ busy'.goal[e].def = mem[e].def
    <3>1. PICK s \in {"disabled", "active"} : busy'.goal = [mem EXCEPT ![d].spec = s]
      <4>1. CASE Enable(d)
        <5>1. busy'.goal = [mem EXCEPT ![d].spec = "active"]
          BY <4>1 DEF Enable, SetEnabled, Take
        <5>2. QED
          BY <5>1, Zenon
      <4>2. CASE Disable(d)
        <5>1. busy'.goal = [mem EXCEPT ![d].spec = "disabled"]
          BY <4>2 DEF Disable, SetEnabled, Take
        <5>2. QED
          BY <5>1, Zenon
      <4>3. QED
        BY <2>4, <4>1, <4>2
    <3>2. mem[e] \in Row
      BY <2>0
    <3>3. CASE d # e
      BY <2>0, <3>1, <3>3
    <3>4. CASE d = e
      <4>1. busy'.goal[e] = [mem[e] EXCEPT !.spec = s]
        BY <2>0, <3>1, <3>4
      <4>2. \A w \in Row : [w EXCEPT !.spec = s] \in Row /\ [w EXCEPT !.spec = s].def = w.def
        BY DEF Row
      <4>3. QED
        BY <3>2, <4>1, <4>2, ServiceAssumption
    <3>5. QED
      BY <3>3, <3>4
  <2>5. CASE Reset \/ Clear
    BY <2>5 DEF Reset, Clear, Take
  <2>6. QED
    BY <2>0, <2>1, <2>2, <2>3, <2>4, <2>5 DEF RegistryRequest
<1>4. QED
  BY <1>2, <1>3

(* The steps of the handler that holds registry_lock keep the invariant.   *)
LEMMA HandlerStep ==
    ASSUME LockInv, TypeOK', RegistryStep
    PROVE  LockInv'
<1> USE DEF LockInv
<1>1. CASE WriteDb \/ WipeDb \/ SeedDb \/ ApplyPVs \/ DbFails
  <2>1. UNCHANGED <<up, locks, version, mem>> /\ up
    BY <1>1 DEF WriteDb, WipeDb, SeedDb, ApplyPVs, DbFails
  <2>2. DownIsEmpty' /\ LiveLockRegistered' /\ AcquisitionsOrdered'
    BY <2>1 DEF DownIsEmpty, LiveLockRegistered, AcquisitionsOrdered
  <2>3. \/ busy'.stage \in {"idle", "seed", "pvs", "swap"}
        \/ busy.stage = "write" /\ busy'.goal = busy.goal
    BY <1>1 DEF WriteDb, WipeDb, SeedDb, ApplyPVs, DbFails, Idle, TypeOK, Work
  <2>4. QED
    BY <2>1, <2>2, <2>3 DEF PendingRespectsLocks
<1>2. CASE Publish
  BY <1>2 DEF Publish, Idle, DownIsEmpty, LiveLockRegistered, AcquisitionsOrdered,
              PendingRespectsLocks
<1>3. CASE Swap
  <2>1. ActiveLocks(locks') = {} /\ \A d \in Device : locks'[d] = NoLock
    BY <1>3, EmptyTableType DEF Swap, ActiveLocks, EmptyTable
  <2>2. QED
    BY <1>3, <2>1 DEF Swap, DownIsEmpty, LiveLockRegistered, AcquisitionsOrdered,
                      PendingRespectsLocks
<1>4. QED
  BY <1>1, <1>2, <1>3 DEF RegistryStep

LEMMA LockStepInv == LockInv /\ [Next]_vars => LockInv'
<1> SUFFICES ASSUME LockInv, [Next]_vars PROVE LockInv'
  OBVIOUS
<1>0. TypeOK /\ TypeOK'
  BY TypeStep DEF LockInv
<1>1. CASE Lifecycle
  <2>1. ActiveLocks(locks') = {} /\ \A d \in Device : locks'[d] = NoLock
    BY <1>1, EmptyTableType DEF Lifecycle, Start, Crash, ActiveLocks, EmptyTable
  <2>2. busy' = Idle
    BY <1>1 DEF Lifecycle, Start, Crash, LockInv, DownIsEmpty
  <2>3. DownIsEmpty'
    BY <1>1 DEF Lifecycle, Start, Crash, DownIsEmpty
  <2>4. QED
    BY <1>0, <2>1, <2>2, <2>3 DEF LockInv, LiveLockRegistered, AcquisitionsOrdered,
                                  PendingRespectsLocks, Idle
<1>2. CASE LockStep
  <2>0. version \in Nat
    BY <1>0 DEF TypeOK
  <2>1. ASSUME NEW D \in SUBSET Device, NEW i \in Item, Acquire(D, i) PROVE LockInv'
    BY <1>0, <2>1, AcquireStep
  <2>2. ASSUME NEW D \in SUBSET Device, NEW i \in Item, Renew(D, i) PROVE LockInv'
    <3>1. Shrinks(locks, locks')
      BY <1>0, <2>2, RenewedShrinks DEF Renew, TypeOK
    <3>2. QED
      BY <1>0, <2>0, <2>2, <3>1, ShrinkStep DEF Renew
  <2>3. ASSUME NEW D \in SUBSET Device, NEW i \in Item, Release(D, i) PROVE LockInv'
    <3>1. Shrinks(locks, locks')
      BY <1>0, <2>3, ReleasedShrinks DEF Release, TypeOK
    <3>2. QED
      BY <1>0, <2>0, <2>3, <3>1, ShrinkStep DEF Release
  <2>4. ASSUME NEW D \in SUBSET Device, ForceUnlock(D) PROVE LockInv'
    <3>1. Shrinks(locks, locks')
      BY <1>0, <2>4, ReleasedShrinks DEF ForceUnlock, TypeOK
    <3>2. QED
      BY <1>0, <2>0, <2>4, <3>1, ShrinkStep DEF ForceUnlock
  <2>5. ASSUME NEW e \in BOOLEAN, SetLockAll(e) PROVE LockInv'
    <3>1. Shrinks(locks, locks')
      BY <2>5 DEF SetLockAll, Shrinks
    <3>2. QED
      BY <1>0, <2>0, <2>5, <3>1, ShrinkStep DEF SetLockAll
  <2>6. CASE Tick
    <3>1. Shrinks(locks, locks')
      BY <1>0, <2>6, AgedShrinks DEF Tick, TypeOK
    <3>2. QED
      BY <1>0, <2>0, <2>6, <3>1, ShrinkStep DEF Tick
  <2>7. QED
    BY <1>2, <2>1, <2>2, <2>3, <2>4, <2>5, <2>6 DEF LockStep
<1>3. CASE RegistryRequest
  BY <1>0, <1>3, RequestStep
<1>4. CASE RegistryStep
  BY <1>0, <1>4, HandlerStep
<1>5. CASE UNCHANGED vars
  BY <1>0, <1>5 DEF vars, LockInv, DownIsEmpty, LiveLockRegistered, AcquisitionsOrdered,
                    PendingRespectsLocks
<1>6. QED
  BY <1>1, <1>2, <1>3, <1>4, <1>5 DEF Next

LEMMA LockInvariant == Spec => []LockInv
BY LockInit, LockStepInv, PTL DEF Spec

(* A live lock always names a registered device: no lock is orphaned by a  *)
(* delete, reset or clear, whatever else interleaves.                      *)
THEOREM NoOrphanedLock == Spec => []LiveLockRegistered
<1>1. LockInv => LiveLockRegistered
  BY DEF LockInv
<1>2. QED
  BY <1>1, LockInvariant, PTL

(* Acquisitions are ordered and each belongs to one item.                  *)
THEOREM AcquisitionOrder == Spec => []AcquisitionsOrdered
<1>1. LockInv => AcquisitionsOrdered
  BY DEF LockInv
<1>2. QED
  BY <1>1, LockInvariant, PTL

-----------------------------------------------------------------------------
(* What single steps do to the locks.                                      *)

(* A step acquires, or it only takes locks away.                           *)
LEMMA ShrinkOrAcquire ==
    ASSUME LockInv, [Next]_vars
    PROVE  \/ Shrinks(locks, locks')
           \/ \E D \in SUBSET Device, i \in Item : Acquire(D, i)
<1>0. locks \in Table
  BY DEF LockInv, TypeOK
<1>1. ASSUME UNCHANGED locks PROVE Shrinks(locks, locks')
  BY <1>1 DEF Shrinks
<1>2. ASSUME locks' = EmptyTable PROVE Shrinks(locks, locks')
  BY <1>2 DEF Shrinks, EmptyTable
<1>3. CASE Lifecycle
  BY <1>2, <1>3 DEF Lifecycle, Start, Crash
<1>4. CASE LockStep
  <2>1. ASSUME NEW D \in SUBSET Device, NEW i \in Item, Renew(D, i)
        PROVE  Shrinks(locks, locks')
    BY <1>0, <2>1, RenewedShrinks DEF Renew
  <2>2. ASSUME NEW D \in SUBSET Device, NEW i \in Item, Release(D, i)
        PROVE  Shrinks(locks, locks')
    BY <1>0, <2>2, ReleasedShrinks DEF Release
  <2>3. ASSUME NEW D \in SUBSET Device, ForceUnlock(D)
        PROVE  Shrinks(locks, locks')
    BY <1>0, <2>3, ReleasedShrinks DEF ForceUnlock
  <2>4. ASSUME NEW e \in BOOLEAN, SetLockAll(e)
        PROVE  Shrinks(locks, locks')
    BY <1>1, <2>4 DEF SetLockAll
  <2>5. CASE Tick
    BY <1>0, <2>5, AgedShrinks DEF Tick
  <2>6. QED
    BY <1>4, <2>1, <2>2, <2>3, <2>4, <2>5 DEF LockStep
<1>5. CASE RegistryRequest
  <2>1. ASSUME NEW d \in Device, NEW r \in Row, Create(d, r) \/ Update(d, r)
        PROVE  UNCHANGED locks
    BY <2>1 DEF Create, Update, Take
  <2>2. ASSUME NEW d \in Device, Enable(d) \/ Disable(d) \/ Delete(d)
        PROVE  UNCHANGED locks
    BY <2>2 DEF Enable, Disable, SetEnabled, Delete, Take
  <2>3. CASE Reset \/ Clear
    BY <1>1, <2>3 DEF Reset, Clear, Take
  <2>4. QED
    BY <1>1, <1>5, <2>1, <2>2, <2>3 DEF RegistryRequest
<1>6. CASE RegistryStep
  BY <1>1, <1>2, <1>6 DEF RegistryStep, WriteDb, WipeDb, SeedDb, ApplyPVs, DbFails, Publish, Swap
<1>7. CASE UNCHANGED vars
  BY <1>1, <1>7 DEF vars
<1>8. QED
  BY <1>3, <1>4, <1>5, <1>6, <1>7 DEF Next

LEMMA AcquireEffect ==
    ASSUME LockInv, NEW D \in SUBSET Device, NEW i \in Item, Acquire(D, i)
    PROVE  /\ \A d \in D : ~ Active(locks, d) /\ locks'[d] # NoLock /\ locks'[d].at = version + 1
           /\ \A d \in Device \ D : locks'[d] = locks[d]
           /\ version \in Nat
<1>1. locks \in Table /\ version \in Nat /\ version + 1 \in Nat
  BY DEF LockInv, TypeOK
<1>2. /\ \A d \in D : locks'[d] # NoLock /\ locks'[d].at = version + 1
      /\ \A d \in Device \ D : locks'[d] = locks[d]
  <2>1. PICK v \in Nat : v = version + 1
    BY <1>1
  <2>2. locks' = Acquired(locks, D, i, v)
    BY <2>1 DEF Acquire
  <2>3. /\ \A d \in D : locks'[d] = FreshLock(i, v) /\ locks'[d] # NoLock
        /\ \A d \in Device \ D : locks'[d] = locks[d]
    <3>1. FreshLock(i, v) # NoLock
      BY TableAssumption DEF FreshLock, Lock
    <3>2. QED
      BY <2>2, <3>1 DEF Acquired
  <2>4. QED
    BY <2>1, <2>3 DEF FreshLock
<1>3. \A d \in D : ~ Active(locks, d)
  <2>1. \A d \in D : Status(mem)[d] \in {"absent", "missing", "disabled", "active"}
    BY DEF LockInv, TypeOK, Registry, Row, Status
  <2>2. QED
    BY <2>1, AcquireAdmits DEF Acquire
<1>4. QED
  BY <1>1, <1>2, <1>3

(* A live lock changes hands only after it was given up or has lapsed.     *)
THEOREM NoSteal == Spec => LockChangesHandsWhenFree
<1>1. ASSUME LockInv, [Next]_vars, NEW d \in Device, Active(locks', d)
      PROVE  \/ Active(locks, d) /\ locks'[d].item = locks[d].item
                                 /\ locks'[d].at = locks[d].at
             \/ ~ Active(locks, d) /\ locks'[d].at > version
  <2>1. CASE Shrinks(locks, locks')
    BY <1>1, <2>1 DEF Shrinks, Active
  <2>2. ASSUME NEW D \in SUBSET Device, NEW i \in Item, Acquire(D, i)
        PROVE  \/ Active(locks, d) /\ locks'[d].item = locks[d].item
                                   /\ locks'[d].at = locks[d].at
               \/ ~ Active(locks, d) /\ locks'[d].at > version
    <3>1. CASE d \in D
      BY <1>1, <2>2, <3>1, AcquireEffect
    <3>2. CASE d \notin D
      BY <1>1, <2>2, <3>2, AcquireEffect DEF Active
    <3>3. QED
      BY <3>1, <3>2
  <2>3. QED
    BY <1>1, <2>1, <2>2, ShrinkOrAcquire
<1>2. LockInv /\ [Next]_vars =>
         [\A d \in Device :
             Active(locks', d) =>
               \/ Active(locks, d) /\ locks'[d].item = locks[d].item
                                   /\ locks'[d].at = locks[d].at
               \/ ~ Active(locks, d) /\ locks'[d].at > version]_vars
  BY <1>1
<1>3. QED
  BY <1>2, LockInvariant, PTL DEF Spec, LockChangesHandsWhenFree

(* The definition of a locked device does not change under its holder.     *)
THEOREM LockedDefinitions == Spec => LockedDefinitionStable
<1>1. ASSUME LockInv, [Next]_vars, NEW d \in Device, Active(locks, d), Active(locks', d)
      PROVE  mem'[d] # NoRow /\ mem'[d].def = mem[d].def
  <2>0. d \in ActiveLocks(locks) /\ mem[d] # NoRow
    BY <1>1 DEF ActiveLocks, LockInv, LiveLockRegistered
  <2>1. ASSUME UNCHANGED mem PROVE mem'[d] # NoRow /\ mem'[d].def = mem[d].def
    BY <2>0, <2>1
  <2>2. locks' # EmptyTable
    BY <1>1, EmptyTableType
  <2>3. CASE Lifecycle
    BY <2>2, <2>3 DEF Lifecycle, Start, Crash
  <2>4. CASE LockStep
    BY <2>1, <2>4 DEF LockStep, Acquire, Renew, Release, ForceUnlock, SetLockAll, Tick
  <2>5. CASE RegistryRequest
    <3>1. ASSUME NEW e \in Device, NEW r \in Row, Create(e, r) \/ Update(e, r)
          PROVE  UNCHANGED mem
      BY <3>1 DEF Create, Update, Take
    <3>2. ASSUME NEW e \in Device, Enable(e) \/ Disable(e) \/ Delete(e)
          PROVE  UNCHANGED mem
      BY <3>2 DEF Enable, Disable, SetEnabled, Delete, Take
    <3>3. CASE Reset \/ Clear
      BY <2>1, <3>3 DEF Reset, Clear, Take
    <3>4. QED
      BY <2>1, <2>5, <3>1, <3>2, <3>3 DEF RegistryRequest
  <2>6. CASE RegistryStep
    <3>1. CASE Publish
      BY <1>1, <2>0, <3>1 DEF Publish, LockInv, PendingRespectsLocks
    <3>2. CASE Swap
      BY <2>2, <3>2 DEF Swap
    <3>3. CASE WriteDb \/ WipeDb \/ SeedDb \/ ApplyPVs \/ DbFails
      BY <2>1, <3>3 DEF WriteDb, WipeDb, SeedDb, ApplyPVs, DbFails
    <3>4. QED
      BY <2>6, <3>1, <3>2, <3>3 DEF RegistryStep
  <2>7. CASE UNCHANGED vars
    BY <2>1, <2>7 DEF vars
  <2>8. QED
    BY <1>1, <2>3, <2>4, <2>5, <2>6, <2>7 DEF Next
<1>2. LockInv /\ [Next]_vars =>
         [\A d \in Device :
             (Active(locks, d) /\ Active(locks', d)) =>
                mem'[d] # NoRow /\ mem'[d].def = mem[d].def]_vars
  BY <1>1
<1>3. QED
  BY <1>2, LockInvariant, PTL DEF Spec, LockedDefinitionStable

(* The plan reported under lock_all does not flap.                         *)
THEOREM HolderDoesNotFlap == Spec => HolderStable
<1> DEFINE Earliest(t, d) == Active(t, d) /\ \A e \in ActiveLocks(t) : t[d].at <= t[e].at
<1>1. ASSUME NEW t \in Table, NEW d \in Device, Earliest(t, d),
             \A a, b \in Device : (t[a] # NoLock /\ t[b] # NoLock /\ t[a].at = t[b].at)
                                     => t[a].item = t[b].item
      PROVE  GlobalHolder(t) = {t[d].item}
  <2>1. \A e \in ActiveLocks(t) : e \in Device /\ t[e] # NoLock /\ t[e].at \in Int
    BY <1>1 DEF ActiveLocks, Active, Table, Lock
  <2>2. d \in ActiveLocks(t)
    BY <1>1 DEF ActiveLocks
  <2>3. \A e \in ActiveLocks(t) :
           (\A f \in ActiveLocks(t) : t[e].at <= t[f].at) => t[e].item = t[d].item
    BY <1>1, <2>1, <2>2
  <2>4. QED
    BY <1>1, <2>2, <2>3 DEF GlobalHolder
<1>2. ASSUME LockInv, LockInv', [Next]_vars, NEW d \in Device, Earliest(locks, d), Active(locks', d)
      PROVE  GlobalHolder(locks') = GlobalHolder(locks)
  <2>0. locks \in Table /\ locks' \in Table
    BY <1>2 DEF LockInv, TypeOK
  <2>1. Earliest(locks', d) /\ locks'[d].item = locks[d].item
    <3>1. CASE Shrinks(locks, locks')
      <4>1. \A e \in ActiveLocks(locks') :
               e \in ActiveLocks(locks) /\ locks'[e].at = locks[e].at
        BY <3>1 DEF Shrinks, ActiveLocks, Active
      <4>2. d \in ActiveLocks(locks') /\ locks'[d].item = locks[d].item
        BY <1>2, <3>1 DEF ActiveLocks, Shrinks, Active
      <4>3. QED
        BY <1>2, <4>1, <4>2
    <3>2. ASSUME NEW D \in SUBSET Device, NEW i \in Item, Acquire(D, i)
          PROVE  Earliest(locks', d) /\ locks'[d].item = locks[d].item
      <4>1. d \notin D /\ locks'[d] = locks[d]
        BY <1>2, <3>2, AcquireEffect
      <4>2. locks[d].at <= version /\ locks[d].at \in Nat /\ version \in Nat
        BY <1>2, <2>0, <3>2, AcquireEffect
           DEF LockInv, AcquisitionsOrdered, Active, Table, Lock
      <4>3. ASSUME NEW e \in ActiveLocks(locks') PROVE locks'[d].at <= locks'[e].at
        <5>1. CASE e \in D
          BY <1>2, <3>2, <4>1, <4>2, <5>1, AcquireEffect
        <5>2. CASE e \notin D
          <6>1. e \in Device /\ locks'[e] = locks[e] /\ e \in ActiveLocks(locks)
            BY <1>2, <3>2, <4>3, <5>2, AcquireEffect DEF ActiveLocks, Active
          <6>2. QED
            BY <1>2, <4>1, <6>1
        <5>3. QED
          BY <5>1, <5>2
      <4>4. QED
        BY <1>2, <4>1, <4>3
    <3>3. QED
      BY <1>2, <3>1, <3>2, ShrinkOrAcquire
  <2>2. GlobalHolder(locks) = {locks[d].item}
    BY <1>1, <1>2, <2>0 DEF LockInv, AcquisitionsOrdered
  <2>3. GlobalHolder(locks') = {locks'[d].item}
    BY <1>1, <1>2, <2>0, <2>1 DEF LockInv, AcquisitionsOrdered
  <2>4. QED
    BY <2>1, <2>2, <2>3
<1>3. LockInv /\ LockInv' /\ [Next]_vars =>
         [\A d \in Device :
             ( /\ Active(locks, d) /\ Active(locks', d)
               /\ \A e \in ActiveLocks(locks) : locks[d].at <= locks[e].at )
             => GlobalHolder(locks') = GlobalHolder(locks)]_vars
  BY <1>2
<1>4. QED
  BY <1>3, LockInvariant, PTL DEF Spec, HolderStable

-----------------------------------------------------------------------------
(* Memory and database.  Where each handler stands, the database is what   *)
(* its steps so far have written; this needs the re-seeding transaction    *)
(* and the standalone PVs that follow it not to fail: see ReseedReliable.   *)

ReseedReliable == DbFaults \subseteq {"write", "wipe"}

PersistInv ==
    /\ TypeOK
    /\ DownIsEmpty
    /\ ~ up => seeded \/ db = Empty
    /\ (up /\ busy.stage \in {"idle", "write", "wipe"}) => seeded /\ mem = db
    /\ busy.stage = "write" => \A d \in Device \ busy.scope : busy.goal[d] = mem[d]
    /\ busy.stage = "seed" => db = Empty
    /\ busy.stage \in {"pvs", "mem", "swap"} => seeded /\ db = busy.goal

LEMMA PersistInit == Init => PersistInv
BY TypeInit DEF Init, PersistInv, DownIsEmpty, Idle

LEMMA PersistStep == ReseedReliable /\ PersistInv /\ [Next]_vars => PersistInv'
<1> SUFFICES ASSUME ReseedReliable, PersistInv, [Next]_vars PROVE PersistInv'
  OBVIOUS
<1>0. TypeOK /\ TypeOK' /\ DownIsEmpty
  BY TypeStep DEF PersistInv
<1>1. CASE Start
  <2>1. busy = Idle /\ busy' = Idle /\ up' /\ seeded'
    BY <1>0, <1>1 DEF Start, DownIsEmpty
  <2>2. mem' = db'
    <3>1. CASE seeded
      BY <1>1, <3>1 DEF Start
    <3>2. CASE ~ seeded
      <4>1. db = Empty
        BY <1>1, <3>2 DEF Start, PersistInv
      <4>2. Merged(Empty, Profile) = Profile
        BY ServiceAssumption DEF Merged, Empty, Registry
      <4>3. QED
        BY <1>1, <3>2, <4>1, <4>2 DEF Start
    <3>3. QED
      BY <3>1, <3>2
  <2>3. QED
    BY <1>0, <2>1, <2>2 DEF PersistInv, DownIsEmpty, Idle
<1>2. CASE Crash
  <2>1. ~ up' /\ busy' = Idle /\ DownIsEmpty' /\ UNCHANGED <<db, seeded>>
    BY <1>2 DEF Crash, DownIsEmpty
  <2>2. seeded \/ db = Empty
    BY <1>0, <1>2 DEF Crash, PersistInv, TypeOK, Work, DbStages
  <2>3. QED
    BY <1>0, <2>1, <2>2 DEF PersistInv, Idle
<1>3. CASE LockStep
  <2>1. up /\ UNCHANGED <<up, mem, db, seeded, busy>>
    BY <1>3 DEF LockStep, Acquire, Renew, Release, ForceUnlock, SetLockAll, Tick, Free
  <2>2. QED
    BY <1>0, <2>1 DEF PersistInv, DownIsEmpty
<1>4. CASE RegistryRequest
  <2>1. /\ up /\ busy.stage = "idle" /\ UNCHANGED <<up, mem, db, seeded>>
        /\ \/ busy'.stage = "wipe"
           \/ /\ busy'.stage = "write"
              /\ \A d \in Device \ busy'.scope : busy'.goal[d] = mem[d]
    <3>0. mem \in [Device -> Row \cup {NoRow}]
      BY <1>0 DEF TypeOK, Registry
    <3> DEFINE Planned(d) ==
           /\ Free /\ UNCHANGED <<up, mem, db, seeded>>
           /\ busy'.stage = "write" /\ busy'.scope = {d}
           /\ \A e \in Device \ {d} : busy'.goal[e] = mem[e]
    <3>1. ASSUME NEW d \in Device, NEW r \in Row, Create(d, r) \/ Update(d, r)
          PROVE  Planned(d)
      BY <3>0, <3>1 DEF Create, Update, Take
    <3>2. ASSUME NEW d \in Device, Delete(d)
          PROVE  Planned(d)
      BY <3>0, <3>2 DEF Delete, Take
    <3>3. ASSUME NEW d \in Device, NEW from, NEW to, SetEnabled(d, from, to)
          PROVE  Planned(d)
      <4>1. busy'.goal = [mem EXCEPT ![d] = [mem[d] EXCEPT !.spec = to]]
        BY <3>3 DEF SetEnabled, Take
      <4>2. \A e \in Device \ {d} : busy'.goal[e] = mem[e]
        BY <3>0, <4>1
      <4>3. QED
        BY <3>3, <4>2 DEF SetEnabled, Take
    <3>4. CASE Reset \/ Clear
      BY <3>4 DEF Reset, Clear, Take, Free
    <3>5. QED
      BY <1>4, <3>1, <3>2, <3>3, <3>4 DEF RegistryRequest, Enable, Disable, Free
  <2>2. QED
    BY <1>0, <2>1 DEF PersistInv, DownIsEmpty
<1>5. CASE WriteDb
  <2>1. db' = busy.goal
    <3>1. \A d \in Device : db'[d] = busy.goal[d]
      BY <1>5 DEF WriteDb, PersistInv
    <3>2. db' \in [Device -> Row \cup {NoRow}] /\ busy.goal \in [Device -> Row \cup {NoRow}]
      BY <1>0 DEF TypeOK, Work, Registry
    <3>3. QED
      BY <3>1, <3>2
  <2>2. busy'.stage = "mem" /\ busy'.goal = busy.goal /\ up' /\ seeded'
    BY <1>0, <1>5 DEF WriteDb, TypeOK, Work, PersistInv
  <2>3. QED
    BY <1>0, <2>1, <2>2 DEF PersistInv, DownIsEmpty
<1>6. CASE WipeDb
  <2>1. busy'.stage = "seed" /\ db' = Empty /\ up'
    BY <1>0, <1>6 DEF WipeDb, TypeOK, Work
  <2>2. QED
    BY <1>0, <2>1 DEF PersistInv, DownIsEmpty
<1>7. CASE SeedDb
  <2>1. busy'.stage = "pvs" /\ busy'.goal = busy.goal /\ db' = busy.goal /\ up' /\ seeded'
    BY <1>0, <1>7 DEF SeedDb, TypeOK, Work
  <2>2. QED
    BY <1>0, <2>1 DEF PersistInv, DownIsEmpty
<1>8. CASE ApplyPVs
  <2>1. busy'.stage = "swap" /\ busy'.goal = busy.goal /\ UNCHANGED <<db, seeded, up>> /\ up
    BY <1>0, <1>8 DEF ApplyPVs, TypeOK, Work
  <2>2. QED
    BY <1>0, <1>8, <2>1 DEF PersistInv, DownIsEmpty, ApplyPVs
<1>9. CASE DbFails
  <2>1. busy.stage \in {"write", "wipe"} /\ busy' = Idle /\ UNCHANGED <<up, mem, db, seeded>> /\ up
    BY <1>9 DEF DbFails, ReseedReliable
  <2>2. QED
    BY <1>0, <2>1 DEF PersistInv, DownIsEmpty, Idle
<1>10. CASE Publish \/ Swap
  <2>1. /\ busy.stage \in {"mem", "swap"} /\ mem' = busy.goal /\ busy' = Idle
        /\ up /\ UNCHANGED <<up, db, seeded>>
    BY <1>10 DEF Publish, Swap
  <2>2. QED
    BY <1>0, <2>1 DEF PersistInv, DownIsEmpty, Idle
<1>11. CASE UNCHANGED vars
  BY <1>0, <1>11 DEF vars, PersistInv, DownIsEmpty
<1>12. QED
  BY <1>1, <1>2, <1>3, <1>4, <1>5, <1>6, <1>7, <1>8, <1>9, <1>10, <1>11
     DEF Next, Lifecycle, RegistryStep

(* With a reliable re-seed, memory equals the database whenever no registry *)
(* handler is at work, through failed writes and crashes.                   *)
THEOREM Persistence ==
    ASSUME ReseedReliable
    PROVE  Spec => []MemoryMatchesDb
<1>1. PersistInv => MemoryMatchesDb
  BY DEF PersistInv, MemoryMatchesDb, Free
<1>2. PersistInv /\ [Next]_vars => PersistInv'
  BY PersistStep
<1>3. QED
  BY <1>1, <1>2, PersistInit, PTL DEF Spec

(* With a reliable re-seed, a stopped process can always start again.       *)
THEOREM Restartable ==
    ASSUME ReseedReliable
    PROVE  Spec => []RestartCanLoad
<1>1. PersistInv => RestartCanLoad
  BY DEF PersistInv, RestartCanLoad, SeedCollides, Empty
<1>2. PersistInv /\ [Next]_vars => PersistInv'
  BY PersistStep
<1>3. QED
  BY <1>1, <1>2, PersistInit, PTL DEF Spec

-----------------------------------------------------------------------------
(* Refinement: every step of the service is a step of DeviceOwnership or    *)
(* changes no owner.                                                        *)

THEOREM Refinement == Spec => ImplementsOwnership
<1>1. Init => Ownership!Init
  <2> SUFFICES ASSUME Init PROVE OwnerOf(locks) = [d \in Device |-> NoLock]
    BY DEF Ownership!Init
  <2>1. \A d \in Device : ~ Active(locks, d)
    BY EmptyTableType DEF Init
  <2>2. QED
    BY <2>1 DEF OwnerOf
<1>2. ASSUME LockInv, [Next]_vars
      PROVE  Ownership!Next
  <2>1. CASE Shrinks(locks, locks')
    <3> DEFINE D == {d \in Device : Active(locks, d) /\ ~ Active(locks', d)}
    <3>1. \A d \in Device : OwnerOf(locks')[d] = IF d \in D THEN NoLock ELSE OwnerOf(locks)[d]
      <4>1. \A d \in Device : Active(locks', d) =>
               Active(locks, d) /\ locks'[d].item = locks[d].item
        BY <2>1 DEF Shrinks, Active
      <4>2. QED
        BY <4>1 DEF OwnerOf
    <3>2. OwnerOf(locks') = [d \in Device |-> IF d \in D THEN NoLock ELSE OwnerOf(locks)[d]]
      BY <3>1 DEF OwnerOf
    <3>3. Ownership!Withdraw(D)
      BY <3>2 DEF Ownership!Withdraw
    <3>4. QED
      BY <3>3 DEF Ownership!Next
  <2>2. ASSUME NEW D \in SUBSET Device, NEW i \in Item, Acquire(D, i)
        PROVE  Ownership!Next
    <3>1. /\ \A d \in D : ~ Active(locks, d)
          /\ \A d \in Device \ D : locks'[d] = locks[d]
      BY <1>2, <2>2, AcquireEffect
    <3>2. \A d \in D : Active(locks', d) => locks'[d].item = i
      BY <2>2 DEF Acquire, Acquired, FreshLock
    <3>3. \A d \in D : Active(locks', d)
      <4>1. \A d \in D : locks'[d] = FreshLock(i, version + 1)
        BY <2>2 DEF Acquire, Acquired
      <4>2. \A d \in D : locks'[d] # NoLock
        BY <1>2, <2>2, AcquireEffect
      <4>3. \A d \in D : locks'[d].left = LeaseTTL
        BY <4>1 DEF FreshLock
      <4>4. QED
        BY <4>2, <4>3 DEF Active, IsExpired
    <3>4. \A d \in Device : OwnerOf(locks')[d] = IF d \in D THEN i ELSE OwnerOf(locks)[d]
      BY <3>1, <3>2, <3>3 DEF OwnerOf, Active
    <3>5. OwnerOf(locks') = [d \in Device |-> IF d \in D THEN i ELSE OwnerOf(locks)[d]]
      BY <3>4 DEF OwnerOf
    <3>6. \A d \in D : OwnerOf(locks)[d] = NoLock
      BY <3>1 DEF OwnerOf
    <3>7. Ownership!Grant(D, i)
      BY <3>5, <3>6 DEF Ownership!Grant
    <3>8. QED
      BY <3>7 DEF Ownership!Next
  <2>3. QED
    BY <1>2, <2>1, <2>2, ShrinkOrAcquire
<1>3. LockInv /\ [Next]_vars => [Ownership!Next]_(OwnerOf(locks))
  BY <1>2
<1>4. QED
  BY <1>1, <1>3, LockInvariant, PTL DEF Spec, ImplementsOwnership, Ownership!Spec

-----------------------------------------------------------------------------
(* The feed.                                                               *)

LEMMA ServiceUnderneath == [FeedNext]_feedVars => [Next]_vars
<1>1. clientOnly => UNCHANGED vars
  BY DEF clientOnly
<1>2. ClientStep => UNCHANGED vars
  BY <1>1 DEF ClientStep, Prefetch, Sync, SyncAgain, SyncFails, Close, Ask, ReadVersion,
     ReadChanges, Refetch, Apply, Reload, CheckFails, PlanDone
<1>3. ServiceStep => [Next]_vars
  BY DEF ServiceStep, ServiceStart, ServiceCrash, LoggedWrite, LoggedWipe, LoggedSeed,
     WriteFails, LogLockEvent, MemoryStep, Next, Lifecycle, RegistryStep
<1>4. UNCHANGED feedVars => UNCHANGED vars
  BY DEF feedVars
<1>5. QED
  BY <1>2, <1>3, <1>4 DEF FeedNext

-----------------------------------------------------------------------------
(* Types of the pieces.                                                    *)

LEMMA SpecsTyped ==
    /\ NoSpecs \in Specs
    /\ \A r \in Registry : ActiveSpecs(r) \in Specs
    /\ \A o \in Specs, p \in Plan : Patched(o, p) \in Specs
BY DEF NoSpecs, Specs, ActiveSpecs, Registry, Row, Patched, Plan

LEMMA NoPlanTyped == NoPlan \in Plan /\ NoPlan.cursor = 0
BY FeedAssumption, SpecsTyped DEF NoPlan, Plan

-----------------------------------------------------------------------------
(* The audit log.  Its ids are numbered without gaps from 1, so that the    *)
(* version the service answers with is the last id given out, and whatever  *)
(* is appended later is beyond it.                                          *)

Numbered == {e.id : e \in log} = 1..(nextId - 1)

LEMMA VersionIsLast ==
    ASSUME nextId \in 1..(MaxId + 1), Numbered
    PROVE  CurrentVersion = nextId - 1
<1> USE FeedAssumption
<1> DEFINE Ids == {e.id : e \in log}
<1>1. CASE log = {}
  <2>1. Ids = {}
    BY <1>1
  <2>2. nextId = 1
    <3> SUFFICES ASSUME nextId # 1 PROVE FALSE
      OBVIOUS
    <3>1. 1 \in 1..(nextId - 1)
      OBVIOUS
    <3>2. QED
      BY <2>1, <3>1 DEF Numbered
  <2>3. QED
    BY <1>1, <2>2 DEF CurrentVersion
<1>2. CASE log # {}
  <2>1. Ids # {} /\ Ids = 1..(nextId - 1)
    BY <1>2 DEF Numbered
  <2>2. nextId - 1 \in Ids
    BY <2>1
  <2>3. \A e \in log : e.id \in Ids /\ e.id <= nextId - 1
    BY <2>1
  <2>4. \A n \in Ids : (\A e \in log : e.id <= n) => n = nextId - 1
    BY <2>1, <2>2
  <2>5. CurrentVersion = CHOOSE n \in Ids : \A e \in log : e.id <= n
    BY <1>2 DEF CurrentVersion
  <2>6. QED
    BY <2>2, <2>3, <2>4, <2>5
<1>3. QED
  BY <1>1, <1>2

(* A seeding of r: what AppendSeeds adds, and to which numbers.             *)
LEMMA SeedsNumbered ==
    ASSUME NEW r \in Registry, AppendSeeds(r), nextId \in 1..(MaxId + 1), Numbered
    PROVE  /\ nextId' \in 1..(MaxId + 1) /\ nextId <= nextId'
           /\ stamp' = nextId
           /\ Numbered'
           /\ log \subseteq log'
           /\ \A e \in log' \ log : e \in Entry /\ e.op = "seed" /\ e.id >= nextId
           /\ \A d \in Device : r[d] # NoRow =>
                 \E e \in log' : e.id >= nextId /\ e.name = d /\ e.op = "seed"
<1> USE FeedAssumption
<1> DEFINE seeds == {d \in Device : r[d] # NoRow}
           c == Cardinality(seeds)
           I == nextId..(nextId + c - 1)
<1>1. IsFiniteSet(seeds) /\ c \in Nat
  BY FS_Subset, FS_CardinalityType
<1>2. PICK number \in [seeds -> I] :
         /\ \A d, e \in seeds : d # e => number[d] # number[e]
         /\ log' = log \cup {[id |-> number[d], op |-> "seed", name |-> d] : d \in seeds}
  BY DEF AppendSeeds
<1>3. nextId' = nextId + c /\ nextId + c <= MaxId + 1 /\ stamp' = nextId
  BY DEF AppendSeeds
<1>4. {number[d] : d \in seeds} = I
  <2>1. IsFiniteSet(I) /\ Cardinality(I) = c
    <3> HIDE DEF c
    <3>1. nextId \in Int /\ nextId + c - 1 \in Int
      BY <1>1
    <3>2. QED
      BY <1>1, <3>1, FS_Interval
  <2>2. number \in Injection(seeds, I)
    BY <1>2 DEF Injection, IsInjective
  <2>3. number \in Surjection(seeds, I)
    BY <2>1, <2>2, FS_Injection
  <2>4. QED
    BY <1>2, <2>3 DEF Surjection
<1> DEFINE new == {[id |-> number[d], op |-> "seed", name |-> d] : d \in seeds}
<1>5. {e.id : e \in new} = {number[d] : d \in seeds}
  <2>1. \A d \in seeds : [id |-> number[d], op |-> "seed", name |-> d].id = number[d]
    OBVIOUS
  <2>2. QED
    BY <2>1
<1>6. {e.id : e \in log'} = {e.id : e \in log} \cup {e.id : e \in new}
  BY <1>2
<1> HIDE DEF c
<1>7. Numbered'
  <2>1. {e.id : e \in log'} = 1..(nextId - 1) \cup I
    BY <1>4, <1>5, <1>6 DEF Numbered
  <2>2. 1..(nextId - 1) \cup I = 1..(nextId + c - 1)
    BY <1>1
  <2>3. QED
    BY <1>1, <1>3, <2>1, <2>2 DEF Numbered
<1>8. ASSUME NEW e \in log' \ log
      PROVE  e \in Entry /\ e.op = "seed" /\ e.id >= nextId
  <2>1. PICK d \in seeds : e = [id |-> number[d], op |-> "seed", name |-> d]
    BY <1>2
  <2>2. number[d] \in I /\ I \subseteq 1..MaxId
    BY <1>1, <1>2, <1>3
  <2>3. QED
    BY <2>1, <2>2, <1>1 DEF Entry
<1>9. ASSUME NEW d \in Device, r[d] # NoRow
      PROVE  \E e \in log' : e.id >= nextId /\ e.name = d /\ e.op = "seed"
  <2>1. number[d] \in I
    BY <1>2, <1>9
  <2>2. [id |-> number[d], op |-> "seed", name |-> d] \in log'
    BY <1>2, <1>9
  <2>3. QED
    BY <1>1, <2>1, <2>2
<1>10. QED
  BY <1>1, <1>2, <1>3, <1>7, <1>8, <1>9

(* One entry.                                                               *)
LEMMA EntryNumbered ==
    ASSUME NEW op, NEW name, op \in {"save", "delete", "reset", "lock"}, name \in Device \cup {"*"},
           Append1(op, name), nextId \in 1..(MaxId + 1), Numbered
    PROVE  /\ nextId' \in 1..(MaxId + 1) /\ nextId <= nextId'
           /\ Numbered'
           /\ log \subseteq log'
           /\ \A e \in log' \ log : e \in Entry /\ e.op = op /\ e.id = nextId
           /\ \E e \in log' : e.id = nextId /\ e.name = name /\ e.op = op
<1> USE FeedAssumption
<1> DEFINE new == [id |-> nextId, op |-> op, name |-> name]
<1>1. log' = log \cup {new} /\ nextId' = nextId + 1 /\ nextId <= MaxId
  BY DEF Append1
<1>2. {e.id : e \in log'} = {e.id : e \in log} \cup {nextId}
  <2>1. new.id = nextId
    OBVIOUS
  <2>2. QED
    BY <1>1, <2>1, Zenon
<1>3. Numbered'
  <2>1. 1..(nextId - 1) \cup {nextId} = 1..nextId
    OBVIOUS
  <2>2. nextId' - 1 = nextId
    BY <1>1
  <2>3. QED
    BY <1>2, <2>1, <2>2 DEF Numbered
<1>4. new \in Entry
  BY <1>1 DEF Entry
<1>5. QED
  BY <1>1, <1>3, <1>4

-----------------------------------------------------------------------------
(* What every step keeps of the log and the cursors.                        *)

(* The handler that writes a row writes one row: an edit and its entry are  *)
(* about the same device.                                                   *)
OneRow == busy.stage = "write" => \E d \in Device : busy.scope = {d}

(* No position the client has taken is beyond the last id given out.        *)
CursorsKnown == cursor < nextId /\ plan.cursor < nextId

LogInv ==
    /\ TypeOK
    /\ FeedTypeOK
    /\ OneRow
    /\ Numbered
    /\ CursorsKnown

LEMMA OneRowStep == TypeOK /\ OneRow /\ [Next]_vars => OneRow'
<1> SUFFICES ASSUME TypeOK, OneRow, [Next]_vars PROVE OneRow'
  OBVIOUS
<1>1. CASE RegistryRequest
  BY <1>1 DEF RegistryRequest, Create, Update, Enable, Disable, SetEnabled, Delete, Reset,
     Clear, Take, OneRow
<1>2. CASE RegistryStep
  BY <1>2 DEF RegistryStep, WriteDb, WipeDb, SeedDb, ApplyPVs, DbFails, Publish, Swap, Idle,
     OneRow, TypeOK, Work
<1>3. CASE Lifecycle \/ LockStep
  BY <1>3 DEF Lifecycle, Start, Crash, LockStep, Acquire, Renew, Release, ForceUnlock,
     SetLockAll, Tick, Idle, OneRow
<1>4. CASE UNCHANGED vars
  BY <1>4 DEF vars, OneRow
<1>5. QED
  BY <1>1, <1>2, <1>3, <1>4 DEF Next

(* A step of the service leaves the client alone and appends to the log,    *)
(* beyond everything in it.                                                 *)
LEMMA ServiceAppends ==
    ASSUME LogInv, ServiceStep
    PROVE  /\ UNCHANGED <<pc, cursor, known, plan, overlay>>
           /\ nextId' \in 1..(MaxId + 1) /\ nextId <= nextId'
           /\ stamp' \in 0..(MaxId + 1)
           /\ log' \subseteq Entry /\ log \subseteq log'
           /\ \A e \in log' \ log : e.id >= nextId
           /\ Numbered'
<1> USE FeedAssumption
<1>0. nextId \in 1..(MaxId + 1) /\ stamp \in 0..(MaxId + 1) /\ log \subseteq Entry /\ Numbered
  BY DEF LogInv, FeedTypeOK
<1> DEFINE Quiet == UNCHANGED audit /\ UNCHANGED <<pc, cursor, known, plan, overlay>>
           Added == /\ nextId' \in 1..(MaxId + 1) /\ nextId <= nextId'
                    /\ Numbered'
                    /\ log \subseteq log'
                    /\ \A e \in log' \ log : e \in Entry /\ e.id >= nextId
           Alone == UNCHANGED <<pc, cursor, known, plan, overlay>>
<1>1. ASSUME Quiet PROVE Alone /\ Added /\ stamp' = stamp
  BY <1>0, <1>1 DEF audit, Numbered
<1>2. ASSUME NEW r \in Registry, AppendSeeds(r) PROVE Added /\ stamp' = nextId
  BY <1>0, <1>2, SeedsNumbered
<1>3. ASSUME NEW op \in {"save", "delete", "reset", "lock"}, NEW name \in Device \cup {"*"},
             Append1(op, name)
      PROVE  Added
  BY <1>0, <1>3, EntryNumbered
<1>4. Added /\ Alone /\ stamp' \in {0, stamp, nextId}
  <2>1. CASE ServiceStart
    <3>1. CASE seeded
      BY <1>1, <2>1, <3>1 DEF ServiceStart, clientIdle
    <3>2. CASE ~ seeded
      BY <1>2, <2>1, <3>2, ServiceAssumption DEF ServiceStart, clientIdle
    <3>3. QED
      BY <3>1, <3>2
  <2>2. CASE ServiceCrash \/ WriteFails \/ MemoryStep
    BY <1>1, <2>2 DEF ServiceCrash, WriteFails, MemoryStep, client
  <2>3. CASE LoggedWrite
    <3>1. PICK d \in busy.scope : Append1(IF busy.goal[d] = NoRow THEN "delete" ELSE "save", d)
      BY <2>3 DEF LoggedWrite
    <3>2. d \in Device
      BY DEF LogInv, TypeOK, Work
    <3>3. QED
      BY <1>3, <2>3, <3>1, <3>2 DEF LoggedWrite, clientIdle
  <2>4. CASE LoggedWipe
    BY <1>3, <2>4 DEF LoggedWipe, clientIdle
  <2>5. CASE LoggedSeed
    BY <1>2, <2>5 DEF LoggedSeed, clientIdle, LogInv, TypeOK, Work
  <2>6. CASE LogLockEvent
    BY <1>3, <2>6 DEF LogLockEvent, client, Append1
  <2>7. QED
    BY <2>1, <2>2, <2>3, <2>4, <2>5, <2>6 DEF ServiceStep
<1>5. QED
  BY <1>0, <1>4

(* What the client writes into its variables is of their types, and its new *)
(* cursors are ids that have been given out.                                *)
LEMMA PlansTyped ==
    ASSUME LogInv
    PROVE  /\ CurrentVersion \in 0..MaxId /\ CurrentVersion < nextId
           /\ \A b \in BOOLEAN : [VersionRead EXCEPT !.replace = b] \in Plan
           /\ VersionRead \in Plan /\ VersionRead.cursor = CurrentVersion
           /\ StalenessPlan \in Plan /\ StalenessPlan.cursor = plan.cursor
           /\ ActiveSpecs(db) \in Specs
           /\ ActiveSpecs(mem) \in Specs
<1> USE FeedAssumption
<1>1. CurrentVersion \in 0..MaxId /\ CurrentVersion < nextId
  BY VersionIsLast DEF LogInv, FeedTypeOK
<1>2. ActiveSpecs(db) \in Specs /\ ActiveSpecs(mem) \in Specs
  BY SpecsTyped DEF LogInv, TypeOK
<1>3. VersionRead \in Plan /\ VersionRead.cursor = CurrentVersion
  BY <1>1, NoPlanTyped DEF VersionRead, LogInv, FeedTypeOK, Plan
<1>4. \A b \in BOOLEAN : [VersionRead EXCEPT !.replace = b] \in Plan
  BY <1>3 DEF Plan
<1>5. StalenessPlan \in Plan /\ StalenessPlan.cursor = plan.cursor
  <2> DEFINE b == ResetOccurred(cursor) \/ plan.stamp # known
  <2>1. b \in BOOLEAN /\ ChangedSince(cursor) \in SUBSET Device /\ plan \in Plan
    BY DEF ChangedSince, LogInv, FeedTypeOK
  <2>2. StalenessPlan = [plan EXCEPT !.replace = b, !.changed = ChangedSince(cursor),
                                     !.specs = ActiveSpecs(db)]
    BY DEF StalenessPlan
  <2> HIDE DEF b
  <2>3. QED
    BY <1>2, <2>1, <2>2 DEF Plan
<1>6. QED
  BY <1>1, <1>2, <1>3, <1>4, <1>5

LEMMA ClientKeepsLog ==
    ASSUME LogInv, ClientStep
    PROVE  UNCHANGED <<vars, audit>> /\ FeedTypeOK' /\ CursorsKnown'
<1> USE FeedAssumption, SpecsTyped, NoPlanTyped
<1>0. FeedTypeOK /\ CursorsKnown /\ nextId \in Nat /\ 0 < nextId
  BY DEF LogInv, FeedTypeOK
<1> DEFINE Kept ==
      /\ pc' \in {"closed", "spawning", "open", "asked", "reading", "refetch", "apply",
                  "reload", "running"}
      /\ cursor' \in 0..MaxId /\ cursor' < nextId
      /\ known' \in 0..(MaxId + 1)
      /\ plan' \in Plan /\ plan'.cursor < nextId
      /\ overlay' \in Specs
      /\ since' \subseteq Specs
<1>u. UNCHANGED <<vars, audit>>
  BY DEF ClientStep, Prefetch, Sync, SyncAgain, SyncFails, Close, Ask, ReadVersion,
     ReadChanges, Refetch, Apply, Reload, CheckFails, PlanDone, clientOnly
<1> SUFFICES Kept
  BY <1>0, <1>u DEF FeedTypeOK, CursorsKnown, audit
<1>1. CASE Prefetch
  BY <1>0, <1>1, PlansTyped DEF Prefetch, FeedTypeOK, CursorsKnown
<1>2. CASE Sync \/ SyncAgain \/ Reload
  BY <1>0, <1>2, PlansTyped DEF Sync, SyncAgain, Reload, SyncTo, FeedTypeOK,
     CursorsKnown
<1>3. CASE SyncFails \/ Close \/ PlanDone \/ CheckFails
  BY <1>0, <1>3 DEF SyncFails, Close, PlanDone, CheckFails, FeedTypeOK, CursorsKnown
<1>4. CASE Ask
  BY <1>0, <1>4, PlansTyped DEF Ask, FeedTypeOK, CursorsKnown
<1>5. ASSUME NEW p \in Plan, Decide(p), p.cursor < nextId
      PROVE  /\ plan' \in Plan /\ plan'.cursor < nextId
             /\ pc' \in {"running", "refetch", "apply"}
  BY <1>0, <1>5 DEF Decide
<1>6. CASE ReadVersion
  <2> DEFINE b == stamp # known
  <2>1. b \in BOOLEAN
    OBVIOUS
  <2> HIDE DEF b
  <2>2. [VersionRead EXCEPT !.replace = b] \in Plan
    BY <2>1, PlansTyped
  <2>3. [VersionRead EXCEPT !.replace = b].cursor < nextId
    BY PlansTyped DEF Plan
  <2>4. plan' \in Plan /\ plan'.cursor < nextId /\ pc' \in {"reading", "running", "refetch", "apply"}
    <3>1. \/ pc' = "reading" /\ plan' = VersionRead
          \/ Decide([VersionRead EXCEPT !.replace = b])
      BY <1>6 DEF ReadVersion, b
    <3>2. QED
      BY <1>5, <2>2, <2>3, <3>1, PlansTyped
  <2>5. QED
    BY <1>0, <1>6, <2>4 DEF ReadVersion, FeedTypeOK, CursorsKnown
<1>7. CASE ReadChanges
  BY <1>0, <1>5, <1>7, PlansTyped DEF ReadChanges, FeedTypeOK, CursorsKnown
<1>8. CASE Refetch
  <2>1. plan' \in Plan /\ plan'.cursor = plan.cursor
    BY <1>0, <1>8, PlansTyped DEF Refetch, FeedTypeOK, Plan
  <2>2. QED
    BY <1>0, <1>8, <2>1 DEF Refetch, FeedTypeOK, CursorsKnown
<1>9. CASE Apply
  <2>1. plan.cursor \in 0..MaxId /\ plan.stamp \in 0..(MaxId + 1)
    BY <1>0 DEF FeedTypeOK, Plan
  <2>2. QED
    BY <1>0, <1>9, <2>1 DEF Apply, FeedTypeOK, CursorsKnown
<1>10. QED
  BY <1>1, <1>2, <1>3, <1>4, <1>6, <1>7, <1>8, <1>9 DEF ClientStep

LEMMA ServiceKeepsSince ==
    ASSUME LogInv, db' \in Registry, ServiceStep
    PROVE  /\ since' \subseteq Specs
           /\ IF Checking THEN since' = since \cup {ActiveSpecs(db')} \/ since' = since
                          ELSE since' = since
           /\ Checking /\ db' # db => ActiveSpecs(db') \in since'
<1>1. \/ Observed
      \/ since' = since /\ db' = db
  BY DEF ServiceStep, ServiceStart, ServiceCrash, LoggedWrite, LoggedWipe, LoggedSeed, WriteFails,
     LogLockEvent, MemoryStep, client, vars, Crash, DbFails, ApplyPVs, Publish, Swap,
     RegistryRequest, Create, Update, Enable, Disable, SetEnabled, Delete, Reset, Clear, Take
<1>2. QED
  BY <1>1, SpecsTyped DEF Observed, LogInv, FeedTypeOK

LEMMA LogStep == LogInv /\ [FeedNext]_feedVars => LogInv'
<1> SUFFICES ASSUME LogInv, [FeedNext]_feedVars PROVE LogInv'
  OBVIOUS
<1>1. TypeOK' /\ OneRow'
  BY ServiceUnderneath, TypeStep, OneRowStep DEF LogInv
<1>2. CASE ServiceStep
  <2>1. since' \subseteq Specs
    BY <1>1, <1>2, ServiceKeepsSince DEF TypeOK
  <2>2. FeedTypeOK'
    BY <1>2, <2>1, ServiceAppends DEF LogInv, FeedTypeOK
  <2>3. CursorsKnown'
    BY <1>2, FeedAssumption, ServiceAppends DEF LogInv, CursorsKnown, FeedTypeOK, Plan
  <2>4. QED
    BY <1>1, <1>2, <2>2, <2>3, ServiceAppends DEF LogInv
<1>3. CASE ClientStep
  BY <1>1, <1>3, ClientKeepsLog DEF LogInv, audit, Numbered
<1>4. CASE UNCHANGED feedVars
  BY <1>1, <1>4 DEF feedVars, LogInv, FeedTypeOK, Numbered, CursorsKnown
<1>5. QED
  BY <1>2, <1>3, <1>4 DEF FeedNext

LEMMA LogInit == FeedInit => LogInv
<1> SUFFICES ASSUME FeedInit PROVE LogInv
  OBVIOUS
<1>1. TypeOK /\ OneRow
  BY TypeInit DEF FeedInit, Init, Idle, OneRow
<1>2. FeedTypeOK /\ CursorsKnown
  BY FeedAssumption, NoPlanTyped, SpecsTyped DEF FeedInit, FeedTypeOK, CursorsKnown
<1>3. Numbered
  <2>1. {e.id : e \in {}} = {} /\ 1..(1 - 1) = {}
    OBVIOUS
  <2>2. QED
    BY <2>1 DEF FeedInit, Numbered
<1>4. QED
  BY <1>1, <1>2, <1>3 DEF LogInv

LEMMA LogInvariant == FeedSpec => []LogInv
BY LogInit, LogStep, PTL DEF FeedSpec

(* Every edit is appended beyond the cursor the client has taken, whatever  *)
(* overlaps the instance allows: the next check cannot miss it by its id.   *)
THEOREM EditsAppendBeyondCursor == FeedSpec => NothingCommitsBehindCursor
<1>1. LogInv /\ [FeedNext]_feedVars =>
         [\A e \in log' \ log : e.op \in FeedOps => e.id > cursor]_feedVars
  <2> SUFFICES ASSUME LogInv, FeedNext, NEW e \in log' \ log PROVE e.id > cursor
    OBVIOUS
  <2>1. CASE ServiceStep
    <3>1. e \in Entry /\ e.id >= nextId
      BY <2>1, ServiceAppends
    <3>2. e.id \in Nat /\ nextId \in Nat /\ cursor \in Nat /\ cursor < nextId
      BY <3>1, FeedAssumption DEF Entry, LogInv, FeedTypeOK, CursorsKnown
    <3>3. QED
      BY <3>1, <3>2
  <2>2. CASE ClientStep
    BY <2>2, ClientKeepsLog DEF audit
  <2>3. QED
    BY <2>1, <2>2 DEF FeedNext
<1>2. QED
  BY <1>1, LogInvariant, PTL DEF FeedSpec, NothingCommitsBehindCursor

(* The types of the feed, for every overlap.                                *)
THEOREM FeedTypes == FeedSpec => []FeedTypeOK
BY LogInvariant, PTL DEF LogInv

-----------------------------------------------------------------------------
(* Every plan starts on a current registry.  That a plan starts current     *)
(* says nothing of the check that precedes it, so the invariant follows the *)
(* client: what its cursor promises of the devices it has not heard of,     *)
(* which database the fetched specs are from, and that no edit can come     *)
(* between fetching them and moving the cursor.  The last needs the edits   *)
(* to keep out of the windows in which the code lets them in (Overlaps),    *)
(* and memory to follow the database.                                       *)

NoOverlaps == Overlaps = {}

(* A device with no entry beyond the cursor is in the worker as it is       *)
(* stored, unless the registry has been reset.                              *)
OverlayFollows ==
    (pc \in {"open", "running"} \/ Checking) /\ ~ ResetOccurred(cursor) =>
        \A d \in Device : d \in ChangedSince(cursor) \/ overlay[d] = ActiveSpecs(db)[d]

FetchedIsStored ==
    /\ pc \in {"spawning", "reload"} => overlay = ActiveSpecs(db)
    /\ pc = "apply" => Patched(overlay, plan) = ActiveSpecs(db)
    /\ pc = "refetch" => plan.replace /\ busy.stage \in {"idle", "write", "wipe"}

CheckSeesEdits == Checking => ActiveSpecs(db) \in since

CurrentInv ==
    /\ LogInv
    /\ PersistInv
    /\ OverlayFollows
    /\ FetchedIsStored
    /\ CheckSeesEdits
    /\ PlanStartsCurrent

(* An edit of the stored registry commits only when the client is not       *)
(* between fetching and moving its cursor, and its entries name every       *)
(* device it changes, or a reset.                                           *)
LEMMA EditsAreLogged ==
    ASSUME NoOverlaps, LogInv, PersistInv, ServiceStep, db' # db
    PROVE  /\ pc \notin {"spawning", "refetch", "apply", "reload"}
           /\ \/ \E e \in log' : e.id >= nextId /\ e.op = "reset"
              \/ \A d \in Device : db'[d] # db[d] =>
                    \E e \in log' : e.id >= nextId /\ e.name = d /\ e.op \in FeedOps
<1>0. nextId \in 1..(MaxId + 1) /\ Numbered /\ TypeOK
  BY DEF LogInv, FeedTypeOK
<1>1. CASE ServiceStart
  <2>1. ~ seeded /\ db = Empty /\ db' = Merged(db, Profile)
    BY <1>1 DEF ServiceStart, Start, PersistInv
  <2>2. MayCommit /\ AppendSeeds(Profile)
    BY <1>1, <2>1 DEF ServiceStart
  <2>3. \A d \in Device : db'[d] # db[d] => Profile[d] # NoRow
    BY <2>1 DEF Merged, Empty
  <2>4. QED
    BY <1>0, <2>2, <2>3, SeedsNumbered, ServiceAssumption DEF MayCommit, NoOverlaps, FeedOps
<1>2. CASE LoggedWrite
  <2>1. PICK d \in busy.scope : Append1(IF busy.goal[d] = NoRow THEN "delete" ELSE "save", d)
    BY <1>2 DEF LoggedWrite
  <2>2. d \in Device /\ busy.scope = {d}
    BY <1>2, <2>1 DEF LoggedWrite, WriteDb, LogInv, OneRow
  <2>3. \A x \in Device : db'[x] # db[x] => x = d
    BY <1>2, <2>2 DEF LoggedWrite, WriteDb
  <2>4. \E e \in log' : e.id = nextId /\ e.name = d /\ e.op \in {"delete", "save"}
    BY <1>0, <2>1, <2>2, EntryNumbered
  <2>5. MayCommit
    BY <1>2 DEF LoggedWrite
  <2>6. QED
    BY <1>0, <2>3, <2>4, <2>5 DEF MayCommit, NoOverlaps, FeedOps
<1>3. CASE LoggedWipe
  <2>1. MayCommit /\ Append1("reset", "*")
    BY <1>3 DEF LoggedWipe
  <2>2. \E e \in log' : e.id = nextId /\ e.op = "reset"
    BY <1>0, <2>1, EntryNumbered
  <2>3. QED
    BY <1>0, <2>1, <2>2 DEF MayCommit, NoOverlaps
<1>4. CASE LoggedSeed
  <2>1. db = Empty /\ db' = busy.goal /\ MayCommit /\ AppendSeeds(busy.goal)
    BY <1>4 DEF LoggedSeed, SeedDb, PersistInv
  <2>2. busy.goal \in Registry /\ \A d \in Device : db'[d] # db[d] => busy.goal[d] # NoRow
    BY <1>0, <2>1 DEF Empty, TypeOK, Work
  <2>3. QED
    BY <1>0, <2>1, <2>2, SeedsNumbered DEF MayCommit, NoOverlaps, FeedOps
<1>5. CASE ServiceCrash \/ WriteFails \/ LogLockEvent \/ MemoryStep
  BY <1>5 DEF ServiceCrash, Crash, WriteFails, DbFails, LogLockEvent, MemoryStep, vars, ApplyPVs,
     Publish, Swap, RegistryRequest, Create, Update, Enable, Disable, SetEnabled, Delete, Reset,
     Clear, Take
<1>6. QED
  BY <1>1, <1>2, <1>3, <1>4, <1>5 DEF ServiceStep

(* What the client knows of a device stays true across a step of the        *)
(* service: the log only grows.                                             *)
LEMMA LogGrows ==
    ASSUME log \subseteq log'
    PROVE  \A c : /\ ChangedSince(c) \subseteq ChangedSince(c)'
                  /\ ResetOccurred(c) => ResetOccurred(c)'
BY DEF ChangedSince, ResetOccurred

LEMMA ServiceKeepsCurrent ==
    ASSUME NoOverlaps, ReseedReliable, CurrentInv, ServiceStep
    PROVE  OverlayFollows' /\ FetchedIsStored' /\ CheckSeesEdits' /\ PlanStartsCurrent'
<1> USE FeedAssumption
<1>1. UNCHANGED <<pc, cursor, known, plan, overlay>> /\ log \subseteq log'
  BY ServiceAppends DEF CurrentInv
<1>2. cursor < nextId /\ cursor \in Nat /\ nextId \in Nat /\ nextId \in 1..(MaxId + 1)
  BY DEF CurrentInv, LogInv, CursorsKnown, FeedTypeOK
<1>3. \A e \in log' : e.id \in Nat
  BY ServiceAppends DEF CurrentInv, Entry
<1>4. OverlayFollows'
  <2> SUFFICES ASSUME pc \in {"open", "running"} \/ Checking, ~ ResetOccurred(cursor)',
                      NEW d \in Device, d \notin ChangedSince(cursor)'
               PROVE  overlay[d] = ActiveSpecs(db')[d]
    BY <1>1 DEF OverlayFollows, Checking
  <2>1. ~ ResetOccurred(cursor) /\ d \notin ChangedSince(cursor)
    BY <1>1 DEF ChangedSince, ResetOccurred
  <2>2. overlay[d] = ActiveSpecs(db)[d]
    BY <2>1 DEF CurrentInv, OverlayFollows
  <2>3. db'[d] = db[d]
    <3> SUFFICES ASSUME db'[d] # db[d] PROVE FALSE
      OBVIOUS
    <3>1. \/ \E e \in log' : e.id >= nextId /\ e.op = "reset"
          \/ \E e \in log' : e.id >= nextId /\ e.name = d /\ e.op \in FeedOps
      BY EditsAreLogged DEF CurrentInv
    <3>2. QED
      BY <1>1, <1>2, <1>3, <3>1 DEF ResetOccurred, ChangedSince
  <2>4. QED
    BY <2>2, <2>3 DEF ActiveSpecs
<1>5. FetchedIsStored'
  <2>1. pc \in {"spawning", "refetch", "apply", "reload"} => db' = db
    BY EditsAreLogged DEF CurrentInv
  <2>2. (pc = "refetch" /\ busy.stage \in {"idle", "write", "wipe"}) =>
           busy'.stage \in {"idle", "write", "wipe"}
    <3> SUFFICES ASSUME pc = "refetch", busy.stage \in {"idle", "write", "wipe"}
                 PROVE  busy'.stage \in {"idle", "write", "wipe"}
      OBVIOUS
    <3>1. ~ MayCommit
      BY DEF MayCommit, NoOverlaps
    <3>2. QED
      BY <3>1 DEF ServiceStep, ServiceStart, Start, ServiceCrash, Crash, LoggedWrite, LoggedWipe,
         LoggedSeed, WriteFails, DbFails, LogLockEvent, MemoryStep, vars, ApplyPVs, Publish, Swap,
         RegistryRequest, Create, Update, Enable, Disable, SetEnabled, Delete, Reset, Clear, Take,
         Idle
  <2>3. QED
    BY <1>1, <2>1, <2>2 DEF CurrentInv, FetchedIsStored, Patched
<1>6. CheckSeesEdits' /\ PlanStartsCurrent'
  <2>1. db' \in Registry
    BY ServiceUnderneath, TypeStep DEF CurrentInv, LogInv, TypeOK, FeedNext
  <2>2. QED
    BY <1>1, <2>1, ServiceKeepsSince DEF CurrentInv, CheckSeesEdits, PlanStartsCurrent, Checking
<1>7. QED
  BY <1>4, <1>5, <1>6

(* A client with nothing to hear of has the registry as it is stored.       *)
LEMMA NothingNewIsCurrent ==
    ASSUME LogInv, OverlayFollows, pc \in {"open", "running"} \/ Checking,
           ~ ResetOccurred(cursor), ChangedSince(cursor) = {}
    PROVE  overlay = ActiveSpecs(db)
<1>1. \A d \in Device : overlay[d] = ActiveSpecs(db)[d]
  BY DEF OverlayFollows
<1>2. overlay \in Specs /\ ActiveSpecs(db) \in Specs
  BY PlansTyped DEF LogInv, FeedTypeOK
<1>3. QED
  BY <1>1, <1>2 DEF Specs

LEMMA VersionPassedIsCurrent ==
    ASSUME LogInv, CurrentVersion <= cursor
    PROVE  ~ ResetOccurred(cursor) /\ ChangedSince(cursor) = {}
<1>1. nextId \in Nat /\ cursor \in Nat /\ CurrentVersion = nextId - 1
  BY FeedAssumption, VersionIsLast DEF LogInv, FeedTypeOK
<1>2. \A e \in log : e.id \in 1..(nextId - 1)
  BY DEF LogInv, Numbered
<1>3. \A e \in log : ~ (e.id > cursor)
  BY <1>1, <1>2
<1>4. QED
  BY <1>3 DEF ResetOccurred, ChangedSince

LEMMA ClientKeepsCurrent ==
    ASSUME NoOverlaps, CurrentInv, ClientStep
    PROVE  OverlayFollows' /\ FetchedIsStored' /\ CheckSeesEdits' /\ PlanStartsCurrent'
<1> USE PlansTyped
<1>0. UNCHANGED <<vars, audit>> /\ UNCHANGED <<db, mem, busy, log>>
  BY ClientKeepsLog DEF CurrentInv, vars, audit
<1>u. \A c : ResetOccurred(c)' = ResetOccurred(c) /\ ChangedSince(c)' = ChangedSince(c)
  BY <1>0 DEF ResetOccurred, ChangedSince
<1>v. ActiveSpecs(db)' = ActiveSpecs(db)
  BY <1>0
<1>r. overlay \in Specs /\ plan \in Plan /\ cursor \in 0..MaxId
  BY DEF CurrentInv, LogInv, FeedTypeOK
(* A worker that has what is stored follows from any cursor.                *)
<1>w. overlay' = ActiveSpecs(db) => OverlayFollows'
  BY <1>v DEF OverlayFollows
<1>x. UNCHANGED <<cursor, overlay>> /\ (pc \in {"open", "running"} \/ Checking) => OverlayFollows'
  BY <1>u, <1>v DEF CurrentInv, OverlayFollows
<1>1. CASE Prefetch
  <2>1. mem = db
    <3>1. up /\ busy.stage = "idle"
      BY <1>1 DEF Prefetch, Published, NoOverlaps
    <3>2. QED
      BY <3>1 DEF CurrentInv, PersistInv
  <2>2. overlay' = ActiveSpecs(db) /\ pc' = "spawning"
    BY <1>1, <2>1 DEF Prefetch
  <2>3. QED
    BY <1>v, <1>w, <2>2 DEF FetchedIsStored, CheckSeesEdits, PlanStartsCurrent, Checking
<1>2. CASE Sync \/ SyncFails
  <2>1. pc' = "open" /\ overlay' = ActiveSpecs(db)
    BY <1>2 DEF Sync, SyncTo, SyncFails, CurrentInv, FetchedIsStored
  <2>2. QED
    BY <1>w, <2>1 DEF FetchedIsStored, CheckSeesEdits, PlanStartsCurrent, Checking
<1>3. CASE SyncAgain
  <2>1. pc \in {"open", "running"} /\ pc' = pc /\ UNCHANGED <<overlay, since, plan>>
    BY <1>3 DEF SyncAgain, SyncTo
  <2>2. overlay = ActiveSpecs(db)
    BY <1>3, <2>1, NothingNewIsCurrent
       DEF SyncAgain, NothingUnseen, NoOverlaps, CurrentInv
  <2>3. QED
    BY <1>w, <2>1, <2>2 DEF CurrentInv, FetchedIsStored, CheckSeesEdits, PlanStartsCurrent, Checking
<1>4. CASE Close
  BY <1>4 DEF Close, OverlayFollows, FetchedIsStored, CheckSeesEdits, PlanStartsCurrent, Checking
<1>5. CASE Ask
  <2>1. pc = "open" /\ pc' = "asked" /\ since' = {ActiveSpecs(db)} /\ UNCHANGED <<cursor, overlay>>
    BY <1>5 DEF Ask
  <2>2. QED
    BY <1>v, <1>x, <2>1 DEF FetchedIsStored, CheckSeesEdits, PlanStartsCurrent
(* A decision on p: the plan starts if there is nothing in it.              *)
<1>6. ASSUME Checking, NEW p, p.replace \in BOOLEAN, Decide(p), UNCHANGED <<cursor, overlay, since>>,
             IsNoop(p) => overlay = ActiveSpecs(db),
             ~ p.replace => Patched(overlay, p) = ActiveSpecs(db),
             busy.stage = "idle"
      PROVE  OverlayFollows' /\ FetchedIsStored' /\ CheckSeesEdits' /\ PlanStartsCurrent'
  <2>1. CASE IsNoop(p)
    BY <1>v, <1>x, <1>6, <2>1
       DEF CurrentInv, Decide, FetchedIsStored, CheckSeesEdits, PlanStartsCurrent, Checking
  <2>2. CASE ~ IsNoop(p) /\ p.replace
    BY <1>0, <1>v, <1>x, <1>6, <2>2
       DEF CurrentInv, Decide, FetchedIsStored, CheckSeesEdits, PlanStartsCurrent, Checking
  <2>3. CASE ~ IsNoop(p) /\ ~ p.replace
    <3>1. pc' = "apply" /\ plan' = p
      BY <1>6, <2>3 DEF Decide
    <3>2. Patched(overlay, plan)' = ActiveSpecs(db)'
      BY <1>v, <1>6, <2>3, <3>1 DEF Patched
    <3>3. QED
      BY <1>v, <1>x, <1>6, <3>1, <3>2
         DEF CurrentInv, FetchedIsStored, CheckSeesEdits, PlanStartsCurrent, Checking
  <2>4. QED
    BY <2>1, <2>2, <2>3
<1>7. CASE ReadVersion
  <2>1. pc = "asked" /\ busy.stage = "idle" /\ UNCHANGED <<cursor, known, overlay, since>>
    BY <1>7 DEF ReadVersion, Published, NoOverlaps
  <2>2. CASE CurrentVersion > cursor
    BY <1>v, <1>x, <1>7, <2>1, <2>2
       DEF ReadVersion, CurrentInv, FetchedIsStored, CheckSeesEdits, PlanStartsCurrent, Checking
  <2>3. CASE ~ (CurrentVersion > cursor)
    <3> DEFINE b == stamp # known
               p == [VersionRead EXCEPT !.replace = b]
    <3>1. overlay = ActiveSpecs(db)
      <4>1. CurrentVersion <= cursor
        BY <1>r, <2>3 DEF CurrentInv
      <4>2. QED
        BY <2>1, <4>1, VersionPassedIsCurrent, NothingNewIsCurrent DEF CurrentInv, Checking
    <3>2. Decide(p)
      BY <1>7, <2>3 DEF ReadVersion
    <3>b. b \in BOOLEAN
      OBVIOUS
    <3> HIDE DEF b
    <3>3. p \in Plan /\ p.replace \in BOOLEAN
      BY <3>b DEF CurrentInv, Plan
    <3>4. p.changed = {} /\ p.replace = b
      BY <3>b DEF VersionRead, NoPlan, CurrentInv, Plan
    <3>5. ~ p.replace => Patched(overlay, p) = ActiveSpecs(db)
      BY <1>r, <3>1, <3>4 DEF Patched, Specs
    <3> HIDE DEF p
    <3>6. QED
      BY <1>6, <2>1, <3>1, <3>2, <3>3, <3>5 DEF Checking
  <2>4. QED
    BY <2>2, <2>3
<1>8. CASE ReadChanges
  <2>1. pc = "reading" /\ busy.stage = "idle" /\ UNCHANGED <<cursor, known, overlay, since>>
        /\ Decide(StalenessPlan)
    BY <1>8 DEF ReadChanges, Published, NoOverlaps
  <2> DEFINE b == ResetOccurred(cursor) \/ plan.stamp # known
  <2>b. b \in BOOLEAN
    OBVIOUS
  <2>2. StalenessPlan = [plan EXCEPT !.replace = b, !.changed = ChangedSince(cursor),
                                     !.specs = ActiveSpecs(db)]
    BY DEF StalenessPlan
  <2>3. ~ b => ~ ResetOccurred(cursor)
    OBVIOUS
  <2> HIDE DEF b
  <2>4. /\ StalenessPlan.replace = b /\ StalenessPlan.changed = ChangedSince(cursor)
        /\ StalenessPlan.specs = ActiveSpecs(db)
    BY <1>r, <2>2 DEF Plan
  <2>5. IsNoop(StalenessPlan) => overlay = ActiveSpecs(db)
    BY <2>1, <2>3, <2>4, NothingNewIsCurrent DEF IsNoop, CurrentInv, Checking
  <2>6. ~ StalenessPlan.replace => Patched(overlay, StalenessPlan) = ActiveSpecs(db)
    <3> SUFFICES ASSUME ~ StalenessPlan.replace
                 PROVE  Patched(overlay, StalenessPlan) = ActiveSpecs(db)
      OBVIOUS
    <3>1. \A d \in Device : d \in ChangedSince(cursor) \/ overlay[d] = ActiveSpecs(db)[d]
      BY <2>1, <2>3, <2>4 DEF CurrentInv, OverlayFollows, Checking
    <3>2. \A d \in Device : Patched(overlay, StalenessPlan)[d] = ActiveSpecs(db)[d]
      BY <2>4, <3>1 DEF Patched
    <3>3. Patched(overlay, StalenessPlan) \in Specs /\ ActiveSpecs(db) \in Specs
      BY <1>r, SpecsTyped DEF CurrentInv
    <3>4. QED
      BY <3>2, <3>3 DEF Specs
  <2>7. QED
    BY <1>6, <2>1, <2>4, <2>5, <2>6, <2>b DEF Checking
<1>9. CASE Refetch
  <2>1. pc' = "apply" /\ UNCHANGED <<cursor, overlay, since>> /\ pc = "refetch"
        /\ plan' = [plan EXCEPT !.specs = ActiveSpecs(mem)]
    BY <1>9 DEF Refetch
  <2>2. mem = db /\ plan.replace
    BY <1>9 DEF Refetch, CurrentInv, FetchedIsStored, PersistInv
  <2>3. plan'.replace /\ plan'.specs = ActiveSpecs(db)
    BY <1>r, <2>1, <2>2 DEF Plan
  <2>4. Patched(overlay, plan)' = ActiveSpecs(db)'
    BY <1>v, <2>3 DEF Patched
  <2>5. QED
    BY <1>v, <1>x, <2>1, <2>4
       DEF CurrentInv, FetchedIsStored, CheckSeesEdits, PlanStartsCurrent, Checking
<1>10. CASE Apply
  <2>1. pc' = "reload" /\ pc = "apply" /\ overlay' = ActiveSpecs(db) /\ UNCHANGED since
    BY <1>10 DEF Apply, CurrentInv, FetchedIsStored
  <2>2. QED
    BY <1>v, <1>w, <2>1 DEF CurrentInv, FetchedIsStored, CheckSeesEdits, PlanStartsCurrent, Checking
<1>11. CASE Reload
  <2>1. pc' = "running" /\ pc = "reload" /\ UNCHANGED <<overlay, since>> /\ overlay = ActiveSpecs(db)
    BY <1>11 DEF Reload, SyncTo, CurrentInv, FetchedIsStored
  <2>2. QED
    BY <1>w, <2>1 DEF CurrentInv, FetchedIsStored, CheckSeesEdits, PlanStartsCurrent, Checking
<1>12. CASE CheckFails \/ PlanDone
  <2>1. pc' = "open" /\ (Checking \/ pc = "running") /\ UNCHANGED <<cursor, overlay>>
    BY <1>12 DEF CheckFails, PlanDone
  <2>2. QED
    BY <1>x, <2>1 DEF FetchedIsStored, CheckSeesEdits, PlanStartsCurrent, Checking
<1>13. QED
  BY <1>1, <1>2, <1>3, <1>4, <1>5, <1>7, <1>8, <1>9, <1>10, <1>11, <1>12 DEF ClientStep

LEMMA CurrentStep ==
    NoOverlaps /\ ReseedReliable /\ CurrentInv /\ [FeedNext]_feedVars => CurrentInv'
<1> SUFFICES ASSUME NoOverlaps, ReseedReliable, CurrentInv, [FeedNext]_feedVars
             PROVE  CurrentInv'
  OBVIOUS
<1>1. LogInv' /\ PersistInv'
  BY LogStep, ServiceUnderneath, PersistStep DEF CurrentInv
<1>2. CASE ServiceStep
  BY <1>1, <1>2, ServiceKeepsCurrent DEF CurrentInv
<1>3. CASE ClientStep
  BY <1>1, <1>3, ClientKeepsCurrent DEF CurrentInv
<1>4. CASE UNCHANGED feedVars
  BY <1>1, <1>4 DEF feedVars, vars, CurrentInv, OverlayFollows, FetchedIsStored, CheckSeesEdits,
     PlanStartsCurrent, Checking, ResetOccurred, ChangedSince, Patched
<1>5. QED
  BY <1>2, <1>3, <1>4 DEF FeedNext

(* Outside the windows of Overlaps, and with a reliable re-seed, every plan *)
(* starts on a registry that was stored during its staleness check, through *)
(* crashes and restarts of the service, failed writes, failed checks,       *)
(* resets and re-opened environments.                                       *)
THEOREM PlansStartCurrent ==
    ASSUME NoOverlaps, ReseedReliable
    PROVE  FeedSpec => []FeedTrue
<1>1. FeedInit => CurrentInv
  <2> SUFFICES ASSUME FeedInit PROVE CurrentInv
    OBVIOUS
  <2>1. LogInv /\ PersistInv
    BY LogInit, PersistInit DEF FeedInit
  <2>2. QED
    BY <2>1 DEF FeedInit, CurrentInv, OverlayFollows, FetchedIsStored, CheckSeesEdits,
       PlanStartsCurrent, Checking
<1>2. CurrentInv /\ [FeedNext]_feedVars => CurrentInv'
  BY CurrentStep
<1>3. CurrentInv => FeedTrue
  BY DEF CurrentInv, LogInv, FeedTrue
<1>4. QED
  BY <1>1, <1>2, <1>3, PTL DEF FeedSpec

=============================================================================
