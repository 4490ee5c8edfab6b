------------------------ MODULE ConfigurationService ------------------------
(***************************************************************************)
(* configuration_service: the lock authority and the device registry.      *)
(*                                                                         *)
(* One process, one event loop.  A handler is atomic between two awaits.   *)
(* The handlers that change the registry, and POST /lock, run under an     *)
(* asyncio.Lock (registry_lock); unlock, renew, force-unlock, the lock     *)
(* policy and the status reads do not take it.  A registry handler checks, *)
(* awaits its database writes in a worker thread, then changes memory:     *)
(* other handlers, the clock and a crash interleave between these steps,   *)
(* and a database write may fail.                                          *)
(***************************************************************************)
EXTENDS LockTable

CONSTANTS
    Def,            \* revisions of a device's definition (metadata, class, args)
    NoRow,          \* what the registry holds for an unknown device
    Profile,        \* the registry load_registry() builds from the profile
    LockAllDefault, \* CONFIG_LOCK_ALL
    DbFaults,       \* the database steps that may raise in this instance
    MaxVersion,     \* bound on the lock table's version counter
    MaxEpoch        \* bound on the number of process starts

Row == [spec : {"missing", "disabled", "active"}, def : Def]

Registry == [Device -> Row \cup {NoRow}]

Empty == [d \in Device |-> NoRow]

DbStages == {"write", "wipe", "seed", "pvs"}

ASSUME ServiceAssumption ==
    /\ NoRow \notin Row
    /\ Profile \in Registry
    /\ LockAllDefault \in BOOLEAN
    /\ DbFaults \subseteq DbStages
    /\ MaxVersion \in Nat
    /\ MaxEpoch \in Nat

VARIABLES
    up,       \* the process is running (lifespan entered)
    epoch,    \* DeviceLockManager._epoch: one value per process start
    locks,    \* DeviceLockManager._locks
    version,  \* DeviceLockManager._version
    lockAll,  \* DeviceLockManager.lock_all_enabled
    mem,      \* the published in-memory registry (state_container["state"])
    db,       \* the device_registry table
    seeded,   \* the "seeded" row of registry_metadata exists
    busy      \* what the holder of registry_lock is doing

lockVars == <<locks, version, lockAll>>
vars     == <<up, epoch, locks, version, lockAll, mem, db, seeded, busy>>

(* The handler that holds registry_lock: its next step, the devices it     *)
(* writes and the registry it is about to publish.                         *)
Work == [stage : {"idle", "mem", "swap"} \cup DbStages, scope : SUBSET Device, goal : Registry]

Idle == [stage |-> "idle", scope |-> {}, goal |-> Empty]

Status(r) == [d \in Device |-> IF r[d] = NoRow THEN "absent" ELSE r[d].spec]

Free == up /\ busy.stage = "idle"

-----------------------------------------------------------------------------
(* Process start and stop (lifespan).  A start on a database that was      *)
(* seeded loads it; otherwise it loads the profile and inserts every one   *)
(* of its devices, which raises, and ends the process, on a row that       *)
(* already exists.  Locks, lock policy and epoch are those of a new        *)
(* manager.                                                                *)

Init ==
    /\ up = FALSE /\ epoch = 0
    /\ locks = EmptyTable /\ version = 0 /\ lockAll = LockAllDefault
    /\ mem = Empty /\ db = Empty /\ seeded = FALSE
    /\ busy = Idle

SeedCollides == \E d \in Device : db[d] # NoRow /\ Profile[d] # NoRow

Merged(r, s) == [d \in Device |-> IF s[d] # NoRow THEN s[d] ELSE r[d]]

Start ==
    /\ ~ up
    /\ epoch < MaxEpoch
    /\ seeded \/ ~ SeedCollides
    /\ up' = TRUE
    /\ epoch' = epoch + 1
    /\ locks' = EmptyTable /\ version' = 0 /\ lockAll' = LockAllDefault
    /\ mem' = IF seeded THEN db ELSE Profile
    /\ db'  = IF seeded THEN db ELSE Merged(db, Profile)
    /\ seeded' = TRUE
    /\ UNCHANGED busy

(* The process dies: memory goes, the database stays.                      *)
Crash ==
    /\ up
    /\ epoch < MaxEpoch
    /\ up' = FALSE
    /\ locks' = EmptyTable /\ version' = 0 /\ lockAll' = LockAllDefault
    /\ mem' = Empty
    /\ busy' = Idle
    /\ UNCHANGED <<epoch, db, seeded>>

-----------------------------------------------------------------------------
(* The lock endpoints.  A refused call changes nothing.                    *)

Acquire_NoRegistryLock(D, i) ==
    /\ up /\ version < MaxVersion
    /\ AcquireCode(locks, D, Status(mem)) = 200
    /\ locks' = Acquired(locks, D, i, version + 1)
    /\ version' = version + 1
    /\ UNCHANGED <<up, epoch, lockAll, mem, db, seeded, busy>>

Acquire_KeepsVersion(D, i) ==
    /\ Free /\ version < MaxVersion
    /\ AcquireCode(locks, D, Status(mem)) = 200
    /\ locks' = Acquired(locks, D, i, version)
    /\ UNCHANGED <<up, epoch, version, lockAll, mem, db, seeded, busy>>

Acquire(D, i) ==
    /\ Free
    /\ version < MaxVersion
    /\ AcquireCode(locks, D, Status(mem)) = 200
    /\ locks' = Acquired(locks, D, i, version + 1)
    /\ version' = version + 1
    /\ UNCHANGED <<up, epoch, lockAll, mem, db, seeded, busy>>

Renew(D, i) ==
    /\ up
    /\ locks' = Renewed(locks, D, i)
    /\ UNCHANGED <<up, epoch, version, lockAll, mem, db, seeded, busy>>

Release(D, i) ==
    /\ up
    /\ ~ ReleaseDenied(locks, D, i)
    /\ Entries(locks, D) # {}
    /\ version < MaxVersion
    /\ locks' = Released(locks, D)
    /\ version' = version + 1
    /\ UNCHANGED <<up, epoch, lockAll, mem, db, seeded, busy>>

ForceUnlock(D) ==
    /\ up
    /\ D # {}
    /\ ForceUnlockKnown(locks, D, Status(mem))
    /\ version < MaxVersion
    /\ locks' = Released(locks, D)
    /\ version' = version + 1
    /\ UNCHANGED <<up, epoch, lockAll, mem, db, seeded, busy>>

SetLockAll(enabled) ==
    /\ up
    /\ enabled # lockAll
    /\ version < MaxVersion
    /\ lockAll' = enabled
    /\ version' = version + 1
    /\ UNCHANGED <<up, epoch, locks, mem, db, seeded, busy>>

Tick ==
    /\ up
    /\ Aged(locks) # locks
    /\ locks' = Aged(locks)
    /\ UNCHANGED <<up, epoch, version, lockAll, mem, db, seeded, busy>>

-----------------------------------------------------------------------------
(* The registry handlers take registry_lock and check; then follow the     *)
(* database steps and the change of memory.                                *)

Take(stage, D, goal) ==
    /\ busy' = [stage |-> stage, scope |-> D, goal |-> goal]
    /\ UNCHANGED <<up, epoch, locks, version, lockAll, mem, db, seeded>>

Create(d, r) ==
    /\ Free
    /\ mem[d] = NoRow
    /\ r.spec # "missing"
    /\ Take("write", {d}, [mem EXCEPT ![d] = r])

(* A field-level merge: the spec stays unless the request carries one.     *)
Update_IgnoresLock(d, r) ==
    /\ Free
    /\ mem[d] # NoRow
    /\ r.spec = "missing" => mem[d].spec = "missing"
    /\ Take("write", {d}, [mem EXCEPT ![d] = r])

Update(d, r) ==
    /\ Free
    /\ mem[d] # NoRow
    /\ ~ Active(locks, d)
    /\ r.spec = "missing" => mem[d].spec = "missing"
    /\ Take("write", {d}, [mem EXCEPT ![d] = r])

(* Enabling and disabling ask nobody about locks.                          *)
SetEnabled(d, from, to) ==
    /\ Free
    /\ mem[d] # NoRow
    /\ mem[d].spec = from
    /\ Take("write", {d}, [mem EXCEPT ![d].spec = to])

Enable(d)  == SetEnabled(d, "disabled", "active")
Disable(d) == SetEnabled(d, "active", "disabled")

Delete(d) ==
    /\ Free
    /\ mem[d] # NoRow
    /\ ~ Active(locks, d)
    /\ Take("write", {d}, [mem EXCEPT ![d] = NoRow])

Reset == Free /\ Take("wipe", Device, Profile)
Clear == Free /\ Take("wipe", Device, Empty)

(* save_device or delete_device: one transaction on the row.               *)
WriteDb_Skipped ==
    /\ up /\ busy.stage = "write"
    /\ busy' = [busy EXCEPT !.stage = "mem"]
    /\ UNCHANGED <<up, epoch, locks, version, lockAll, mem, db, seeded>>

WriteDb ==
    /\ up
    /\ busy.stage = "write"
    /\ db' = [d \in Device |-> IF d \in busy.scope THEN busy.goal[d] ELSE db[d]]
    /\ busy' = [busy EXCEPT !.stage = "mem"]
    /\ UNCHANGED <<up, epoch, locks, version, lockAll, mem, seeded>>

(* clear_and_reseed, first transaction.                                    *)
WipeDb ==
    /\ up
    /\ busy.stage = "wipe"
    /\ db' = Empty
    /\ seeded' = FALSE
    /\ busy' = [busy EXCEPT !.stage = "seed"]
    /\ UNCHANGED <<up, epoch, locks, version, lockAll, mem>>

(* clear_and_reseed, second transaction: seed_from_registry.               *)
SeedDb_Unmarked ==
    /\ up /\ busy.stage = "seed"
    /\ db' = busy.goal
    /\ busy' = [busy EXCEPT !.stage = "pvs"]
    /\ UNCHANGED <<up, epoch, locks, version, lockAll, mem, seeded>>

SeedDb ==
    /\ up
    /\ busy.stage = "seed"
    /\ db' = busy.goal
    /\ seeded' = TRUE
    /\ busy' = [busy EXCEPT !.stage = "pvs"]
    /\ UNCHANGED <<up, epoch, locks, version, lockAll, mem>>

(* _apply_standalone_pvs reads the standalone PVs into the new registry.   *)
ApplyPVs ==
    /\ up
    /\ busy.stage = "pvs"
    /\ busy' = [busy EXCEPT !.stage = "swap"]
    /\ UNCHANGED <<up, epoch, locks, version, lockAll, mem, db, seeded>>

(* A database step raises: its transaction rolls back, the handler answers *)
(* 500 and registry_lock is released.                                      *)
DbFails ==
    /\ up
    /\ busy.stage \in DbFaults
    /\ busy' = Idle
    /\ UNCHANGED <<up, epoch, locks, version, lockAll, mem, db, seeded>>

(* Memory follows the database; registry_lock is released.                 *)
Publish ==
    /\ up
    /\ busy.stage = "mem"
    /\ mem' = busy.goal
    /\ busy' = Idle
    /\ UNCHANGED <<up, epoch, locks, version, lockAll, db, seeded>>

(* A reset or clear drops every lock and swaps the registry in one step.   *)
Swap ==
    /\ up
    /\ busy.stage = "swap"
    /\ IF Entries(locks, Device) = {}
       THEN UNCHANGED version
       ELSE version < MaxVersion /\ version' = version + 1
    /\ locks' = EmptyTable
    /\ mem' = busy.goal
    /\ busy' = Idle
    /\ UNCHANGED <<up, epoch, lockAll, db, seeded>>

-----------------------------------------------------------------------------

Lifecycle == Start \/ Crash

LockStep ==
    \/ \E D \in SUBSET Device, i \in Item : Acquire(D, i) \/ Renew(D, i) \/ Release(D, i)
    \/ \E D \in SUBSET Device : ForceUnlock(D)
    \/ \E enabled \in BOOLEAN : SetLockAll(enabled)
    \/ Tick

RegistryRequest ==
    \/ \E d \in Device, r \in Row : Create(d, r) \/ Update(d, r)
    \/ \E d \in Device : Enable(d) \/ Disable(d) \/ Delete(d)
    \/ Reset
    \/ Clear

RegistryStep == WriteDb \/ WipeDb \/ SeedDb \/ ApplyPVs \/ DbFails \/ Publish \/ Swap

Next == Lifecycle \/ LockStep \/ RegistryRequest \/ RegistryStep

Spec == Init /\ [][Next]_vars

-----------------------------------------------------------------------------

TypeOK ==
    /\ up \in BOOLEAN
    /\ epoch \in 0..MaxEpoch
    /\ locks \in Table
    /\ version \in 0..MaxVersion
    /\ lockAll \in BOOLEAN
    /\ mem \in Registry
    /\ db \in Registry
    /\ seeded \in BOOLEAN
    /\ busy \in Work

(* A live lock always names a registered device, whatever registry change  *)
(* is half done: delete_device refuses a locked device, POST /lock waits   *)
(* for registry_lock, reset and clear drop the locks as they swap the      *)
(* registry.  An orphan would be unclearable through the normal path and,  *)
(* under lock_all, would report the whole beamline locked                  *)
(* (main.py:1799-1802).                                                    *)
LiveLockRegistered == \A d \in ActiveLocks(locks) : mem[d] # NoRow

(* Acquisitions are totally ordered, and one acquisition belongs to one    *)
(* item: what global_lock_holder's choice of the earliest rests on.        *)
AcquisitionsOrdered ==
    \A d, e \in Device :
        /\ locks[d] # NoLock => locks[d].at <= version
        /\ (locks[d] # NoLock /\ locks[e] # NoLock /\ locks[d].at = locks[e].at)
              => locks[d].item = locks[e].item

(* When no registry handler is at work the in-memory registry is what a    *)
(* restart would load: persist-first in every handler, undone by no        *)
(* database failure of a create, update, delete, enable or disable         *)
(* (main.py:1613-1616).                                                    *)
MemoryMatchesDb == (Free /\ seeded) => mem = db

(* The process can always come back up: is_seeded() false means an empty   *)
(* table, so that seeding from the profile inserts only new rows           *)
(* (startup flow, device_registry_store.py:16-19).                         *)
RestartCanLoad == ~ up => (seeded \/ ~ SeedCollides)

(* A live lock changes hands only by being given up first, and a lapsed or *)
(* absent one comes to life only by a new acquisition: no renewal revives  *)
(* what another plan may have taken meanwhile.                             *)
LockChangesHandsWhenFree ==
    [][\A d \in Device :
          Active(locks', d) =>
             \/ Active(locks, d) /\ locks'[d].item = locks[d].item
                                 /\ locks'[d].at = locks[d].at
             \/ ~ Active(locks, d) /\ locks'[d].at > version]_vars

(* The definition of a device does not change, and the device does not     *)
(* vanish, from the check of an update or delete to its change of memory,  *)
(* while a plan holds it (main.py:1680-1682).                              *)
LockedDefinitionStable ==
    [][\A d \in Device :
          (Active(locks, d) /\ Active(locks', d)) =>
             mem'[d] # NoRow /\ mem'[d].def = mem[d].def]_vars

(* The plan reported as running under lock_all does not flap: while one of *)
(* the holder's locks stays, the holder stays (lock_manager.py:509-511).   *)
HolderStable ==
    [][\A d \in Device :
          ( /\ Active(locks, d) /\ Active(locks', d)
            /\ \A e \in ActiveLocks(locks) : locks[d].at <= locks[e].at )
          => GlobalHolder(locks') = GlobalHolder(locks)]_vars

-----------------------------------------------------------------------------
(* The service implements the abstract ownership of devices: an item owns  *)
(* the devices on which it has a live lock.                                *)

OwnerOf(t) == [d \in Device |-> IF Active(t, d) THEN t[d].item ELSE NoLock]

Ownership == INSTANCE DeviceOwnership WITH owner <- OwnerOf(locks), NoOwner <- NoLock

(* Every step of the service grants ownership of free devices as a whole,  *)
(* withdraws some, or leaves it alone: no partial grant is ever visible    *)
(* and no device passes from owner to owner directly (the all-or-nothing   *)
(* promise of acquire_locks, lock_manager.py:229-236).                     *)
ImplementsOwnership == Ownership!Spec

=============================================================================
