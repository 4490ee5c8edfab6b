----------------------------- MODULE LockTable -----------------------------
(***************************************************************************)
(* The device-lock table kept by configuration_service (DeviceLockManager, *)
(* lock_manager.py), as operators on a table value.                        *)
(*                                                                         *)
(* Every critical section of the manager runs between two awaits of one    *)
(* event loop, so each is a function from a table to a table.  The modules *)
(* that use the table (ConfigurationService, LockCoordinator) decide who   *)
(* calls these functions and when.                                         *)
(*                                                                         *)
(* A lease is a countdown: left is the number of clock ticks before        *)
(* expires_at, and a lock with nothing left has lapsed.  locked_at is      *)
(* represented by the value the version counter took at the acquisition,   *)
(* which orders acquisitions as their time stamps do.                      *)
(***************************************************************************)
EXTENDS Integers, FiniteSets

CONSTANTS
    Device,     \* device names
    Item,       \* queue items that lock devices (item_id)
    LeaseTTL,   \* CONFIG_LOCK_LEASE_TTL_SECONDS in ticks; 0 disables leases
    NoLock      \* what the table holds for a device with no entry

Lock == [item : Item, left : 0..LeaseTTL, at : Nat]

ASSUME TableAssumption == /\ LeaseTTL \in Nat
                          /\ NoLock \notin Lock

Table == [Device -> Lock \cup {NoLock}]

EmptyTable == [d \in Device |-> NoLock]

-----------------------------------------------------------------------------
(* DeviceLockState.is_expired and DeviceLockManager._active_lock.          *)

IsExpired(l) == LeaseTTL > 0 /\ l.left = 0

Active(t, d) == t[d] # NoLock /\ ~ IsExpired(t[d])

ActiveLocks(t) == {d \in Device : Active(t, d)}

HeldBy(t, i) == {d \in ActiveLocks(t) : t[d].item = i}

-----------------------------------------------------------------------------
(* acquire_locks: all devices are validated before any is locked, and the  *)
(* most serious reason decides the HTTP status.  status maps a device to   *)
(* "absent", "missing" (no instantiation spec), "disabled" or "active".    *)

Reason(t, d, status) ==
    CASE status[d] = "absent"                     -> "not_found"
      [] status[d] = "missing"                    -> "spec_missing"
      [] status[d] = "disabled"                   -> "disabled"
      [] status[d] = "active" /\ Active(t, d)     -> "already_locked"
      [] status[d] = "active" /\ ~ Active(t, d)   -> "none"

AcquireCode_NoConflict(t, D, status) ==
    IF {Reason(t, d, status) : d \in D} \subseteq {"none", "already_locked"} THEN 200 ELSE 422
AcquireCode(t, D, status) ==
    LET reasons == {Reason(t, d, status) : d \in D} IN
    IF "spec_missing" \in reasons        THEN 500
    ELSE IF "not_found" \in reasons      THEN 404
    ELSE IF "disabled" \in reasons       THEN 422
    ELSE IF "already_locked" \in reasons THEN 409
    ELSE 200

FreshLock_OffByOne(i, v) == [item |-> i, left |-> LeaseTTL + 1, at |-> v]
FreshLock(i, v) == [item |-> i, left |-> LeaseTTL, at |-> v]

Acquired(t, D, i, v) == [d \in Device |-> IF d \in D THEN FreshLock(i, v) ELSE t[d]]

-----------------------------------------------------------------------------
(* renew_locks: what is still held by the item gets a new lease; the rest  *)
(* is reported lost (no live lock) or in conflict (held by another item).  *)

RenewLost(t, D)         == {d \in D : ~ Active(t, d)}
RenewConflicts(t, D, i) == {d \in D : Active(t, d) /\ t[d].item # i}

RenewedDevices_Lapsed(t, D, i) == {d \in D : t[d] # NoLock /\ t[d].item = i}
RenewedDevices(t, D, i) == D \cap HeldBy(t, i)

Renewed(t, D, i) ==
    [d \in Device |-> IF d \in RenewedDevices(t, D, i)
                      THEN [t[d] EXCEPT !.left = LeaseTTL] ELSE t[d]]

-----------------------------------------------------------------------------
(* release_locks: refused as a whole when one of the devices is live under *)
(* another item; otherwise every entry goes, the lapsed ones of any item   *)
(* included.  force_unlock asks nobody.                                    *)

ReleaseDenied(t, D, i) == RenewConflicts(t, D, i) # {}

Released(t, D) == [d \in Device |-> IF d \in D THEN NoLock ELSE t[d]]

Entries(t, D) == {d \in D : t[d] # NoLock}

ForceUnlockKnown(t, D, status) == \A d \in D : status[d] # "absent" \/ t[d] # NoLock

-----------------------------------------------------------------------------
(* Time: one tick takes one unit from every lease.                         *)

Aged(t) ==
    [d \in Device |-> IF t[d] # NoLock /\ t[d].left > 0
                      THEN [t[d] EXCEPT !.left = @ - 1] ELSE t[d]]

-----------------------------------------------------------------------------
(* Availability: global_lock_holder and effective_lock.  The items of the  *)
(* devices whose lock was taken first: one item, or none.                  *)

GlobalHolder_Latest(t) ==
    {t[d].item : d \in {e \in ActiveLocks(t) :
                          \A f \in ActiveLocks(t) : t[e].at >= t[f].at}}
GlobalHolder(t) ==
    {t[d].item : d \in {e \in ActiveLocks(t) :
                          \A f \in ActiveLocks(t) : t[e].at <= t[f].at}}

EffectiveLock(t, lockAll, d) ==
    IF Active(t, d) THEN {t[d].item}
    ELSE IF lockAll THEN GlobalHolder(t) ELSE {}

Available(t, lockAll, status, d) ==
    status[d] = "active" /\ EffectiveLock(t, lockAll, d) = {}

=============================================================================
