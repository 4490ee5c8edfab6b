------------------------------ MODULE LockKeys ------------------------------
(***************************************************************************)
(* The lock of the RE Manager (LockInfo and the lock and unlock handlers):  *)
(* clients lock the environment, the queue or both with a key; a handler   *)
(* that changes what is locked asks for the key.  The lock is written to   *)
(* the store, and a manager that restarts takes it from there.             *)
(***************************************************************************)
EXTENDS Naturals

CONSTANTS
    Key,        \* keys of clients
    Emergency,  \* the emergency key, which only opens
    NoKey,      \* lock_key = None
    MaxFaults   \* bound on failing writes and restarts of the manager

VARIABLES
    info,     \* LockInfo in memory
    kept,     \* the lock in the store
    saving,   \* the handler that writes: "none", "lock", "unlock"
    told,     \* the lock in the last answer, and whether it was an answer
    faults

vars == <<info, kept, saving, told, faults>>

Lock   == [environment : BOOLEAN, queue : BOOLEAN, key : Key \cup {NoKey}]
Unlocked == [environment |-> FALSE, queue |-> FALSE, key |-> NoKey]
Told(lock) == [sure |-> TRUE, lock |-> lock]
Unsure     == [sure |-> FALSE, lock |-> Unlocked]

IsSet(lock) == lock.environment \/ lock.queue

CheckLockKey(lock, key) == ~ IsSet(lock) \/ key = lock.key
MayUnlock(lock, key)    == CheckLockKey(lock, key) \/ key = Emergency

Init ==
    /\ info = Unlocked /\ kept = Unlocked
    /\ saving = "none" /\ told = Told(Unlocked) /\ faults = 0

(* The lock changes in memory, and the handler waits for the store; one    *)
(* handler runs at a time.                                                 *)
LockAsked(key, environment, queue) ==
    /\ saving = "none" /\ (environment \/ queue) /\ CheckLockKey(info, key)
    /\ info' = [environment |-> environment, queue |-> queue, key |-> key]
    /\ saving' = "lock" /\ told' = Unsure
    /\ UNCHANGED <<kept, faults>>

UnlockAsked(key) ==
    /\ saving = "none" /\ IsSet(info) /\ MayUnlock(info, key)
    /\ info' = Unlocked /\ saving' = "unlock" /\ told' = Unsure
    /\ UNCHANGED <<kept, faults>>

Saved_Late ==
    /\ saving # "none"
    /\ told' = Told(info) /\ saving' = "none"
    /\ UNCHANGED <<info, kept, faults>>

Saved ==
    /\ saving # "none"
    /\ kept' = info /\ told' = Told(info) /\ saving' = "none"
    /\ UNCHANGED <<info, faults>>

(* A write that fails may have reached the store.                          *)
Written == IF saving = "none" THEN {kept} ELSE {kept, info}

(* The answer is an error, and the lock stays as it is in memory.          *)
SaveFails ==
    /\ saving # "none" /\ faults < MaxFaults
    /\ saving' = "none" /\ faults' = faults + 1
    /\ kept' \in Written
    /\ UNCHANGED <<info, told>>

Restart ==
    /\ faults < MaxFaults
    /\ kept' \in Written /\ info' = kept'
    /\ saving' = "none" /\ faults' = faults + 1
    /\ UNCHANGED told

Next ==
    \/ \E key \in Key, environment, queue \in BOOLEAN : LockAsked(key, environment, queue)
    \/ \E key \in Key \cup {Emergency} : UnlockAsked(key)
    \/ Saved \/ SaveFails \/ Restart

Spec == Init /\ [][Next]_vars

-----------------------------------------------------------------------------
TypeOK ==
    /\ info \in Lock /\ kept \in Lock /\ told \in [sure : BOOLEAN, lock : Lock]
    /\ \A lock \in {info, kept} : IsSet(lock) <=> lock.key # NoKey
    /\ saving \in {"none", "lock", "unlock"} /\ faults \in 0..MaxFaults

(* What a client was told is true until somebody locks or unlocks again,   *)
(* also across restarts.  (After an error nobody knows: the lock may be in  *)
(* memory and not in the store.)                                           *)
LockAsTold == told.sure => info = told.lock

=============================================================================
