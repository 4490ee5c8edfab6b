---------------------------- MODULE LocksProofs ----------------------------
(***************************************************************************)
(* The theorems of LockCoordinatorProofs for the instances of MCLocks, for  *)
(* any devices, items of other owners and sessions: in behaviours in which  *)
(* one of the instances moves, what is proved of it holds.  BP and EP are    *)
(* the instances B and E with their theorems; the definitions on both sides *)
(* are the same ones, expanded.                                            *)
(***************************************************************************)
EXTENDS MCLocks, TLAPS

BP == INSTANCE LockCoordinatorProofs WITH
    LeaseTTL <- 0, LockScope <- "plan", Faults <- SettleFaults, MaxAttempts <- 1, MaxEpoch <- 2,
    locks <- table, epoch <- starts, net <- requests, call <- calling, mainPc <- at,
    session <- work, done <- over, books <- noted, bookEpoch <- notedAt, beatPc <- beat

EP == INSTANCE LockCoordinatorProofs WITH
    Sessions <- EnvSessions, Item <- EnvItem,
    LeaseTTL <- 0, LockScope <- "environment", Faults <- EnvFaults, MaxAttempts <- 2, MaxEpoch <- 1,
    locks <- table, epoch <- starts, net <- requests, call <- calling, mainPc <- at,
    session <- work, done <- over, books <- noted, bookEpoch <- notedAt, beatPc <- beat

-----------------------------------------------------------------------------
(* The books of a plan.                                                     *)

LEMMA BBegins == B!Init <=> BP!Init
  BY Zenon DEF
    B!EmptyTable, BP!EmptyTable, B!Coroutines, BP!Coroutines, B!NoClaim, BP!NoClaim,
    B!NoReply, BP!NoReply, B!NoCall, BP!NoCall, B!Init, BP!Init

LEMMA BMoves == B!Next <=> BP!Next
  BY Zenon DEF
    B!EmptyTable, BP!EmptyTable, B!IsExpired, BP!IsExpired, B!Active, BP!Active,
    B!ActiveLocks, BP!ActiveLocks, B!HeldBy, BP!HeldBy, B!Reason, BP!Reason, B!AcquireCode,
    BP!AcquireCode, B!FreshLock, BP!FreshLock, B!Acquired, BP!Acquired, B!RenewConflicts,
    BP!RenewConflicts, B!RenewedDevices, BP!RenewedDevices, B!Renewed, BP!Renewed,
    B!ReleaseDenied, BP!ReleaseDenied, B!Released, BP!Released, B!Entries, BP!Entries, B!Aged,
    BP!Aged, B!authority, BP!authority, B!Coroutines, BP!Coroutines, B!NoClaim, BP!NoClaim,
    B!NoReply, BP!NoReply, B!Unreachable, BP!Unreachable, B!NoCall, BP!NoCall, B!RequestOf,
    BP!RequestOf, B!Send, BP!Send, B!Answered, BP!Answered, B!Code, BP!Code, B!Return,
    BP!Return, B!Timeout, BP!Timeout, B!AllEnabled, BP!AllEnabled, B!CodeOf, BP!CodeOf,
    B!Effect, BP!Effect, B!AnswersOf, BP!AnswersOf, B!Serve, BP!Serve, B!mainOnly,
    BP!mainOnly, B!Open, BP!Open, B!SyncAgain, BP!SyncAgain, B!AfterFailure, BP!AfterFailure,
    B!SettleDone, BP!SettleDone, B!LockDone, BP!LockDone, B!ForceDone, BP!ForceDone,
    B!CloseSession, BP!CloseSession, B!Finish, BP!Finish, B!ResetFails, BP!ResetFails,
    B!UnlockDone, BP!UnlockDone, B!beatOnly, BP!beatOnly, B!Beat, BP!Beat, B!EpochChanged,
    BP!EpochChanged, B!RenewDone, BP!RenewDone, B!ReacquireDone, BP!ReacquireDone, B!outside,
    BP!outside, B!Tick, BP!Tick, B!AuthorityRestart, BP!AuthorityRestart, B!Survives,
    BP!Survives, B!ManagerRestart, BP!ManagerRestart, B!OtherLocks, BP!OtherLocks,
    B!OtherUnlocks, BP!OtherUnlocks, B!OperatorUnlocks, BP!OperatorUnlocks, B!Opening,
    BP!Opening, B!Main, BP!Main, B!Heartbeat, BP!Heartbeat, B!Network, BP!Network,
    B!Surroundings, BP!Surroundings, B!Next, BP!Next

LEMMA BPromises == B!OwnLocksKnown <=> BP!OwnLocksKnown
  BY Zenon DEF
    B!IsExpired, BP!IsExpired, B!Active, BP!Active, B!ActiveLocks, BP!ActiveLocks, B!HeldBy,
    BP!HeldBy, B!Coroutines, BP!Coroutines, B!OwnLocksKnown, BP!OwnLocksKnown

(* Every live lock of the manager is on its books or in a call it awaits,   *)
(* in the part of MCLocks in which no reply is lost (NoForgottenLock).     *)
THEOREM BooksKnown == SpecAll => []BooksOwnLocksKnown
<1> DEFINE Mine == part = "books"
<1>1. BP!Spec => []BP!OwnLocksKnown
  <2>1. BP!Bookkeeping
    BY DEF BP!Bookkeeping, SettleFaults
  <2>2. /\ SettleFaults \subseteq {"timeout", "audit", "restart", "manager", "other", "operator", "reset"}
        /\ "plan" \in {"plan", "environment"} /\ 1 \in Nat \ {0} /\ 2 \in Nat \ {0} /\ 0 \in Nat
    BY DEF SettleFaults
  <2>3. NoLock \notin BP!Lock
    BY TableAssumption DEF Lock, BP!Lock
  <2>4. QED
    BY <2>1, <2>2, <2>3, CoordinatorAssumption, BP!NoForgottenLock
<1>2. InitAll => BP!Init
  BY BBegins DEF InitAll
<1>3. Mine /\ [NextAll]_<<part, vars, other>> => Mine' /\ [BP!Next]_BP!vars
  BY BMoves DEF NextAll, other, BP!vars
<1>4. ~ Mine /\ [NextAll]_<<part, vars, other>> => ~ Mine'
  BY DEF NextAll
<1>5. (Mine => BP!OwnLocksKnown) <=> BooksOwnLocksKnown
  BY BPromises DEF BooksOwnLocksKnown
<1> HIDE DEF Mine
<1>6. QED
  BY <1>1, <1>2, <1>3, <1>4, <1>5, PTL DEF SpecAll, BP!Spec

-----------------------------------------------------------------------------
(* The books of an environment.                                             *)

LEMMA EBegins == B!Init <=> EP!Init
  BY Zenon DEF
    B!EmptyTable, EP!EmptyTable, B!Coroutines, EP!Coroutines, B!NoClaim, EP!NoClaim,
    B!NoReply, EP!NoReply, B!NoCall, EP!NoCall, B!Init, EP!Init

LEMMA EMoves == E!Next <=> EP!Next
  BY Zenon DEF
    E!EmptyTable, EP!EmptyTable, E!IsExpired, EP!IsExpired, E!Active, EP!Active,
    E!ActiveLocks, EP!ActiveLocks, E!HeldBy, EP!HeldBy, E!Reason, EP!Reason, E!AcquireCode,
    EP!AcquireCode, E!FreshLock, EP!FreshLock, E!Acquired, EP!Acquired, E!RenewConflicts,
    EP!RenewConflicts, E!RenewedDevices, EP!RenewedDevices, E!Renewed, EP!Renewed,
    E!ReleaseDenied, EP!ReleaseDenied, E!Released, EP!Released, E!Entries, EP!Entries, E!Aged,
    EP!Aged, E!authority, EP!authority, E!Coroutines, EP!Coroutines, E!NoClaim, EP!NoClaim,
    E!NoReply, EP!NoReply, E!Unreachable, EP!Unreachable, E!NoCall, EP!NoCall, E!RequestOf,
    EP!RequestOf, E!Send, EP!Send, E!Answered, EP!Answered, E!Code, EP!Code, E!Return,
    EP!Return, E!Timeout, EP!Timeout, E!AllEnabled, EP!AllEnabled, E!CodeOf, EP!CodeOf,
    E!Effect, EP!Effect, E!AnswersOf, EP!AnswersOf, E!Serve, EP!Serve, E!mainOnly,
    EP!mainOnly, E!Open, EP!Open, E!SyncAgain, EP!SyncAgain, E!AfterFailure, EP!AfterFailure,
    E!SettleDone, EP!SettleDone, E!LockDone, EP!LockDone, E!ForceDone, EP!ForceDone,
    E!CloseSession, EP!CloseSession, E!Finish, EP!Finish, E!ResetFails, EP!ResetFails,
    E!UnlockDone, EP!UnlockDone, E!beatOnly, EP!beatOnly, E!Beat, EP!Beat, E!EpochChanged,
    EP!EpochChanged, E!RenewDone, EP!RenewDone, E!ReacquireDone, EP!ReacquireDone, E!outside,
    EP!outside, E!Tick, EP!Tick, E!AuthorityRestart, EP!AuthorityRestart, E!Survives,
    EP!Survives, E!ManagerRestart, EP!ManagerRestart, E!OtherLocks, EP!OtherLocks,
    E!OtherUnlocks, EP!OtherUnlocks, E!OperatorUnlocks, EP!OperatorUnlocks, E!Opening,
    EP!Opening, E!Main, EP!Main, E!Heartbeat, EP!Heartbeat, E!Network, EP!Network,
    E!Surroundings, EP!Surroundings, E!Next, EP!Next

LEMMA EPromises == E!EnvironmentBooksTrue <=> EP!EnvironmentBooksTrue
  BY Zenon DEF
    E!IsExpired, EP!IsExpired, E!Active, EP!Active, E!ActiveLocks, EP!ActiveLocks, E!HeldBy,
    EP!HeldBy, E!Holds, EP!Holds, E!EnvironmentBooksTrue, EP!EnvironmentBooksTrue

(* An environment on the books is locked at the authority, for as long as   *)
(* no force-unlock of an earlier manager is late (EnvironmentLocked).       *)
THEOREM EnvironmentBooks == SpecAll => []BooksEnvironmentTrue
<1> DEFINE Mine == part = "environment"
<1>1. EP!Init /\ [][EP!NoLateForce /\ EP!Next]_EP!vars => []EP!EnvironmentBooksTrue
  <2>1. EP!SessionLocking
    BY DEF EP!SessionLocking, EnvFaults
  <2>2. /\ EnvFaults \subseteq {"timeout", "audit", "restart", "manager", "other", "operator", "reset"}
        /\ "environment" \in {"plan", "environment"} /\ 1 \in Nat \ {0} /\ 2 \in Nat \ {0} /\ 0 \in Nat
    BY DEF EnvFaults
  <2>3. NoLock \notin EP!Lock
    BY EnvironmentAssumption DEF EP!Lock
  <2>4. QED
    BY <2>1, <2>2, <2>3, EnvironmentAssumption, EP!EnvironmentLocked
<1>2. InitAll => EP!Init
  BY EBegins DEF InitAll
<1>3. Mine /\ [NextAll]_<<part, vars, other>>
        => Mine' /\ [EP!NoLateForce /\ EP!Next]_EP!vars
  BY EMoves DEF NextAll, other, EP!vars, E!NoLateForce, EP!NoLateForce
<1>4. ~ Mine /\ [NextAll]_<<part, vars, other>> => ~ Mine'
  BY DEF NextAll
<1>5. (Mine => EP!EnvironmentBooksTrue) <=> BooksEnvironmentTrue
  BY EPromises DEF BooksEnvironmentTrue
<1> HIDE DEF Mine
<1>6. QED
  BY <1>1, <1>2, <1>3, <1>4, <1>5, PTL DEF SpecAll

=============================================================================
