------------------------------ MODULE MCLocks -------------------------------
(* Device locks in four small instances: for a plan, over calls that are     *)
(* lost, late and repeated (the constants and variables of LockCoordinator);  *)
(* for a plan with reliable calls and everything else that goes wrong        *)
(* (books); with leases, over a restart of the authority (restarts); and for *)
(* a whole environment (environment).  In a behaviour one of them moves      *)
(* (part).                                                                 *)
EXTENDS MCLockCoordinator

CONSTANTS EnvSessions, EnvItem   \* Sessions and Item of the environment instance

ASSUME EnvironmentAssumption ==
    /\ EnvSessions \cup Others = EnvItem /\ EnvSessions \cap Others = {}
    /\ NoItem \notin EnvItem
    /\ NoLock \notin [item : EnvItem, left : 0..0, at : Nat]

VARIABLES
    part,
    table, starts, requests, calling, at, work, over, noted, notedAt, beat

other == <<table, starts, requests, calling, at, work, over, noted, notedAt, beat>>

B == INSTANCE LockCoordinator WITH
    LeaseTTL <- 0, LockScope <- "plan", Faults <- SettleFaults, MaxAttempts <- 1, MaxEpoch <- 2,
    locks <- table, epoch <- starts, net <- requests, call <- calling, mainPc <- at,
    session <- work, done <- over, books <- noted, bookEpoch <- notedAt, beatPc <- beat

R == INSTANCE LockCoordinator WITH
    Sessions <- OneSession, Item <- OneItem,
    LeaseTTL <- 2, LockScope <- "plan", Faults <- RestartFault, MaxAttempts <- 2, MaxEpoch <- 2,
    locks <- table, epoch <- starts, net <- requests, call <- calling, mainPc <- at,
    session <- work, done <- over, books <- noted, bookEpoch <- notedAt, beatPc <- beat

E == INSTANCE LockCoordinator WITH
    Sessions <- EnvSessions, Item <- EnvItem,
    LeaseTTL <- 0, LockScope <- "environment", Faults <- EnvFaults, MaxAttempts <- 2, MaxEpoch <- 1,
    locks <- table, epoch <- starts, net <- requests, call <- calling, mainPc <- at,
    session <- work, done <- over, books <- noted, bookEpoch <- notedAt, beatPc <- beat

InitAll == part \in {"calls", "books", "restarts", "environment"} /\ Init /\ B!Init

(* The environment moves until a force-unlock of an earlier incarnation of  *)
(* the manager is late, which may take the lock from a later one.            *)
NextAll ==
    \/ part = "calls"       /\ Next   /\ UNCHANGED <<part, other>>
    \/ part = "books"       /\ B!Next /\ UNCHANGED <<part, vars>>
    \/ part = "restarts"    /\ R!Next /\ UNCHANGED <<part, vars>>
    \/ part = "environment" /\ E!NoLateForce /\ E!Next /\ UNCHANGED <<part, vars>>

SpecAll == InitAll /\ [][NextAll]_<<part, vars, other>>

-----------------------------------------------------------------------------
(* Every live lock of this manager is on its books.                        *)
BooksOwnLocksKnown == part = "books" => B!OwnLocksKnown

(* The heartbeat never loses a device to the manager's own locks.          *)
BeatConflictIsExternal == [][R!ConflictIsExternal]_other

(* An environment on the books is locked at the authority.                 *)
BooksEnvironmentTrue == part = "environment" => E!EnvironmentBooksTrue
=============================================================================
