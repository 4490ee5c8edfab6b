---------------------------- MODULE RegistryFeed ----------------------------
(***************************************************************************)
(* How a registry edit reaches the worker.  configuration_service appends  *)
(* every edit to an audit log in the transaction that makes it, and answers*)
(* /devices/changes from the database; queueserver remembers a cursor into *)
(* that log and, before each plan, brings the worker's devices up to date. *)
(*                                                                         *)
(* The service is ConfigurationService with the log added to its steps;    *)
(* the client is the part of ConfigServiceCoordinator that opens the       *)
(* environment (prefetch, then sync) and checks staleness.  An empty       *)
(* registry, which env-open fills from the worker, is not opened here.     *)
(***************************************************************************)
EXTENDS ConfigurationService

CONSTANTS
    NoSpec,     \* the worker has no such device
    Overlaps,   \* the overlaps of edits and client steps in this instance
    MaxId       \* bound on audit ids

ASSUME FeedAssumption ==
    /\ IsFiniteSet(Device)
    /\ NoSpec \notin Def
    /\ Overlaps \subseteq {"open", "check", "publish", "sync"}
    /\ MaxId \in Nat

VARIABLES
    log,       \* the committed rows of device_audit_log
    nextId,    \* the next value of its identity column
    stamp,     \* service_epoch: the value of the "seeded" row; 0 is "unseeded"
    pc,        \* where the client stands
    cursor,    \* ConfigServiceState.cursor
    known,     \* ConfigServiceState.epoch
    plan,      \* the StalenessPlan of the check in progress
    overlay,   \* the registry devices in the worker's namespace
    since      \* history: what the registry was during the check in progress

audit  == <<log, nextId, stamp>>
client == <<pc, cursor, known, plan, overlay, since>>
feedVars == <<vars, log, nextId, stamp, pc, cursor, known, plan, overlay, since>>

Specs == [Device -> Def \cup {NoSpec}]

NoSpecs == [d \in Device |-> NoSpec]

(* /devices/instantiation with active_only: disabled devices are left out. *)
ActiveSpecs(r) ==
    [d \in Device |-> IF r[d] # NoRow /\ r[d].spec = "active" THEN r[d].def ELSE NoSpec]

Entry == [id : 1..MaxId, op : {"seed", "save", "delete", "reset", "lock"},
          name : Device \cup {"*"}]

Plan == [replace : BOOLEAN, changed : SUBSET Device, specs : Specs,
         cursor : 0..MaxId, stamp : 0..(MaxId + 1)]

NoPlan == [replace |-> FALSE, changed |-> {}, specs |-> NoSpecs, cursor |-> 0, stamp |-> 0]

FeedInit ==
    /\ Init
    /\ log = {} /\ nextId = 1 /\ stamp = 0
    /\ pc = "closed" /\ cursor = 0 /\ known = 0
    /\ plan = NoPlan /\ overlay = NoSpecs /\ since = {}

-----------------------------------------------------------------------------
(* The service's side: its steps, with their audit entries.                *)

Checking == pc \in {"asked", "reading", "refetch", "apply", "reload"}

(* When this instance lets a transaction commit.                           *)
MayCommit ==
    /\ pc = "spawning" => "open" \in Overlaps
    /\ pc \in {"refetch", "apply", "reload"} => "check" \in Overlaps

Observed ==
    since' = IF Checking THEN since \cup {ActiveSpecs(db')} ELSE since

Append1(op, name) ==
    /\ nextId <= MaxId
    /\ log' = log \cup {[id |-> nextId, op |-> op, name |-> name]}
    /\ nextId' = nextId + 1

(* seed_from_registry: one entry per device and a new "seeded" value.      *)
AppendSeeds(r) ==
    LET seeds == {d \in Device : r[d] # NoRow} IN
    /\ nextId + Cardinality(seeds) <= MaxId + 1
    /\ \E number \in [seeds -> nextId..(nextId + Cardinality(seeds) - 1)] :
          /\ \A d, e \in seeds : d # e => number[d] # number[e]
          /\ log' = log \cup {[id |-> number[d], op |-> "seed", name |-> d] : d \in seeds}
    /\ nextId' = nextId + Cardinality(seeds)
    /\ stamp' = nextId

clientIdle == UNCHANGED <<pc, cursor, known, plan, overlay>>

ServiceStart ==
    /\ Start
    /\ seeded \/ MayCommit
    /\ IF seeded THEN UNCHANGED audit ELSE AppendSeeds(Profile)
    /\ Observed /\ clientIdle

ServiceCrash == Crash /\ UNCHANGED <<audit, client>>

LoggedWrite ==
    /\ WriteDb
    /\ MayCommit
    /\ \E d \in busy.scope :
          Append1(IF busy.goal[d] = NoRow THEN "delete" ELSE "save", d)
    /\ UNCHANGED stamp
    /\ Observed /\ clientIdle

LoggedWipe ==
    /\ WipeDb
    /\ MayCommit
    /\ Append1("reset", "*")
    /\ stamp' = 0
    /\ Observed /\ clientIdle

LoggedSeed ==
    /\ SeedDb
    /\ MayCommit
    /\ AppendSeeds(busy.goal)
    /\ Observed /\ clientIdle

WriteFails == DbFails /\ UNCHANGED <<audit, client>>

(* log_lock_event: outside registry_lock, in a transaction of its own.     *)
(* Its device plays no part in the feed.                                   *)
LogLockEvent ==
    /\ up
    /\ nextId <= MaxId
    /\ log' = log \cup {[id |-> nextId, op |-> "lock", name |-> "*"]}
    /\ nextId' = nextId + 1
    /\ UNCHANGED <<vars, stamp, client>>

MemoryStep == (RegistryRequest \/ ApplyPVs \/ Publish \/ Swap) /\ UNCHANGED <<audit, client>>

ServiceStep ==
    \/ ServiceStart \/ ServiceCrash
    \/ LoggedWrite \/ LoggedWipe \/ LoggedSeed \/ WriteFails
    \/ LogLockEvent
    \/ MemoryStep

-----------------------------------------------------------------------------
(* get_changes_since and build_staleness_plan.                             *)

CurrentVersion == IF log = {} THEN 0 ELSE CHOOSE n \in {e.id : e \in log} :
                                             \A e \in log : e.id <= n

FeedOps == {"seed", "save", "delete"}

ResetOccurred(c) == \E e \in log : e.id > c /\ e.op = "reset"

(* The latest entry of a device decides: "delete" there, a row that is     *)
(* gone, or a disabled device, all remove it from the worker.              *)
ChangedSince(c) == {d \in Device : \E e \in log : e.id > c /\ e.name = d /\ e.op \in FeedOps}

StalenessPlan ==
    [plan EXCEPT !.replace = ResetOccurred(cursor) \/ plan.stamp # known,
                 !.changed = ChangedSince(cursor),
                 !.specs   = ActiveSpecs(db)]

IsNoop(p) == ~ p.replace /\ p.changed = {}

(* An upsert without a spec is a protocol error; the check fails.          *)
WellFormed(p) ==
    p.replace \/ \A d \in p.changed : db[d] # NoRow => db[d].spec # "missing"

Patched_KeepsDisabled(o, p) ==
    [d \in Device |-> IF p.specs[d] # NoSpec /\ (p.replace \/ d \in p.changed)
                      THEN p.specs[d] ELSE o[d]]
Patched(o, p) ==
    IF p.replace THEN p.specs
    ELSE [d \in Device |-> IF d \in p.changed THEN p.specs[d] ELSE o[d]]

-----------------------------------------------------------------------------
(* The client.                                                             *)

clientOnly == UNCHANGED <<vars, audit>>

Published == busy.stage = "idle" \/ "publish" \in Overlaps

(* prefetch_registry: the specs the worker is started with.                *)
Prefetch ==
    /\ pc = "closed"
    /\ up /\ mem # Empty
    /\ Published
    /\ overlay' = ActiveSpecs(mem)
    /\ pc' = "spawning"
    /\ UNCHANGED <<cursor, known, plan, since>> /\ clientOnly

(* sync_on_env_open: the cursor moves to the end of the log.               *)
SyncTo(next) ==
    /\ up
    /\ cursor' = CurrentVersion /\ known' = stamp
    /\ pc' = next

Sync ==
    /\ pc = "spawning"
    /\ SyncTo("open")
    /\ UNCHANGED <<plan, overlay, since>> /\ clientOnly

(* It runs again whenever the worker's lists change, and moves the cursor  *)
(* past what no check has seen, if there is anything.                      *)
NothingUnseen == ChangedSince(cursor) = {} /\ ~ ResetOccurred(cursor) /\ stamp = known

SyncAgain ==
    /\ pc \in {"open", "running"}
    /\ "sync" \in Overlaps \/ NothingUnseen
    /\ SyncTo(pc)
    /\ UNCHANGED <<plan, overlay, since>> /\ clientOnly

(* A sync that fails leaves the environment open and the cursor as it was. *)
SyncFails ==
    /\ pc = "spawning"
    /\ pc' = "open"
    /\ UNCHANGED <<cursor, known, plan, overlay, since>> /\ clientOnly

Close ==
    /\ pc = "open"
    /\ pc' = "closed" /\ overlay' = NoSpecs
    /\ UNCHANGED <<cursor, known, plan, since>> /\ clientOnly

(* check_staleness_before_plan, from the request to the plan's start.      *)
Ask ==
    /\ pc = "open"
    /\ pc' = "asked"
    /\ since' = {ActiveSpecs(db)}
    /\ UNCHANGED <<cursor, known, plan, overlay>> /\ clientOnly

(* get_changes_since reads the version and the epoch first, the changes    *)
(* in later statements: an edit may commit in between.                     *)
Decide(p) ==
    /\ pc' = IF IsNoop(p) THEN "running" ELSE IF p.replace THEN "refetch" ELSE "apply"
    /\ plan' = IF IsNoop(p) THEN NoPlan ELSE p

VersionRead == [NoPlan EXCEPT !.cursor = CurrentVersion, !.stamp = stamp]

ReadVersion ==
    /\ pc = "asked"
    /\ up
    /\ Published
    /\ IF CurrentVersion > cursor
       THEN pc' = "reading" /\ plan' = VersionRead
       ELSE Decide([VersionRead EXCEPT !.replace = stamp # known])
    /\ UNCHANGED <<cursor, known, overlay, since>> /\ clientOnly

ReadChanges ==
    /\ pc = "reading"
    /\ up
    /\ Published
    /\ WellFormed(StalenessPlan)
    /\ Decide(StalenessPlan)
    /\ UNCHANGED <<cursor, known, overlay, since>> /\ clientOnly

(* A replacement takes the specs the service has in memory.                *)
Refetch ==
    /\ pc = "refetch"
    /\ up
    /\ pc' = "apply"
    /\ plan' = [plan EXCEPT !.specs = ActiveSpecs(mem)]
    /\ UNCHANGED <<cursor, known, overlay, since>> /\ clientOnly

(* The worker stages and commits the overlay as a whole, or rejects it.    *)
Apply_ForgetsCursor ==
    /\ pc = "apply"
    /\ overlay' = Patched(overlay, plan) /\ plan' = NoPlan /\ pc' = "reload"
    /\ cursor' = CurrentVersion + 1 /\ known' = plan.stamp
    /\ UNCHANGED since /\ clientOnly

Apply ==
    /\ pc = "apply"
    /\ overlay' = Patched(overlay, plan)
    /\ cursor' = plan.cursor /\ known' = plan.stamp
    /\ plan' = NoPlan
    /\ pc' = "reload"
    /\ UNCHANGED since /\ clientOnly

(* reload_lists_from_worker ends in sync_on_env_open.                      *)
Reload ==
    /\ pc = "reload"
    /\ SyncTo("running")
    /\ UNCHANGED <<plan, overlay, since>> /\ clientOnly

(* Unreachable service, malformed answer or rejected overlay: no plan.     *)
CheckFails ==
    /\ Checking
    /\ pc' = "open" /\ plan' = NoPlan /\ since' = {}
    /\ UNCHANGED <<cursor, known, overlay>> /\ clientOnly

PlanDone ==
    /\ pc = "running"
    /\ pc' = "open" /\ since' = {}
    /\ UNCHANGED <<cursor, known, plan, overlay>> /\ clientOnly

ClientStep ==
    \/ Prefetch \/ Sync \/ SyncAgain \/ SyncFails \/ Close
    \/ Ask \/ ReadVersion \/ ReadChanges \/ Refetch \/ Apply \/ Reload \/ CheckFails \/ PlanDone

FeedNext == ServiceStep \/ ClientStep

FeedSpec == FeedInit /\ [][FeedNext]_feedVars

-----------------------------------------------------------------------------

FeedTypeOK ==
    /\ log \subseteq Entry
    /\ nextId \in 1..(MaxId + 1)
    /\ stamp \in 0..(MaxId + 1)
    /\ pc \in {"closed", "spawning", "open", "asked", "reading", "refetch", "apply",
              "reload", "running"}
    /\ cursor \in 0..MaxId
    /\ known \in 0..(MaxId + 1)
    /\ plan \in Plan
    /\ overlay \in Specs
    /\ since \subseteq Specs

(* "each plan starts against a registry snapshot that is current as of     *)
(* that plan's start" (config_service_coordinator.py:279-281): the devices *)
(* in the worker are those of one registry that was stored between the     *)
(* beginning of the staleness check and the start.                         *)
PlanStartsCurrent == pc = "running" => overlay \in since

(* Well typed, and every plan starts on a registry that was current during *)
(* its check.                                                              *)
FeedTrue == FeedTypeOK /\ PlanStartsCurrent

(* No edit commits behind the cursor, where the next check would not see   *)
(* it: get_changes_since reads the version it answers with before the      *)
(* changes up to it (device_registry_store.py:465-511).                    *)
NothingCommitsBehindCursor ==
    [][\A e \in log' \ log : e.op \in FeedOps => e.id > cursor]_feedVars

=============================================================================
