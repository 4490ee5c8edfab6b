------------------------------- MODULE PvHealth -------------------------------
(* Health of process variables: direct control posts the outcome of each put  *)
(* in a task of its own (pv_health_reporter.py), and configuration_service     *)
(* counts the failures in a row (pv_health_manager.py).  Posts overtake each   *)
(* other, time out with or without effect, and are dropped at shutdown; the    *)
(* records do not survive a restart of the service.                            *)
EXTENDS Naturals, FiniteSets

CONSTANTS
    Pv,
    Report,        \* posts that may be on their way at once
    MaxPuts, MaxChanges

VARIABLES
    control,    \* direct control: serving, draining, over
    posts,      \* Report -> at, pv, ok
    service,    \* configuration_service is up
    registered, \* PVs in its registry
    records,    \* Pv -> failures in a row; seen: there is a record
    puts,       \* how many there were
    changes,    \* of the surroundings
    outcomes    \* history: Pv -> failures in a row of the puts themselves, since the
                \* record was dropped; apart: reports never were on their way
                \* together; lost: one had no effect; failed: one failed

vars == <<control, posts, service, registered, records, puts, changes, outcomes>>

NoPost    == [at |-> "free", pv |-> CHOOSE v \in Pv : TRUE, ok |-> TRUE]
NoRecord  == [seen |-> FALSE, failures |-> 0]
NoOutcome == [failures |-> 0, apart |-> TRUE, lost |-> FALSE, failed |-> FALSE]

Init ==
    /\ control = "serving" /\ posts = [r \in Report |-> NoPost]
    /\ service = TRUE /\ registered = Pv /\ records = [v \in Pv |-> NoRecord]
    /\ puts = 0 /\ changes = 0 /\ outcomes = [v \in Pv |-> NoOutcome]

Busy == {r \in Report : posts[r].at # "free"}

-----------------------------------------------------------------------------
(* A put that came through the gate succeeded or failed: one report.          *)
Reports(r) ==
    /\ control = "serving" /\ posts[r].at = "free" /\ puts < MaxPuts
    /\ puts' = puts + 1
    /\ \E v \in Pv, ok \in BOOLEAN :
           /\ posts' = [posts EXCEPT ![r] = [at |-> "posting", pv |-> v, ok |-> ok]]
           /\ outcomes' = [outcomes EXCEPT ![v].failures = IF ok THEN 0 ELSE @ + 1,
                                           ![v].failed = @ \/ ~ok,
                                           ![v].apart = @ /\ \A p \in Busy : posts[p].pv # v]
    /\ UNCHANGED <<control, service, registered, records, changes>>

(* A success flips the record, but does not make one.                         *)
Counted(record, ok) ==
    CASE ~ok                -> [seen |-> TRUE, failures |-> record.failures + 1]
      [] ok /\ record.seen  -> [record EXCEPT !.failures = 0]
      [] OTHER              -> record

(* The handler: 404 for a PV that is not registered.                          *)
Applies(r) ==
    /\ service /\ posts[r].at = "posting"
    /\ LET v == posts[r].pv
       IN  IF v \in registered
           THEN records' = [records EXCEPT ![v] = Counted(@, posts[r].ok)] /\ UNCHANGED outcomes
           ELSE outcomes' = [outcomes EXCEPT ![v].lost = TRUE] /\ UNCHANGED records
    /\ posts' = [posts EXCEPT ![r].at = "answered"]
    /\ UNCHANGED <<control, service, registered, puts, changes>>

(* The answer, or no answer in time: errors are logged.                       *)
Returns(r) ==
    /\ posts[r].at = "answered" /\ posts' = [posts EXCEPT ![r] = NoPost]
    /\ UNCHANGED <<control, service, registered, records, puts, changes, outcomes>>

GivesUp(r) ==
    /\ posts[r].at = "posting" /\ changes < MaxChanges /\ changes' = changes + 1
    /\ posts' = [posts EXCEPT ![r] = NoPost]
    /\ outcomes' = [outcomes EXCEPT ![posts[r].pv].lost = TRUE]
    /\ UNCHANGED <<control, service, registered, records, puts>>

(* A post that direct control gave up on may still arrive, too late.          *)
ArrivesLate(r) ==
    /\ service /\ posts[r].at = "posting" /\ changes < MaxChanges /\ changes' = changes + 1
    /\ posts' = [posts EXCEPT ![r].at = "late"]
    /\ UNCHANGED <<control, service, registered, records, puts, outcomes>>

AppliesLate(r) ==
    /\ service /\ posts[r].at = "late" /\ posts' = [posts EXCEPT ![r] = NoPost]
    /\ LET v == posts[r].pv
       IN  /\ records' = IF v \in registered THEN [records EXCEPT ![v] = Counted(@, posts[r].ok)] ELSE records
           /\ outcomes' = IF v \in registered THEN outcomes ELSE [outcomes EXCEPT ![v].lost = TRUE]
    /\ UNCHANGED <<control, service, registered, puts, changes>>

(* Shutdown waits for the reports, and then cancels them; the client that they *)
(* use is closed after that.                                                  *)
Drains ==
    /\ control = "serving" /\ control' = "draining"
    /\ UNCHANGED <<posts, service, registered, records, puts, changes, outcomes>>

Cancels ==
    /\ control = "draining" /\ \E r \in Busy : posts[r].at \in {"posting", "answered"}
    /\ control' = "over"
    /\ posts' = [r \in Report |-> IF posts[r].at = "late" THEN posts[r] ELSE NoPost]
    /\ outcomes' = [v \in Pv |-> IF \E r \in Busy : posts[r].at = "posting" /\ posts[r].pv = v
                                 THEN [outcomes[v] EXCEPT !.lost = TRUE] ELSE outcomes[v]]
    /\ UNCHANGED <<service, registered, records, puts, changes>>

Closes ==
    /\ control = "draining" /\ \A r \in Busy : posts[r].at = "late"
    /\ control' = "over"
    /\ UNCHANGED <<posts, service, registered, records, puts, changes, outcomes>>

-----------------------------------------------------------------------------
(* Records are dropped one by one, all, or with the process; a report on its  *)
(* way belongs to what was before.                                            *)
Forgets(pvs) ==
    /\ records' = [v \in Pv |-> IF v \in pvs THEN NoRecord ELSE records[v]]
    /\ outcomes' = [v \in Pv |->
                       IF v \notin pvs THEN outcomes[v]
                       ELSE [NoOutcome EXCEPT !.lost = \E r \in Busy : posts[r].pv = v]]

Clears(pvs) ==
    /\ service /\ changes < MaxChanges /\ changes' = changes + 1 /\ Forgets(pvs)
    /\ UNCHANGED <<control, posts, service, registered, puts>>

Stops ==
    /\ service /\ changes < MaxChanges /\ changes' = changes + 1
    /\ service' = FALSE /\ Forgets(Pv)
    /\ UNCHANGED <<control, posts, registered, puts>>

Restarts ==
    /\ ~service /\ service' = TRUE
    /\ UNCHANGED <<control, posts, registered, records, puts, changes, outcomes>>

(* A PV that leaves the registry keeps its record.                            *)
RegistryChanges(v) ==
    /\ service /\ changes < MaxChanges /\ changes' = changes + 1
    /\ registered' = IF v \in registered THEN registered \ {v} ELSE registered \cup {v}
    /\ UNCHANGED <<control, posts, service, records, puts, outcomes>>

Next ==
    \/ \E r \in Report : Reports(r) \/ Applies(r) \/ Returns(r) \/ GivesUp(r) \/ ArrivesLate(r) \/ AppliesLate(r)
    \/ Drains \/ Cancels \/ Closes \/ Stops \/ Restarts
    \/ Clears(Pv) \/ \E v \in Pv : Clears({v}) \/ RegistryChanges(v)

Spec == Init /\ [][Next]_vars

-----------------------------------------------------------------------------
TypeOK ==
    /\ control \in {"serving", "draining", "over"} /\ registered \subseteq Pv
    /\ \A v \in Pv : records[v].failures \in 0 .. MaxPuts

Quiet(v) == \A r \in Busy : posts[r].pv # v \/ posts[r].at = "answered"

(* Puts whose reports were never on their way together, and all had effect,   *)
(* leave the record that they should: as many failures as the last ones.      *)
HealthTrue ==
    \A v \in Pv :
        Quiet(v) /\ outcomes[v].apart /\ ~outcomes[v].lost => records[v].failures = outcomes[v].failures

(* Records are kept of PVs that failed, and of no others.                     *)
OnlyFailures == \A v \in Pv : records[v].seen => outcomes[v].failed \/ outcomes[v].lost

(* Nothing uses the client once it is closed.                                 *)
ClosedQuietly == control = "over" => \A r \in Busy : posts[r].at = "late"

PvHealthTrue == TypeOK /\ HealthTrue /\ OnlyFailures /\ ClosedQuietly
=============================================================================
