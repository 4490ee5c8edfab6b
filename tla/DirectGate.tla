----------------------------- MODULE DirectGate -----------------------------
(***************************************************************************)
(* The gate before a write to a process variable (direct_control).  The    *)
(* registry says whether the PV exists and which device owns it, and both   *)
(* answers are cached for TTL; the status of the owner is asked live; then *)
(* the value is put.  A batch takes its items in order and halts at the     *)
(* first failure.                                                          *)
(***************************************************************************)
EXTENDS Naturals, Sequences

CONSTANTS
    Pv, Device,
    Nobody,      \* the owner of a standalone PV
    Missing,     \* the owner of a PV that is not registered
    Blocks,      \* statuses that refuse: locked, disabled, unknown
    Request,
    Batches,     \* the sequences of PVs that each request may ask for
    TTL,         \* cache_ttl
    MaxTime,     \* bound on the clock
    MaxChanges   \* bound on changes at configuration_service

VARIABLES
    authority,   \* configuration_service: owner of each PV, status of each
                 \* device, and whether it is up
    clock,
    pvs,         \* _pv_cache, with 0 for the time of an entry that is not there
    owners,      \* _pv_owner_cache
    req,         \* requests: where they are, the items left, the answer on its
                 \* way, the device to check; stable and seen are history
    outcomes,    \* history: how each item ended
    moved,       \* history: when the owner of each PV last changed
    gone,        \* history: PVs whose owner look-up found them unregistered
    changes

vars == <<authority, clock, pvs, owners, req, outcomes, moved, gone, changes>>

Owners   == Device \cup {Nobody, Missing}
Statuses == Blocks \cup {"available", "absent"}
NoAnswer == "no answer"
Down     == "down"

(* What a request for pv should meet at the gate.                          *)
Fact(a, pv) ==
    CASE a.owner[pv] = Missing -> "missing"
      [] a.owner[pv] = Nobody  -> "free"
      [] OTHER -> IF a.status[a.owner[pv]] = "available" THEN "free" ELSE a.status[a.owner[pv]]

Conditions(a, pv) ==
    IF a.up THEN {Fact(a, pv)} ELSE {Down} \cup ({Fact(a, pv)} \ {"free"})

Idle == [at |-> "none", todo |-> << >>, n |-> 0, answer |-> NoAnswer, target |-> Nobody,
         stable |-> FALSE, warned |-> FALSE, seen |-> {}]

PvOf(r)  == Head(req[r].todo)
Active(r) == req[r].todo # << >>
Fresh(entry) == clock <= entry.at + TTL
NoPv    == [exists |-> FALSE, at |-> 0]
NoOwner == [owner |-> Nobody, at |-> 0]

Init ==
    /\ \E status \in [Device -> {"available", "locked"}] :
          authority = [owner |-> [pv \in Pv |-> CHOOSE d \in Device : TRUE],
                       status |-> status, up |-> TRUE]
    /\ clock = TTL + 1
    /\ pvs = [pv \in Pv |-> NoPv] /\ owners = [pv \in Pv |-> NoOwner]
    /\ req = [r \in Request |-> Idle]
    /\ outcomes = {} /\ moved = [pv \in Pv |-> 0] /\ gone = {} /\ changes = 0

-----------------------------------------------------------------------------
(* configuration_service (external here).                                  *)

Becomes(a) ==
    /\ changes < MaxChanges /\ changes' = changes + 1
    /\ authority' = a
    /\ moved' = [pv \in Pv |-> IF a.owner[pv] = authority.owner[pv] THEN moved[pv] ELSE clock]
    /\ gone' = {pv \in gone : a.owner[pv] = Missing}
    /\ req' = [r \in Request |->
                 IF ~ Active(r) THEN req[r]
                 ELSE [req[r] EXCEPT !.stable = @ /\ a.owner[PvOf(r)] = authority.owner[PvOf(r)],
                                     !.seen = @ \cup Conditions(a, PvOf(r))]]
    /\ UNCHANGED <<clock, pvs, owners, outcomes>>

StatusChanges(d, status) ==
    /\ authority.status[d] \notin {"absent", status} /\ status # "absent"
    /\ Becomes([authority EXCEPT !.status[d] = status])

Deleted(d) ==
    /\ authority.status[d] # "absent"
    /\ Becomes([authority EXCEPT !.status[d] = "absent",
                  !.owner = [pv \in Pv |-> IF @[pv] = d THEN Missing ELSE @[pv]]])

Registered(pv, owner) ==
    /\ owner # authority.owner[pv]
    /\ owner \in Device => authority.status[owner] # "absent"
    /\ Becomes([authority EXCEPT !.owner[pv] = owner])

GoesUpOrDown == Becomes([authority EXCEPT !.up = ~ @])

(* An answer takes less than a tick.                                       *)
Tick ==
    /\ clock < MaxTime /\ \A r \in Request : req[r].answer = NoAnswer
    /\ clock' = clock + 1
    /\ UNCHANGED <<authority, pvs, owners, req, outcomes, moved, gone, changes>>

-----------------------------------------------------------------------------
(* A request.                                                              *)

TakesUp(r, todo, n) ==
    req' = [req EXCEPT ![r] =
              IF todo = << >> THEN [Idle EXCEPT !.at = "done"]
              ELSE [at |-> "pv", todo |-> todo, n |-> n, answer |-> NoAnswer, target |-> Nobody,
                    stable |-> clock > moved[Head(todo)] + TTL,
                    warned |-> Head(todo) \in gone,
                    seen |-> Conditions(authority, Head(todo))]]

Tried == {"ok", "failed", "limit"}

(* What is remembered of an item: how it ended, whether the owner was long *)
(* the same, the PV known to be gone and not registered again since, and    *)
(* whether the end fits the facts.                                         *)
Outcome(r, code, landed) ==
    [req |-> r, n |-> req[r].n, tried |-> code \in Tried, ok |-> code = "ok", landed |-> landed,
     stable |-> req[r].stable, warned |-> req[r].warned /\ req[r].seen \subseteq {"missing", Down},
     fits |-> (IF code \in Tried THEN "free" ELSE code) \in req[r].seen]

(* A failure ends the request, with the items after it not tried.          *)
Ends(r, code, landed) ==
    /\ outcomes' = outcomes \cup {Outcome(r, code, landed)}
    /\ req' = [req EXCEPT ![r] = [Idle EXCEPT !.at = "done"]]

GoesOn(r, at)  == req' = [req EXCEPT ![r].at = at, ![r].answer = NoAnswer] /\ UNCHANGED outcomes
Checks(r, dev) == req' = [req EXCEPT ![r].at = "check", ![r].answer = NoAnswer, ![r].target = dev]
                  /\ UNCHANGED outcomes

(* GET /api/v1/pvs/{pv}: the answer is on its way.                          *)
Asks(r) ==
    /\ req' = [req EXCEPT ![r].answer = IF authority.up THEN authority.owner[PvOf(r)] ELSE Down]
    /\ UNCHANGED outcomes

Outside == <<authority, clock, moved, changes>>

Arrives(r, batch) ==
    /\ req[r].at = "none"
    /\ TakesUp(r, batch, 1)
    /\ UNCHANGED <<pvs, owners, outcomes, gone, Outside>>

(* validate_pv.                                                            *)
PvCached(r) ==
    /\ req[r].at = "pv" /\ req[r].answer = NoAnswer /\ Fresh(pvs[PvOf(r)])
    /\ IF pvs[PvOf(r)].exists THEN GoesOn(r, "owner") ELSE Ends(r, "missing", FALSE)
    /\ UNCHANGED <<pvs, owners, gone, Outside>>

PvAsked(r) ==
    /\ req[r].at = "pv" /\ req[r].answer = NoAnswer /\ ~ Fresh(pvs[PvOf(r)])
    /\ Asks(r)
    /\ UNCHANGED <<pvs, owners, gone, Outside>>

PvAnswered(r) ==
    LET pv == PvOf(r)  answer == req[r].answer
    IN  /\ req[r].at = "pv" /\ answer # NoAnswer
        /\ CASE answer = Down -> Ends(r, Down, FALSE) /\ UNCHANGED <<pvs, owners>>
             [] answer = Missing ->
                    /\ pvs' = [pvs EXCEPT ![pv] = [exists |-> FALSE, at |-> clock]]
                    /\ Ends(r, "missing", FALSE) /\ UNCHANGED owners
             [] OTHER ->
                    /\ pvs' = [pvs EXCEPT ![pv] = [exists |-> TRUE, at |-> clock]]
                    /\ owners' = [owners EXCEPT ![pv] = [owner |-> answer, at |-> clock]]
                    /\ GoesOn(r, "owner")
        /\ UNCHANGED <<gone, Outside>>

(* get_owning_device.  A PV without an owner is checked by its own name.   *)
OwnerCached(r) ==
    /\ req[r].at = "owner" /\ req[r].answer = NoAnswer /\ Fresh(owners[PvOf(r)])
    /\ Checks(r, owners[PvOf(r)].owner)
    /\ UNCHANGED <<pvs, owners, gone, Outside>>

OwnerAsked(r) ==
    /\ req[r].at = "owner" /\ req[r].answer = NoAnswer /\ ~ Fresh(owners[PvOf(r)])
    /\ Asks(r)
    /\ UNCHANGED <<pvs, owners, gone, Outside>>

NothingElseOnTheWay(r) == \A q \in Request \ {r} : req[q].answer = NoAnswer

OwnerAnswered_FailsOpen(r) ==
    LET pv == PvOf(r)  answer == req[r].answer
    IN  /\ req[r].at = "owner" /\ answer # NoAnswer
        /\ IF answer \in {Down, Missing}
           THEN Checks(r, Nobody) /\ UNCHANGED <<pvs, owners, gone>>
           ELSE /\ owners' = [owners EXCEPT ![pv] = [owner |-> answer, at |-> clock]]
                /\ Checks(r, answer) /\ UNCHANGED <<pvs, gone>>
        /\ UNCHANGED Outside

OwnerAnswered(r) ==
    LET pv == PvOf(r)  answer == req[r].answer
    IN  /\ req[r].at = "owner" /\ answer # NoAnswer
        /\ CASE answer = Down -> Ends(r, Down, FALSE) /\ UNCHANGED <<pvs, owners, gone>>
             [] answer = Missing ->
                    /\ pvs' = [pvs EXCEPT ![pv] = NoPv] /\ owners' = [owners EXCEPT ![pv] = NoOwner]
                    /\ gone' = IF NothingElseOnTheWay(r) /\ authority.owner[pv] = Missing
                               THEN gone \cup {pv} ELSE gone
                    /\ Checks(r, Nobody)
             [] OTHER ->
                    /\ owners' = [owners EXCEPT ![pv] = [owner |-> answer, at |-> clock]]
                    /\ Checks(r, answer) /\ UNCHANGED <<pvs, gone>>
        /\ UNCHANGED Outside

(* check_device_available: a name that is no device is available.          *)
Status(target) == IF target = Nobody THEN "absent" ELSE authority.status[target]

Checked(r) ==
    /\ req[r].at = "check"
    /\ CASE ~ authority.up -> Ends(r, Down, FALSE)
         [] authority.up /\ Status(req[r].target) \in Blocks ->
                Ends(r, Status(req[r].target), FALSE)
         [] OTHER -> GoesOn(r, "put")
    /\ UNCHANGED <<pvs, owners, gone, Outside>>

(* Limits and the put: a put that failed may have landed all the same.     *)
PutFails(r) ==
    /\ req[r].at = "put"
    /\ \E end \in {<<"limit", FALSE>>, <<"failed", FALSE>>, <<"failed", TRUE>>} :
          Ends(r, end[1], end[2])
    /\ UNCHANGED <<pvs, owners, gone, Outside>>

PutDone(r) ==
    /\ req[r].at = "put"
    /\ outcomes' = outcomes \cup {Outcome(r, "ok", TRUE)}
    /\ TakesUp(r, Tail(req[r].todo), req[r].n + 1)
    /\ UNCHANGED <<pvs, owners, gone, Outside>>

Step(r) ==
    \/ PvCached(r) \/ PvAsked(r) \/ PvAnswered(r)
    \/ OwnerCached(r) \/ OwnerAsked(r) \/ OwnerAnswered(r)
    \/ Checked(r) \/ PutFails(r) \/ PutDone(r)

Next ==
    \/ \E d \in Device : Deleted(d) \/ \E status \in Statuses : StatusChanges(d, status)
    \/ \E pv \in Pv, owner \in Device \cup {Nobody} : Registered(pv, owner)
    \/ GoesUpOrDown \/ Tick
    \/ \E r \in Request : Step(r) \/ \E batch \in Batches[r] : Arrives(r, batch)

Spec     == Init /\ [][Next]_vars
Progress == \E r \in Request : Step(r)
Fairness == WF_vars(Progress)
FairSpec == Spec /\ Fairness

-----------------------------------------------------------------------------
TypeOK ==
    /\ authority.owner \in [Pv -> Owners] /\ authority.status \in [Device -> Statuses]
    /\ \A pv \in Pv : pvs[pv].at <= clock /\ owners[pv].at <= clock
    /\ \A r \in Request : req[r].target \in Device \cup {Nobody}
                          /\ (req[r].answer # NoAnswer => req[r].at \in {"pv", "owner"})

(* Nothing is written to a PV that was missing, locked or disabled all the *)
(* time its request was there, or while the authority was down, once its   *)
(* owner has been the same for a TTL: caches may be stale that long.       *)
WritesAllowed ==
    \A o \in outcomes : o.stable /\ o.tried => o.fits

(* And a refusal gives a reason that was true while the request was there. *)
RefusalsTrue ==
    \A o \in outcomes : o.stable /\ ~ o.tried => o.fits

(* The look-up that finds a PV deleted ends the use of the cached entry: it *)
(* is the last one that lets a write through.                              *)
DeletedIsNoticed ==
    \A o \in outcomes : o.warned => ~ o.landed

(* What a batch reports as applied is what is written before the failure,  *)
(* and nothing after it is tried.                                          *)
BatchHalts ==
    \A o \in outcomes : \A n \in 1 .. o.n - 1 :
        \E p \in outcomes : p.req = o.req /\ p.n = n /\ p.ok /\ p.landed

(* What the gate lets through and what it refuses is as the authority says. *)
GateTrue == TypeOK /\ WritesAllowed /\ RefusalsTrue /\ DeletedIsNoticed

(* Every request ends.                                                     *)
RequestsEnd == \A r \in Request : Active(r) ~> ~ Active(r)

=============================================================================
