--------------------------- MODULE DeviceCommands ---------------------------
(***************************************************************************)
(* Commands to a whole device (direct_control): the gate, the cached        *)
(* instantiation spec, the live object that DeviceManager keeps for the     *)
(* device, and the driver, which waits for the motion and stops the device  *)
(* when the wait is over.  One device: names have locks of their own.       *)
(***************************************************************************)
EXTENDS Naturals, FiniteSets

CONSTANTS
    Request, Nobody,
    Kinds,        \* requests made: "read", "put" (waited for), "initiate" (use_put)
    TTL,          \* of the cached spec
    MaxTime,      \* bound on the clock
    MaxInstance,  \* bound on the objects built
    MaxChanges    \* bound on changes of the spec and of the lock

VARIABLES
    registry,     \* configuration_service: spec (0: it has none) and locked
    clock,
    cached,       \* _spec_cache
    entry,        \* _entries: the live object, or 0
    holder,       \* who holds the asyncio lock of the device
    instances,    \* objects built: their spec, and what became of them
    req,
    motion,       \* commands that still move the hardware
    changes

vars == <<registry, clock, cached, entry, holder, instances, req, motion, changes>>

Idle == [at |-> "none", kind |-> "none", spec |-> 0, inst |-> 0, asked |-> FALSE, end |-> "none",
         free |-> FALSE, stable |-> FALSE]
Active(r) == req[r].at \notin {"none", "done"}

Init ==
    /\ registry = [spec |-> 1, locked |-> FALSE, since |-> 0] /\ clock = TTL + 1
    /\ cached = [spec |-> 0, at |-> 0] /\ entry = 0 /\ holder = Nobody /\ instances = << >>
    /\ req = [r \in Request |-> Idle] /\ motion = {} /\ changes = 0

-----------------------------------------------------------------------------
(* configuration_service (external here).                                  *)

Becomes(new) ==
    /\ changes < MaxChanges /\ changes' = changes + 1
    /\ registry' = new
    /\ req' = [r \in Request |-> [req[r] EXCEPT !.free = @ \/ (Active(r) /\ ~ new.locked),
                                                !.stable = @ /\ new.spec = registry.spec]]
    /\ UNCHANGED <<clock, cached, entry, holder, instances, motion>>

SpecChanges(spec) == spec # registry.spec /\ Becomes([registry EXCEPT !.spec = spec, !.since = clock])
LockChanges       == Becomes([registry EXCEPT !.locked = ~ @])

Tick ==
    /\ clock < MaxTime /\ \A r \in Request : ~ req[r].asked
    /\ clock' = clock + 1
    /\ UNCHANGED <<registry, cached, entry, holder, instances, req, motion, changes>>

-----------------------------------------------------------------------------
Goes(r, at) == req' = [req EXCEPT ![r].at = at]
Ends(r, end) == req' = [req EXCEPT ![r].at = "done", ![r].end = end]
Objects == <<entry, holder, instances>>
Outside == <<registry, clock, changes>>

(* Reading needs no permission.                                            *)
Arrives(r, kind) ==
    /\ req[r].at = "none"
    /\ req' = [req EXCEPT ![r] = [Idle EXCEPT !.at = IF kind = "read" THEN "spec" ELSE "check",
                                    !.kind = kind, !.free = ~ registry.locked,
                                    !.stable = clock > registry.since + TTL]]
    /\ UNCHANGED <<cached, Objects, motion, Outside>>

Checked(r) ==
    /\ req[r].at = "check"
    /\ IF registry.locked THEN Ends(r, "locked") ELSE Goes(r, "spec")
    /\ UNCHANGED <<cached, Objects, motion, Outside>>

(* get_instantiation_spec; that there is none is cached as well.           *)
Got(r, spec) ==
    req' = [req EXCEPT ![r].at = IF spec = 0 THEN "done" ELSE "connect", ![r].spec = spec,
                       ![r].end = IF spec = 0 THEN "no spec" ELSE "none", ![r].asked = FALSE]

SpecFresh == clock <= cached.at + TTL

SpecCached(r) ==
    /\ req[r].at = "spec" /\ ~ req[r].asked /\ SpecFresh
    /\ Got(r, cached.spec)
    /\ UNCHANGED <<cached, Objects, motion, Outside>>

SpecAsked(r) ==
    /\ req[r].at = "spec" /\ ~ req[r].asked /\ ~ SpecFresh
    /\ req' = [req EXCEPT ![r].asked = TRUE, ![r].spec = registry.spec]
    /\ UNCHANGED <<cached, Objects, motion, Outside>>

SpecAnswered(r) ==
    /\ req[r].asked
    /\ cached' = [spec |-> req[r].spec, at |-> clock]
    /\ Got(r, req[r].spec)
    /\ UNCHANGED <<Objects, motion, Outside>>

-----------------------------------------------------------------------------
(* get_or_connect.                                                         *)

NextId == Cardinality(DOMAIN instances) + 1
New(spec) == [i \in 1..NextId |-> IF i = NextId THEN [spec |-> spec, is |-> "connecting"] ELSE instances[i]]

Matches(r) == entry # 0 /\ instances[entry].spec = req[r].spec

Cached(r) ==
    /\ req[r].at = "connect" /\ holder = Nobody /\ Matches(r)
    /\ req' = [req EXCEPT ![r].at = "invoke", ![r].inst = entry]
    /\ UNCHANGED <<cached, Objects, motion, Outside>>

Builds(r) ==
    /\ req[r].at = "connect" /\ holder = Nobody /\ entry = 0 /\ NextId <= MaxInstance
    /\ holder' = r /\ instances' = New(req[r].spec)
    /\ req' = [req EXCEPT ![r].at = "build", ![r].inst = NextId]
    /\ UNCHANGED <<entry, cached, motion, Outside>>

Rebuilds(r) ==
    /\ req[r].at = "connect" /\ holder = Nobody /\ entry # 0 /\ ~ Matches(r) /\ NextId <= MaxInstance
    /\ holder' = r /\ Goes(r, "destroy")
    /\ UNCHANGED <<entry, instances, cached, motion, Outside>>

Over == {"destroyed", "leaked"}  \* destroy may raise, which is only logged

OldDestroyed_KeepsEntry(r) ==
    /\ req[r].at = "destroy"
    /\ \E is \in Over : instances' = [New(req[r].spec) EXCEPT ![entry].is = is]
    /\ req' = [req EXCEPT ![r].at = "build", ![r].inst = NextId]
    /\ UNCHANGED <<entry, holder, cached, motion, Outside>>

OldDestroyed(r) ==
    /\ req[r].at = "destroy"
    /\ \E is \in Over : instances' = [New(req[r].spec) EXCEPT ![entry].is = is]
    /\ entry' = 0
    /\ req' = [req EXCEPT ![r].at = "build", ![r].inst = NextId]
    /\ UNCHANGED <<holder, cached, motion, Outside>>

Built(r) ==
    /\ req[r].at = "build"
    /\ instances' = [instances EXCEPT ![req[r].inst].is = "live"]
    /\ entry' = req[r].inst /\ holder' = Nobody
    /\ Goes(r, "invoke")
    /\ UNCHANGED <<cached, motion, Outside>>

BuildFails(r) ==
    /\ req[r].at = "build"
    /\ \E is \in Over : instances' = [instances EXCEPT ![req[r].inst].is = is]
    /\ holder' = Nobody /\ Ends(r, "failed")
    /\ UNCHANGED <<entry, cached, motion, Outside>>

-----------------------------------------------------------------------------
(* invoke.                                                                 *)

Live(r) == instances[req[r].inst].is = "live"

Invokes(r) ==
    /\ req[r].at = "invoke" /\ Live(r)
    /\ CASE req[r].kind = "read"     -> Ends(r, "ok") /\ UNCHANGED motion
         [] req[r].kind = "initiate" -> Ends(r, "initiated") /\ motion' = motion \cup {r}
         [] OTHER                    -> Goes(r, "wait") /\ motion' = motion \cup {r}
    /\ UNCHANGED <<cached, Objects, Outside>>

InvokeFails(r) ==
    /\ req[r].at = "invoke"
    /\ Ends(r, "failed")
    /\ UNCHANGED <<cached, Objects, motion, Outside>>

MotionEnds(r) ==
    /\ r \in motion /\ motion' = motion \ {r}
    /\ UNCHANGED <<cached, Objects, req, Outside>>

Completes(r) ==
    /\ req[r].at = "wait" /\ r \notin motion
    /\ \E end \in {"ok", "failed"} : Ends(r, end)
    /\ UNCHANGED <<cached, Objects, motion, Outside>>

TimesOut(r) ==
    /\ req[r].at = "wait" /\ r \in motion
    /\ Goes(r, "stop")
    /\ UNCHANGED <<cached, Objects, motion, Outside>>

(* stop() halts the device, whoever moves it.                              *)
Stopped(r) ==
    /\ req[r].at = "stop" /\ Live(r)
    /\ motion' = {} /\ Ends(r, "stopped")
    /\ UNCHANGED <<cached, Objects, Outside>>

StopFails(r) ==
    /\ req[r].at = "stop"
    /\ Ends(r, "may be moving")
    /\ UNCHANGED <<cached, Objects, motion, Outside>>

Step(r) ==
    \/ Checked(r) \/ SpecCached(r) \/ SpecAsked(r) \/ SpecAnswered(r)
    \/ Cached(r) \/ Builds(r) \/ Rebuilds(r) \/ OldDestroyed(r) \/ Built(r) \/ BuildFails(r)
    \/ Invokes(r) \/ InvokeFails(r) \/ Completes(r) \/ TimesOut(r) \/ Stopped(r) \/ StopFails(r)

Next ==
    \/ \E spec \in 0..2 : SpecChanges(spec)
    \/ LockChanges \/ Tick
    \/ \E r \in Request : MotionEnds(r) \/ Step(r) \/ \E kind \in Kinds[r] : Arrives(r, kind)

Spec     == Init /\ [][Next]_vars
Fairness == \A r \in Request : SF_vars(Step(r))
FairSpec == Spec /\ Fairness

-----------------------------------------------------------------------------
TypeOK ==
    /\ entry \in 0..MaxInstance /\ holder \in Request \cup {Nobody}
    /\ \A i \in DOMAIN instances : instances[i].is \in Over \cup {"connecting", "live"}
    /\ entry # 0 => instances[entry].is = "live"

(* There is one object for the device, connected or connecting, save those *)
(* that could not be destroyed.                                            *)
OneInstance == Cardinality({i \in DOMAIN instances : instances[i].is \notin Over}) <= 1

(* A command runs on an object built from the spec that the registry has   *)
(* had for a TTL.                                                          *)
CurrentSpec ==
    \A r \in Request : req[r].stable /\ req[r].at \in {"invoke", "wait"} =>
        instances[req[r].inst].spec = registry.spec

(* While the registry keeps the spec, no command loses its object.         *)
KeepsDevice ==
    \A r \in Request : changes = 0 /\ req[r].at \in {"invoke", "wait", "stop"} => Live(r)

(* A device that was locked all the time is not moved.                     *)
MovesAllowed == \A r \in motion : req[r].free

(* A command that moved the device and is over has stopped it, unless the  *)
(* answer says that it may still be moving.                                *)
ToldOfMotion ==
    \A r \in motion : req[r].at = "done" => req[r].end \in {"initiated", "may be moving"}

(* The object that a command runs on.                                      *)
ObjectsTrue == TypeOK /\ OneInstance /\ CurrentSpec /\ KeepsDevice

(* What a command may move, and what its answer says of it.                 *)
MotionTrue == MovesAllowed /\ ToldOfMotion

(* Every command ends.                                                     *)
CommandsEnd == \A r \in Request : Active(r) ~> ~ Active(r)

=============================================================================
