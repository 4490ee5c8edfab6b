------------------------------ MODULE PvRegistry ------------------------------
(* The index of process variables (configuration_service, models.py and the   *)
(* PV endpoints of main.py): which device a PV belongs to, for the gate that   *)
(* direct control asks before each write, and the PVs that are registered on   *)
(* their own.  Devices may share PVs, and a PV that is on its own may later    *)
(* become part of a device.                                                    *)
(*                                                                             *)
(* Handlers that change the registry hold registry_lock from the check through *)
(* the database to memory; the update of a standalone PV does not take it.     *)
EXTENDS Naturals

CONSTANTS
    Device, Pv,
    Nobody,        \* owner of a PV that is on its own
    Missing,       \* of a PV that is not in the index, and PVs of an absent device
    Profile,       \* what the profile says: Device -> PVs, or Missing
    MaxRequests, MaxStarts

VARIABLES
    up,         \* the process runs; its number of starts
    devices,    \* in memory: Device -> set of PVs, or Missing
    index,      \* registry.pvs: Pv -> owner
    alone,      \* registry.standalone_pv_names
    rows,       \* the table of devices
    store,      \* the table of standalone PVs
    busy,       \* what the holder of registry_lock does: op, at, name, pvs, fresh
    updates,    \* PVs whose update has read the table
    requests,   \* how many there were
    revived     \* history: PVs that an update wrote back after they were deleted

vars == <<up, devices, index, alone, rows, store, busy, updates, requests, revived>>

Idle    == [op |-> "none", at |-> "idle", name |-> Nobody, pvs |-> {}]
Nothing == [devices |-> [d \in Device |-> Missing], index |-> [v \in Pv |-> Missing], alone |-> {}]
Memory  == [devices |-> devices, index |-> index, alone |-> alone]

Lists(r, v) == {d \in Device : r.devices[d] # Missing /\ v \in r.devices[d]}

-----------------------------------------------------------------------------
(* The registry in memory.                                                    *)

(* A device takes all its PVs: the latest one to register has the PV.         *)
Added(r, d, pvs) ==
    [r EXCEPT !.devices[d] = pvs, !.index = [v \in Pv |-> IF v \in pvs THEN d ELSE @[v]]]

AddedAlone(r, v) ==
    [r EXCEPT !.alone = @ \cup {v}, !.index[v] = IF @ = Missing THEN Nobody ELSE @]

RemovedAlone(r, v) ==
    [r EXCEPT !.alone = @ \ {v}, !.index[v] = IF @ = Nobody THEN Missing ELSE @]

(* PVs of a device that goes: to another one that lists them, or back on      *)
(* their own, or out of the index.                                            *)
Released(r, d) ==
    LET heirs(v) == Lists(r, v) \ {d}
    IN  [r EXCEPT !.index =
            [v \in Pv |-> CASE @[v] # d                          -> @[v]
                            [] @[v] = d /\ heirs(v) # {}         -> CHOOSE h \in heirs(v) : TRUE
                            [] @[v] = d /\ heirs(v) = {} /\ v \in r.alone -> Nobody
                            [] OTHER                             -> Missing]]

Removed(r, d)      == [Released(r, d) EXCEPT !.devices[d] = Missing]
Updated(r, d, pvs) == Added(Released(r, d), d, pvs)

(* Loaded from the tables or the profile: any order of devices would do.      *)
Loaded(table, names) ==
    LET owner(v) == {d \in Device : table[d] # Missing /\ v \in table[d]}
    IN  [devices |-> table, alone |-> names,
         index |-> [v \in Pv |-> IF owner(v) # {} THEN CHOOSE d \in owner(v) : TRUE
                                 ELSE IF v \in names THEN Nobody ELSE Missing]]

-----------------------------------------------------------------------------
Becomes(r) == devices' = r.devices /\ index' = r.index /\ alone' = r.alone

Unchanged == UNCHANGED <<devices, index, alone>>

Init ==
    /\ up = [on |-> TRUE, starts |-> 1]
    /\ devices = Profile /\ rows = Profile
    /\ index = Loaded(Profile, {}).index /\ alone = {} /\ store = {}
    /\ busy = Idle /\ updates = {} /\ requests = 0 /\ revived = {}

Asked == up.on /\ requests < MaxRequests /\ requests' = requests + 1

(* Checked under the lock, against the registry that is published now.        *)
Takes(op, name, pvs, allowed) ==
    /\ Asked /\ busy = Idle
    /\ busy' = IF allowed THEN [op |-> op, at |-> "database", name |-> name, pvs |-> pvs] ELSE Idle
    /\ Unchanged /\ UNCHANGED <<up, rows, store, updates, revived>>

CreateDevice(d, pvs) == Takes("create device", d, pvs, devices[d] = Missing)
UpdateDevice(d, pvs) == Takes("update device", d, pvs, devices[d] # Missing)
DeleteDevice(d)      == Takes("delete device", d, {}, devices[d] # Missing)
Reset                == Takes("reset", Nobody, {}, TRUE)
CreateAlone(v)       == Takes("create", v, {}, index[v] = Missing /\ v \notin store)
DeleteAlone(v)       == Takes("delete", v, {}, v \in store)

Leaves == busy' = Idle

(* A write to the database: what comes next changes memory.                   *)
Writes ==
    /\ up.on /\ busy.at = "database"
    /\ rows' = CASE busy.op \in {"create device", "update device"} -> [rows EXCEPT ![busy.name] = busy.pvs]
                 [] busy.op = "delete device"                      -> [rows EXCEPT ![busy.name] = Missing]
                 [] busy.op = "reset"                              -> Profile
                 [] OTHER                                          -> rows
    /\ store' = CASE busy.op = "create" -> store \cup {busy.name}
                  [] busy.op = "delete" -> store \ {busy.name}
                  [] OTHER              -> store
    /\ busy' = [busy EXCEPT !.at = IF busy.op = "reset" THEN "standalone" ELSE "memory"]
    /\ revived' = IF busy.op \in {"create", "delete"} THEN revived \ {busy.name} ELSE revived
    /\ Unchanged /\ UNCHANGED <<up, updates, requests>>

WriteFails ==
    /\ up.on /\ busy.at = "database" /\ Leaves
    /\ Unchanged /\ UNCHANGED <<up, rows, store, updates, requests, revived>>

(* A reset builds a registry of its own, adds the standalone PVs and          *)
(* publishes it.                                                              *)
AppliesAlone ==
    /\ up.on /\ busy.at = "standalone"
    /\ busy' = [busy EXCEPT !.at = "memory", !.pvs = store]
    /\ Unchanged /\ UNCHANGED <<up, rows, store, updates, requests, revived>>

Publishes ==
    /\ up.on /\ busy.at = "memory" /\ Leaves
    /\ Becomes(CASE busy.op = "create device" -> Added(Memory, busy.name, busy.pvs)
                 [] busy.op = "update device" -> Updated(Memory, busy.name, busy.pvs)
                 [] busy.op = "delete device" -> Removed(Memory, busy.name)
                 [] busy.op = "create"        -> AddedAlone(Memory, busy.name)
                 [] busy.op = "delete"        -> RemovedAlone(Memory, busy.name)
                 [] OTHER                     -> Loaded(Profile, busy.pvs))
    /\ revived' = IF busy.op = "reset" THEN revived \ busy.pvs ELSE revived
    /\ UNCHANGED <<up, rows, store, updates, requests>>

(* The update of a standalone PV reads the table, merges, and writes the row, *)
(* with no lock held.                                                         *)
UpdateAlone(v) ==
    /\ Asked /\ v \notin updates
    /\ updates' = IF v \in store THEN updates \cup {v} ELSE updates
    /\ Unchanged /\ UNCHANGED <<up, rows, store, busy, revived>>

UpdateWrites(v) ==
    /\ up.on /\ v \in updates /\ updates' = updates \ {v}
    /\ \/ store' = store \cup {v} /\ revived' = IF v \in store THEN revived ELSE revived \cup {v}
       \/ UNCHANGED <<store, revived>>
    /\ Unchanged /\ UNCHANGED <<up, rows, busy, requests>>

Crash ==
    /\ up.on /\ up.starts < MaxStarts
    /\ up' = [up EXCEPT !.on = FALSE] /\ busy' = Idle /\ updates' = {}
    /\ Becomes(Nothing) /\ UNCHANGED <<rows, store, requests, revived>>

Starts ==
    /\ ~up.on /\ up' = [on |-> TRUE, starts |-> up.starts + 1]
    /\ Becomes(Loaded(rows, store)) /\ revived' = {}
    /\ UNCHANGED <<rows, store, busy, updates, requests>>

Next ==
    \/ \E d \in Device, pvs \in SUBSET Pv : CreateDevice(d, pvs) \/ UpdateDevice(d, pvs)
    \/ \E d \in Device : DeleteDevice(d)
    \/ \E v \in Pv : CreateAlone(v) \/ DeleteAlone(v) \/ UpdateAlone(v) \/ UpdateWrites(v)
    \/ Reset \/ Writes \/ WriteFails \/ AppliesAlone \/ Publishes \/ Crash \/ Starts

Spec == Init /\ [][Next]_vars

-----------------------------------------------------------------------------
TypeOK ==
    /\ index \in [Pv -> Device \cup {Nobody, Missing}]
    /\ alone \subseteq Pv /\ store \subseteq Pv /\ updates \subseteq Pv

(* What get_pv_status asks: a PV that devices list is gated by one of them,   *)
(* never by none and never by a device that is gone.                          *)
IndexTrue ==
    \A v \in Pv :
        IF Lists(Memory, v) # {} THEN index[v] \in Lists(Memory, v)
        ELSE index[v] = IF v \in alone THEN Nobody ELSE Missing

(* A restart finds the standalone PVs that are served now, and no others but  *)
(* those that an update wrote back into the table.                            *)
AloneKept == up.on /\ busy.at # "memory" => store = alone \cup revived

RegistryTrue == TypeOK /\ IndexTrue /\ AloneKept
=============================================================================
