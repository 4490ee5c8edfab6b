----------------------------- MODULE MCServices -----------------------------
(* Parts of the three services, each in a small instance: the lock of the   *)
(* RE Manager, whose property is LockAsTold of LockKeys; tasks and their     *)
(* results, and a client's connection; permissions of plans; the gate before *)
(* a write, commands to a device, and the watch on a PV with two kinds of    *)
(* sockets; and those of MCRegistry.  In a behaviour one of them moves       *)
(* (part) and the others stay where they begin: they share no variable, so   *)
(* this shows as much of each as all of them at once.                        *)
EXTENDS LockKeys, MCRegistry

CONSTANTS
    Task, NoTask, Retention, TaskTime, MaxEnv, TaskFaults,                \* of TaskResults
    Caller, NoCaller, MaxCalls, MaxFailures, Prompt, Encodable,           \* of ZmqClient
    Pv, Device, Blocks, Request, Batches, TTL, MaxTime, MaxChanges,       \* of DirectGate
    Kinds, MaxInstance,                                                   \* and DeviceCommands
    Web, Dev, Rest, Token, Here,                                          \* of PvSockets
    Existing, Attributes, Roots, Permissions, Parameters, Values, MaxEvents, \* of PlanPermissions
    none

VARIABLES
    worker, manager, start, load, stale, pending, results, clock, seen,
    pc, calls, owner, flags, cb, data, socket, thread, outcomes, failures,
    authority, time, pvs, owners, req, ended, moved, gone, changes,
    registry, now, cached, entry, holder, instances, commands, motion, edits,
    signal, alive, evicted, callbacks, gate, recent, job, doing, confirmed, pv, dev, joined,
    stored, lists, handler, allowed, tasks, item, locks, given, errors

lock     == <<info, kept, saving, told, faults>>
work     == <<worker, manager, start, load, stale, pending, results, clock, seen>>
client   == <<pc, calls, owner, flags, cb, data, socket, thread, outcomes, failures>>
writes   == <<authority, time, pvs, owners, req, ended, moved, gone, changes>>
motions  == <<registry, now, cached, entry, holder, instances, commands, motion, edits>>
watching == <<signal, alive, evicted, callbacks, gate, recent, job, doing, confirmed, pv, dev, joined>>
rights   == <<stored, lists, handler, allowed, tasks, item, locks, given, errors>>

T == INSTANCE TaskResults WITH
    MaxTime <- TaskTime, MaxFaults <- TaskFaults

C == INSTANCE ZmqClient

(* A batch of two and a single write.                                       *)
SmallBatches == [r \in {r1, r2} |-> {IF r = r1 THEN <<v1, v1>> ELSE <<v1>>}]

G == INSTANCE DirectGate WITH
    Nobody <- none, Missing <- "missing",
    clock <- time, outcomes <- ended

(* One puts and waits; the other puts without waiting, or reads.            *)
SmallKinds == [r \in {r1, r2} |-> IF r = r1 THEN {"put"} ELSE {"initiate", "read"}]

D == INSTANCE DeviceCommands WITH
    Nobody <- none,
    clock <- now, req <- commands, changes <- edits

(* Two clients of the pv socket and a reader; two of the device socket and   *)
(* one of the pv socket.  The others stay away.                              *)
SmallHere == [p \in {"pv socket", "device socket"} |->
                  IF p = "pv socket" THEN Web \cup Rest ELSE Dev \cup {CHOOSE c \in Web : TRUE}]

Peers == Web \cup Dev \cup Rest

S == INSTANCE PvSockets WITH
    Client <- Peers, told <- confirmed

(* A motor m with a readable component v and an attribute w that is not in  *)
(* the tree, and a detector d.                                               *)
Name(path)            == [kind |-> "name", path |-> path]
Re(components)        == [kind |-> "re", type |-> "", components |-> components]
Full(type, suffixes)  == [kind |-> "full", type |-> type, components |-> << >>, full |-> suffixes, depth |-> 1]
Find(names, include)  == [names |-> names, include |-> include]
Bad                   == [kind |-> "bad"]
Everything            == [all |-> TRUE, allow |-> {}, forbid |-> {}]
Only(allow, forbid)   == [all |-> FALSE, allow |-> allow, forbid |-> forbid]
Except(forbid)        == [all |-> TRUE, allow |-> {}, forbid |-> forbid]

Tree ==
    (<<"m">>      :> [type |-> "motor",    excluded |-> FALSE]) @@
    (<<"m", "v">> :> [type |-> "readable", excluded |-> FALSE]) @@
    (<<"d">>      :> [type |-> "detector", excluded |-> FALSE])

Objects == DOMAIN Tree \cup {<<"m", "w">>, <<"x">>}

Components == Re(<<Find({"m"}, FALSE), Find({"v"}, TRUE)>>)

PermissionSets ==
    {[root |-> Everything, user |-> Everything],
     [root |-> Except({Name(<<"m">>)}), user |-> Only({Re(<<Find({"m", "d"}, TRUE)>>)}, {})],
     [root |-> Only({Components, Name(<<"d">>)}, {}), user |-> Everything],
     [root |-> Everything, user |-> Only({Full("__MOTOR__", {<<"m">>, <<"d">>})}, {Components})],
     [root |-> Except({Bad}), user |-> Everything]}

Param == [annotated |-> FALSE, custom |-> {}, convert |-> "unset", eval |-> FALSE, default |-> {}]
Text(path) == [path |-> path, blank |-> FALSE]

Descriptions ==
    {Param,
     [Param EXCEPT !.annotated = TRUE, !.convert = "yes", !.eval = TRUE],
     [Param EXCEPT !.annotated = TRUE, !.default = {Text(<<"d">>)}],
     [Param EXCEPT !.annotated = TRUE, !.custom = {Components, Name(<<"d">>)}]}

Strings == {Text(path) : path \in Objects} \cup {[path |-> <<"m">>, blank |-> TRUE]}

R == INSTANCE PlanPermissions WITH
    Registered <- Roots, NoPermissions <- none,
    manager <- lists, worker <- allowed, seen <- errors

ServicesInit ==
    /\ part \in {"lock", "work", "client", "rights", "gate", "commands", "pv socket", "device socket"}
               \cup RegistryParts
    /\ Init /\ T!Init /\ C!Init /\ R!Init /\ G!Init /\ D!Init /\ S!Init
    /\ part # "gate" => authority.status = [d \in Device |-> "available"]
    /\ RegistryInit
    /\ part # "rights" => stored = [root |-> Everything, user |-> Everything]

ServicesNext ==
    \/ part = "lock"          /\ Next /\ UNCHANGED <<part, work, client, rights, writes, motions, watching, registryVars>>
    \/ part = "work"          /\ T!Next /\ UNCHANGED <<part, lock, client, rights, writes, motions, watching, registryVars>>
    \/ part = "client"        /\ C!Next /\ UNCHANGED <<part, lock, work, rights, writes, motions, watching, registryVars>>
    \/ part = "rights"        /\ R!Next /\ UNCHANGED <<part, lock, work, client, writes, motions, watching, registryVars>>
    \/ part = "gate"          /\ G!Next /\ UNCHANGED <<part, lock, work, client, rights, motions, watching, registryVars>>
    \/ part = "commands"      /\ D!Next /\ UNCHANGED <<part, lock, work, client, rights, writes, watching, registryVars>>
    \/ /\ part \in {"pv socket", "device socket"}
       /\ S!Next /\ \A c \in Peers \ Here[part] : doing'[c] = "idle"
       /\ UNCHANGED <<part, lock, work, client, rights, writes, motions, registryVars>>
    \/ RegistryNext /\ UNCHANGED <<lock, work, client, rights, writes, motions, watching>>

ServicesSpec == ServicesInit /\ [][ServicesNext]_<<part, lock, work, client, rights, writes, motions, watching, registryVars>>

-----------------------------------------------------------------------------
(* Results of tasks are neither lost nor doubled, what runs is known, and    *)
(* every call of a client gets what it waits for, once.                      *)
ResultsTrue ==
    /\ part = "work"   => T!ResultsTrue
    /\ part = "client" => C!CallsAnswered

(* A plan runs on motions that its group may use, and that are locked for it. *)
PermissionsTrue == part = "rights" => R!PermissionsTrue

(* Writes to PVs are let through and refused as the authority says, and a    *)
(* batch applies a prefix of its items and says so.                          *)
GateTrue == part = "gate" => G!GateTrue /\ G!BatchHalts

(* A command runs on the one object that the device has, as registered; a    *)
(* locked device is not moved, and no motion goes on unsaid.                 *)
DevicesTrue == part = "commands" => D!ObjectsTrue /\ D!MotionTrue

(* Owners and health of PVs, the PVs of classes, and the registry after a     *)
(* sync, are what the requests and the profile made of them.                 *)
RegistryTrue == RegistryPvsTrue /\ RegistrySyncTrue

(* No signal and no callback is left behind by clients that come and go, and *)
(* a client that was told "subscribed" is served.                            *)
SocketsTrue ==
    part \in {"pv socket", "device socket"} => S!TypeOK /\ S!NothingLeaks /\ S!SubscribedIsServed
=============================================================================
