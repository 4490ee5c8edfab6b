--------------------------- MODULE PlanPermissions ---------------------------
(***************************************************************************)
(* Who may run a plan on which device.  Permissions name patterns of        *)
(* devices for the group "root", which bound those of every other group.    *)
(* Manager and worker compute the allowed trees, each from its own copy of   *)
(* the permissions; a submitted plan is validated by the manager, its        *)
(* devices are locked, and the worker turns names in its parameters into     *)
(* devices.  A device is a path of names; a regular expression is the set    *)
(* of the names, or of the paths, that it finds.                            *)
(***************************************************************************)
EXTENDS Sequences, FiniteSets, Naturals

CONSTANTS
    Existing,    \* tree of device descriptions: path -> [type, excluded]
    Attributes,  \* paths that the objects of the namespace have
    Registered,  \* roots active in the registry
    Permissions, \* [root, user] of [all, allow, forbid], patterns in the last two
    Parameters,  \* descriptions: annotated, custom, convert, eval, default
    Values,      \* strings given for a parameter: [path, blank]
    NoPermissions,
    MaxEvents    \* bound on changes of permissions, failures and restarts

VARIABLES
    stored,      \* user_group_permissions in the store
    manager,     \* perms, and of: the permissions its lists were computed from
    handler,     \* permissions_set or permissions_reload at work
    worker,      \* the same two in the worker
    tasks,       \* background tasks of the worker that compute its lists
    item,        \* a plan: its parameter, value, group, and how far it is
    locks,       \* roots locked for it
    given,       \* device paths that the plan was given
    seen         \* history: failed: a write of permissions failed, missed: the
                 \* worker was not told, raced: two tasks at once, and events

vars == <<stored, manager, handler, worker, tasks, item, locks, given, seen>>

-----------------------------------------------------------------------------
(* Patterns.                                                               *)

Types == [readable |-> {"__READABLE__", ""}, motor |-> {"__READABLE__", "__MOTOR__", ""},
          detector |-> {"__READABLE__", "__DETECTOR__", ""}]

Suffix(path, n) == SubSeq(path, n + 1, Len(path))

(* The last component is included, unless a full name follows.             *)
ByComponents(pattern, path) ==
    /\ Len(path) <= Len(pattern.components)
    /\ \A i \in 1 .. Len(path) : path[i] \in pattern.components[i].names
    /\ \/ pattern.components[Len(path)].include
       \/ pattern.kind = "re" /\ Len(path) = Len(pattern.components)

ByFullName(pattern, path) ==
    LET n == Len(pattern.components)
    IN  /\ Len(path) > n
        /\ \A i \in 1 .. n : path[i] \in pattern.components[i].names
        /\ Suffix(path, n) \in pattern.full
        /\ pattern.depth = 0 \/ Len(path) - n <= pattern.depth

Finds(pattern, path) ==
    CASE pattern.kind = "name" -> path = pattern.path
      [] pattern.kind = "re"   -> ByComponents(pattern, path)
      [] pattern.kind = "full" -> ByComponents(pattern, path) \/ ByFullName(pattern, path)

Selected(pattern, tree) ==
    {path \in DOMAIN tree : Finds(pattern, path)
                            /\ (pattern.kind # "name" => pattern.type \in Types[tree[path].type])}

InList(path, tree) == path \in DOMAIN tree /\ ~ tree[path].excluded

(* A name is copied without a look at the tree.                            *)
NameList(pattern, tree) ==
    IF pattern.kind = "name" THEN {pattern.path}
                             ELSE {path \in Selected(pattern, tree) : InList(path, tree)}

(* What is forbidden or not allowed is cut off, or stays as "excluded" for   *)
(* what is left below it.                                                  *)
Within(path, part) == Len(path) <= Len(part) /\ SubSeq(part, 1, Len(path)) = path

Cut(tree, out) ==
    LET kept == {path \in DOMAIN tree : \E part \in DOMAIN tree \ out : Within(path, part)}
    IN  [path \in kept |-> [tree[path] EXCEPT !.excluded = path \in out]]

FilterTree(tree, group) ==
    LET allowed   == IF group.all THEN DOMAIN tree ELSE UNION {Selected(p, tree) : p \in group.allow}
        forbidden == UNION {Selected(p, tree) : p \in group.forbid}
        before    == {path \in DOMAIN tree : tree[path].excluded}
    IN  Cut(tree, (DOMAIN tree \ allowed) \cup forbidden \cup before)

(* load_allowed_plans_and_devices: a pattern that cannot be read leaves     *)
(* everything to root and nothing to the others.                           *)
Readable(perms) ==
    \A g \in {"root", "user"} : \A p \in perms[g].allow \cup perms[g].forbid : p.kind # "bad"

AllowedDevices(perms) ==
    IF Readable(perms)
    THEN LET root == FilterTree(Existing, perms.root)
         IN  [root |-> root, user |-> FilterTree(root, perms.user)]
    ELSE [root |-> Existing]

-----------------------------------------------------------------------------
(* A plan: what validation lets through, what is locked for it, and what    *)
(* the worker makes of its parameter.                                      *)

NoCustom == {}
Root(path) == path[1]

CustomNames(param, tree) ==
    {path \in UNION {NameList(p, Existing) : p \in param.custom} : InList(path, tree)}

(* Without a type a parameter takes any value; a custom type is the list of *)
(* its names.                                                              *)
Valid(param, value, tree) ==
    param.custom # NoCustom => ~ value.blank /\ value.path \in CustomNames(param, tree)

Strings(i) == (IF i.left THEN {} ELSE {i.value}) \cup i.param.default

(* extract_device_names_from_plan.  Spaces are dropped to look a name up,   *)
(* not from what is returned: such a name is not in the registry.          *)
Named(v) ==
    ~ v.blank /\ (InList(v.path, Existing) \/ (Len(v.path) > 1 /\ InList(<<Root(v.path)>>, Existing)))

NamesOf_NoDefaults(i) ==
    {Root(v.path) : v \in {w \in Strings(i) \ i.param.default : Named(w)}}

NamesOf(i) == {Root(v.path) : v \in {w \in Strings(i) : Named(w)}}

LockedFor(i) == NamesOf(i) \cap Registered

(* prepare_plan.  A value left out takes the default, which is converted as  *)
(* one without annotation.                                                 *)
Converts(param) == param.convert = "yes" \/ (param.convert = "unset" /\ ~ param.annotated)

DevicesOf(param, value, tree) ==
    {v \in {value.path} \cap Attributes :
        \/ param.convert # "no" /\ ~ value.blank /\ v \in CustomNames(param, tree)
        \/ Converts(param) /\ InList(v, tree)
        \/ param.eval /\ ~ value.blank}

DefaultDevices(param, tree) == {v.path : v \in param.default} \cap Attributes \cap {p \in DOMAIN tree : InList(p, tree)}

Given(i, tree) == IF i.left THEN DefaultDevices(i.param, tree) ELSE DevicesOf(i.param, i.value, tree)

-----------------------------------------------------------------------------
NoItem == [at |-> "none"]
May == seen.events < MaxEvents

Init ==
    /\ stored \in Permissions
    /\ manager = [perms |-> stored, of |-> stored] /\ worker = manager
    /\ handler = "idle" /\ tasks = << >> /\ item = NoItem /\ locks = {} /\ given = {}
    /\ seen = [failed |-> FALSE, missed |-> FALSE, raced |-> FALSE, events |-> 0]

planOnly == <<stored, manager, handler, worker, tasks, seen>>
permsOnly == <<item, locks, given>>

(* permissions_set; the same permissions again are a success at once.       *)
Sets(perms) ==
    /\ May /\ handler = "idle" /\ perms # manager.perms
    /\ manager' = [manager EXCEPT !.perms = perms] /\ handler' = "set"
    /\ seen' = [seen EXCEPT !.events = @ + 1]
    /\ UNCHANGED <<stored, worker, tasks, permsOnly>>

(* permissions_reload, from the file or from the store.                     *)
ReloadsFile(perms) ==
    /\ May /\ handler = "idle"
    /\ manager' = [manager EXCEPT !.perms = perms] /\ handler' = "file"
    /\ seen' = [seen EXCEPT !.events = @ + 1]
    /\ UNCHANGED <<stored, worker, tasks, permsOnly>>

ReloadsStore ==
    /\ May /\ handler = "idle"
    /\ manager' = [perms |-> stored, of |-> stored] /\ handler' = "tell"
    /\ seen' = [seen EXCEPT !.failed = FALSE, !.events = @ + 1]
    /\ UNCHANGED <<stored, worker, tasks, permsOnly>>

Saved ==
    /\ handler \in {"set", "file"}
    /\ stored' = manager.perms /\ manager' = [manager EXCEPT !.of = manager.perms]
    /\ handler' = "tell" /\ seen' = [seen EXCEPT !.failed = FALSE]
    /\ UNCHANGED <<worker, tasks, permsOnly>>

(* When the file was loaded the failure is only logged.                    *)
SaveFails ==
    /\ May /\ handler \in {"set", "file"}
    /\ IF handler = "file" THEN manager' = [manager EXCEPT !.of = manager.perms] /\ handler' = "tell"
                           ELSE handler' = "idle" /\ UNCHANGED manager
    /\ seen' = [seen EXCEPT !.failed = TRUE, !.events = @ + 1]
    /\ UNCHANGED <<stored, worker, tasks, permsOnly>>

(* The worker takes the permissions and starts a background task, which     *)
(* reads them when it runs.                                                *)
NotRead == NoPermissions

Told ==
    /\ handler = "tell" /\ handler' = "idle" /\ Len(tasks) < 2
    /\ worker' = [worker EXCEPT !.perms = manager.perms]
    /\ tasks' = Append(tasks, NotRead)
    /\ seen' = [seen EXCEPT !.missed = FALSE, !.raced = tasks # << >>]
    /\ UNCHANGED <<stored, manager, permsOnly>>

NotTold ==
    /\ May /\ handler = "tell" /\ handler' = "idle"
    /\ seen' = [seen EXCEPT !.missed = TRUE, !.events = @ + 1]
    /\ UNCHANGED <<stored, manager, worker, tasks, permsOnly>>

TaskReads(i) ==
    /\ tasks[i] = NotRead /\ tasks' = [tasks EXCEPT ![i] = worker.perms]
    /\ UNCHANGED <<stored, manager, handler, worker, seen, permsOnly>>

TaskEnds(i) ==
    /\ tasks[i] # NotRead
    /\ worker' = [worker EXCEPT !.of = tasks[i]]
    /\ tasks' = [j \in 1 .. Len(tasks) - 1 |-> tasks[IF j < i THEN j ELSE j + 1]]
    /\ UNCHANGED <<stored, manager, handler, seen, permsOnly>>

ManagerRestart ==
    /\ May
    /\ manager' = [perms |-> stored, of |-> stored] /\ handler' = "idle"
    /\ seen' = [seen EXCEPT !.events = @ + 1, !.failed = FALSE, !.missed = TRUE]
    /\ UNCHANGED <<stored, worker, tasks, permsOnly>>

(* A new environment: the worker is started with the manager's copy.       *)
EnvironmentOpens ==
    /\ May /\ item.at \notin {"locked", "running"}
    /\ worker' = [perms |-> manager.perms, of |-> manager.perms] /\ tasks' = << >>
    /\ seen' = [seen EXCEPT !.missed = handler \in {"set", "file"}, !.raced = FALSE, !.events = @ + 1]
    /\ UNCHANGED <<stored, manager, handler, permsOnly>>

-----------------------------------------------------------------------------
Submits(group, param, value, left) ==
    /\ item.at = "none"
    /\ group \in DOMAIN AllowedDevices(manager.of)
    /\ left \/ Valid(param, value, AllowedDevices(manager.of)[group])
    /\ left => param.default = {value}
    /\ item' = [at |-> "queued", group |-> group, param |-> param, value |-> value, left |-> left]
    /\ UNCHANGED <<locks, given, planOnly>>

Locks ==
    /\ item.at = "queued"
    /\ locks' = LockedFor(item)
    /\ item' = [item EXCEPT !.at = "locked"]
    /\ UNCHANGED <<given, planOnly>>

(* The worker validates again, with its own lists.                         *)
Prepares ==
    /\ item.at = "locked"
    /\ LET lists == AllowedDevices(worker.of)
       IN  IF item.group \in DOMAIN lists
              /\ (item.left \/ Valid(item.param, item.value, lists[item.group]))
           THEN given' = Given(item, lists[item.group]) /\ item' = [item EXCEPT !.at = "running"]
                /\ UNCHANGED locks
           ELSE item' = NoItem /\ locks' = {} /\ UNCHANGED given
    /\ UNCHANGED planOnly

PlanEnds ==
    /\ item.at = "running" /\ item' = NoItem /\ locks' = {} /\ given' = {}
    /\ UNCHANGED planOnly

Next ==
    \/ \E perms \in Permissions : Sets(perms) \/ ReloadsFile(perms)
    \/ ReloadsStore \/ Saved \/ SaveFails \/ Told \/ NotTold \/ ManagerRestart \/ EnvironmentOpens
    \/ \E i \in DOMAIN tasks : TaskReads(i) \/ TaskEnds(i)
    \/ \E group \in {"root", "user"}, param \in Parameters, value \in Values, left \in BOOLEAN :
          Submits(group, param, value, left)
    \/ Locks \/ Prepares \/ PlanEnds

Spec == Init /\ [][Next]_vars

-----------------------------------------------------------------------------
TypeOK ==
    /\ {stored, manager.perms, manager.of, worker.perms, worker.of} \subseteq Permissions
    /\ handler \in {"idle", "set", "file", "tell"} /\ Len(tasks) <= 2
    /\ given \subseteq Attributes /\ locks \subseteq Registered

(* No group is allowed what is withheld from root, however the patterns of   *)
(* both overlap, nor sees it as the parent of what is allowed.              *)
GroupsWithinRoot ==
    LET lists == AllowedDevices(worker.of)
        Names(g) == {path \in DOMAIN lists[g] : InList(path, lists[g])}
    IN  "user" \in DOMAIN lists =>
            /\ Names("user") \subseteq Names("root")
            /\ DOMAIN lists.user \subseteq DOMAIN lists.root
            /\ \A path \in DOMAIN lists.root : \E part \in Names("root") : Within(path, part)

(* A running plan was given no registered device that is not locked for it.  *)
(* Not for a name with blanks in it, which is given and not locked.         *)
GivenIsLocked ==
    item.at = "running" /\ ~ item.value.blank =>
        \A path \in given : Root(path) \in Registered /\ <<Root(path)>> \in DOMAIN Existing =>
            Root(path) \in locks

(* Between requests the manager goes by the permissions that it has stored,  *)
(* if the last write of them did not fail, and the worker by the same ones,  *)
(* if it was told and had one task at a time.                              *)
PermissionsInForce ==
    /\ handler = "idle" /\ ~ seen.failed => manager.of = manager.perms /\ manager.perms = stored
    /\ handler = "idle" /\ tasks = << >> /\ ~ seen.failed /\ ~ seen.missed /\ ~ seen.raced =>
           worker.of = stored

PermissionsTrue == TypeOK /\ GroupsWithinRoot /\ GivenIsLocked /\ PermissionsInForce

=============================================================================
