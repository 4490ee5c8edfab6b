---------------------------- MODULE WorkerLists ----------------------------
(* The namespace of the RE Worker, the lists of plans and devices that are   *)
(* made of it, the copy that the RE Manager answers its clients from, and    *)
(* the file that a manager without a worker reads.                           *)
(*                                                                           *)
(* The profile, uploaded scripts, functions, the shell of a plan's devices   *)
(* (the overlay of the configuration service) all write into one dictionary, *)
(* from three threads of the worker: its main thread (front), a background   *)
(* thread (back) and the thread that serves the pipe (rpc).  The lists are   *)
(* made again by some of these and replaced only when the descriptions       *)
(* differ; a flag tells the manager, which polls, to fetch them.             *)
EXTENDS Naturals, Sequences, SequencesExt

CONSTANTS
    Plan, Device,       \* names in the namespace
    Engine,             \* the name RE
    Missing,            \* no object, no description
    Describe,           \* [object -> description]: several objects have one
    Invalid,            \* plans whose signature cannot be described
    IgnoreInvalid,      \* ignore_invalid_plans
    OnDisk,             \* update_existing_plans_devices: NEVER, ENVIRONMENT_OPEN, ALWAYS
    Profiles,           \* startup code: sequences of sources, each [from, does]
    Overlays,           \* what the configuration service has: sequences of assignments
    Uploads, Calls,     \* scripts, [does, lists, engine], and functions: what they assign
    MaxTasks, MaxFailures

(* The requests: a script, which may have the lists made again and may       *)
(* replace RE; an update, which is a script of nothing; and a function.      *)
Uploaded == {[kind |-> "script", does |-> u.does, lists |-> u.lists, engine |-> u.engine] : u \in Uploads}
Update   == [kind |-> "script", does |-> << >>, lists |-> TRUE, engine |-> TRUE]
Called   == {[kind |-> "function", does |-> does, lists |-> FALSE, engine |-> FALSE] : does \in Calls}

Name   == Plan \cup Device
Thread == {"front", "back", "rpc"}

VARIABLES
    env,        \* the worker: closed, loading, idle, failed
    todo,       \* files of the profile still to run
    nspace,     \* _re_namespace
    objects,    \* _plans_in_nspace, _devices_in_nspace
    lists,      \* _existing_plans, _existing_devices
    data,       \* _config_service_device_data
    flag,       \* _existing_plans_and_devices_changed
    engine,     \* _RE
    task,       \* [Thread -> what it does]
    file,       \* existing_plans_and_devices.yaml
    copy,       \* the manager's lists and device data
    fetch,      \* the manager's request for them
    fresh,      \* history: the last refresh saw all changes
    missed,     \* history: a change that the flag no longer tells
    unsaved,    \* history: a write that failed or came too late
    strayed,    \* history: RE was assigned by something that does not take it up
    tasks, failures

vars == <<env, todo, nspace, objects, lists, data, flag, engine, task, file, copy, fetch,
          fresh, missed, unsaved, strayed, tasks, failures>>

Empty   == [n \in Name |-> Missing]
Free    == [at |-> "free"]
NoFetch == [at |-> "none"]

(* What the lists tell of a snapshot of the namespace.                       *)
Told(obj)       == IF obj = Missing \/ obj \in Invalid THEN Missing ELSE Describe[obj]
Plans(snap)     == [n \in Plan |-> Told(snap[n])]
Devices(snap)   == [n \in Device |-> Told(snap[n])]
Described(snap) == Plans(snap) @@ Devices(snap)
Payload(snap)   == [n \in Device |-> snap[n]]
Raises(snap)    == ~IgnoreInvalid /\ \E n \in Plan : snap[n] \in Invalid
Names(ns)       == [n \in Name |-> ns[n]]

Assigned(ns, does) == [n \in DOMAIN ns |->
    IF \E i \in DOMAIN does : does[i].name = n
    THEN does[CHOOSE i \in DOMAIN does : does[i].name = n /\ \A j \in DOMAIN does : does[j].name = n => j <= i].obj
    ELSE ns[n]]

Refreshing(t) == task[t].at \in {"plans", "devices", "compare", "set"}
Quiet == fetch = NoFetch /\ \A t \in Thread : task[t] = Free

Fails == failures < MaxFailures /\ failures' = failures + 1

Init ==
    /\ env = "closed" /\ todo = << >>
    /\ nspace = [n \in Name \cup {Engine} |-> Missing]
    /\ objects = Empty /\ lists = Empty /\ data = Payload(Empty)
    /\ flag = FALSE /\ engine = Missing
    /\ task = [t \in Thread |-> Free]
    /\ file = Empty /\ copy = [lists |-> Empty, data |-> Payload(Empty)] /\ fetch = NoFetch
    /\ fresh = TRUE /\ missed = FALSE /\ unsaved = FALSE /\ strayed = FALSE
    /\ tasks = 0 /\ failures = 0

-----------------------------------------------------------------------------
(* The environment.                                                          *)
Opens ==
    /\ env = "closed" /\ tasks < MaxTasks /\ tasks' = tasks + 1
    /\ env' = "loading" /\ todo' \in Profiles
    /\ UNCHANGED <<nspace, objects, lists, data, flag, engine, task, file, copy, fetch,
                   fresh, missed, unsaved, strayed, failures>>

(* The files of a profile run in the order of their names; the script is one *)
(* file; the names of the module are there when its import is over.          *)
Loads(from) ==
    /\ env = "loading" /\ todo # << >> /\ Head(todo).from = from
    /\ nspace' = Assigned(nspace, Head(todo).does) /\ todo' = Tail(todo)
    /\ UNCHANGED <<env, objects, lists, data, flag, engine, task, file, copy, fetch,
                   fresh, missed, unsaved, strayed, tasks, failures>>

LoadsFile   == Loads("file")
LoadsModule == Loads("module")
LoadsScript == Loads("script")

(* After the last file the devices of the configuration service replace      *)
(* those of the profile, and everything is listed for the first time.        *)
Written(on, contents) == IF OnDisk \in on THEN contents ELSE file

Started ==
    /\ env = "loading" /\ todo = << >>
    /\ \E overlay \in Overlays \cup {<< >>} :
         LET ns == Assigned(nspace, overlay) IN
         /\ nspace' = ns
         /\ IF Raises(ns)
            THEN env' = "failed" /\ UNCHANGED <<objects, lists, data, flag, engine, file, unsaved, failures, fresh, strayed>>
            ELSE /\ env' = "idle" /\ flag' = TRUE /\ fresh' = TRUE /\ engine' = ns[Engine] /\ strayed' = FALSE
                 /\ objects' = Names(ns) /\ lists' = Described(ns) /\ data' = Payload(ns)
                 /\ \/ /\ file' = Written({"ENVIRONMENT_OPEN", "ALWAYS"}, Described(ns))
                       /\ unsaved' = FALSE /\ UNCHANGED failures
                    \/ /\ Fails /\ file # Described(ns) /\ OnDisk # "NEVER"
                       /\ unsaved' = TRUE /\ UNCHANGED file
    /\ UNCHANGED <<todo, task, copy, fetch, missed, tasks>>

StartupFails ==
    /\ env = "loading" /\ Fails /\ env' = "failed"
    /\ UNCHANGED <<todo, nspace, objects, lists, data, flag, engine, task, file, copy, fetch,
                   fresh, missed, unsaved, strayed, tasks>>

(* Background threads end with the process.                                  *)
Closes ==
    /\ env \in {"idle", "failed"} /\ fetch = NoFetch
    /\ task["front"] = Free /\ task["rpc"] = Free
    /\ env' = "closed" /\ todo' = << >> /\ nspace' = [n \in Name \cup {Engine} |-> Missing]
    /\ objects' = Empty /\ lists' = Empty /\ data' = Payload(Empty) /\ flag' = FALSE /\ engine' = Missing
    /\ task' = [t \in Thread |-> Free] /\ fresh' = TRUE /\ missed' = FALSE /\ strayed' = FALSE
    /\ UNCHANGED <<file, copy, fetch, unsaved, tasks, failures>>

(* qserver-list-plans-devices makes the file without a worker.               *)
ListsGenerated ==
    /\ env = "closed" /\ tasks < MaxTasks /\ tasks' = tasks + 1
    /\ \E profile \in Profiles :
         LET ns == Assigned(nspace, FlattenSeq([i \in DOMAIN profile |-> profile[i].does])) IN
         ~Raises(ns) /\ file' = Described(ns)
    /\ UNCHANGED <<env, todo, nspace, objects, lists, data, flag, engine, task, copy, fetch,
                   fresh, missed, unsaved, strayed, failures>>

-----------------------------------------------------------------------------
(* Scripts and functions.  In the front they run one at a time and while the *)
(* manager is idle; in the background beside anything.                       *)
Begins(t, jobs) ==
    /\ env = "idle" /\ t \in {"front", "back"} /\ task[t] = Free
    /\ t = "front" => task["rpc"] = Free
    /\ tasks < MaxTasks /\ tasks' = tasks + 1
    /\ \E job \in jobs :
         task' = [[u \in Thread |-> IF task[u].at = "running" THEN [task[u] EXCEPT !.crossed = TRUE] ELSE task[u]]
                  EXCEPT ![t] = [at |-> "running", job |-> job, left |-> job.does, backup |-> nspace[Engine],
                                 crossed |-> \E u \in Thread : task[u].at = "running",
                                 snap |-> Empty, changed |-> FALSE, clean |-> TRUE]]
    /\ UNCHANGED <<env, todo, nspace, objects, lists, data, flag, engine, file, copy, fetch,
                   fresh, missed, unsaved, strayed, failures>>

ScriptBegins(t)   == Begins(t, Uploaded \cup {Update})
FunctionBegins(t) == Begins(t, Called)

(* A script that may not replace the engine; one that is nothing at all (as  *)
(* environment_update sends) keeps no backup.                                *)
KeepsEngine(job) == job.kind = "script" /\ ~job.engine /\ job.does # << >>

(* One statement.  Whoever is reading the namespace may have read before it. *)
Disturbed(but) == [t \in Thread |-> IF t # but /\ Refreshing(t) THEN [task[t] EXCEPT !.clean = FALSE] ELSE task[t]]

Assigns(t) ==
    /\ task[t].at = "running" /\ task[t].left # << >>
    /\ LET step == Head(task[t].left) IN
         /\ nspace' = [nspace EXCEPT ![step.name] = step.obj]
         /\ fresh' = (fresh /\ step.name = Engine)
         /\ strayed' = (strayed \/ (step.name = Engine /\ ~KeepsEngine(task[t].job)))
         /\ task' = [(IF step.name = Engine THEN task ELSE Disturbed(t)) EXCEPT ![t].left = Tail(@)]
    /\ UNCHANGED <<env, todo, objects, lists, data, flag, engine, file, copy, fetch,
                   missed, unsaved, tasks, failures>>

(* The script is over.  Unless the engine may be replaced, RE is what it was *)
(* before the script; else the worker takes up what it finds.                *)
Restored(t) == IF KeepsEngine(task[t].job) THEN [nspace EXCEPT ![Engine] = task[t].backup] ELSE nspace

RunEnds(t) ==
    /\ task[t].at = "running" /\ task[t].left = << >>
    /\ nspace' = Restored(t)
    /\ LET takes == task[t].job.kind = "script" /\ task[t].job.engine /\ nspace[Engine] # Missing IN
         /\ engine' = IF takes THEN nspace[Engine] ELSE engine
         /\ strayed' = (~takes /\ (strayed \/ (KeepsEngine(task[t].job) /\ task[t].crossed)))
    /\ task' = IF task[t].job.lists
               THEN [u \in Thread |->
                       IF u = t THEN [task[t] EXCEPT !.at = "plans", !.clean = \A v \in Thread \ {t} : ~Refreshing(v)]
                       ELSE Disturbed(t)[u]]
               ELSE [task EXCEPT ![t].at = "done"]
    /\ UNCHANGED <<env, todo, objects, lists, data, flag, file, copy, fetch,
                   fresh, missed, unsaved, tasks, failures>>

(* What it did before it failed stays, except for RE.                        *)
RunFails(t) ==
    /\ task[t].at = "running" /\ Fails
    /\ nspace' = Restored(t) /\ strayed' = (strayed \/ (KeepsEngine(task[t].job) /\ task[t].crossed))
    /\ task' = [task EXCEPT ![t].at = "done"]
    /\ UNCHANGED <<env, todo, objects, lists, data, flag, engine, file, copy, fetch,
                   fresh, missed, unsaved, tasks>>

(* The devices that a plan needs, brought up to date before it starts: all   *)
(* are made before the first is put in place.                                *)
Overlay ==
    /\ env = "idle" /\ task["front"] = Free /\ task["rpc"] = Free
    /\ tasks < MaxTasks /\ tasks' = tasks + 1
    /\ \E overlay \in Overlays :
         \/ /\ nspace' = Assigned(nspace, overlay) /\ fresh' = FALSE
            /\ task' = [Disturbed("rpc") EXCEPT !["rpc"] =
                          [at |-> "plans", job |-> [kind |-> "overlay", does |-> overlay, lists |-> TRUE, engine |-> FALSE],
                           left |-> << >>, backup |-> Missing, crossed |-> FALSE, snap |-> Empty, changed |-> FALSE,
                           clean |-> \A v \in Thread : ~Refreshing(v)]]
            /\ UNCHANGED failures
         \/ Fails /\ UNCHANGED <<nspace, fresh, task>>
    /\ UNCHANGED <<env, todo, objects, lists, data, flag, engine, file, copy, fetch, missed, unsaved, strayed>>

-----------------------------------------------------------------------------
(* _refresh_lists_from_nspace: plans are looked up first and devices after   *)
(* them; another thread that adds or removes a name in between breaks the    *)
(* iteration, and so does a plan that cannot be described.                   *)
ReadsPlans(t) ==
    /\ task[t].at = "plans"
    /\ task' = [task EXCEPT ![t].at = "devices",
                            ![t].snap = [n \in Name |-> IF n \in Plan THEN nspace[n] ELSE Missing]]
    /\ UNCHANGED <<env, todo, nspace, objects, lists, data, flag, engine, file, copy, fetch,
                   fresh, missed, unsaved, strayed, tasks, failures>>

ReadsDevices(t) ==
    /\ task[t].at = "devices"
    /\ LET snap == [n \in Name |-> IF n \in Device THEN nspace[n] ELSE task[t].snap[n]] IN
         \/ ~Raises(snap) /\ task' = [task EXCEPT ![t].at = "compare", ![t].snap = snap]
         \/ (Raises(snap) \/ \E u \in Thread \ {t} : task[u].at = "running") /\ task' = [task EXCEPT ![t].at = "done"]
    /\ UNCHANGED <<env, todo, nspace, objects, lists, data, flag, engine, file, copy, fetch,
                   fresh, missed, unsaved, strayed, tasks, failures>>

(* The references are always replaced, what is told only if it differs.      *)
Compares(t) ==
    /\ task[t].at = "compare"
    /\ objects' = task[t].snap
    /\ LET changed == Described(task[t].snap) # lists IN
         /\ task' = [task EXCEPT ![t].at = IF changed THEN "set" ELSE "flag", ![t].changed = changed]
         /\ fresh' = (task[t].clean /\ ~changed)
    /\ UNCHANGED <<env, todo, nspace, lists, data, flag, engine, file, copy, fetch,
                   missed, unsaved, strayed, tasks, failures>>

Sets(t) ==
    /\ task[t].at = "set"
    /\ lists' = Described(task[t].snap) /\ data' = Payload(task[t].snap)
    /\ fresh' = task[t].clean
    /\ task' = [task EXCEPT ![t].at = IF OnDisk = "ALWAYS" THEN "save" ELSE "flag"]
    /\ UNCHANGED <<env, todo, nspace, objects, flag, engine, file, copy, fetch,
                   missed, unsaved, strayed, tasks, failures>>

(* The lists of the moment are what is saved: by another thread's change     *)
(* they may be newer than this one's, and older by the time of the write.    *)
TakesForFile(t) ==
    /\ task[t].at = "save"
    /\ task' = [task EXCEPT ![t].at = "write", ![t].snap = lists]
    /\ UNCHANGED <<env, todo, nspace, objects, lists, data, flag, engine, file, copy, fetch,
                   fresh, missed, unsaved, strayed, tasks, failures>>

Writes(t) ==
    /\ task[t].at = "write"
    /\ \/ /\ file' = task[t].snap /\ unsaved' = (task[t].snap # lists) /\ UNCHANGED failures
       \/ /\ file # task[t].snap /\ Fails /\ unsaved' = TRUE /\ UNCHANGED file
    /\ task' = [task EXCEPT ![t].at = "flag", ![t].snap = Empty]
    /\ UNCHANGED <<env, todo, nspace, objects, lists, data, flag, engine, copy, fetch,
                   fresh, missed, strayed, tasks>>

(* A script sets the flag to what it found, an overlay only ever raises it.  *)
Flags(t) ==
    /\ task[t].at = "flag"
    /\ flag' = IF task[t].job.kind = "script" THEN task[t].changed ELSE flag \/ task[t].changed
    /\ missed' = (missed \/ (flag /\ task[t].job.kind = "script" /\ ~task[t].changed))
    /\ task' = [task EXCEPT ![t].at = "done", ![t].snap = Empty]
    /\ UNCHANGED <<env, todo, nspace, objects, lists, data, engine, file, copy, fetch,
                   fresh, unsaved, strayed, tasks, failures>>

-----------------------------------------------------------------------------
(* The manager.  One poll tells it that a task is over and that there are    *)
(* new lists; an overlay is answered to a manager that waits for it, and the *)
(* lists are fetched at once.                                                *)
Wanted == [at |-> "asked", heard |-> TRUE, reply |-> [lists |-> Empty, data |-> Payload(Empty)]]

Polls ==
    /\ env = "idle" /\ fetch = NoFetch
    /\ flag \/ \E t \in {"front", "back"} : task[t].at = "done"
    /\ fetch' = IF flag THEN Wanted ELSE NoFetch
    /\ task' = [t \in Thread |-> IF t # "rpc" /\ task[t].at = "done" THEN Free ELSE task[t]]
    /\ UNCHANGED <<env, todo, nspace, objects, lists, data, flag, engine, file, copy,
                   fresh, missed, unsaved, strayed, tasks, failures>>

Answered ==
    /\ task["rpc"].at = "done" /\ fetch = NoFetch
    /\ fetch' = Wanted
    /\ task' = [task EXCEPT !["rpc"] = Free]
    /\ UNCHANGED <<env, todo, nspace, objects, lists, data, flag, engine, file, copy,
                   fresh, missed, unsaved, strayed, tasks, failures>>

(* The worker reads the lists under their lock and lowers the flag after it. *)
Reads ==
    /\ fetch.at = "asked" /\ task["rpc"] = Free
    /\ fetch' = [fetch EXCEPT !.at = "read", !.reply = [lists |-> lists, data |-> data]]
    /\ missed' = ~fetch.heard
    /\ UNCHANGED <<env, todo, nspace, objects, lists, data, flag, engine, task, file, copy,
                   fresh, unsaved, strayed, tasks, failures>>

Tells(t) == task[t].at \in {"save", "write", "flag"} /\ task[t].changed

Clears ==
    /\ fetch.at = "read"
    /\ flag' = FALSE
    /\ missed' = (missed \/ (fetch.reply # [lists |-> lists, data |-> data] /\ ~\E t \in Thread : Tells(t)))
    /\ fetch' = IF fetch.heard THEN [fetch EXCEPT !.at = "answered"] ELSE NoFetch
    /\ UNCHANGED <<env, todo, nspace, objects, lists, data, engine, task, file, copy,
                   fresh, unsaved, strayed, tasks, failures>>

TakesOver ==
    /\ fetch.at = "answered"
    /\ copy' = fetch.reply /\ fetch' = NoFetch
    /\ UNCHANGED <<env, todo, nspace, objects, lists, data, flag, engine, task, file,
                   fresh, missed, unsaved, strayed, tasks, failures>>

(* The manager waits no longer; the worker does its part all the same.       *)
GivesUp ==
    /\ fetch # NoFetch /\ fetch.heard /\ Fails
    /\ fetch' = IF fetch.at = "answered" THEN NoFetch ELSE [fetch EXCEPT !.heard = FALSE]
    /\ missed' = TRUE
    /\ UNCHANGED <<env, todo, nspace, objects, lists, data, flag, engine, task, file, copy,
                   fresh, unsaved, strayed, tasks>>

(* A new manager has the worker's lists, if there is a worker, else those of *)
(* the file; permissions_reload takes the file's in any case.                *)
Restarts ==
    /\ Fails /\ env \in {"idle", "closed"} /\ fetch = NoFetch /\ task["rpc"] = Free
    /\ IF env = "idle"
       THEN fetch' = Wanted /\ copy' = [lists |-> Empty, data |-> Payload(Empty)]
       ELSE UNCHANGED fetch /\ copy' = [lists |-> file, data |-> Payload(Empty)]
    /\ UNCHANGED <<env, todo, nspace, objects, lists, data, flag, engine, task, file,
                   fresh, missed, unsaved, strayed, tasks>>

ReloadsFromFile ==
    /\ Fails
    /\ copy' = [copy EXCEPT !.lists = file]
    /\ missed' = (missed \/ file # lists)
    /\ UNCHANGED <<env, todo, nspace, objects, lists, data, flag, engine, task, file, fetch,
                   fresh, unsaved, strayed, tasks>>

Refresh(t) == ReadsPlans(t) \/ ReadsDevices(t) \/ Compares(t) \/ Sets(t) \/ TakesForFile(t) \/ Writes(t) \/ Flags(t)
Runs(t)    == ScriptBegins(t) \/ FunctionBegins(t) \/ Assigns(t) \/ RunEnds(t) \/ RunFails(t)

Next ==
    \/ Opens \/ LoadsFile \/ LoadsModule \/ LoadsScript \/ ListsGenerated \/ Started \/ StartupFails \/ Closes \/ Overlay
    \/ \E t \in Thread : Runs(t) \/ Refresh(t)
    \/ Polls \/ Answered \/ Reads \/ Clears \/ TakesOver \/ GivesUp \/ Restarts \/ ReloadsFromFile

-----------------------------------------------------------------------------
(* The lists, and the objects that plans are given, are those of the         *)
(* namespace, once a refresh that no other thread crossed has ended.         *)
ListsFollowNamespace == env = "idle" /\ fresh => objects = Names(nspace) /\ lists = Described(nspace)

(* The device data that goes to the registry is told with the lists: it is   *)
(* never of other devices than they are.                                     *)
DataFollowsLists == \A n \in Device : (IF data[n] = Missing THEN Missing ELSE Describe[data[n]]) = lists[n]

(* When nothing is under way and the flag is down, the manager has the       *)
(* worker's lists, except for the ways in which a change is known to be      *)
(* missed: a script that changed nothing lowered a flag it had not raised,   *)
(* a change came between the reading and the lowering, a reply was not       *)
(* waited for, or the old file was asked for.                                *)
CopyFollows == env = "idle" /\ Quiet /\ ~flag /\ ~missed => copy = [lists |-> lists, data |-> data]

(* The file is what the lists are, if it is always written.                  *)
FileFollows ==
    env = "idle" /\ OnDisk = "ALWAYS" /\ (\A t \in Thread : task[t] = Free) /\ ~unsaved => file = lists

(* The Run Engine that the worker drives is the one of the namespace: a      *)
(* script that may not replace it leaves none of its own behind, unless      *)
(* another ran beside it.  A function's stays in the namespace, and so does  *)
(* that of a script that may replace it and failed.                          *)
EngineFollows == env = "idle" /\ ~strayed /\ (\A t \in Thread : task[t].at # "running") => engine = nspace[Engine]

ListsTrue == ListsFollowNamespace /\ DataFollowsLists /\ CopyFollows /\ FileFollows /\ EngineFollows
=============================================================================
