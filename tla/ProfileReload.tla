--------------------------- MODULE ProfileReload ---------------------------
(* The profile collection on disk and the worker that loads it: POST       *)
(* /api/profile_collection/pull and /reload                                *)
(* (http/routers/profile_collection.py, manager/profile_collection.py).    *)
(*                                                                         *)
(* The checkout is a git working tree.  Commits of its upstream are        *)
(* numbered; a commit made on the host, which the upstream does not have,  *)
(* is `local`.  Every git command is a process of its own that is awaited, *)
(* so two handlers and the people on the host mix between any two of them. *)
EXTENDS Naturals, FiniteSets

CONSTANTS
    Handlers,     \* requests in flight
    Pixi,         \* commits of the upstream that change pixi.toml
    MaxCommits,   \* bound: commits of the upstream
    MaxFailures   \* bound: commands and messages that fail

VARIABLES
    upstream,     \* newest commit of the remote repository
    tracking,     \* @{upstream} here: the commit that was last fetched
    head,         \* the newest of its commits that HEAD has
    local,        \* HEAD has a commit of its own
    dirty,        \* git status --porcelain prints something
    env,          \* the worker's environment: closed, opening, open, closing
    from, loaded, \* commit when it began to open, and the one it loaded
    shown,        \* what the status of the manager may still say of it
    opener,       \* history: the handler whose request opened it last
    reported,     \* history: commits that an answer said to change pixi.toml
    job,          \* handler -> its request; `since`: upstream when it came
    failures

vars == <<upstream, tracking, head, local, dirty, env, from, loaded, shown,
          opener, reported, job, failures>>

disk   == <<upstream, tracking, head, local, dirty, reported>>
worker == <<env, from, loaded, shown, opener>>

NoJob == [op |-> "none", phase |-> "idle", since |-> 0, before |-> 0,
          after |-> 0, pixi |-> FALSE]

Init ==
    /\ upstream = 0 /\ tracking = 0 /\ head = 0
    /\ local = FALSE /\ dirty \in BOOLEAN
    /\ env \in {"closed", "open"} /\ from = 0 /\ loaded = 0
    /\ shown = (env = "open")
    /\ opener = "nobody" /\ reported = {}
    /\ job = [h \in Handlers |-> NoJob]
    /\ failures = 0

At(h, phase) == job[h].phase = phase
Goes(h, phase) == job' = [job EXCEPT ![h].phase = phase]
Finished == {"idle", "pulled", "recycled", "dirty", "diverged", "restart",
             "down", "failed"}

----------------------------------------------------------------------------
(* Around the handlers.                                                    *)

Pushed ==
    /\ upstream < MaxCommits
    /\ upstream' = upstream + 1
    /\ UNCHANGED <<tracking, head, local, dirty, reported, worker, job, failures>>

\* Somebody on the host edits files, reverts them, or commits them.
OnHost ==
    /\ \/ dirty' = ~dirty /\ UNCHANGED local
       \/ dirty /\ dirty' = FALSE /\ local' = TRUE
    /\ UNCHANGED <<upstream, tracking, head, reported, worker, job, failures>>

\* worker_environment_exists: from the end of opening to the end of closing.
Exists == env \in {"open", "closing"}

\* The status is kept for a while (ManagerClient): it may still show what was
\* before the last change.
EnvBecomes(e) == env' = e /\ shown' = Exists

\* environment_open and environment_close of somebody else.
OthersOpen ==
    /\ env = "closed" /\ EnvBecomes("opening")
    /\ from' = head /\ opener' = "nobody"
    /\ UNCHANGED <<disk, loaded, job, failures>>

OthersClose ==
    /\ env = "open" /\ EnvBecomes("closing")
    /\ UNCHANGED <<disk, from, loaded, opener, job, failures>>

\* The worker reads the profile at some time while it opens.
Opened ==
    /\ env = "opening" /\ EnvBecomes("open")
    /\ loaded' \in from..head
    /\ UNCHANGED <<disk, from, opener, job, failures>>

OpenFails ==
    /\ env = "opening" /\ EnvBecomes("closed")
    /\ failures < MaxFailures /\ failures' = failures + 1
    /\ UNCHANGED <<disk, from, loaded, opener, job>>

Closed ==
    /\ env = "closing" /\ EnvBecomes("closed")
    /\ UNCHANGED <<disk, from, loaded, opener, job, failures>>

----------------------------------------------------------------------------
(* pull: check, rev-parse, fetch, merge --ff-only, rev-parse, diff.        *)

Requested(h, op) ==
    /\ At(h, "idle")
    /\ job' = [job EXCEPT ![h] = [NoJob EXCEPT !.op = op, !.phase = "check",
                                               !.since = upstream]]
    /\ UNCHANGED <<disk, worker, failures>>

Checked(h) ==
    /\ At(h, "check")
    /\ Goes(h, IF dirty THEN "dirty" ELSE "before")
    /\ UNCHANGED <<disk, worker, failures>>

BeforeRead(h) ==
    /\ At(h, "before")
    /\ job' = [job EXCEPT ![h].phase = "fetch", ![h].before = head]
    /\ UNCHANGED <<disk, worker, failures>>

Fetched(h) ==
    /\ At(h, "fetch")
    /\ tracking' = upstream
    /\ Goes(h, "merge")
    /\ UNCHANGED <<upstream, head, local, dirty, reported, worker, failures>>

\* The merge refuses a branch with a commit of its own, unless there is
\* nothing new.  (It also refuses to overwrite edited files: GitFails.)
Merged(h) ==
    /\ At(h, "merge")
    /\ IF local /\ tracking > head
       THEN Goes(h, "diverged") /\ UNCHANGED head
       ELSE Goes(h, "after") /\ head' = tracking
    /\ UNCHANGED <<upstream, tracking, local, dirty, reported, worker,
                   failures>>

AfterRead(h) ==
    /\ At(h, "after")
    /\ job' = [job EXCEPT ![h].phase = "diff", ![h].after = head]
    /\ UNCHANGED <<disk, worker, failures>>

\* The files between the two commits; pixi.toml among them.
Diffed(h) ==
    LET found == {c \in Pixi : job[h].before < c /\ c <= job[h].after}
    IN  /\ At(h, "diff")
        /\ reported' = reported \union found
        /\ job' = [job EXCEPT
                     ![h].pixi = found # {},
                     ![h].phase = IF job[h].op = "pull" THEN "pulled"
                                  ELSE "status"]
        /\ UNCHANGED <<upstream, tracking, head, local, dirty, worker, failures>>

\* A git command fails: ProfileCollectionError, whatever was done before.
GitFails(h) ==
    /\ job[h].phase \in {"check", "before", "fetch", "merge", "after", "diff"}
    /\ failures < MaxFailures /\ failures' = failures + 1
    /\ Goes(h, "failed")
    /\ UNCHANGED <<disk, worker>>

----------------------------------------------------------------------------
(* reload: the status, then close, then open.                              *)

StatusRead(h) ==
    /\ At(h, "status")
    /\ \E exists \in {Exists, shown} :
         Goes(h, IF ~exists THEN "pulled"
                 ELSE IF job[h].pixi THEN "restart" ELSE "close")
    /\ UNCHANGED <<disk, worker, failures>>

\* The client of the manager was made with request_fail_exceptions=False, so
\* a refusal is an answer like any other; only a lost reply raises.  A close
\* that is accepted begins the closing and is answered at once.
CloseSent(h) ==
    /\ At(h, "close")
    /\ IF env = "open" THEN EnvBecomes("closing") \/ UNCHANGED <<env, shown>>
       ELSE UNCHANGED <<env, shown>>
    /\ \/ Goes(h, "open") /\ UNCHANGED failures
       \/ /\ failures < MaxFailures /\ failures' = failures + 1
          /\ Goes(h, "failed")
    /\ UNCHANGED <<disk, from, loaded, opener>>

\* The open follows at once: environment_recycled = True unless it raises.
OpenSent(h) ==
    /\ At(h, "open")
    /\ IF env = "closed"
       THEN EnvBecomes("opening") /\ from' = head /\ opener' = h
       ELSE UNCHANGED <<env, shown, from, opener>>
    /\ \/ Goes(h, "recycled") /\ UNCHANGED failures
       \/ /\ failures < MaxFailures /\ failures' = failures + 1
          /\ Goes(h, "down")
    /\ UNCHANGED <<disk, loaded>>

Leaves(h) ==
    /\ job[h].phase \in Finished \ {"idle"}
    /\ job' = [job EXCEPT ![h] = NoJob]
    /\ opener' = IF opener = h THEN "nobody" ELSE opener
    /\ UNCHANGED <<disk, env, from, loaded, shown, failures>>

Next ==
    \/ Pushed \/ OnHost
    \/ OthersOpen \/ OthersClose \/ Opened \/ OpenFails \/ Closed
    \/ \E h \in Handlers :
         \/ Requested(h, "pull") \/ Requested(h, "reload")
         \/ Checked(h) \/ BeforeRead(h) \/ Fetched(h) \/ Merged(h)
         \/ AfterRead(h) \/ Diffed(h) \/ GitFails(h)
         \/ StatusRead(h) \/ CloseSent(h) \/ OpenSent(h) \/ Leaves(h)

Spec == Init /\ [][Next]_vars

----------------------------------------------------------------------------
(* The parts of ReloadTrue.                                                *)

\* A worker that a reload opened loads what the reload pulled, or newer.
RecycledLoads ==
    \A h \in Handlers :
        opener = h =>
            /\ env = "opening" => from >= job[h].after
            /\ env = "open" => loaded >= job[h].after

\* A pull that succeeds brings all that the upstream had when it was asked
\* for, whoever else pulls.
PullIsCurrent ==
    \A h \in Handlers :
        job[h].phase \in {"status", "close", "open", "pulled", "recycled",
                          "restart", "down"}
          => /\ job[h].since <= job[h].after
             /\ job[h].before <= job[h].after /\ job[h].after <= head

\* Unless a command failed, a change of pixi.toml that came to the disk was
\* reported to the request that brought it, or will be.
PixiReported ==
    failures = 0 =>
        \A c \in Pixi :
            c <= head => \/ c \in reported
                         \/ \E h \in Handlers : /\ job[h].phase \in {"after", "diff"}
                                               /\ job[h].before < c

ReloadTrue == RecycledLoads /\ PullIsCurrent /\ PixiReported

-----------------------------------------------------------------------------
\* environment_recycled: "True if an existing environment was closed and
\* reopened."  The code does not keep it: see the README.
RecycledIsReopened ==
    \A h \in Handlers :
        At(h, "recycled") => opener = h \/ env \in {"opening", "open"}

=============================================================================
