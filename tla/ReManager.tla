----------------------------- MODULE ReManager -----------------------------
(***************************************************************************)
(* The RE Manager with its worker processes, the pipe between them and the *)
(* watchdog that creates and kills both.                                   *)
(*                                                                         *)
(* The manager is one event loop.  Requests of clients, the poll of the    *)
(* worker and the operations they begin are coroutines ("tasks"); a step   *)
(* here is what one of them does between two awaits.  They share the state *)
(* of the manager, m, and take turns at the pipe: a call waits in line,    *)
(* goes out, and comes back with the reply or with a timeout; after a      *)
(* timeout the worker may still serve the request.                         *)
(*                                                                         *)
(* The store (queue, running item, history, the stop and autostart flags)  *)
(* and the worker outlive the manager.                                     *)
(***************************************************************************)
EXTENDS WorkerOps, Sequences, FiniteSets

CONSTANTS
    Plans0,         \* the queue at the start
    Processes,      \* ids of worker processes: 1..n
    ConfigService,  \* config_service.enabled, with lock_scope "plan"
    TimeoutLimit,   \* _worker_state_timeout_limit
    MaxTasks,       \* bound on the coroutines at one time
    Budgets         \* how often each thing outside may happen, per behaviour

(* Calls to the worker that end in a timeout although it reads the pipe:    *)
(* "late" - reset, pause, continue, the report; "lost" - the start of a     *)
(* plan; "stray" - those by which a manager takes leave of a worker or      *)
(* takes over from another manager.  Deaths of a worker, restarts of the    *)
(* manager, requests.  Not counted, only permitted: "slow" - a call to the  *)
(* configuration service outlasts the recovery of a dead worker, or the     *)
(* worker's main thread the restart of the manager; "rash" - environments   *)
(* are destroyed and the queue is edited also while something is under way; *)
(* "open" - the behaviour begins with an open environment.                 *)
External == {"late", "lost", "stray", "slow", "dies", "restart", "destroy", "rash", "edit",
             "request", "open"}

ASSUME ManagerAssumption ==
    /\ Plans0 \in Seq(Plan)
    /\ NoPlan \notin Plan
    /\ IsFiniteSet(Processes) /\ Processes # {} /\ Processes = 1..Cardinality(Processes)
    /\ ConfigService \in BOOLEAN
    /\ TimeoutLimit \in Nat \ {0, 1} /\ MaxTasks \in Nat \ {0}
    /\ Budgets \subseteq [External -> Nat]

VARIABLES
    m,        \* what the manager remembers
    tasks,    \* its coroutines
    poll,     \* where the coroutine that polls the worker stands
    comm,     \* calls to the worker: line, pipe, answer
    store,    \* what is persisted
    worker,   \* the worker processes
    watched,  \* _re_worker of the watchdog; 0: none
    locked,   \* the plan whose devices are locked
    budget,   \* what may still happen
    seen      \* observed: plans completed, plans started since a stop

vars == <<m, tasks, poll, comm, store, worker, watched, locked, budget, seen>>

MState == {"initializing", "idle", "paused", "creating_environment", "starting_queue",
           "executing_queue", "closing_environment", "destroying_environment"}

Manager == [state : MState, env_exists : BOOLEAN, fut : {"none", "pending", "true", "false"},
            pause_pending : BOOLEAN, count : Nat, handled : BOOLEAN, known : BOOLEAN]

Restarted == [state |-> "initializing", env_exists |-> FALSE, fut |-> "none",
              pause_pending |-> FALSE, count |-> 0, handled |-> FALSE, known |-> FALSE]

(* Coroutines: the kind, where it waits, the plan it prepares.             *)
Places == [boot   |-> {"alive", "state"},
           open   |-> {"prefetch", "start", "wait", "sync", "confirm", "join", "exited"},
           close  |-> {"close", "wait", "confirm", "join", "exited"},
           kill   |-> {"kill", "check", "unlock"},
           unexp  |-> {"begin", "confirm", "join", "exited"},
           plan   |-> {"begin", "prepare", "reset", "run", "release"},
           report |-> {"begin", "fetch", "again", "unlock"},
           set    |-> {"idle", "idle_auto", "paused"},
           client |-> {"pause", "continue"}]

Task == UNION {[id : 1..MaxTasks, kind : {k}, at : Places[k], plan : Plan \cup {NoPlan}] :
               k \in DOMAIN Places}

Options == {"resume", "stop", "abort"}
Methods == {"state", "report", "run", "reset", "pause", "continue", "close", "confirm"}

May(f)   == budget[f] > 0
Spend(f) == May(f) /\ budget' = [budget EXCEPT ![f] = @ - 1]

Init ==
    /\ budget \in Budgets
    /\ m = [Restarted EXCEPT !.state = "idle", !.env_exists = May("open"), !.known = May("open")]
    /\ watched = IF May("open") THEN 1 ELSE 0
    /\ worker = [p \in Processes |-> IF p = watched THEN Opened ELSE NoWorker]
    /\ tasks = {} /\ poll = "sleep"
    /\ comm = [line |-> <<>>, pipe |-> <<>>, answer |-> <<>>]
    /\ store = [queue |-> Plans0, running |-> NoPlan, history |-> {}, stop |-> FALSE,
                auto |-> FALSE]
    /\ locked = NoPlan
    /\ seen = [completed |-> {}, stop |-> FALSE, pause |-> "none", started |-> 0]

Watched == IF watched = 0 THEN NoWorker ELSE worker[watched]

-----------------------------------------------------------------------------
(* Coroutines.                                                             *)

Free(ts)          == {i \in 1..MaxTasks : \A t \in ts : t.id # i}
NewId(ts)         == CHOOSE i \in Free(ts) : TRUE
Spawn(ts, k, at)  == ts \cup {[id |-> NewId(ts), kind |-> k, at |-> at, plan |-> NoPlan]}
Room              == Free(tasks) # {}
Finish(t)         == tasks \ {t}
Goto(t, at)       == Finish(t) \cup {[t EXCEPT !.at = at]}
At(t, kind, at)   == t \in tasks /\ t.kind = kind /\ t.at = at
Running(kind)     == \E t \in tasks : t.kind = kind

(* A coroutine that waits for nothing runs before anything else does.      *)
Ready(t) == t.kind = "set" \/ t.at \in {"begin", "kill"} \/ (t.at = "wait" /\ m.fut # "pending")
Idle     == \A t \in tasks : ~ Ready(t)

(* Calls to the worker; the poll is caller 0.                              *)
Call(c, id, method, arg) ==
    LET r == [from |-> id, method |-> method, arg |-> arg]
    IN  [line |-> Append(c.line, r), answer |-> c.answer,
         pipe |-> IF c.line = <<>> THEN Append(c.pipe, r) ELSE c.pipe]

(* The call at the head is over.  If its request, the last one in the pipe, *)
(* was not read, it stays there with nobody waiting when a worker reads the  *)
(* pipe, and is cleared away otherwise (asking for the state leaves no       *)
(* trace).  The next call in line goes out.                                *)
Nobody == MaxTasks + 1
Read   == \E p \in Processes : Listening(worker[p])

HangUp(c) ==
    LET last   == Len(c.pipe)
        unread == last # 0 /\ c.pipe[last].from = Head(c.line).from
        left   == IF ~ unread THEN c.pipe
                  ELSE IF Head(c.line).method # "state" /\ Read
                       THEN [c.pipe EXCEPT ![last].from = Nobody]
                       ELSE SubSeq(c.pipe, 1, last - 1)
        rest   == Tail(c.line)
    IN  [line |-> rest, answer |-> <<>>,
         pipe |-> IF rest = <<>> THEN left ELSE Append(left, Head(rest))]

Calling(id)  == comm.line # <<>> /\ Head(comm.line).from = id
Answered(id) == Calling(id) /\ comm.answer # <<>>
Answer       == comm.answer[1]

LateBy(method) == CASE method \in {"reset", "pause", "continue", "report"} -> "late"
                    [] method = "run" -> "lost"
                    [] OTHER -> "stray"

(* No reply in time: nobody reads the pipe, the request was cleared away,  *)
(* or the worker is late.  (A late answer to the poll alone changes        *)
(* nothing: the next one follows.)                                         *)
TimedOut(id) ==
    /\ Calling(id) /\ comm.answer = <<>>
    /\ IF Read /\ \E i \in DOMAIN comm.pipe : comm.pipe[i].from = id
       THEN id # 0 /\ Spend(LateBy(Head(comm.line).method))
       ELSE UNCHANGED budget

Refused(id) == TimedOut(id) \/ (Answered(id) /\ ~ Answer /\ UNCHANGED budget)
Accepted(id) == Answered(id) /\ Answer /\ UNCHANGED budget

-----------------------------------------------------------------------------
(* The worker's side of the pipe, and its main thread.                     *)

ReplyOf(w, r) ==
    CASE r.method = "state"    -> StateReply(w)
      [] r.method = "report"   -> w.report
      [] r.method = "run"      -> ~ RunRefused(w)
      [] r.method = "reset"    -> ~ ResetRefused(w)
      [] r.method = "pause"    -> ~ PauseRefused(w)
      [] r.method = "continue" -> ~ ContinueRefused(w)
      [] r.method = "close"    -> ~ CloseRefused(w)
      [] r.method = "confirm"  -> ~ ConfirmRefused(w)

Served(w, r) ==
    CASE r.method = "state"    -> w
      [] r.method = "report"   -> FetchReport(w)
      [] r.method = "run"      -> RunPlan(w, r.arg)
      [] r.method = "reset"    -> Reset(w)
      [] r.method = "pause"    -> Pause(w)
      [] r.method = "continue" -> Continue(w, r.arg)
      [] r.method = "close"    -> CloseEnv(w)
      [] r.method = "confirm"  -> ConfirmExit(w)

(* Between two steps that follow each other at once.                       *)
Unsettled(w) == (w.doing # "none" /\ w.re = "idle") \/ TakesPlan(w) \cup ShutsDown(w) # {}

(* A restart takes seconds: by then the main thread is past such a place.  *)
WorkerServes(p) ==
    /\ Listening(worker[p]) /\ comm.pipe # <<>>
    /\ Running("boot") /\ Unsettled(worker[p]) => May("slow")
    /\ LET r == Head(comm.pipe)
       IN  /\ worker' = [worker EXCEPT ![p] = Served(@, r)]
           /\ comm' = [line |-> comm.line, pipe |-> Tail(comm.pipe),
                       answer |-> IF r.from = Nobody THEN comm.answer
                                  ELSE <<ReplyOf(worker[p], r)>>]
    /\ UNCHANGED <<m, tasks, poll, store, watched, locked, budget, seen>>

(* Something begun for one environment is not over yet.                    *)
Lingering == \E t \in tasks : t.kind \in {"plan", "report", "unexp", "kill"}

(* A worker that begins to read clears the pipe of old requests.  By then what *)
(* concerns the worker before it is over, unless the configuration service  *)
(* is slow.                                                                *)
WorkerListens(p) ==
    /\ Lingering => May("slow")
    /\ \E x \in Listens(worker[p]) : worker' = [worker EXCEPT ![p] = x]
    /\ comm' = [comm EXCEPT !.pipe = <<>>]
    /\ UNCHANGED <<m, tasks, poll, store, watched, locked, budget, seen>>

WorkerRuns(p) ==
    /\ \E x \in MainThread(worker[p]) :
          /\ worker' = [worker EXCEPT ![p] = x]
          /\ seen' = IF x.report = "completed" /\ worker[p].report # "completed"
                     THEN [seen EXCEPT !.completed = @ \cup {x.item}] ELSE seen
    /\ UNCHANGED <<m, tasks, poll, comm, store, watched, locked, budget>>

WorkerDies(p) ==
    /\ Alive(worker[p]) /\ Spend("dies")
    /\ worker' = [worker EXCEPT ![p] = Gone]
    /\ UNCHANGED <<m, tasks, poll, comm, store, watched, locked, seen>>

-----------------------------------------------------------------------------
(* The store.                                                              *)

Record(s, exit) ==
    [s EXCEPT !.running = NoPlan, !.history = @ \cup {[plan |-> s.running, exit |-> exit]}]

(* set_processed_item_as_completed, and as_stopped, which puts a plan back *)
(* unless it was "stopped".                                                *)
SetCompleted_Unasked(s, exit) == Record(s, exit)

SetCompleted(s, exit) == IF s.running = NoPlan THEN s ELSE Record(s, exit)
SetStopped(s, exit) ==
    IF s.running = NoPlan \/ exit = "stopped" THEN SetCompleted(s, exit)
    ELSE [Record(s, exit) EXCEPT !.queue = <<s.running>> \o @]

-----------------------------------------------------------------------------
(* Requests of clients.  One request is carried out at a time; those that  *)
(* call the worker hold the others up until the reply is in.               *)

Serving == m.state # "initializing" /\ ~ Running("boot") /\ ~ Running("client") /\ Room

Complete(mm, result) == IF mm.fut = "pending" THEN [mm EXCEPT !.fut = result] ELSE mm

(* As many environments are opened as there are ids for their workers.     *)
Unused == {p \in Processes : worker[p].life = "none"}

OpenAsked_Twice ==
    /\ Unused # {} /\ Serving /\ m.state = "idle" /\ Spend("request")
    /\ m' = [m EXCEPT !.state = "creating_environment", !.fut = "pending", !.count = 0,
                      !.handled = FALSE]
    /\ tasks' = Spawn(tasks, "open", IF ConfigService THEN "prefetch" ELSE "start")
    /\ UNCHANGED <<poll, comm, store, worker, watched, locked, seen>>

(* By the time a client opens another environment the poll has taken the   *)
(* answer of the last one's worker, which left a while ago.                *)
OpenAsked ==
    /\ Unused # {} /\ ~ Answered(0)
    /\ Serving /\ ~ m.env_exists /\ m.state = "idle" /\ Spend("request")
    /\ Lingering => May("slow")
    /\ m' = [m EXCEPT !.state = "creating_environment", !.fut = "pending", !.count = 0,
                      !.handled = FALSE]
    /\ tasks' = Spawn(tasks, "open", IF ConfigService THEN "prefetch" ELSE "start")
    /\ UNCHANGED <<poll, comm, store, worker, watched, locked, seen>>

CloseAsked ==
    /\ Serving /\ m.env_exists /\ m.state = "idle" /\ Spend("request")
    /\ m' = [m EXCEPT !.state = "closing_environment", !.fut = "pending"]
    /\ tasks' = Spawn(tasks, "close", "close")
    /\ comm' = Call(comm, NewId(tasks), "close", NoPlan)
    /\ UNCHANGED <<poll, store, worker, watched, locked, seen>>

DestroyAsked ==
    /\ Serving /\ (tasks = {} \/ May("rash")) /\ Spend("destroy")
    /\ m.env_exists \/ m.state = "creating_environment"
    /\ m' = Complete(m, "false")
    /\ tasks' = Spawn(tasks, "kill", "kill")
    /\ UNCHANGED <<poll, comm, store, worker, watched, locked, seen>>

CanStart == m.env_exists /\ m.known /\ m.state = "idle"

Start ==
    /\ m' = [m EXCEPT !.state = "starting_queue"]
    /\ store' = [store EXCEPT !.stop = FALSE]
    /\ tasks' = Spawn(tasks, "plan", "begin")

StartAsked ==
    /\ Serving /\ CanStart /\ Spend("request") /\ Start
    /\ seen' = [seen EXCEPT !.stop = FALSE, !.pause = "none", !.started = 0]
    /\ UNCHANGED <<poll, comm, worker, watched, locked>>

Autostarts ==
    /\ Serving /\ CanStart /\ store.auto /\ store.queue # <<>> /\ Start
    /\ seen' = [seen EXCEPT !.stop = FALSE, !.started = 0,
                           !.pause = IF @ = "pending" THEN "autostarted" ELSE @]
    /\ UNCHANGED <<poll, comm, worker, watched, locked, budget>>

AutostartAsked ==
    /\ Serving /\ Spend("request")
    /\ store' = [store EXCEPT !.auto = ~ @]
    /\ seen' = [seen EXCEPT !.pause = "none"]
    /\ UNCHANGED <<m, tasks, poll, comm, worker, watched, locked>>

StopAsked ==
    /\ Serving /\ m.state \in {"executing_queue", "starting_queue"} /\ Spend("request")
    /\ store' = [store EXCEPT !.stop = TRUE]
    /\ seen' = [seen EXCEPT !.stop = TRUE, !.started = 0]
    /\ UNCHANGED <<m, tasks, poll, comm, worker, watched, locked>>

StopCancelled ==
    /\ Serving /\ store.stop /\ Spend("request")
    /\ store' = [store EXCEPT !.stop = FALSE]
    /\ seen' = [seen EXCEPT !.stop = FALSE]
    /\ UNCHANGED <<m, tasks, poll, comm, worker, watched, locked>>

PauseAsked ==
    /\ Serving /\ m.env_exists /\ m.known /\ Spend("request")
    /\ tasks' = Spawn(tasks, "client", "pause")
    /\ comm' = Call(comm, NewId(tasks), "pause", NoPlan)
    /\ UNCHANGED <<m, poll, store, worker, watched, locked, seen>>

PauseAnswered(t) ==
    /\ At(t, "client", "pause")
    /\ \/ /\ Accepted(t.id)
          /\ m' = [m EXCEPT !.pause_pending = TRUE]
          /\ seen' = [seen EXCEPT !.pause = "pending"]
       \/ Refused(t.id) /\ UNCHANGED <<m, seen>>
    /\ tasks' = Finish(t) /\ comm' = HangUp(comm)
    /\ UNCHANGED <<poll, store, worker, watched, locked>>

ContinueAsked ==
    /\ Serving /\ m.state = "paused" /\ m.env_exists /\ m.known /\ Spend("request")
    /\ tasks' = Spawn(tasks, "client", "continue")
    /\ \E option \in Options :
          comm' = Call(comm, NewId(tasks), "continue", option)
    /\ UNCHANGED <<m, poll, store, worker, watched, locked, seen>>

ContinueAnswered(t) ==
    /\ At(t, "client", "continue")
    /\ \/ /\ Accepted(t.id)
          /\ m' = [m EXCEPT !.state = "executing_queue"]
          /\ seen' = [seen EXCEPT !.pause = "none"]
       \/ Refused(t.id) /\ UNCHANGED <<m, seen>>
    /\ tasks' = Finish(t) /\ comm' = HangUp(comm)
    /\ UNCHANGED <<poll, store, worker, watched, locked>>

(* The queue may be edited at any time.                                    *)
QueueEdited ==
    /\ Serving /\ (Running("plan") => May("rash")) /\ Spend("edit")
    /\ \/ Len(store.queue) > 1
          /\ store' = [store EXCEPT !.queue = <<@[2], @[1]>> \o SubSeq(@, 3, Len(@))]
       \/ store.queue # <<>> /\ store' = [store EXCEPT !.queue = <<>>]
    /\ UNCHANGED <<m, tasks, poll, comm, worker, watched, locked, seen>>

-----------------------------------------------------------------------------
(* Opening (_start_re_worker_task) and closing (_stop_re_worker_task).     *)

OpenPrefetched(t) ==
    /\ At(t, "open", "prefetch")
    /\ \/ tasks' = Goto(t, "start") /\ UNCHANGED m
       \/ tasks' = Finish(t) /\ m' = [m EXCEPT !.state = "idle"]
    /\ UNCHANGED <<poll, comm, store, worker, watched, locked, budget, seen>>

OpenStarts(t) ==
    /\ At(t, "open", "start")
    /\ Unused # {}
    /\ watched' = CHOOSE p \in Unused : TRUE
    /\ worker' = [worker EXCEPT ![watched'] = Fresh]
    /\ tasks' = Goto(t, "wait")
    /\ UNCHANGED <<m, poll, comm, store, locked, budget, seen>>

OpenReady(t) ==
    /\ At(t, "open", "wait") /\ m.fut = "true"
    /\ IF ConfigService
       THEN /\ m' = [m EXCEPT !.env_exists = TRUE, !.pause_pending = FALSE]
            /\ tasks' = Goto(t, "sync")
       ELSE /\ m' = [m EXCEPT !.env_exists = TRUE, !.pause_pending = FALSE, !.state = "idle"]
            /\ tasks' = Finish(t)
    /\ UNCHANGED <<poll, comm, store, worker, watched, locked, budget, seen>>

OpenSynced(t) ==
    /\ At(t, "open", "sync")
    /\ tasks' = Finish(t) /\ m' = [m EXCEPT !.state = "idle"]
    /\ UNCHANGED <<poll, comm, store, worker, watched, locked, budget, seen>>

OpenFailed(t) ==
    /\ At(t, "open", "wait") /\ m.fut = "false"
    /\ m' = [m EXCEPT !.env_exists = TRUE]
    /\ comm' = Call(comm, t.id, "confirm", NoPlan)
    /\ tasks' = Goto(t, "confirm")
    /\ UNCHANGED <<poll, store, worker, watched, locked, budget, seen>>

OpenAbandoned(t) ==
    /\ At(t, "open", "exited")
    /\ m' = [m EXCEPT !.env_exists = FALSE, !.known = FALSE, !.pause_pending = FALSE,
                      !.state = "idle"]
    /\ tasks' = Finish(t)
    /\ UNCHANGED <<poll, comm, store, worker, watched, locked, budget, seen>>

(* _confirm_re_worker_exit: whatever the worker replies, the environment    *)
(* is taken not to exist; a worker that confirmed is joined for half a      *)
(* second.  The result is a pair, and its callers take it for a success.    *)
ExitConfirmed(t) ==
    /\ t \in tasks /\ t.at = "confirm"
    /\ \/ Accepted(t.id) /\ tasks' = Goto(t, "join")
       \/ Refused(t.id) /\ tasks' = Goto(t, "exited")
    /\ m' = [m EXCEPT !.env_exists = FALSE, !.known = FALSE]
    /\ comm' = HangUp(comm)
    /\ UNCHANGED <<poll, store, worker, watched, locked, seen>>

Joined(t) ==
    /\ t \in tasks /\ t.at = "join"
    /\ IF Alive(Watched) THEN Spend("stray") ELSE UNCHANGED budget
    /\ tasks' = Goto(t, "exited")
    /\ UNCHANGED <<m, poll, comm, store, worker, watched, locked, seen>>

CloseAnswered(t) ==
    /\ At(t, "close", "close")
    /\ \/ /\ Accepted(t.id)
          /\ m' = [m EXCEPT !.state = "closing_environment"]
          /\ tasks' = Goto(t, "wait")
       \/ /\ Refused(t.id)
          /\ m' = [m EXCEPT !.state = "idle"]
          /\ tasks' = Finish(t)
    /\ comm' = HangUp(comm)
    /\ UNCHANGED <<poll, store, worker, watched, locked, seen>>

CloseReady(t) ==
    /\ At(t, "close", "wait") /\ m.fut \in {"true", "false"}
    /\ IF m.env_exists
       THEN comm' = Call(comm, t.id, "confirm", NoPlan) /\ tasks' = Goto(t, "confirm")
       ELSE tasks' = Goto(t, "exited") /\ UNCHANGED comm
    /\ UNCHANGED <<m, poll, store, worker, watched, locked, budget, seen>>

MayUnlock == \E released \in BOOLEAN :
                 locked' = IF released /\ ConfigService THEN NoPlan ELSE locked

Closed(t) ==
    /\ At(t, "close", "exited")
    /\ m' = [m EXCEPT !.state = "idle"] /\ tasks' = Finish(t)
    /\ MayUnlock
    /\ UNCHANGED <<poll, comm, store, worker, watched, budget, seen>>

-----------------------------------------------------------------------------
(* Destroying (_kill_re_worker_task).  kill_re_worker fails when the       *)
(* watchdog never created a worker, and the coroutine with it.             *)

KillSent(t) ==
    /\ At(t, "kill", "kill")
    /\ m' = [m EXCEPT !.state = "destroying_environment"]
    /\ IF watched = 0
       THEN tasks' = Finish(t) /\ UNCHANGED worker
       ELSE /\ worker' = [worker EXCEPT ![watched] = IF Alive(@) THEN Gone ELSE @]
            /\ tasks' = Goto(t, "check")
    /\ UNCHANGED <<poll, comm, store, watched, locked, budget, seen>>

(* The worker is looked at once a second, ten times at most: then it may   *)
(* as well be alive.  A call of the poll takes less than that.             *)
KillChecked(t) ==
    /\ At(t, "kill", "check") /\ ~ Calling(0)
    /\ m' = [m EXCEPT !.state = "idle", !.env_exists = FALSE, !.known = FALSE]
    /\ tasks' = Goto(t, "unlock")
    /\ UNCHANGED <<poll, comm, store, worker, watched, locked, budget, seen>>

KillEnds(t) ==
    /\ At(t, "kill", "unlock")
    /\ MayUnlock
    /\ store' = SetStopped(store, "failed")
    /\ tasks' = Finish(t)
    /\ UNCHANGED <<m, poll, comm, worker, watched, budget, seen>>

-----------------------------------------------------------------------------
(* The poll (_periodic_worker_state_request_once), and what it begins.     *)

(* The worker is created within one round of the poll, unless the service  *)
(* that supplies the device specifications is slow.                        *)
BeforeWorker == \E t \in tasks : t.kind = "open" /\ t.at \in {"prefetch", "start"}

PollAsks ==
    /\ poll = "sleep"
    /\ BeforeWorker => m.count = 0 \/ May("slow")
    /\ m.env_exists \/ m.state = "creating_environment"
    /\ m.state # "destroying_environment"
    /\ poll' = "asks" /\ comm' = Call(comm, 0, "state", NoPlan)
    /\ UNCHANGED <<m, tasks, store, worker, watched, locked, budget, seen>>

AfterPoll_NoFailure(mm, s) ==
    CASE mm.state = "closing_environment" /\ s.env = "closing" -> Complete(mm, "true")
      [] mm.state = "creating_environment" /\ s.env \in {"idle", "executing_plan"} ->
            Complete(mm, "true")
      [] OTHER -> mm

AfterPoll(mm, s) ==
    CASE mm.state = "closing_environment" /\ s.env = "closing" -> Complete(mm, "true")
      [] mm.state = "creating_environment" /\ s.env \in {"idle", "executing_plan"} ->
            Complete(mm, "true")
      [] mm.state = "creating_environment" /\ s.env = "closing" -> Complete(mm, "false")
      [] OTHER -> mm

PollAnswered ==
    /\ Answered(0) /\ Cardinality(Free(tasks)) > 1
    /\ LET s == Answer
           seenNow == [m EXCEPT !.count = 0, !.known = TRUE,
                                !.pause_pending = @ /\ s.re # "paused"]
           exits   == IF s.unexpected THEN Spawn(tasks, "unexp", "begin") ELSE tasks
       IN  /\ m' = AfterPoll(seenNow, s)
           /\ tasks' = IF m.state \in {"executing_queue", "paused"} /\ s.available
                       THEN Spawn(exits, "report", "begin") ELSE exits
    /\ poll' = "sleep" /\ comm' = HangUp(comm)
    /\ UNCHANGED <<store, worker, watched, locked, budget, seen>>

(* _handle_possible_worker_death: after TimeoutLimit timeouts in a row the *)
(* watchdog is asked; only a worker known to be dead is given up.          *)
Attended == (m.env_exists \/ m.state = "creating_environment")
            /\ m.state # "destroying_environment" /\ ~ m.handled

PollTimesOut ==
    /\ TimedOut(0) /\ Room
    /\ LET n == IF m.count < TimeoutLimit THEN m.count + 1 ELSE m.count
           given == [m EXCEPT !.count = 0, !.handled = TRUE]
       IN  IF ~ Attended
           THEN UNCHANGED <<m, tasks>>
           ELSE IF n < TimeoutLimit \/ Alive(Watched)
                THEN m' = [m EXCEPT !.count = n] /\ UNCHANGED tasks
           ELSE IF m.state \in {"creating_environment", "closing_environment"}
                THEN /\ m' = Complete(given, IF m.state = "closing_environment"
                                            THEN "true" ELSE "false")
                     /\ UNCHANGED tasks
           ELSE m' = given /\ tasks' = Spawn(tasks, "kill", "kill")
    /\ poll' = "sleep" /\ comm' = HangUp(comm)
    /\ UNCHANGED <<store, worker, watched, locked, seen>>

(* The worker left without being asked to (_handle_unexpected_worker_...). *)
ExitNoticed(t) ==
    /\ At(t, "unexp", "begin")
    /\ IF m.env_exists
       THEN comm' = Call(comm, t.id, "confirm", NoPlan) /\ tasks' = Goto(t, "confirm")
       ELSE tasks' = Goto(t, "exited") /\ UNCHANGED comm
    /\ UNCHANGED <<m, poll, store, worker, watched, locked, budget, seen>>

ExitUnlocked(t) ==
    /\ At(t, "unexp", "exited")
    /\ MayUnlock
    /\ tasks' = Finish(t)
    /\ UNCHANGED <<m, poll, comm, store, worker, watched, budget, seen>>

(* _set_manager_state, always started as a coroutine of its own.           *)
StateSet(t) ==
    /\ t \in tasks /\ t.kind = "set"
    /\ m' = [m EXCEPT !.state = IF t.at = "paused" THEN "paused" ELSE "idle",
                      !.pause_pending = FALSE]
    /\ store' = IF t.at = "paused" THEN store
                ELSE [store EXCEPT !.stop = FALSE, !.auto = @ /\ t.at # "idle_auto"]
    /\ seen' = [seen EXCEPT !.stop = @ /\ t.at = "paused",
                           !.pause = IF t.at = "paused" THEN "none" ELSE @]
    /\ tasks' = Finish(t)
    /\ UNCHANGED <<poll, comm, worker, watched, locked, budget>>

-----------------------------------------------------------------------------
(* Starting a plan (_start_plan_task).                                     *)

BeginsUnless(stops, t) ==
    /\ At(t, "plan", "begin")
    /\ LET setIdle == Spawn(Finish(t), "set", IF store.stop THEN "idle_auto" ELSE "idle")
           next    == Head(store.queue)
       IN  IF stops
           THEN tasks' = setIdle /\ UNCHANGED <<m, comm>>
           ELSE /\ m' = [m EXCEPT !.pause_pending = FALSE]
                /\ IF ConfigService
                   THEN /\ tasks' = Finish(t) \cup {[t EXCEPT !.at = "prepare", !.plan = next]}
                        /\ UNCHANGED comm
                   ELSE tasks' = Goto(t, "reset") /\ comm' = Call(comm, t.id, "reset", NoPlan)
    /\ UNCHANGED <<poll, store, worker, watched, locked, budget, seen>>

PlanBegins_IgnoresPause(t) == BeginsUnless(store.stop \/ store.queue = <<>>, t)
PlanBegins(t) == BeginsUnless(store.stop \/ store.queue = <<>> \/ m.pause_pending, t)

(* The staleness check and the lock of the plan's devices, over HTTP.      *)
Prepared(plan, t) ==
    /\ At(t, "plan", "prepare")
    /\ \/ /\ locked' = plan
          /\ tasks' = Goto(t, "reset") /\ comm' = Call(comm, t.id, "reset", NoPlan)
          /\ UNCHANGED m
       \/ /\ m' = [m EXCEPT !.state = "idle"]
          /\ tasks' = Finish(t)
          /\ UNCHANGED <<comm, locked>>
    /\ UNCHANGED <<poll, store, worker, watched, budget, seen>>

PlanPrepared_KeepsOld(t) == Prepared(IF locked = NoPlan THEN t.plan ELSE locked, t)
PlanPrepared(t) == Prepared(t.plan, t)

(* process_next_item takes whatever is first in the queue by now; without  *)
(* an item, or with one running, the coroutine ends in an exception.       *)
PlanReset(t) ==
    /\ At(t, "plan", "reset")
    /\ \/ /\ Accepted(t.id)
          /\ IF store.queue = <<>> \/ store.running # NoPlan
             THEN tasks' = Finish(t) /\ comm' = HangUp(comm) /\ UNCHANGED store
             ELSE /\ store' = [store EXCEPT !.running = Head(store.queue), !.queue = Tail(@)]
                  /\ comm' = Call(HangUp(comm), t.id, "run", Head(store.queue))
                  /\ tasks' = Goto(t, "run")
          /\ UNCHANGED <<m, locked>>
       \/ /\ Refused(t.id)
          /\ m' = [m EXCEPT !.state = "idle"]
          /\ MayUnlock
          /\ tasks' = Finish(t) /\ comm' = HangUp(comm)
          /\ UNCHANGED store
    /\ UNCHANGED <<poll, worker, watched, seen>>

PlanStarted(t) ==
    /\ At(t, "plan", "run")
    /\ \/ /\ Accepted(t.id)
          /\ m' = [m EXCEPT !.state = "executing_queue"]
          /\ seen' = [seen EXCEPT !.started = IF @ < 2 THEN @ + 1 ELSE @,
                                 !.pause = CASE @ = "pending"     -> "ignored"
                                             [] @ = "autostarted" -> "overtaken"
                                             [] OTHER             -> @]
          /\ UNCHANGED <<store, locked>>
       \/ /\ Refused(t.id)
          /\ m' = [m EXCEPT !.state = "idle"]
          /\ store' = SetStopped(store, "failed")
          /\ MayUnlock
          /\ UNCHANGED seen
    /\ tasks' = Finish(t) /\ comm' = HangUp(comm)
    /\ UNCHANGED <<poll, worker, watched>>

-----------------------------------------------------------------------------
(* The report of a plan (_process_plan_report).                            *)

ReportAsked(t) ==
    /\ At(t, "report", "begin")
    /\ comm' = Call(comm, t.id, "report", NoPlan) /\ tasks' = Goto(t, "fetch")
    /\ UNCHANGED <<m, poll, store, worker, watched, locked, budget, seen>>

ReportRetried(t) ==
    /\ At(t, "report", "fetch") /\ TimedOut(t.id)
    /\ comm' = Call(HangUp(comm), t.id, "report", NoPlan) /\ tasks' = Goto(t, "again")
    /\ UNCHANGED <<m, poll, store, worker, watched, locked, seen>>

(* No report: the plan counts as failed.                                   *)
ReportLost(t) ==
    /\ t \in tasks /\ t.kind = "report"
    /\ \/ t.at = "again" /\ TimedOut(t.id)
       \/ Answered(t.id) /\ Answer = "none" /\ UNCHANGED budget
    /\ store' = SetStopped(store, "failed")
    /\ m' = [m EXCEPT !.state = "idle", !.pause_pending = FALSE]
    /\ MayUnlock
    /\ tasks' = Finish(t) /\ comm' = HangUp(comm)
    /\ UNCHANGED <<poll, worker, watched, seen>>

ReportProcessed(t) ==
    /\ t \in tasks /\ t.kind = "report" /\ Answered(t.id) /\ Answer # "none"
    /\ CASE Answer = "completed" ->
              /\ store' = SetCompleted(store, "completed")
              /\ tasks' = Finish(t) \cup {[t EXCEPT !.kind = "plan", !.at = "release"]}
         [] Answer \in {"failed", "stopped", "aborted"} ->
              /\ store' = SetStopped(store, Answer)
              /\ tasks' = Finish(t) \cup {[t EXCEPT !.at = "unlock"]}
         [] Answer = "paused" ->
              /\ tasks' = Spawn(Finish(t), "set", "paused")
              /\ UNCHANGED store
    /\ comm' = HangUp(comm)
    /\ UNCHANGED <<m, poll, worker, watched, locked, budget, seen>>

(* A completed plan is followed by the next one, unless its devices could  *)
(* not be released.                                                        *)
PlanReleased(t) ==
    /\ At(t, "plan", "release")
    /\ \/ locked' = NoPlan /\ tasks' = Goto(t, "begin")
       \/ /\ locked # NoPlan
          /\ tasks' = Spawn(Finish(t), "set", "idle_auto") /\ UNCHANGED locked
    /\ UNCHANGED <<m, poll, comm, store, worker, watched, budget, seen>>

ReportUnlocked(t) ==
    /\ At(t, "report", "unlock")
    /\ MayUnlock
    /\ tasks' = Spawn(Finish(t), "set", "idle_auto")
    /\ UNCHANGED <<m, poll, comm, store, worker, watched, budget, seen>>

-----------------------------------------------------------------------------
(* The watchdog replaces a manager that stopped sending heartbeats: calls  *)
(* that were out have nobody waiting.  The new one looks for a worker, and *)
(* takes over the plan it runs (zmq_server_comm).                          *)

ManagerRestarts ==
    /\ Spend("restart") /\ ~ Running("boot")
    /\ m' = Restarted /\ poll' = "sleep"
    /\ tasks' = Spawn({}, "boot", "alive")
    /\ comm' = [line |-> <<>>, answer |-> <<>>,
                pipe |-> [i \in DOMAIN comm.pipe |-> [comm.pipe[i] EXCEPT !.from = Nobody]]]
    /\ UNCHANGED <<store, worker, watched, locked, seen>>

Boots(t, state, pending, known) ==
    /\ m' = [m EXCEPT !.state = state, !.pause_pending = pending, !.known = known]
    /\ store' = IF state = "idle" THEN SetCompleted(store, "unknown") ELSE store
    /\ tasks' = Finish(t)

BootLooks(t) ==
    /\ At(t, "boot", "alive")
    /\ IF Alive(Watched)
       THEN /\ m' = [m EXCEPT !.env_exists = TRUE]
            /\ comm' = Call(comm, t.id, "state", NoPlan)
            /\ tasks' = Goto(t, "state")
            /\ UNCHANGED store
       ELSE Boots(t, "idle", FALSE, FALSE) /\ UNCHANGED comm
    /\ UNCHANGED <<poll, worker, watched, locked, budget, seen>>

BootSeesPlan(runs(_), t) ==
    /\ At(t, "boot", "state")
    /\ \/ /\ Answered(t.id) /\ UNCHANGED budget
          /\ seen' = [seen EXCEPT !.pause = IF Answer.pausing THEN @ ELSE "none"]
          /\ LET s == Answer
                 running == runs(s) /\ store.running # NoPlan
             IN  Boots(t, IF ~ running THEN "idle"
                          ELSE IF s.re = "paused" THEN "paused" ELSE "executing_queue",
                       running /\ s.pausing, TRUE)
       \/ TimedOut(t.id) /\ Boots(t, "idle", FALSE, FALSE) /\ UNCHANGED seen
    /\ comm' = HangUp(comm)
    /\ UNCHANGED <<poll, worker, watched, locked>>

ReportedPlan(s) == s.item # NoPlan /\ s.available
RunningPlan(s)  == s.item # NoPlan /\ (s.available \/ s.re # "idle")

BootSees_OnlyReport(t) == BootSeesPlan(ReportedPlan, t)
BootSees(t) == BootSeesPlan(RunningPlan, t)

-----------------------------------------------------------------------------
ClientAsks == Idle /\
    \/ OpenAsked \/ CloseAsked \/ DestroyAsked \/ StartAsked \/ StopAsked \/ StopCancelled
    \/ AutostartAsked
    \/ PauseAsked \/ ContinueAsked \/ QueueEdited

TaskSteps(t) ==
    \/ PauseAnswered(t) \/ ContinueAnswered(t)
    \/ OpenPrefetched(t) \/ OpenStarts(t) \/ OpenReady(t) \/ OpenSynced(t) \/ OpenFailed(t)
    \/ OpenAbandoned(t) \/ ExitConfirmed(t) \/ Joined(t)
    \/ CloseAnswered(t) \/ CloseReady(t) \/ Closed(t)
    \/ KillSent(t) \/ KillChecked(t) \/ KillEnds(t)
    \/ ExitNoticed(t) \/ ExitUnlocked(t)
    \/ StateSet(t)
    \/ PlanBegins(t) \/ PlanPrepared(t) \/ PlanReset(t) \/ PlanStarted(t) \/ PlanReleased(t)
    \/ ReportAsked(t) \/ ReportRetried(t) \/ ReportLost(t) \/ ReportProcessed(t)
    \/ ReportUnlocked(t)
    \/ BootLooks(t) \/ BootSees(t)

Poll == Idle /\ (PollAsks \/ PollAnswered \/ PollTimesOut)

Turn(t) == (Ready(t) \/ Idle) /\ TaskSteps(t)

ManagerSteps == Poll \/ (Idle /\ Autostarts) \/ \E t \in tasks : Turn(t)

WorkerSteps(p) == WorkerServes(p) \/ WorkerListens(p) \/ WorkerRuns(p)

Next ==
    \/ ManagerSteps
    \/ \E p \in Processes : WorkerSteps(p) \/ WorkerDies(p)
    \/ ClientAsks
    \/ ManagerRestarts

Spec == Init /\ [][Next]_vars

(* Every coroutine goes on when it can (the event loop serves them in      *)
(* turn), the poll is repeated, and the worker's two threads run, so that   *)
(* every plan ends; what clients and the world outside do is free.         *)
FairSpec ==
    /\ Spec
    /\ \A i \in 1..MaxTasks : SF_vars(\E t \in tasks : t.id = i /\ Turn(t))
    /\ SF_vars(Poll)
    /\ \A p \in Processes : WF_vars(WorkerServes(p)) /\ WF_vars(WorkerListens(p))
                           /\ WF_vars(WorkerRuns(p))

-----------------------------------------------------------------------------
(* Properties.                                                             *)

Request == [from : 0..(MaxTasks + 1), method : Methods, arg : Plan \cup {NoPlan} \cup Options]

TypeOK ==
    /\ m \in Manager /\ m.count \in 0..TimeoutLimit
    /\ tasks \subseteq Task
    /\ poll \in {"sleep", "asks"}
    /\ comm.line \in Seq(Request) /\ comm.pipe \in Seq(Request) /\ Len(comm.answer) \in 0..1
    /\ store.queue \in Seq(Plan) /\ store.running \in Plan \cup {NoPlan}
    /\ store.history \subseteq [plan : Plan, exit : Outcome \cup {"unknown"}]
    /\ {store.stop, store.auto} \subseteq BOOLEAN
    /\ worker \in [Processes -> Worker] /\ watched \in Processes \cup {0}
    /\ locked \in Plan \cup {NoPlan}

(* At most one worker process lives that is not about to leave: the        *)
(* environment that a client opens is the only one that moves hardware.    *)
OneWorker ==
    \A p, q \in Processes :
        Alive(worker[p]) /\ ~ worker[p].exit /\ Alive(worker[q]) /\ ~ worker[q].exit => p = q

(* A plan that the history calls completed has run to completion, whatever *)
(* reports were fetched twice, late or from another worker.                *)
CompletedIsTrue == \A h \in store.history : h.exit = "completed" => h.plan \in seen.completed

(* After queue_stop was accepted at most the plan being started starts     *)
(* (queue_start, and whatever else calls _start_plan, read the same flag). *)
StopHonoured == seen.stop => seen.started <= 1

(* The plan that a worker executes is the running item of the queue: it is *)
(* neither given back nor replaced while it runs.                          *)
RunningIsBooked ==
    \A p \in Processes :
        worker[p].doing # "none" /\ worker[p].report = "none" => worker[p].item = store.running

(* ... and it is never a plan that was recorded as completed: no plan runs *)
(* a second time.                                                          *)
CompletedOnce ==
    \A p \in Processes :
        worker[p].doing = "new" /\ worker[p].report = "none" =>
            [plan |-> worker[p].item, exit |-> "completed"] \notin store.history

(* A deferred pause that came too late to pause the plan keeps the next    *)
(* plan from being started after it.                                       *)
PauseHonoured == seen.pause # "ignored"

(* ... and, as the documentation says of re_pause, the queue then stays    *)
(* stopped until a client starts it.                                       *)
PauseStopsQueue == seen.pause \notin {"ignored", "overtaken"}

(* Plans run with their devices locked.                                    *)
PlanRunsLocked ==
    \A p \in Processes :
        worker[p].doing # "none" /\ worker[p].re = "running" => locked = worker[p].item

(* Operations that clients wait for come to an end.                        *)
OperationsEnd ==
    m.state \in {"creating_environment", "closing_environment", "destroying_environment",
                 "starting_queue"} ~> m.state \in {"idle", "executing_queue", "paused"}

(* The manager does not stay in executing_queue when the plan is over or   *)
(* its worker has died.                                                    *)
PlanLeavesManager == m.state = "executing_queue" ~> m.state \in {"idle", "paused"}

(* A dead worker is detected, and the environment is taken down.           *)
DeathNoticed == (m.env_exists /\ ~ Alive(Watched)) ~> (~ m.env_exists \/ Alive(Watched))

(* What the manager records of plans is true.                              *)
RecordsTrue == CompletedIsTrue /\ RunningIsBooked /\ CompletedOnce

(* What a client asked in order to stop the queue is honoured.             *)
StopsHonoured == StopHonoured /\ PauseHonoured

(* Nothing the manager does goes on for ever.                              *)
ManagerSettles == OperationsEnd /\ PlanLeavesManager

=============================================================================
