---------------------------- MODULE TaskResults ----------------------------
(***************************************************************************)
(* Tasks: functions and scripts that the worker runs in the foreground or   *)
(* in background threads.  The worker keeps a result until the manager has  *)
(* acknowledged it, the poll loop of the manager fetches what is there, and *)
(* the manager keeps it for clients for at least a retention time.          *)
(***************************************************************************)
EXTENDS Naturals, Sequences

CONSTANTS
    Task,       \* uids of tasks
    NoTask,
    Retention,  \* retention_time
    MaxTime,    \* bound on the clock
    MaxEnv,     \* bound on the environments opened
    MaxFaults   \* bound on timeouts, restarts and destroyed environments

VARIABLES
    worker,     \* env, fg, bg and done (_completed_tasks)
    manager,    \* state, fg (_running_task_uid), received, loading, open
    start,      \* the handler that starts a task
    load,       \* coroutines that download results
    stale,      \* a request that timed out in the pipe before it was served
    pending,    \* a finished foreground task whose _set_manager_state is due
    results,    \* running, data (task -> time), and when each was added
    clock,
    seen        \* used uids, finished: results owed, added: how often and when,
                \* excused: tasks the manager cannot know of, envs and faults

vars == <<worker, manager, start, load, stale, pending, results, clock, seen>>

Loads  == 1..2
Nobody == [at |-> "none", task |-> NoTask, background |-> FALSE]
NoLoad == [at |-> "none", uids |-> {}]
Gone   == [env |-> "none", fg |-> NoTask, bg |-> {}, done |-> {}]
Booted == [state |-> "idle", fg |-> NoTask, received |-> {}, loading |-> FALSE]
Empty  == [running |-> {}, data |-> << >>, times |-> {}]

Init ==
    /\ worker = Gone /\ manager = Booted /\ results = Empty
    /\ start = Nobody /\ load = [i \in Loads |-> NoLoad] /\ stale = Nobody /\ pending = NoTask
    /\ clock = 0
    /\ seen = [used |-> {}, finished |-> {}, added |-> [u \in Task |-> << >>], excused |-> {},
               envs |-> 0, faults |-> 0]

MayFail  == seen.faults < MaxFaults
PipeFree == start.at \in {"none", "wait"} /\ \A i \in Loads : load[i].at \in {"none", "wait"}

-----------------------------------------------------------------------------
(* Starting a task.  A foreground task needs an idle manager; a uid is new *)
(* with each request.  _environment_function_execute is the same.          *)

StartAsked(u, background) ==
    /\ worker.env # "none" /\ start.at = "none" /\ u \notin seen.used
    /\ ~ background => manager.state = "idle"
    /\ manager' = IF background THEN manager ELSE [manager EXCEPT !.state = "executing_task"]
    /\ start' = [at |-> "wait", task |-> u, background |-> background]
    /\ seen' = [seen EXCEPT !.used = @ \cup {u}]
    /\ UNCHANGED <<worker, load, stale, pending, results, clock>>

StartSent ==
    /\ start.at = "wait" /\ PipeFree
    /\ start' = [start EXCEPT !.at = "sent"]
    /\ UNCHANGED <<worker, manager, load, stale, pending, results, clock, seen>>

(* _start_task of the worker.                                              *)
Accepts(w, s) == w.env = "open" /\ (s.background \/ w.fg = NoTask)

Started(w, s) ==
    IF s.background THEN [w EXCEPT !.bg = @ \cup {s.task}] ELSE [w EXCEPT !.fg = s.task]

StartServed ==
    /\ start.at = "sent" /\ stale.at = "none" /\ worker.env # "none"
    /\ IF Accepts(worker, start)
       THEN worker' = Started(worker, start) /\ start' = [start EXCEPT !.at = "accepted"]
       ELSE worker' = worker /\ start' = [start EXCEPT !.at = "rejected"]
    /\ UNCHANGED <<manager, load, stale, pending, results, clock, seen>>

StaleServed ==
    /\ stale.at # "none"
    /\ worker' = IF Accepts(worker, stale) THEN Started(worker, stale) ELSE worker
    /\ stale' = Nobody
    /\ UNCHANGED <<manager, start, load, pending, results, clock, seen>>

StartAnswered ==
    /\ start.at \in {"accepted", "rejected"}
    /\ manager' = IF start.background THEN manager
                  ELSE [manager EXCEPT !.fg = start.task,
                                       !.state = IF start.at = "accepted" THEN @ ELSE "idle"]
    /\ results' = IF start.at = "accepted" THEN [results EXCEPT !.running = @ \cup {start.task}]
                  ELSE results
    /\ start' = Nobody
    /\ UNCHANGED <<worker, load, stale, pending, clock, seen>>

(* The request or its answer is late: the client hears of a failure, and   *)
(* the manager is idle whatever the worker does.                           *)
StartTimesOut ==
    /\ start.at \in {"sent", "accepted", "rejected"} /\ (worker.env = "none" \/ MayFail)
    /\ manager' = IF start.background THEN manager
                  ELSE [manager EXCEPT !.state = "idle", !.fg = NoTask]
    /\ stale' = IF start.at = "sent" /\ worker.env # "none" THEN start ELSE stale
    /\ start' = Nobody
    /\ seen' = [seen EXCEPT !.faults = IF worker.env = "none" THEN @ ELSE @ + 1,
                            !.excused = @ \cup {start.task}]
    /\ UNCHANGED <<worker, load, pending, results, clock>>

(* A task ends, in its thread, and leaves a result.                        *)
TaskEnds(u) ==
    /\ u \in worker.bg \/ u = worker.fg
    /\ worker' = [worker EXCEPT !.bg = @ \ {u}, !.fg = IF @ = u THEN NoTask ELSE @,
                                !.done = @ \cup {u}]
    /\ seen' = [seen EXCEPT !.finished = @ \cup {u}]
    /\ UNCHANGED <<manager, start, load, stale, pending, results, clock>>

-----------------------------------------------------------------------------
(* Downloading results.                                                    *)

(* The poll loop starts a download while results are available, unless one *)
(* is under way, and takes what it will acknowledge.                       *)
LoadAsked(i) ==
    /\ load[i].at = "none" /\ (i = 1 \/ load[1].at # "none")
    /\ worker.done # {} /\ ~ manager.loading
    /\ manager' = [manager EXCEPT !.loading = TRUE]
    /\ load' = [load EXCEPT ![i] = [at |-> "wait", uids |-> manager.received]]
    /\ UNCHANGED <<worker, start, stale, pending, results, clock, seen>>

LoadSent(i) ==
    /\ load[i].at = "wait" /\ PipeFree
    /\ load' = [load EXCEPT ![i].at = "sent"]
    /\ UNCHANGED <<worker, manager, start, stale, pending, results, clock, seen>>

(* _request_task_results_handler.                                          *)
Unacknowledged_ClearsAll(done, acks) == {}

Unacknowledged(done, acks) == done \ acks

LoadServed(i) ==
    /\ load[i].at = "sent" /\ stale.at = "none" /\ worker.env # "none"
    /\ worker' = [worker EXCEPT !.done = Unacknowledged(@, load[i].uids)]
    /\ load' = [load EXCEPT ![i] = [at |-> "answered", uids |-> worker.done \ load[i].uids]]
    /\ UNCHANGED <<manager, start, stale, pending, results, clock, seen>>

(* _clean_completed_tasks, from the front of the list of times, which are    *)
(* in order; and add_completed_task, for what is added at one time.         *)
Expired(r) == {e \in r.times : e.time + Retention < clock}

Clean(r) ==
    [r EXCEPT !.times = @ \ Expired(r),
              !.data = [u \in DOMAIN @ \ {e.task : e \in Expired(r)} |-> @[u]]]

Add(r, uids) ==
    LET c == Clean(r)
    IN  IF uids = {} THEN r
        ELSE [running |-> c.running \ uids,
              data    |-> [v \in DOMAIN c.data \cup uids |-> IF v \in uids THEN clock ELSE c.data[v]],
              times   |-> c.times \cup {[task |-> u, time |-> clock] : u \in uids}]

Noted(s, uids) == [s EXCEPT !.added = [u \in Task |-> IF u \in uids THEN Append(@[u], clock) ELSE @[u]]]

(* What was received before is only acknowledged again; the result of the  *)
(* foreground task the manager waits for is left to _set_manager_state.    *)
NewResults(uids) == uids \ manager.received

Awaited_WrongState(u) == manager.state = "idle" /\ u = manager.fg

Awaited(u) == manager.state = "executing_task" /\ u = manager.fg

LoadAnswered(i) ==
    /\ load[i].at = "answered" /\ pending = NoTask
    /\ LET new == NewResults(load[i].uids)
           now == {u \in new : ~ Awaited(u)}
       IN  /\ results' = Add(results, now)
           /\ seen' = Noted(seen, now)
           /\ pending' = IF new = now THEN NoTask ELSE CHOOSE u \in new \ now : TRUE
    /\ manager' = [manager EXCEPT !.received = load[i].uids, !.loading = FALSE]
    /\ load' = [load EXCEPT ![i] = NoLoad]
    /\ UNCHANGED <<worker, start, stale, clock>>

(* The next download acknowledges the same results again.                  *)
LoadTimesOut(i) ==
    /\ load[i].at \in {"sent", "answered"} /\ (worker.env = "none" \/ MayFail)
    /\ manager' = [manager EXCEPT !.loading = FALSE]
    /\ load' = [load EXCEPT ![i] = NoLoad]
    /\ seen' = [seen EXCEPT !.faults = IF worker.env = "none" THEN @ ELSE @ + 1]
    /\ UNCHANGED <<worker, start, stale, pending, results, clock>>

StateSet ==
    /\ pending # NoTask
    /\ manager' = [manager EXCEPT !.state = "idle", !.fg = NoTask]
    /\ results' = Add(results, {pending})
    /\ seen' = Noted(seen, {pending})
    /\ pending' = NoTask
    /\ UNCHANGED <<worker, start, load, stale, clock>>

-----------------------------------------------------------------------------
(* Environments and the manager.                                           *)

(* A download of the previous environment may still be under way: the      *)
(* guard against a second one is reset.                                    *)
Open ==
    /\ worker.env = "none" /\ start.at = "none" /\ manager.state = "idle" /\ seen.envs < MaxEnv
    /\ worker' = [Gone EXCEPT !.env = "open"]
    /\ manager' = [manager EXCEPT !.received = {}, !.loading = FALSE]
    /\ seen' = [seen EXCEPT !.envs = @ + 1]
    /\ UNCHANGED <<start, load, stale, pending, results, clock>>

(* To close, and to confirm the exit, are calls over the pipe.              *)
CloseAsked ==
    /\ worker.env = "open" /\ worker.fg = NoTask /\ PipeFree
    /\ manager.state = "idle" /\ start.at = "none" /\ stale.at = "none"
    /\ worker' = [worker EXCEPT !.env = "closing"]
    /\ manager' = [manager EXCEPT !.state = "closing_environment"]
    /\ UNCHANGED <<start, load, stale, pending, results, clock, seen>>

(* The worker is gone, with the results it still had; an answer it gave has *)
(* been taken.                                                             *)
Leaves ==
    /\ \A i \in Loads : load[i].at # "answered"
    /\ worker' = Gone /\ stale' = Nobody
    /\ manager' = [manager EXCEPT !.state = "idle", !.fg = NoTask]
    /\ results' = [results EXCEPT !.running = {}]

Closed ==
    /\ manager.state = "closing_environment" /\ PipeFree /\ Leaves
    /\ seen' = [seen EXCEPT !.finished = {}]
    /\ UNCHANGED <<start, load, pending, clock>>

(* By a client.  (After a worker that died the running tasks stay listed.)  *)
Destroyed ==
    /\ worker.env = "open" /\ start.at = "none" /\ pending = NoTask /\ MayFail /\ Leaves
    /\ seen' = [seen EXCEPT !.finished = {}, !.faults = @ + 1]
    /\ UNCHANGED <<start, load, pending, clock>>

(* The manager forgets all results and which task runs.                    *)
Restart ==
    /\ worker.env = "open" /\ MayFail
    /\ manager' = Booted /\ results' = Empty /\ pending' = NoTask
    /\ start' = Nobody /\ load' = [i \in Loads |-> NoLoad]
    /\ stale' = IF start.at = "sent" THEN start ELSE stale
    /\ seen' = [seen EXCEPT !.faults = @ + 1, !.finished = worker.done, !.excused = seen.used,
                            !.added = [u \in Task |-> << >>]]
    /\ UNCHANGED <<worker, clock>>

Tick ==
    /\ clock < MaxTime
    /\ clock' = clock + 1
    /\ UNCHANGED <<worker, manager, start, load, stale, pending, results, seen>>

Next ==
    \/ \E u \in Task, background \in BOOLEAN : StartAsked(u, background)
    \/ StartSent \/ StartServed \/ StaleServed \/ StartAnswered \/ StartTimesOut
    \/ \E u \in Task : TaskEnds(u)
    \/ \E i \in Loads : LoadAsked(i) \/ LoadSent(i) \/ LoadServed(i) \/ LoadAnswered(i) \/ LoadTimesOut(i)
    \/ StateSet \/ Open \/ CloseAsked \/ Closed \/ Destroyed \/ Restart \/ Tick

(* The loops of both processes run on, the pipe answers or times out, and  *)
(* tasks end.                                                              *)
Progress ==
    \/ StartSent \/ StartServed \/ StaleServed \/ StartAnswered \/ StateSet \/ Closed
    \/ worker.env = "none" /\ (StartTimesOut \/ \E i \in Loads : LoadTimesOut(i))
    \/ \E u \in Task : TaskEnds(u)
    \/ \E i \in Loads : LoadAsked(i) \/ LoadSent(i) \/ LoadServed(i) \/ LoadAnswered(i)

Spec     == Init /\ [][Next]_vars
Fairness == WF_vars(Progress)
FairSpec == Spec /\ Fairness

-----------------------------------------------------------------------------
TypeOK ==
    /\ worker.env \in {"none", "open", "closing"} /\ worker.fg \in Task \cup {NoTask}
    /\ worker.bg \subseteq Task /\ worker.done \subseteq Task
    /\ manager.state \in {"idle", "executing_task", "closing_environment"}
    /\ manager.received \subseteq Task
    /\ DOMAIN results.data = {e.task : e \in results.times}
    /\ pending \in Task \cup {NoTask}

(* The result of a task is recorded once, however often it is delivered,   *)
(* and by however many downloads.                                          *)
RecordedOnce == \A u \in Task : Len(seen.added[u]) <= 1

(* A result is there for the retention time after it was recorded.         *)
KeptLongEnough ==
    \A u \in Task : \A k \in DOMAIN seen.added[u] :
        clock <= seen.added[u][k] + Retention => u \in DOMAIN results.data

(* No result of a task in the open environment is lost on the way, with    *)
(* requests and answers that are lost: it is at the worker or was recorded. *)
NoResultLost ==
    \A u \in seen.finished : u \in worker.done \/ u = pending \/ seen.added[u] # << >>

(* A task that the manager lists as running is running, or its result is   *)
(* there to be fetched.                                                    *)
RunningIsTrue ==
    results.running \subseteq worker.bg \cup {worker.fg, pending} \cup worker.done

(* While a foreground task runs, the manager is occupied (and so takes no  *)
(* plan), unless the answer of the worker was late or the manager restarted. *)
TaskOccupiesManager ==
    worker.fg # NoTask /\ worker.fg \notin seen.excused => manager.state = "executing_task"

(* The manager gets out of the task again, and a task that is listed as    *)
(* running does not stay so, as long as tasks end.                         *)
TasksEnd ==
    /\ manager.state = "executing_task" ~> manager.state # "executing_task"
    /\ \A u \in Task : u \in results.running ~> u \notin results.running

(* Results are neither lost nor doubled, and what runs is known.           *)
ResultsTrue ==
    /\ TypeOK
    /\ RecordedOnce /\ KeptLongEnough /\ NoResultLost
    /\ RunningIsTrue /\ TaskOccupiesManager

=============================================================================
