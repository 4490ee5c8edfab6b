--------------------------- MODULE ManagerClient ---------------------------
(* The client of the RE Manager inside the HTTP server                     *)
(* (http/manager_client): one object, shared by all the handlers of the    *)
(* server, which keeps the last status it loaded and the lists it last     *)
(* received, each with the uid the manager gave it.                        *)
(*                                                                         *)
(* One event loop: an action here is the code between two awaits.  All     *)
(* requests pass through one lock (_lock_zmq, first come first served), so *)
(* `line` is the order in which the manager sees them; its first request   *)
(* is the one on the wire.  A single task loads the status for everybody.  *)
EXTENDS Naturals, Sequences, FiniteSets, SequencesExt

CONSTANTS
    Clients,      \* handlers of the HTTP server that use the client
    Lists,        \* data kept by uid: the queue, the allowed plans, ...
    Groups,       \* user groups, for each of which a list is kept; one group
                  \* stands for a list that is kept whole
    Expire,       \* ticks after which a loaded status is too old
    MaxChanges,   \* bound: changes of the manager's data
    MaxCalls      \* bound: calls of all the handlers

VARIABLES
    uids,      \* the manager: kind of data -> its uid (1, 2, ...)
    done,      \* the manager: the watched task is complete
    line,      \* requests, in the order in which they asked for _lock_zmq
    reply,     \* what the manager answered to the first of them
    status,    \* _status_current
    age,       \* age of _status_timestamp; Expire + 1: too old, or None
    event,     \* _event_status_get is set
    asking,    \* _status_get_cb: the handlers that wait for a status
    sleeping,  \* _wait_cb: the handlers that wait for a condition
    cache,     \* kind -> [uid, items: scope -> contents], what was kept
    call,      \* handler -> the call it makes, or made last
    calls,     \* how many calls were made
    acked,     \* history: uids that acknowledged operations brought about
    floor      \* history: handler -> uids a status told to it must have

vars == <<uids, done, line, reply, status, age, event, asking, sleeping,
          cache, call, calls, acked, floor>>

Kinds == Lists \union {"tasks"}

Nothing  == [k \in Kinds |-> 0]          \* no status (None)
NoReply  == [at |-> Nothing, done |-> FALSE]
NoCall   == [op |-> "none", phase |-> "idle", kind |-> "tasks",
             scope |-> "all", st |-> Nothing, since |-> 0, got |-> <<0, 0>>]

\* A status load is on its way: the status task waits for the reply.
Loading == \E i \in DOMAIN line : line[i].by = "loader"

Request(by, what, kind, scope) ==
    [by |-> by, what |-> what, kind |-> kind, scope |-> scope,
     clean |-> ~Loading]

Init ==
    /\ uids = [k \in Kinds |-> 1]
    /\ done = FALSE
    /\ line = <<>>
    /\ reply = NoReply
    /\ status = Nothing
    /\ age = Expire + 1
    /\ event = FALSE
    /\ asking = {}
    /\ sleeping = {}
    /\ cache = [k \in Lists |-> [uid |-> 0, items |-> <<>>]]
    /\ call = [c \in Clients |-> NoCall]
    /\ calls = 0
    /\ acked = Nothing
    /\ floor = [c \in Clients |-> Nothing]

----------------------------------------------------------------------------
(* The manager and the clock.                                              *)

managerOnly == UNCHANGED <<line, reply, status, age, event, asking, sleeping,
                           cache, call, calls, acked, floor>>

MayChange == FoldFunction(+, 0, uids) < MaxChanges + Cardinality(Kinds)

\* Another client, or the worker, changes what the manager shows.
Elsewhere(k) ==
    /\ MayChange
    /\ uids' = [uids EXCEPT ![k] = @ + 1]
    /\ UNCHANGED done
    /\ managerOnly

\* The watched task completes; task_results_uid changes with it.
Completes ==
    /\ ~done
    /\ MayChange
    /\ done' = TRUE
    /\ uids' = [uids EXCEPT !["tasks"] = @ + 1]
    /\ managerOnly

Tick ==
    /\ age <= Expire
    /\ age' = age + 1
    /\ UNCHANGED <<uids, done, line, reply, status, event, asking, sleeping,
                   cache, call, calls, acked, floor>>

\* The manager handles the request on the wire.
Handled ==
    /\ line # <<>>
    /\ reply = NoReply
    /\ LET r == Head(line)
           now == IF r.what = "change" /\ MayChange
                  THEN [uids EXCEPT ![r.kind] = @ + 1] ELSE uids
       IN  /\ uids' = now
           /\ reply' = [at |-> [k \in Kinds |->
                                 IF r.by = "loader" \/ k = r.kind
                                 THEN now[k] ELSE 0],
                        done |-> r.what = "task" /\ done]
    /\ UNCHANGED <<done, line, status, age, event, asking, sleeping, cache,
                   call, calls, acked, floor>>

----------------------------------------------------------------------------
(* Asking for the status.                                                  *)

\* API_Async_Mixin._status: leave a callback, drop the stamp if a reload is
\* wanted, and set the event.  The history variable holds what the handler
\* may rely on: what the manager shows now if the status will be loaded for
\* this call, and else the effect of the operations acknowledged so far.
StatusAsked(c, reload) ==
    /\ asking' = asking \union {c}
    /\ age' = IF reload THEN Expire + 1 ELSE age
    /\ event' = TRUE
    /\ floor' = [floor EXCEPT ![c] =
                   IF call'[c].op = "wait" THEN Nothing
                   ELSE IF ~Loading /\ (reload \/ age > Expire) THEN uids
                   ELSE acked]


\* The condition of _wait_for_task_results_update over a status.
Satisfied(c, st) == st # Nothing /\ st["tasks"] # call[c].since

\* The end of a round of _task_status_get_func: every callback is given the
\* status, the ones that came during the load included, and those who wait
\* for a condition are woken if it holds, or (`late`) if their time is up.
Served(st, late) ==
    LET woken == {c \in sleeping : Satisfied(c, st)} \union late
    IN  /\ call' = [c \in Clients |->
                      IF c \in asking THEN [call[c] EXCEPT !.phase = "served",
                                                           !.st = st]
                      ELSE IF c \in woken
                      THEN [call[c] EXCEPT
                              !.phase = IF Satisfied(c, st) THEN "woken"
                                        ELSE "expired"]
                      ELSE call[c]]
        /\ asking' = {}
        /\ sleeping' = sleeping \ woken
        /\ event' = FALSE


\* _task_status_get_func wakes: a status that is too old is loaded again, a
\* fresh one is given at once.
LoadBegins ==
    /\ event /\ ~Loading
    /\ age > Expire
    /\ line' = Append(line, Request("loader", "status", "tasks", "all"))
    /\ UNCHANGED <<uids, done, reply, status, age, event, asking, sleeping,
                   cache, call, calls, acked, floor>>

GivenAgain ==
    /\ event /\ ~Loading
    /\ age <= Expire
    /\ \E late \in SUBSET sleeping : Served(status, late)
    /\ UNCHANGED <<uids, done, line, reply, status, age, cache, calls, acked,
                   floor>>

\* The reply to the load: it is stamped with the time of its arrival.
Loaded ==
    /\ line # <<>> /\ reply # NoReply
    /\ Head(line).by = "loader"
    /\ status' = reply.at
    /\ age' = 0
    /\ \E late \in SUBSET sleeping : Served(reply.at, late)
    /\ line' = Tail(line)
    /\ reply' = NoReply
    /\ UNCHANGED <<uids, done, cache, calls, acked, floor>>

\* The load fails: everybody is told so, and the stamp stays as it was.
LoadFails ==
    /\ line # <<>>
    /\ Head(line).by = "loader"
    /\ status' = Nothing
    /\ \E late \in SUBSET sleeping : Served(Nothing, late)
    /\ line' = Tail(line)
    /\ reply' = NoReply
    /\ UNCHANGED <<uids, done, age, cache, calls, acked, floor>>

\* _task_status_poll_func: while somebody waits for a condition.
Polls ==
    /\ sleeping # {} /\ ~event
    /\ event' = TRUE
    /\ UNCHANGED <<uids, done, line, reply, status, age, asking, sleeping,
                   cache, call, calls, acked, floor>>

----------------------------------------------------------------------------
(* The calls.                                                              *)

Begins(c, op, k, s) ==
    /\ call[c].phase = "idle"
    /\ calls < MaxCalls
    /\ calls' = calls + 1
    /\ call' = [call EXCEPT ![c] = [NoCall EXCEPT
                  !.op = op, !.kind = k, !.scope = s,
                  !.phase = IF op = "change" THEN "sent" ELSE "asked"]]

\* status, ping, and the first step of queue_get, history_get, plans_allowed,
\* devices_allowed, plans_existing, devices_existing, re_runs, lock_info.
AsksStatus(c, reload) ==
    /\ Begins(c, "status", "tasks", "all")
    /\ StatusAsked(c, reload)
    /\ UNCHANGED <<uids, done, line, reply, status, sleeping, cache, acked>>

Gets(c, k, s, reload) ==
    /\ Begins(c, "get", k, s)
    /\ StatusAsked(c, reload)
    /\ UNCHANGED <<uids, done, line, reply, status, sleeping, cache, acked>>

\* wait_for_completed_task: first the uid of the results.
Waits(c) ==
    /\ Begins(c, "wait", "tasks", "all")
    /\ StatusAsked(c, FALSE)
    /\ UNCHANGED <<uids, done, line, reply, status, sleeping, cache, acked>>

\* An operation: _clear_status_timestamp, then the request.
Operates(c, k) ==
    /\ Begins(c, "change", k, "all")
    /\ age' = Expire + 1
    /\ line' = Append(line, Request(c, "change", k, "all"))
    /\ UNCHANGED <<uids, done, reply, status, event, asking, sleeping, cache,
                   acked, floor>>


Told(c, st, got) ==
    call' = [call EXCEPT ![c].phase = "told", ![c].st = st, ![c].got = got]

\* The answer is with the client of the server; the handler is free again.
Leaves(c) ==
    /\ call[c].phase = "told"
    /\ call' = [call EXCEPT ![c] = NoCall]
    /\ floor' = [floor EXCEPT ![c] = Nothing]
    /\ UNCHANGED <<uids, done, line, reply, status, age, event, asking,
                   sleeping, cache, calls, acked>>

\* The status is there: `status` returns it.
StatusTold(c) ==
    /\ call[c].phase = "served" /\ call[c].op = "status"
    /\ Told(c, call[c].st, <<0, 0>>)
    /\ UNCHANGED <<uids, done, line, reply, status, age, event, asking,
                   sleeping, cache, calls, acked, floor>>

\* What was kept answers a call if its uid is that of the status.
Kept(k, s, st) ==
    /\ st # Nothing
    /\ cache[k].uid = st[k]
    /\ s \in DOMAIN cache[k].items


\* _generate_response_*: the answer from what was kept; or the status could
\* not be loaded and the exception is raised again.
KeptTold(c) ==
    LET k == call[c].kind  s == call[c].scope  st == call[c].st
    IN  /\ call[c].phase = "served" /\ call[c].op = "get"
        /\ \/ st = Nothing /\ Told(c, st, <<0, 0>>)
           \/ Kept(k, s, st)
              /\ Told(c, st, <<cache[k].uid, cache[k].items[s]>>)
        /\ UNCHANGED <<uids, done, line, reply, status, age, event, asking,
                       sleeping, cache, calls, acked, floor>>

\* Else the manager is asked.
GetSent(c) ==
    LET k == call[c].kind  s == call[c].scope  st == call[c].st
    IN  /\ call[c].phase = "served" /\ call[c].op = "get"
        /\ st # Nothing /\ ~Kept(k, s, st)
        /\ line' = Append(line, Request(c, "get", k, s))
        /\ call' = [call EXCEPT ![c].phase = "sent"]
        /\ UNCHANGED <<uids, done, reply, status, age, event, asking, sleeping,
                       cache, calls, acked, floor>>

\* _process_response_*: lists of another uid are dropped, those of the other
\* groups among them.
Received(k, s, uid) ==
    cache' = [cache EXCEPT ![k] =
        [uid |-> uid,
         items |-> [x \in {s} \union
                            (IF @.uid = uid THEN DOMAIN @.items ELSE {})
                        |-> IF x = s THEN uid ELSE @.items[x]]]]


\* The reply to a handler's request.
GetAnswered(c) ==
    LET r == Head(line)
    IN  /\ line # <<>> /\ reply # NoReply
        /\ r.by = c /\ r.what = "get"
        /\ Received(r.kind, r.scope, reply.at[r.kind])
        /\ Told(c, call[c].st, <<reply.at[r.kind], reply.at[r.kind]>>)
        /\ line' = Tail(line)
        /\ reply' = NoReply
        /\ UNCHANGED <<uids, done, status, age, event, asking, sleeping, calls,
                       acked, floor>>

\* An operation is acknowledged.  Its effect counts for later calls unless a
\* status load was already in flight when it was sent.
Acknowledged(c) ==
    LET r == Head(line)
    IN  /\ line # <<>> /\ reply # NoReply
        /\ r.by = c /\ r.what = "change"
        /\ acked' = IF r.clean THEN [acked EXCEPT ![r.kind] =
                                            IF @ > reply.at[r.kind] THEN @
                                            ELSE reply.at[r.kind]]
                    ELSE acked
        /\ Told(c, Nothing, <<0, 0>>)
        /\ line' = Tail(line)
        /\ reply' = NoReply
        /\ UNCHANGED <<uids, done, status, age, event, asking, sleeping, cache,
                       calls, floor>>

\* The request is refused, or no answer comes in time and the socket is
\* opened anew: the handler's call raises, whatever the manager did.
Fails(c) ==
    /\ line # <<>>
    /\ Head(line).by = c
    /\ Told(c, Nothing, <<0, 0>>)
    /\ line' = Tail(line)
    /\ reply' = NoReply
    /\ UNCHANGED <<uids, done, status, age, event, asking, sleeping, cache,
                   calls, acked, floor>>

----------------------------------------------------------------------------
(* wait_for_completed_task.                                                *)

\* The uid of the results is taken from the first status; the state of the
\* task is then asked for, which drops the stamp of the status.
TaskAsked(c) ==
    /\ call[c].phase = "served" /\ call[c].op = "wait"
    /\ call[c].st # Nothing \/ call[c].since # 0
    /\ call' = [call EXCEPT ![c].phase = "sent",
                            ![c].since = IF @ = 0 THEN call[c].st["tasks"]
                                         ELSE @]
    /\ age' = Expire + 1
    /\ line' = Append(line, Request(c, "task", "tasks", "all"))
    /\ UNCHANGED <<uids, done, reply, status, event, asking, sleeping, cache,
                   calls, acked, floor>>

FirstStatusFails(c) ==
    /\ call[c].phase = "served" /\ call[c].op = "wait"
    /\ call[c].st = Nothing /\ call[c].since = 0
    /\ Told(c, Nothing, <<0, 0>>)
    /\ UNCHANGED <<uids, done, line, reply, status, age, event, asking,
                   sleeping, cache, calls, acked, floor>>

\* A complete task ends the call; else the handler sleeps until the uid of
\* the results is another one.
TaskAnswered(c) ==
    LET r == Head(line)
    IN  /\ line # <<>> /\ reply # NoReply
        /\ r.by = c /\ r.what = "task"
        /\ IF reply.done
           THEN Told(c, call[c].st, <<1, 1>>) /\ UNCHANGED sleeping
           ELSE /\ call' = [call EXCEPT ![c].phase = "asleep"]
                /\ sleeping' = sleeping \union {c}
        /\ line' = Tail(line)
        /\ reply' = NoReply
        /\ UNCHANGED <<uids, done, status, age, event, asking, cache, calls,
                       acked, floor>>


\* The end of _wait_for_condition: the status is loaded once more.  (Its
\* result, or failure, is ignored.)
StatusRenewed(c) ==
    /\ call[c].phase = "woken"
    /\ call' = [call EXCEPT ![c].phase = "asked"]
    /\ StatusAsked(c, TRUE)
    /\ UNCHANGED <<uids, done, line, reply, status, sleeping, cache, calls,
                   acked>>

\* The time is up, or the monitor was cancelled: WaitTimeoutError or
\* WaitCancelError, after that last load, which is left out here.
WaitEnds(c) ==
    /\ call[c].phase = "expired"
    /\ Told(c, Nothing, <<0, 0>>)
    /\ UNCHANGED <<uids, done, line, reply, status, age, event, asking,
                   sleeping, cache, calls, acked, floor>>

Telling == \E c \in Clients : call[c].phase = "told"

\* An answer is told in one step: nothing else happens while it is.
Next ==
    \/ \E c \in Clients : Leaves(c)
    \/ /\ ~Telling
       /\ \/ \E k \in Kinds : Elsewhere(k)
          \/ Completes \/ Tick \/ Handled
          \/ LoadBegins \/ GivenAgain \/ Loaded \/ LoadFails \/ Polls
          \/ \E c \in Clients :
               \/ \E b \in BOOLEAN : AsksStatus(c, b)
               \/ \E k \in Lists, b \in BOOLEAN :
                    \E s \in Groups : Gets(c, k, s, b)
               \/ Waits(c)
               \/ \E k \in Lists : Operates(c, k)
               \/ StatusTold(c) \/ KeptTold(c) \/ GetSent(c)
               \/ GetAnswered(c) \/ Acknowledged(c) \/ Fails(c)
               \/ TaskAsked(c) \/ FirstStatusFails(c) \/ TaskAnswered(c)
               \/ StatusRenewed(c) \/ WaitEnds(c)

Spec == Init /\ [][Next]_vars

----------------------------------------------------------------------------
(* The parts of ManagerToldTrue.                                           *)

\* What a handler is told is not older than it may rely on: a status loaded
\* for its call, and always the effect of an operation acknowledged to any
\* handler before the call (unless a load was in flight when it was sent).
ToldAfterOperations ==
    \A c \in Clients :
        /\ call[c].phase \in {"served", "told"} /\ call[c].op = "status"
               /\ call[c].st # Nothing
             => \A k \in Kinds : call[c].st[k] >= floor[c][k]
        /\ call[c].phase = "told" /\ call[c].op = "get"
               /\ call[c].got[1] # 0
             => call[c].got[1] >= floor[c][call[c].kind]

\* A list is told with the uid the manager gave to it, and is not older than
\* the status the call was decided by.
ListsBelongToUid ==
    \A c \in Clients :
        call[c].phase = "told" /\ call[c].op = "get" /\ call[c].got[1] # 0
          => /\ call[c].got[1] = call[c].got[2]
             /\ call[c].got[1] >= call[c].st[call[c].kind]

\* Whoever waits for a status is on the list of callbacks with the event set,
\* whoever waits for a task is on the other list, and cannot miss its end.
NobodyForgotten ==
    /\ asking = {c \in Clients : call[c].phase = "asked"}
    /\ sleeping = {c \in Clients : call[c].phase = "asleep"}
    /\ asking # {} => event
    /\ \A c \in sleeping : done => uids["tasks"] # call[c].since

ManagerToldTrue ==
    ToldAfterOperations /\ ListsBelongToUid /\ NobodyForgotten

=============================================================================
