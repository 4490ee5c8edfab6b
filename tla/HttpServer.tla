------------------------------ MODULE HttpServer ------------------------------
(* The HTTP server inside the process of the RE Manager: its supervisor       *)
(* (manager/http_server.py), restarts by request, the end of the manager, and *)
(* the watchdog.  All but the watchdog are coroutines of one event loop.      *)
(*                                                                            *)
(* uvicorn is external: it opens the application (lifespan), binds the port,  *)
(* and on should_exit frees the port, waits for its connections and closes    *)
(* the application; one that is cancelled does not close it.                  *)
EXTENDS Naturals

CONSTANTS MaxAttempts, MaxRequests, MaxFailures

VARIABLES
    server,    \* uvicorn.Server of the last attempt: at, exit (should_exit), result
    sup,       \* the supervisor task: at, attempts, cancelled
    task,      \* CoHostedHttpServer has a supervisor (_task)
    stopEvent, \* of this supervisor
    state,     \* http_server_state
    pending,   \* the scheduled restart
    main,      \* the coroutine of the manager
    stopping,  \* _manager_stopping
    watchdog,  \* told: that the manager stops; restarts
    apps,      \* applications that are open
    seen       \* history: requests, failures, leaked applications, overwritten: a
               \* server was replaced while at work, raced: a restart was cancelled in
               \* stop()

vars == <<server, sup, task, stopEvent, state, pending, main, stopping, watchdog, apps, seen>>

NoServer == [at |-> "gone", exit |-> FALSE, result |-> "none"]
NoSup    == [at |-> "none", attempts |-> 0, cancelled |-> FALSE]

Init ==
    /\ server = NoServer /\ sup = [NoSup EXCEPT !.at = "begin"] /\ task = TRUE
    /\ stopEvent = FALSE /\ state = "starting" /\ pending = "none"
    /\ main = "serving" /\ stopping = FALSE
    /\ watchdog = [told |-> FALSE, restarts |-> 0] /\ apps = 0
    /\ seen = [requests |-> 0, failures |-> 0, leaked |-> 0, overwritten |-> FALSE, raced |-> FALSE]

Up    == main \notin {"aborted", "stopped"}
Fails == seen.failures < MaxFailures
Fail  == seen' = [seen EXCEPT !.failures = @ + 1]

-----------------------------------------------------------------------------
(* uvicorn.                                                                   *)
(* A failure while the application starts makes it return without an error;   *)
(* a port that is taken closes the application and exits the process; one that *)
(* is told to exit meanwhile returns, and may leave the application open.      *)
ServerStarts ==
    /\ Up /\ server.at = "startup"
    /\ \/ /\ ~server.exit
          /\ server' = [server EXCEPT !.at = "up"] /\ apps' = apps + 1 /\ UNCHANGED seen
       \/ /\ Fails /\ Fail
          /\ \E how \in {"returned", "exit"} : server' = [server EXCEPT !.at = "gone", !.result = how]
          /\ UNCHANGED apps
       \/ /\ server.exit
          /\ server' = [server EXCEPT !.at = "gone", !.result = "returned"]
          /\ \E open \in {0, 1} : apps' = apps + open /\ seen' = [seen EXCEPT !.leaked = @ + open]
    /\ UNCHANGED <<sup, task, stopEvent, state, pending, main, stopping, watchdog>>

ServerCloses ==
    /\ Up /\ server.at = "up" /\ server.exit
    /\ server' = [server EXCEPT !.at = "closing"]
    /\ UNCHANGED <<sup, task, stopEvent, state, pending, main, stopping, watchdog, apps, seen>>

ServerEnds ==
    /\ Up /\ server.at = "closing"
    /\ server' = [server EXCEPT !.at = "gone", !.result = "returned"]
    /\ apps' = apps - 1
    /\ UNCHANGED <<sup, task, stopEvent, state, pending, main, stopping, watchdog, seen>>

ServerCrashes ==
    /\ Up /\ server.at = "up" /\ Fails /\ Fail
    /\ server' = [server EXCEPT !.at = "gone", !.result = "crash"]
    /\ apps' = apps - 1
    /\ UNCHANGED <<sup, task, stopEvent, state, pending, main, stopping, watchdog>>

(* The testing hook: the server exits and nobody asked for it.                *)
SimulatedExit ==
    /\ Up /\ server.at = "up" /\ ~server.exit /\ Fails /\ Fail
    /\ server' = [server EXCEPT !.exit = TRUE]
    /\ UNCHANGED <<sup, task, stopEvent, state, pending, main, stopping, watchdog, apps>>

-----------------------------------------------------------------------------
(* The supervisor.                                                            *)
supOnly == UNCHANGED <<pending, main, stopping, watchdog>>

Decided(attempts) ==
    IF stopEvent THEN state' = "stopped" /\ sup' = [sup EXCEPT !.at = "done"]
    ELSE IF attempts >= MaxAttempts
    THEN state' = "failed" /\ sup' = [sup EXCEPT !.at = "done", !.attempts = attempts]
    ELSE state' = "retrying" /\ sup' = [sup EXCEPT !.at = "waiting", !.attempts = attempts]

(* A fresh application for each attempt; it may not even be built.            *)
Attempts ==
    /\ Up /\ sup.at = "begin" /\ ~sup.cancelled
    /\ \/ /\ server' = [at |-> "startup", exit |-> FALSE, result |-> "none"]
          /\ sup' = [sup EXCEPT !.at = "starting", !.attempts = @ + 1] /\ state' = "starting"
          /\ seen' = [seen EXCEPT !.overwritten = @ \/ server.at # "gone"]
       \/ Fails /\ Fail /\ Decided(sup.attempts + 1) /\ UNCHANGED server
    /\ UNCHANGED <<task, stopEvent, apps>> /\ supOnly

SeesStarted ==
    /\ Up /\ sup.at = "starting" /\ ~sup.cancelled /\ server.at \in {"up", "closing"}
    /\ sup' = [sup EXCEPT !.at = "running"] /\ state' = "running"
    /\ UNCHANGED <<server, task, stopEvent, apps, seen>> /\ supOnly

(* The server is gone.  One that ran for a while gets all attempts again,     *)
(* unless an exception ended it.                                              *)
SeesGone ==
    /\ Up /\ sup.at \in {"starting", "running"} /\ ~sup.cancelled /\ server.at = "gone"
    /\ \E stable \in BOOLEAN :
           /\ stable => sup.at = "running" /\ server.result # "crash"
           /\ Decided(IF stable THEN 0 ELSE sup.attempts)
    /\ UNCHANGED <<server, task, stopEvent, apps, seen>> /\ supOnly

(* After the delay, or at once when somebody stops the server: the next       *)
(* attempt either way.                                                        *)
Waited ==
    /\ Up /\ sup.at = "waiting" /\ ~sup.cancelled
    /\ sup' = [sup EXCEPT !.at = "begin"]
    /\ UNCHANGED <<server, task, stopEvent, state, apps, seen>> /\ supOnly

(* Cancelled: it takes the server with it, whose application stays open.      *)
Cancelled ==
    /\ Up /\ sup.cancelled /\ sup.at \in {"begin", "starting", "running", "waiting"}
    /\ server' = [server EXCEPT !.at = "gone"]
    /\ seen' = [seen EXCEPT !.leaked = IF server.at \in {"up", "closing"} THEN @ + 1 ELSE @]
    /\ sup' = [sup EXCEPT !.at = "cancelled"]
    /\ state' = "stopped"
    /\ UNCHANGED <<task, stopEvent, apps>> /\ supOnly

-----------------------------------------------------------------------------
(* stop(), by the scheduled restart or by the manager.                        *)
Stop ==
    /\ stopEvent' = TRUE
    /\ server' = [server EXCEPT !.exit = IF server.at = "gone" THEN @ ELSE TRUE]

Forgets == state' = "stopped" /\ task' = FALSE /\ server' = NoServer

TimesOut == sup' = [sup EXCEPT !.cancelled = TRUE]

SupEnded == sup.at \in {"done", "cancelled"}

(* http_server_restart: one at a time.                                        *)
RestartAsked ==
    /\ main \in {"serving", "replying", "stopping"}
    /\ seen.requests < MaxRequests
    /\ seen' = [seen EXCEPT !.requests = @ + 1]
    /\ pending' = IF pending \in {"none", "done"} THEN "sleep" ELSE pending
    /\ UNCHANGED <<server, sup, task, stopEvent, state, main, stopping, watchdog, apps>>

RestartBegins_Unguarded ==
    /\ Up /\ pending = "sleep"
    /\ pending' = "stopping" /\ Stop
    /\ UNCHANGED <<sup, task, state, main, stopping, watchdog, apps, seen>>

(* The reply leaves first; a manager that stops is not restarted into.        *)
RestartBegins ==
    /\ Up /\ pending = "sleep"
    /\ IF stopping THEN pending' = "done" /\ UNCHANGED <<stopEvent, server>>
                   ELSE pending' = "stopping" /\ Stop
    /\ UNCHANGED <<sup, task, state, main, stopping, watchdog, apps, seen>>

RestartTimesOut ==
    /\ Up /\ pending = "stopping" /\ ~SupEnded
    /\ pending' = "cancelling" /\ TimesOut
    /\ UNCHANGED <<server, task, stopEvent, state, main, stopping, watchdog, apps, seen>>

(* stop() is over, and start() follows at once.                               *)
RestartGoesOn ==
    /\ Up /\ pending \in {"stopping", "cancelling"} /\ SupEnded
    /\ pending' = "done"
    /\ state' = "stopped" /\ server' = NoServer
    /\ sup' = [NoSup EXCEPT !.at = "begin"] /\ task' = TRUE /\ stopEvent' = FALSE
    /\ UNCHANGED <<main, stopping, watchdog, apps, seen>>

(* A restart that was cancelled has its stop() clean up.                      *)
RestartDropped ==
    /\ Up /\ pending = "dropped" /\ SupEnded
    /\ pending' = "done" /\ Forgets
    /\ UNCHANGED <<sup, stopEvent, main, stopping, watchdog, apps, seen>>

-----------------------------------------------------------------------------
(* manager_stop: the reply, then the HTTP server, the worker, the watchdog.   *)
StopAsked ==
    /\ main = "serving" /\ main' = "replying" /\ stopping' = TRUE
    /\ UNCHANGED <<server, sup, task, stopEvent, state, pending, watchdog, apps, seen>>

(* Cancelling a restart that waits for the supervisor cancels the supervisor. *)
DropsRestart ==
    /\ pending' = CASE pending = "sleep" -> "done"
                    [] pending \in {"stopping", "cancelling"} -> "dropped"
                    [] OTHER -> pending
    /\ sup' = IF pending \in {"stopping", "cancelling"} /\ ~SupEnded THEN [sup EXCEPT !.cancelled = TRUE] ELSE sup

StopsServer ==
    /\ main = "replying"
    /\ DropsRestart
    /\ main' = "stopping" /\ Stop
    /\ seen' = [seen EXCEPT !.raced = @ \/ pending \in {"stopping", "cancelling"}]
    /\ UNCHANGED <<task, state, stopping, watchdog, apps>>

StopTimesOut ==
    /\ main = "stopping" /\ ~SupEnded
    /\ main' = "cancelling" /\ TimesOut
    /\ UNCHANGED <<server, task, stopEvent, state, pending, stopping, watchdog, apps, seen>>

(* A supervisor that somebody else cancelled cancels who waits for it.        *)
ServerStopped ==
    /\ main \in {"stopping", "cancelling"} /\ SupEnded
    /\ main' = IF main = "stopping" /\ sup.at = "cancelled" THEN "aborted" ELSE "closing"
    /\ Forgets
    /\ apps' = IF main' = "aborted" THEN 0 ELSE apps
    /\ UNCHANGED <<sup, stopEvent, pending, stopping, watchdog, seen>>

(* The worker is stopped or killed, and the watchdog told.                    *)
Closes ==
    /\ main = "closing"
    /\ main' = "stopped" /\ apps' = 0
    /\ watchdog' = [watchdog EXCEPT !.told = TRUE]
    /\ UNCHANGED <<server, sup, task, stopEvent, state, pending, stopping, seen>>

(* Heartbeats stopped, and nobody told the watchdog why.                      *)
WatchdogRestarts ==
    /\ main = "aborted" /\ ~watchdog.told
    /\ server' = NoServer /\ sup' = [NoSup EXCEPT !.at = "begin"] /\ task' = TRUE
    /\ stopEvent' = FALSE /\ state' = "starting" /\ pending' = "none"
    /\ main' = "serving" /\ stopping' = FALSE /\ apps' = 0
    /\ watchdog' = [watchdog EXCEPT !.restarts = @ + 1]
    /\ seen' = [seen EXCEPT !.leaked = 0, !.requests = MaxRequests]

Next ==
    \/ ServerStarts \/ ServerCloses \/ ServerEnds \/ ServerCrashes \/ SimulatedExit
    \/ Attempts \/ SeesStarted \/ SeesGone \/ Waited \/ Cancelled
    \/ RestartAsked \/ RestartBegins \/ RestartTimesOut \/ RestartGoesOn \/ RestartDropped
    \/ StopAsked \/ StopsServer \/ StopTimesOut \/ ServerStopped \/ Closes \/ WatchdogRestarts

Spec == Init /\ [][Next]_vars

-----------------------------------------------------------------------------
TypeOK ==
    /\ state \in {"starting", "running", "retrying", "failed", "stopped"}
    /\ sup.attempts \in 0 .. MaxAttempts /\ task \in BOOLEAN /\ apps \in Nat

(* A server is replaced only when it is gone, and its application is closed   *)
(* unless it was cancelled.                                                   *)
OneServer ==
    Up => /\ ~seen.overwritten
          /\ apps = seen.leaked + (IF server.at \in {"up", "closing"} THEN 1 ELSE 0)

(* The status of the manager says what the server does.                       *)
StateTrue ==
    Up => /\ state = "running" => task /\ sup.at = "running"
          /\ state = "failed"  => sup.at = "done" /\ server.at = "gone"
          /\ state = "stopped" => server.at = "gone" \/ ~Up

(* Nothing serves once the manager closes, and no restart comes up then.      *)
QuietAtEnd == main \in {"closing", "stopped"} => ~task /\ server.at = "gone"

(* A manager that was asked to stop is back only if that cancelled a restart  *)
(* while it waited for the supervisor.                                        *)
StopIsFinal == watchdog.restarts > 0 => seen.raced

ServerTrue == TypeOK /\ OneServer /\ StateTrue /\ QuietAtEnd /\ StopIsFinal
=============================================================================
