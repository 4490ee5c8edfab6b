------------------------------- MODULE MCHttp -------------------------------
(* What stands between the clients of the queue server and its worker, each  *)
(* part in a small instance: who is let in and with which scopes, the life   *)
(* of the HTTP server inside the RE Manager, the console output that it      *)
(* hands to its clients, the lists of plans and devices that the manager     *)
(* holds, and the client through which its handlers ask the manager.         *)
(*                                                                           *)
(* The constants and variables of the first part are those of HttpAccess; in *)
(* a behaviour one part moves (part) and the others stay where they begin.   *)
EXTENDS HttpAccess, TLC

CONSTANTS
    u1, u2, l1, l2, w1, w2, none, count1, det, RE, c1, d1, d1b, d2, re1, re2, bad, g1, g2, s1, s2,
    MaxAttempts, MaxRestarts, MaxTroubles     \* of HttpServer

VARIABLES
    part,
    server, sup, supervised, stopEvent, serverState, restart, main, stopping, watchdog, apps, trouble,
    limit, screen, cache, reply, paper, count,
    outbox, net, queue, printed, phase, loader, msgs, uids, last, sockets, streams, polls, got, handed, log, answers,
    env, todo, nspace, objects, lists, data, flag, engine, task, file, copy, fetch,
    fresh, missed, unsaved, strayed, tasks, failures,
    shown, done, line, answer, status, age, event, asking, sleeping, lent, call, calls, acked, floor,
    upstream, tracking, head, local, dirty, room, began, loaded, displayed, opener, reported, job, mishaps

serving == <<server, sup, supervised, stopEvent, serverState, restart, main, stopping, watchdog, apps, trouble>>
page    == <<limit, screen, cache, reply, paper, count>>
stream  == <<outbox, net, queue, printed, phase, loader, msgs, uids, last, sockets, streams, polls, got, handed, log, answers>>
known   == <<env, todo, nspace, objects, lists, data, flag, engine, task, file, copy, fetch,
             fresh, missed, unsaved, strayed, tasks, failures>>
manager == <<shown, done, line, answer, status, age, event, asking, sleeping, lent, call, calls, acked, floor>>
profile == <<upstream, tracking, head, local, dirty, room, began, loaded, displayed, opener, reported, job, mishaps>>

(* Two users whose roles change and two logins at once, one with a password  *)
(* and one with a device code or an external token; keys made with keys.     *)
MCUser     == {u1, u2}
MCLogin    == {l1, l2}
MCRole     == {"admin", "user"}
MCDefaults == [admin |-> {"user:apikeys", "admin:apikeys"}, user |-> {"read", "write", "user:apikeys"}]
MCChanges  == [admin |-> [set |-> << >>, add |-> {}, remove |-> {}],
               user |-> [set |-> <<{"read", "user:apikeys"}>>, add |-> {}, remove |-> {}]]
MCAnswers  == {("user" :> {u1, u2}) @@ ("nobody" :> {u1}), ("admin" :> {u1})}
MCKinds    == [l \in MCLogin |-> IF l = l1 THEN {"password"} ELSE {"device", "external"}]
MCRequests == {<< >>, <<{"user:apikeys"}>>, <<{"inherit"}>>, <<{"read"}>>}

S == INSTANCE HttpServer WITH
    MaxRequests <- MaxRestarts, MaxFailures <- MaxTroubles,
    task <- supervised, state <- serverState, pending <- restart, seen <- trouble

X == INSTANCE ConsoleText WITH
    Messages <- {<<"a", "b">>, <<"a", "NL">>, <<"CR", "c">>, <<"UP">>, <<"NL", "NL", "UP">>, <<"UP", "c", "NL">>},
    Limits <- {0, 1, 2}, Lengths <- {0, 1}, MaxMessages <- 4, MaxReads <- 2

(* Messages to a client of the sockets, to one that polls, and to a stream.  *)
Status == INSTANCE ConsoleStream WITH
    Socket <- {s1}, Wants <- [c \in {s1} |-> {"status"}], Poller <- {}, Stream <- {},
    Kinds <- {"status", "info"}, MaxQueue <- 1, MaxBuffer <- 1, MaxMessages <- 4, MaxPolls <- 0

Polling == INSTANCE ConsoleStream WITH
    Socket <- {}, Wants <- [c \in {} |-> {}], Poller <- {s1}, Stream <- {},
    Kinds <- {"console"}, MaxQueue <- 1, MaxBuffer <- 2, MaxMessages <- 3, MaxPolls <- 2

Streaming == INSTANCE ConsoleStream WITH
    Socket <- {s1}, Wants <- [c \in {s1} |-> {"console"}], Poller <- {}, Stream <- {s2},
    Kinds <- {"console"}, MaxQueue <- 1, MaxBuffer <- 1, MaxMessages <- 3, MaxPolls <- 0

(* One plan and one device, two engines, and objects that are described      *)
(* alike (d1, d1b) or not at all (bad).                                      *)
Is(n, o) == [name |-> n, obj |-> o]
Profile  == <<Is(RE, re1), Is(det, d1), Is(count1, c1)>>

W == INSTANCE WorkerLists WITH
    Plan <- {count1}, Device <- {det}, Engine <- RE, Missing <- none,
    Describe <- (c1 :> c1 @@ d1 :> d1 @@ d1b :> d1 @@ d2 :> d2), Invalid <- {bad}, IgnoreInvalid <- FALSE,
    OnDisk <- "ALWAYS",
    Profiles <- {<<[from |-> "file", does |-> SubSeq(Profile, 1, 1)], [from |-> "file", does |-> SubSeq(Profile, 2, 3)]>>}
                \cup {<<[from |-> from, does |-> Profile]>> : from \in {"module", "script"}},
    Overlays <- {<<Is(det, d1b)>>},
    Uploads <- {[does |-> <<Is(RE, re2), Is(det, d2)>>, lists |-> TRUE, engine |-> FALSE],
                [does |-> <<Is(RE, re2), Is(count1, bad)>>, lists |-> TRUE, engine |-> TRUE]},
    Calls <- {<<Is(det, none)>>},
    MaxTasks <- 3, MaxFailures <- 1

(* Two handlers that ask for the status, for a list and for the end of a     *)
(* task through one client of the manager.                                   *)
C == INSTANCE ManagerClient WITH
    Clients <- {w1, w2}, Lists <- {"plans"}, Groups <- {g1, g2},
    Expire <- 0, MaxChanges <- 2, MaxCalls <- 3,
    uids <- shown, reply <- answer, cache <- lent

(* Two requests that pull or reload the profile.                             *)
G == INSTANCE ProfileReload WITH
    Handlers <- {w1, w2}, Pixi <- {1}, MaxCommits <- 1, MaxFailures <- 1,
    env <- room, from <- began, shown <- displayed, failures <- mishaps

(* Handlers and user groups are interchangeable.                             *)
Alike == Permutations({w1, w2}) \cup Permutations({g1, g2})

InitAll ==
    /\ part \in {"access", "server", "text", "status", "polled", "streamed", "lists", "calls", "reload"}
    /\ IF part = "status" THEN Status!Init ELSE IF part = "polled" THEN Polling!Init ELSE Streaming!Init
    /\ Init /\ S!Init /\ X!Init /\ W!Init /\ C!Init /\ G!Init
    /\ part # "text" => limit = 0
    /\ part # "reload" => ~dirty /\ room = "closed"

NextAll ==
    \/ part = "access"   /\ Next /\ UNCHANGED <<part, serving, page, stream, known, manager, profile>>
    \/ part = "server"   /\ S!Next /\ UNCHANGED <<part, vars, page, stream, known, manager, profile>>
    \/ part = "text"     /\ X!Next /\ UNCHANGED <<part, vars, serving, stream, known, manager, profile>>
    \/ part = "status"   /\ Status!Next /\ UNCHANGED <<part, vars, serving, page, known, manager, profile>>
    \/ part = "polled"   /\ Polling!Next /\ UNCHANGED <<part, vars, serving, page, known, manager, profile>>
    \/ part = "streamed" /\ Streaming!Next /\ UNCHANGED <<part, vars, serving, page, known, manager, profile>>
    \/ part = "lists"    /\ W!Next /\ UNCHANGED <<part, vars, serving, page, stream, manager, profile>>
    \/ part = "calls"    /\ C!Next /\ UNCHANGED <<part, vars, serving, page, stream, known, profile>>
    \/ part = "reload"   /\ G!Next /\ UNCHANGED <<part, vars, serving, page, stream, known, manager>>

everything == <<part, vars, serving, page, stream, known, manager, profile>>

SpecAll == InitAll /\ [][NextAll]_everything

(* A reload of the profile alone, with or without an environment.            *)
ReloadSpec == part = "reload" /\ InitAll /\ [][NextAll]_everything

-----------------------------------------------------------------------------
(* The HTTP server inside the manager: one at a time, and none after it.     *)
ServerTrue == part = "server" => S!ServerTrue

(* What clients are told: console output as text, and as messages in order   *)
(* to whoever asked; the plans and devices that the worker has; the status   *)
(* and the lists of the manager; what a reload of the profile did.           *)
ToldTrue ==
    /\ part = "text"     => X!TextTrue
    /\ part = "status"   => Status!StreamTrue
    /\ part = "polled"   => Polling!StreamTrue
    /\ part = "streamed" => Streaming!StreamTrue
    /\ part = "lists"    => W!ListsTrue
    /\ part = "calls"    => C!ManagerToldTrue
    /\ part = "reload"   => G!ReloadTrue

(* "True if an existing environment was closed and reopened."                *)
RecycledIsReopened == part = "reload" => G!RecycledIsReopened
=============================================================================
