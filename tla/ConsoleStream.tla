---------------------------- MODULE ConsoleStream ----------------------------
(* Messages on their way from the processes of the queue server to clients of *)
(* its HTTP server: the publishing thread (manager/output_streaming.py), the  *)
(* monitors of the two topics (console_monitor.py, system_info_monitor.py),   *)
(* the loaders with their queues and the buffer that is polled                *)
(* (http/console_output.py), the sockets and streams (routers/console.py).    *)
(*                                                                            *)
(* The HTTP server is one event loop; requests that poll, and streams, run in *)
(* threads of a pool and see the loader between two of its statements.  The   *)
(* uid of a message is its number; messages may be lost before the monitor.   *)
EXTENDS Naturals, SequencesExt

CONSTANTS
    Socket,      \* clients of the sockets
    Wants,       \* Socket -> kinds of messages that it gets
    Poller, Stream,
    Kinds,       \* of messages that are printed: "console", "status", "info"
    MaxQueue,    \* size of each queue
    MaxBuffer,   \* messages that are kept for polling
    MaxMessages, MaxPolls

VARIABLES
    outbox, net, queue,   \* of processes; of the subscribed sockets; of the monitors
    printed,              \* how many messages there were
    phase,                \* of the server: off, on, stopping, over
    loader,               \* of console output: at, and its message
    msgs, uids, last,     \* the buffer that is polled, and the uid of its last message
    sockets, streams,     \* clients: conn, handler, alive, noticed, queue
    polls,                \* requests that poll: at, from, index, list
    got, handed, log,     \* history: messages per client; that sockets were handed; that the
                          \* buffer was given
    answers               \* history: the last answer to each poller, the exact one, and how many

vars == <<outbox, net, queue, printed, phase, loader, msgs, uids, last, sockets, streams, polls, got, handed, log, answers>>

Topics      == {"console", "info"}
Topic(kind) == IF kind = "console" THEN "console" ELSE "info"
NoMsg       == [n |-> 0, kind |-> "console"]
Away        == [conn |-> "away", handler |-> "none", alive |-> TRUE, noticed |-> FALSE, queue |-> << >>, since |-> 0]
NoStream    == [in |-> FALSE, queue |-> << >>, drops |-> FALSE]
NoPoll      == [at |-> "idle", from |-> 0, all |-> TRUE, index |-> 0, list |-> << >>, raced |-> FALSE]
NoAnswer    == [list |-> << >>, exact |-> << >>, last |-> 0, raced |-> FALSE, count |-> 0]

(* Nothing was published before last: its uid is not in the buffer.           *)
Init ==
    /\ outbox = << >> /\ net = [t \in Topics |-> << >>] /\ queue = net /\ printed = 0
    /\ phase = "off" /\ loader = [at |-> "off", msg |-> NoMsg]
    /\ msgs = << >> /\ uids = << >> /\ last = 0
    /\ sockets = [c \in Socket |-> Away] /\ streams = [c \in Stream |-> NoStream]
    /\ polls = [c \in Poller |-> NoPoll]
    /\ got = [c \in Socket \cup Stream |-> << >>] /\ handed = << >> /\ log = << >>
    /\ answers = [c \in Poller |-> NoAnswer]

upstream   == <<outbox, net, queue, printed, phase>>
buffer     == <<msgs, uids, last>>
downstream == <<sockets, streams, polls, got, handed, log, answers>>

(* The event loop is not in the middle of a loader.                           *)
LoopFree == loader.at \in {"off", "wait"}

Pushed_KeepsOld(q, m) == IF Len(q) >= MaxQueue THEN q ELSE Append(q, m)

(* A queue that is full loses its oldest message.                             *)
Pushed(q, m) == Append(IF Len(q) >= MaxQueue THEN Tail(q) ELSE q, m)

-----------------------------------------------------------------------------
(* Processes put what is printed, and changes of the status, in one queue.    *)
Prints(kind) ==
    /\ printed < MaxMessages
    /\ printed' = printed + 1
    /\ outbox' = Append(outbox, [n |-> printed + 1, kind |-> kind])
    /\ UNCHANGED <<net, queue, phase, loader>> /\ UNCHANGED buffer /\ UNCHANGED downstream

Publishes ==
    /\ outbox # << >> /\ outbox' = Tail(outbox)
    /\ LET t == Topic(Head(outbox).kind)
       IN  \/ phase \in {"on", "stopping"} /\ net' = [net EXCEPT ![t] = Append(@, Head(outbox))]
           \/ UNCHANGED net
    /\ UNCHANGED <<queue, printed, phase, loader>> /\ UNCHANGED buffer /\ UNCHANGED downstream

(* The monitors subscribe with empty queues, and the loaders start.           *)
Starts ==
    /\ phase = "off" /\ phase' = "on" /\ loader' = [loader EXCEPT !.at = "wait"]
    /\ UNCHANGED <<outbox, net, queue, printed>> /\ UNCHANGED buffer /\ UNCHANGED downstream

(* A monitor drops what its queue has no room for.                            *)
Receives(t) ==
    /\ phase \in {"on", "stopping"} /\ LoopFree
    /\ net[t] # << >> /\ net' = [net EXCEPT ![t] = Tail(@)]
    /\ queue' = IF Len(queue[t]) >= MaxQueue THEN queue ELSE [queue EXCEPT ![t] = Append(@, Head(net[t]))]
    /\ UNCHANGED <<outbox, printed, phase, loader>> /\ UNCHANGED buffer /\ UNCHANGED downstream

(* The loaders end first, and then the monitors.                              *)
Stops ==
    /\ \/ phase = "on" /\ phase' = "stopping" /\ UNCHANGED <<net, loader>>
       \/ /\ phase = "stopping" /\ loader.at = "wait"
          /\ phase' = "over" /\ loader' = [loader EXCEPT !.at = "off"]
          /\ net' = [t \in Topics |-> << >>]
    /\ UNCHANGED <<outbox, queue, printed>> /\ UNCHANGED buffer /\ UNCHANGED downstream

-----------------------------------------------------------------------------
(* One message of the console, in steps that threads may see.                 *)
Goes(from, to) == loader.at = from /\ loader' = [loader EXCEPT !.at = to]

Loads ==
    /\ phase = "on" /\ queue["console"] # << >>
    /\ loader.at = "wait" /\ loader' = [at |-> "streams", msg |-> Head(queue["console"])]
    /\ queue' = [queue EXCEPT !["console"] = Tail(@)]
    /\ UNCHANGED <<outbox, net, printed, phase>> /\ UNCHANGED buffer /\ UNCHANGED downstream

(* The queues of streams: full or not ...                                     *)
LooksAtStreams ==
    /\ Goes("streams", "put")
    /\ streams' = [c \in Stream |-> [streams[c] EXCEPT !.drops = streams[c].in /\ Len(streams[c].queue) >= MaxQueue]]
    /\ UNCHANGED upstream /\ UNCHANGED buffer /\ UNCHANGED <<sockets, polls, got, handed, log, answers>>

(* ... and then one message out, whichever is the oldest now, and this one in. *)
PutsToStreams ==
    /\ Goes("put", "message")
    /\ \A c \in Stream : streams[c].drops => streams[c].queue # << >>
    /\ streams' = [c \in Stream |->
                      LET q == IF streams[c].drops THEN Tail(streams[c].queue) ELSE streams[c].queue
                      IN  [streams[c] EXCEPT !.drops = FALSE,
                                             !.queue = IF streams[c].in THEN Append(q, loader.msg) ELSE q]]
    /\ UNCHANGED upstream /\ UNCHANGED buffer /\ UNCHANGED <<sockets, polls, got, handed, log, answers>>

(* Polls at work may see what follows.                                        *)
Seen == polls' = [c \in Poller |-> IF polls[c] = NoPoll THEN NoPoll ELSE [polls[c] EXCEPT !.raced = TRUE]]

AddsMessage ==
    /\ Goes("message", "uid") /\ msgs' = Append(msgs, loader.msg) /\ Seen
    /\ log' = Append(log, loader.msg)
    /\ UNCHANGED upstream /\ UNCHANGED <<uids, last, sockets, streams, got, handed, answers>>

AddsUid ==
    /\ Goes("uid", "last") /\ uids' = Append(uids, loader.msg.n) /\ Seen
    /\ UNCHANGED upstream /\ UNCHANGED <<msgs, last, sockets, streams, got, handed, log, answers>>

SetsLast ==
    /\ Goes("last", "trim") /\ last' = loader.msg.n /\ Seen
    /\ UNCHANGED upstream /\ UNCHANGED <<msgs, uids, sockets, streams, got, handed, log, answers>>

TrimsMessages ==
    /\ Len(msgs) > MaxBuffer /\ Goes("trim", "trim uids") /\ msgs' = Tail(msgs) /\ Seen
    /\ UNCHANGED upstream /\ UNCHANGED <<uids, last, sockets, streams, got, handed, log, answers>>

TrimsUids ==
    /\ Goes("trim uids", "trim") /\ uids' = Tail(uids) /\ Seen
    /\ UNCHANGED upstream /\ UNCHANGED <<msgs, last, sockets, streams, got, handed, log, answers>>

(* Handed to each queue of those that want it.                                *)
HandedTo(m) ==
    /\ handed' = Append(handed, m)
    /\ sockets' = [c \in Socket |->
                      IF sockets[c].handler = "loop" /\ m.kind \in Wants[c]
                      THEN [sockets[c] EXCEPT !.queue = Pushed(@, m)] ELSE sockets[c]]

CallsBack ==
    /\ Len(msgs) <= MaxBuffer /\ Goes("trim", "wait") /\ HandedTo(loader.msg)
    /\ UNCHANGED upstream /\ UNCHANGED buffer /\ UNCHANGED <<streams, polls, got, log, answers>>

(* The loader of system information.                                          *)
LoadsInfo ==
    /\ phase = "on" /\ LoopFree /\ queue["info"] # << >>
    /\ queue' = [queue EXCEPT !["info"] = Tail(@)]
    /\ HandedTo(Head(queue["info"]))
    /\ UNCHANGED <<outbox, net, printed, phase, loader>> /\ UNCHANGED buffer
    /\ UNCHANGED <<streams, polls, got, log, answers>>

-----------------------------------------------------------------------------
(* Sockets: a principal with the right scope, by its headers or its first     *)
(* message, or the connection is closed.                                      *)
socketOnly == UNCHANGED upstream /\ UNCHANGED buffer /\ UNCHANGED <<loader, streams, polls, handed, log, answers>>

Connects(c) ==
    /\ phase = "on" /\ LoopFree /\ sockets[c] = Away
    /\ sockets' = [sockets EXCEPT ![c].conn = "open", ![c].handler = "auth"]
    /\ UNCHANGED got /\ socketOnly

Admits(c) ==
    /\ LoopFree /\ sockets[c].handler = "auth"
    /\ \/ sockets' = [sockets EXCEPT ![c].handler = "loop", ![c].since = Len(handed)]
       \/ sockets' = [sockets EXCEPT ![c].handler = "refused", ![c].conn = "left"]
    /\ UNCHANGED got /\ socketOnly

Sends(c) ==
    /\ LoopFree /\ sockets[c].handler = "loop" /\ sockets[c].queue # << >>
    /\ sockets' = [sockets EXCEPT ![c].queue = Tail(@)]
    /\ got' = IF sockets[c].conn = "open" THEN [got EXCEPT ![c] = Append(@, Head(sockets[c].queue))] ELSE got
    /\ socketOnly

Leaves(c) ==
    /\ sockets[c].conn = "open" /\ sockets[c].handler \in {"auth", "loop"}
    /\ sockets' = [sockets EXCEPT ![c].conn = "left"]
    /\ UNCHANGED got /\ socketOnly

(* The first read after that says so, and the second one fails.               *)
Notices(c) ==
    /\ LoopFree /\ sockets[c].conn = "left" /\ sockets[c].handler = "loop" /\ sockets[c].alive
    /\ sockets' = [sockets EXCEPT ![c].noticed = TRUE, ![c].alive = ~sockets[c].noticed]
    /\ UNCHANGED got /\ socketOnly

(* A client that is gone, or that a send finds gone.                          *)
Ends(c) ==
    /\ LoopFree /\ sockets[c].handler = "loop"
    /\ ~sockets[c].alive \/ (sockets[c].conn = "left" /\ sockets[c].queue # << >>)
    /\ sockets' = [sockets EXCEPT ![c].handler = "over", ![c].queue = << >>]
    /\ UNCHANGED got /\ socketOnly

-----------------------------------------------------------------------------
(* Streams run in a thread of their own.                                      *)
streamOnly == UNCHANGED upstream /\ UNCHANGED buffer /\ UNCHANGED <<loader, sockets, polls, handed, log, answers>>

Opens(c) ==
    /\ phase = "on" /\ ~streams[c].in /\ got[c] = << >>
    /\ streams' = [streams EXCEPT ![c].in = TRUE]
    /\ UNCHANGED got /\ streamOnly

Takes(c) ==
    /\ streams[c].in /\ streams[c].queue # << >>
    /\ streams' = [streams EXCEPT ![c].queue = Tail(@)]
    /\ got' = [got EXCEPT ![c] = Append(@, Head(streams[c].queue))]
    /\ streamOnly

Closes(c) ==
    /\ streams[c].in /\ got[c] # << >>
    /\ streams' = [streams EXCEPT ![c] = NoStream]
    /\ UNCHANGED got /\ streamOnly

-----------------------------------------------------------------------------
(* Polls: the messages after the one that the client has, or all of them, and *)
(* the uid to go on with.                                                     *)
pollOnly == UNCHANGED upstream /\ UNCHANGED buffer /\ UNCHANGED <<loader, sockets, streams, got, handed, log>>

Asks(c) ==
    /\ polls[c] = NoPoll /\ answers[c].count < MaxPolls
    /\ \E all \in BOOLEAN :
           polls' = [polls EXCEPT ![c] = [NoPoll EXCEPT !.at = "index", !.from = answers[c].last, !.all = all,
                                              !.raced = loader.at \in {"uid", "last", "trim", "trim uids"}]]
    /\ UNCHANGED answers /\ pollOnly

Indexes(c) ==
    /\ polls[c].at = "index"
    /\ polls' = [polls EXCEPT ![c] =
                    IF @.all THEN [@ EXCEPT !.at = "slice"]
                    ELSE IF @.from \notin Range(uids) THEN [@ EXCEPT !.at = "answer"]
                    ELSE [@ EXCEPT !.at = "slice", !.index = CHOOSE i \in DOMAIN uids : uids[i] = polls[c].from]]
    /\ UNCHANGED answers /\ pollOnly

Slices(c) ==
    /\ polls[c].at = "slice"
    /\ polls' = [polls EXCEPT ![c].at = "answer", ![c].list = SubSeq(msgs, polls[c].index + 1, Len(msgs))]
    /\ UNCHANGED answers /\ pollOnly

(* What is kept, as the messages that the loader took tell it.                *)
Kept == SubSeq(log, (IF Len(log) > MaxBuffer THEN Len(log) - MaxBuffer ELSE 0) + 1, Len(log))

ExactFor(poll) ==
    IF poll.all THEN Kept
    ELSE IF poll.from \notin {m.n : m \in Range(Kept)} THEN << >>
    ELSE SelectSeq(Kept, LAMBDA m : m.n > poll.from)

Answers(c) ==
    /\ polls[c].at = "answer" /\ polls' = [polls EXCEPT ![c] = NoPoll]
    /\ answers' = [answers EXCEPT ![c] = [list |-> polls[c].list, exact |-> ExactFor(polls[c]), last |-> last,
                                          raced |-> polls[c].raced, count |-> answers[c].count + 1]]
    /\ pollOnly

-----------------------------------------------------------------------------
Next ==
    \/ Publishes \/ Starts \/ Stops \/ Loads \/ LooksAtStreams \/ PutsToStreams
    \/ AddsMessage \/ AddsUid \/ SetsLast \/ TrimsMessages \/ TrimsUids \/ CallsBack \/ LoadsInfo
    \/ \E kind \in Kinds : Prints(kind)
    \/ \E t \in Topics : Receives(t)
    \/ \E c \in Socket : Connects(c) \/ Admits(c) \/ Sends(c) \/ Leaves(c) \/ Notices(c) \/ Ends(c)
    \/ \E c \in Stream : Opens(c) \/ Takes(c) \/ Closes(c)
    \/ \E c \in Poller : Asks(c) \/ Indexes(c) \/ Slices(c) \/ Answers(c)

Spec == Init /\ [][Next]_vars

-----------------------------------------------------------------------------
TypeOK ==
    /\ \A t \in Topics : Len(queue[t]) <= MaxQueue
    /\ \A c \in Socket : Len(sockets[c].queue) <= MaxQueue
    /\ Len(msgs) <= MaxBuffer + 1 /\ Len(uids) <= MaxBuffer + 1

Rising(s) == \A i, j \in DOMAIN s : i < j => s[i].n < s[j].n

(* Messages come in the order in which they were printed, none twice.         *)
InOrder ==
    /\ \A c \in Socket : Rising(got[c] \o sockets[c].queue)
    /\ \A c \in Stream : Rising(got[c] \o streams[c].queue)

(* Of the messages that a socket wants, the last ones since it came are there *)
(* or were sent, however far it fell behind.                                  *)
LatestKept ==
    \A c \in Socket :
        sockets[c].handler = "loop" /\ sockets[c].conn = "open" =>
            LET mine == SelectSeq(SubSeq(handed, sockets[c].since + 1, Len(handed)), LAMBDA m : m.kind \in Wants[c])
            IN  \A i \in DOMAIN mine :
                    i > Len(mine) - MaxQueue => mine[i] \in Range(got[c]) \cup Range(sockets[c].queue)

(* A queue is there for as long as somebody sends from it.                    *)
NoQueueLeft == \A c \in Socket : sockets[c].queue # << >> => sockets[c].handler = "loop"

(* An answer is the messages after the one that was asked for, as far as they *)
(* are kept, and the uid of the last one, if the loader was at rest meanwhile. *)
Exact(a) == a.list = a.exact /\ (a.list # << >> => a.last = Last(a.list).n)

AnswersExact == \A c \in Poller : ~answers[c].raced => Exact(answers[c])

StreamTrue == TypeOK /\ InOrder /\ LatestKept /\ NoQueueLeft /\ AnswersExact
=============================================================================
