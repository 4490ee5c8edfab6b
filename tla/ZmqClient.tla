----------------------------- MODULE ZmqClient -----------------------------
(***************************************************************************)
(* ZMQCommSendThreads: callers of several threads share one REQ socket.  A  *)
(* lock is taken with each call and released by the caller, or by the       *)
(* receiving thread when the call has a callback.                           *)
(***************************************************************************)
EXTENDS Naturals

CONSTANTS
    Caller,       \* threads that call send_message
    NoCaller,
    MaxCalls,     \* calls of one caller
    MaxFailures,  \* bound on requests that time out or cannot be encoded
    Prompt,       \* the receiving thread is through with a call before the
                  \* next one begins
    Encodable     \* requests can be encoded

VARIABLES
    pc,           \* where each caller is
    calls,        \* calls of each caller so far
    owner,        \* _lock_zmq: the call that took it, or free
    flags,        \* wait (_event_wait_for_msg), received (_event_msg_received),
                  \* blocking (_blocking_call), error (_zmq_error_occurred)
    cb,           \* whose callback is set, by call
    data,         \* _received_data
    socket,       \* the request on the REQ socket that has no answer yet
    thread,       \* where the receiving thread is, and the message it has
    outcomes,     \* how calls ended
    failures

vars == <<pc, calls, owner, flags, cb, data, socket, thread, outcomes, failures>>

NoCall == [caller |-> NoCaller, n |-> 0]
Call(c) == [caller |-> c, n |-> calls[c]]
Calls   == [caller : Caller, n : 1..MaxCalls]
NoData  == [answer |-> NoCall, err |-> "no data"]

Ended(call, outcome, by) == [call |-> call, outcome |-> outcome, by |-> by]

Init ==
    /\ pc = [c \in Caller |-> "idle"] /\ calls = [c \in Caller |-> 0]
    /\ owner = NoCall /\ cb = NoCall /\ data = NoData /\ socket = NoCall
    /\ flags = [wait |-> FALSE, received |-> FALSE, blocking |-> FALSE, error |-> FALSE]
    /\ thread = [at |-> "wait", msg |-> NoData]
    /\ outcomes = {} /\ failures = 0

-----------------------------------------------------------------------------
(* _zmq_communicate.                                                       *)

Asks(c) ==
    /\ pc[c] = "idle" /\ calls[c] < MaxCalls
    /\ calls' = [calls EXCEPT ![c] = @ + 1]
    /\ pc' = [pc EXCEPT ![c] = "lock"]
    /\ UNCHANGED <<owner, flags, cb, data, socket, thread, outcomes, failures>>

(* After a failure the socket is opened anew.                              *)
Prepares(c, blocking) ==
    /\ pc[c] = "lock" /\ owner = NoCall
    /\ Prompt => thread.at = "wait"
    /\ owner' = Call(c) /\ cb' = Call(c) /\ data' = NoData
    /\ flags' = [wait |-> FALSE, received |-> FALSE, blocking |-> blocking, error |-> FALSE]
    /\ socket' = IF flags.error THEN NoCall ELSE socket
    /\ pc' = [pc EXCEPT ![c] = "send"]
    /\ UNCHANGED <<calls, thread, outcomes, failures>>

Sends(c) ==
    /\ pc[c] = "send" /\ socket = NoCall
    /\ socket' = Call(c)
    /\ pc' = [pc EXCEPT ![c] = "signal"]
    /\ UNCHANGED <<calls, owner, flags, cb, data, thread, outcomes, failures>>

(* A request that cannot be encoded is not sent, and a REQ socket takes no *)
(* second request before the answer; the exception leaves the lock taken.  *)
SendRaises(c) ==
    /\ pc[c] = "send" /\ (socket # NoCall \/ (~ Encodable /\ failures < MaxFailures))
    /\ failures' = IF socket = NoCall THEN failures + 1 ELSE failures
    /\ pc' = [pc EXCEPT ![c] = "idle"]
    /\ outcomes' = outcomes \cup {Ended(Call(c), [answer |-> NoCall, err |-> "not sent"], "caller")}
    /\ UNCHANGED <<calls, owner, flags, cb, data, socket, thread>>

Signals(c) ==
    /\ pc[c] = "signal"
    /\ flags' = [flags EXCEPT !.wait = TRUE]
    /\ pc' = [pc EXCEPT ![c] = IF flags.blocking THEN "wait" ELSE "idle"]
    /\ UNCHANGED <<calls, owner, cb, data, socket, thread, outcomes, failures>>

Takes(c) ==
    /\ pc[c] = "wait" /\ flags.received
    /\ flags' = [flags EXCEPT !.received = FALSE]
    /\ outcomes' = outcomes \cup {Ended(Call(c), data, "caller")}
    /\ owner' = NoCall
    /\ pc' = [pc EXCEPT ![c] = "idle"]
    /\ UNCHANGED <<calls, cb, data, socket, thread, failures>>

-----------------------------------------------------------------------------
(* _receive_thread.                                                        *)

Wakes ==
    /\ thread.at = "wait" /\ flags.wait
    /\ thread' = [thread EXCEPT !.at = "poll"]
    /\ UNCHANGED <<pc, calls, owner, flags, cb, data, socket, outcomes, failures>>

Receives ==
    /\ thread.at = "poll" /\ socket # NoCall
    /\ thread' = [at |-> "call", msg |-> [answer |-> socket, err |-> "none"]]
    /\ socket' = NoCall
    /\ UNCHANGED <<pc, calls, owner, flags, cb, data, outcomes, failures>>

TimesOut ==
    /\ thread.at = "poll" /\ (socket = NoCall \/ failures < MaxFailures)
    /\ thread' = [at |-> "call", msg |-> [answer |-> NoCall, err |-> "timeout"]]
    /\ flags' = [flags EXCEPT !.error = TRUE]
    /\ failures' = IF socket = NoCall THEN failures ELSE failures + 1
    /\ UNCHANGED <<pc, calls, owner, cb, data, socket, outcomes>>

(* The callback: of a blocking call, _zmq_receive_blocking_cb.             *)
CallsBack ==
    /\ thread.at = "call"
    /\ IF flags.blocking
       THEN data' = thread.msg /\ flags' = [flags EXCEPT !.received = TRUE] /\ UNCHANGED outcomes
       ELSE outcomes' = outcomes \cup {Ended(cb, thread.msg, "callback")} /\ UNCHANGED <<data, flags>>
    /\ thread' = [thread EXCEPT !.at = "clear"]
    /\ UNCHANGED <<pc, calls, owner, cb, socket, failures>>

Clears ==
    /\ thread.at = "clear"
    /\ flags' = [flags EXCEPT !.wait = FALSE]
    /\ thread' = [thread EXCEPT !.at = "finish"]
    /\ UNCHANGED <<pc, calls, owner, cb, data, socket, outcomes, failures>>

Finishes ==
    /\ thread.at = "finish"
    /\ IF flags.blocking
       THEN flags' = [flags EXCEPT !.received = TRUE] /\ UNCHANGED owner
       ELSE owner' = NoCall /\ UNCHANGED flags
    /\ thread' = [at |-> "wait", msg |-> NoData]
    /\ UNCHANGED <<pc, calls, cb, data, socket, outcomes, failures>>

Next ==
    \/ \E c \in Caller :
        \/ Asks(c) \/ Sends(c) \/ SendRaises(c) \/ Signals(c) \/ Takes(c)
        \/ \E blocking \in BOOLEAN : Prepares(c, blocking)
    \/ Wakes \/ Receives \/ TimesOut \/ CallsBack \/ Clears \/ Finishes

Spec == Init /\ [][Next]_vars

(* Threads run on.                                                         *)
CallerSteps(c) ==
    \/ Sends(c) \/ SendRaises(c) \/ Signals(c) \/ Takes(c)
    \/ \E blocking \in BOOLEAN : Prepares(c, blocking)
ThreadSteps == Wakes \/ Receives \/ TimesOut \/ CallsBack \/ Clears \/ Finishes

Fairness == WF_vars(ThreadSteps) /\ \A c \in Caller : SF_vars(CallerSteps(c))
FairSpec == Spec /\ Fairness

-----------------------------------------------------------------------------
TypeOK ==
    /\ pc \in [Caller -> {"idle", "lock", "send", "signal", "wait"}]
    /\ {owner, cb, socket} \subseteq Calls \cup {NoCall}
    /\ thread.at \in {"wait", "poll", "call", "clear", "finish"}

(* A call returns the answer to its own request, or fails.                 *)
AnswerIsOwn ==
    \A e \in outcomes : e.outcome.err = "none" => e.outcome.answer = e.call

(* A call fails only if its request was not sent, or not answered in time. *)
FailsOnTimeout == \A e \in outcomes : e.outcome.err # "no data"

(* A request ends, and only once.                                          *)
EndsOnce ==
    \A d, e \in outcomes : d.call = e.call => d = e

CallsEnd ==
    \A c \in Caller : pc[c] # "idle" ~> pc[c] = "idle"

(* Every call gets what it waits for, once.                                *)
CallsAnswered == TypeOK /\ AnswerIsOwn /\ FailsOnTimeout /\ EndsOnce

=============================================================================
