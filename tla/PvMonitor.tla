------------------------------ MODULE PvMonitor ------------------------------
(***************************************************************************)
(* The watch on a process variable (direct_control): one ophyd signal per    *)
(* PV, shared by everybody who subscribes, opened by the first of them and   *)
(* destroyed when the last callback goes, or when nobody with a callback     *)
(* has asked for a while.  Calls run on threads: the books are under a lock, *)
(* the slow connect is not, and has a lock of its own per PV.  One PV.       *)
(***************************************************************************)
EXTENDS Naturals, FiniteSets

CONSTANTS
    Client,      \* who calls, one call at a time each
    Token        \* names of callbacks and of connect locks; 0 is no name, and a
                 \* name is used again once nothing has it

VARIABLES
    signal,      \* _signals: 1 if the PV has one
    alive,       \* how many signals exist, with their channel
    evicted,     \* signals that a sweep has still to destroy
    callbacks,   \* _callbacks
    gate,        \* _connect_locks
    recent,      \* _last_touched is within the idle TTL
    job          \* the calls

monitor == <<signal, alive, evicted, callbacks, gate, recent, job>>

NoJob == [op |-> "none", at |-> "over", cb |-> 0, lock |-> 0, own |-> 0, end |-> "none"]
Call(op, cb) == [NoJob EXCEPT !.op = op, !.at = "start", !.cb = cb]

Free(used) == CHOOSE t \in Token : t \notin used
Over(c) == job[c].at = "over"

MonitorInit ==
    /\ signal = 0 /\ alive = 0 /\ evicted = 0 /\ callbacks = {} /\ gate = 0
    /\ recent = FALSE /\ job = [c \in Client |-> NoJob]

At(c, op, at) == job[c].op = op /\ job[c].at = at
Goes(c, at)  == job' = [job EXCEPT ![c].at = at]
Ends(c, end) == job' = [job EXCEPT ![c] = [NoJob EXCEPT !.op = job[c].op, !.cb = job[c].cb, !.end = end]]

-----------------------------------------------------------------------------
(* subscribe.  A call without callback only warms the signal.              *)

Registered(c) ==
    /\ callbacks' = callbacks \cup ({job[c].cb} \ {0})
    /\ recent' = TRUE
    /\ Ends(c, "ok")

SubscribesToLive(c) ==
    /\ At(c, "subscribe", "start") \/ At(c, "subscribe", "gated")
    /\ signal # 0
    /\ Registered(c)
    /\ UNCHANGED <<signal, alive, evicted, gate>>

Locks == {gate} \cup {job[c].lock : c \in Client}

TakesGate(c) ==
    /\ At(c, "subscribe", "start") /\ signal = 0
    /\ gate' = IF gate = 0 THEN Free(Locks) ELSE gate
    /\ job' = [job EXCEPT ![c].at = "waiting", ![c].lock = gate']
    /\ UNCHANGED <<signal, alive, evicted, callbacks, recent>>

PassesGate(c) ==
    /\ At(c, "subscribe", "waiting")
    /\ \A b \in Client : job[b].lock = job[c].lock => job[b].at \notin {"gated", "connecting"}
    /\ Goes(c, "gated")
    /\ UNCHANGED <<signal, alive, evicted, callbacks, gate, recent>>

Opens(c) ==
    /\ At(c, "subscribe", "gated") /\ signal = 0
    /\ alive' = alive + 1
    /\ job' = [job EXCEPT ![c].at = "connecting", ![c].own = 1]
    /\ UNCHANGED <<signal, evicted, callbacks, gate, recent>>

(* The channel, the first read or the monitor fails.                       *)
ConnectFails(c) ==
    /\ At(c, "subscribe", "connecting")
    /\ alive' = alive - 1
    /\ gate' = IF signal = 0 THEN 0 ELSE gate
    /\ Ends(c, "failed")
    /\ UNCHANGED <<signal, evicted, callbacks, recent>>

(* Another subscriber may have been first, when the gate was recycled: then *)
(* the own signal is still to be destroyed.                                *)
Commits(c) ==
    /\ At(c, "subscribe", "connecting")
    /\ signal' = 1
    /\ callbacks' = callbacks \cup ({job[c].cb} \ {0}) /\ recent' = TRUE
    /\ IF signal = 0 THEN Ends(c, "ok") ELSE job' = [job EXCEPT ![c].at = "destroying", ![c].lock = 0]
    /\ UNCHANGED <<alive, gate, evicted>>

(* Outside the lock.                                                       *)
Destroyed(c) ==
    /\ job[c].at = "destroying"
    /\ alive' = alive - 1
    /\ Ends(c, "ok")
    /\ UNCHANGED <<signal, evicted, callbacks, gate, recent>>

-----------------------------------------------------------------------------
Unsubscribes(c) ==
    /\ At(c, "unsubscribe", "start")
    /\ callbacks' = callbacks \ {job[c].cb}
    /\ IF signal = 0 \/ callbacks' # {} THEN Ends(c, "ok") /\ UNCHANGED <<signal, gate>>
       ELSE /\ signal' = 0 /\ gate' = 0
            /\ job' = [job EXCEPT ![c].at = "destroying", ![c].own = 1]
    /\ UNCHANGED <<alive, evicted, recent>>

(* get_value.                                                              *)
Gets(c) ==
    /\ At(c, "get", "start")
    /\ recent' = (recent \/ signal # 0)
    /\ Ends(c, IF signal = 0 THEN "nothing" ELSE "value")
    /\ UNCHANGED <<signal, alive, evicted, callbacks, gate>>

(* The idle TTL is far longer than any call.                               *)
Ages ==
    /\ recent /\ \A c \in Client : Over(c)
    /\ recent' = FALSE
    /\ UNCHANGED <<signal, alive, evicted, callbacks, gate, job>>

(* A sweep ends before the next one begins.                                *)
Evicts ==
    /\ signal = 1 /\ callbacks = {} /\ ~ recent /\ evicted = 0
    /\ signal' = 0 /\ gate' = 0 /\ evicted' = 1
    /\ UNCHANGED <<alive, callbacks, recent, job>>

EvictedDestroyed ==
    /\ evicted = 1
    /\ evicted' = 0 /\ alive' = alive - 1
    /\ UNCHANGED <<signal, callbacks, gate, recent, job>>

JobStep(c) ==
    \/ SubscribesToLive(c) \/ TakesGate(c) \/ PassesGate(c) \/ Opens(c)
    \/ ConnectFails(c) \/ Commits(c) \/ Destroyed(c) \/ Unsubscribes(c) \/ Gets(c)

MonitorNext ==
    \/ \E c \in Client : JobStep(c)
    \/ Ages \/ Evicts \/ EvictedDestroyed

-----------------------------------------------------------------------------
MonitorTypeOK ==
    /\ signal \in 0..1 /\ evicted \in 0..1 /\ alive \in Nat
    /\ callbacks \subseteq Token /\ gate \in {0} \cup Token

(* Every signal that exists is on the books, in the hands of the call that  *)
(* opens or destroys it, or about to be destroyed by a sweep.              *)
NoSignalLeaks == alive = signal + evicted + Cardinality({c \in Client : job[c].own = 1})

(* A callback is served by a signal.                                       *)
CallbacksServed == callbacks # {} => signal = 1

=============================================================================
