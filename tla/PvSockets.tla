------------------------------ MODULE PvSockets ------------------------------
(***************************************************************************)
(* Clients of the watch on a PV (direct_control): the pv socket, whose       *)
(* clients share one callback per PV; the device socket, here for a device   *)
(* with this PV as its component, whose clients share one per component; and *)
(* GET of a monitored value.  A client's messages are handled one by one;   *)
(* the books are kept on the event loop, the watch is called on threads.    *)
(***************************************************************************)
EXTENDS PvMonitor

CONSTANTS
    Web,         \* clients of the pv socket
    Dev,         \* clients of the device socket
    Rest         \* callers of GET /api/v1/pvs/{pv}/value

VARIABLES
    doing,       \* what the handler of each client awaits
    told,        \* clients whose last answer was "subscribed"
    pv,          \* pv socket: clients (_pv_clients, and the PV in their
                 \* _subscriptions), slot (_pv_callbacks)
    dev,         \* device socket: clients (_device_clients), holder of the
                 \* subscribe lock, slot (_pv_callbacks), live (_device_pvs),
                 \* broken (_device_pv_failures)
    joined       \* history: clients that joined an attempt still in flight

sockets == <<doing, told, pv, dev, joined>>
vars == <<monitor, sockets>>

SocketClients == Web \cup Dev
Nobody == "nobody"

Init ==
    /\ MonitorInit
    /\ doing = [c \in Client |-> "idle"] /\ told = {}
    /\ pv = [clients |-> {}, slot |-> 0]
    /\ dev = [clients |-> {}, holder |-> Nobody, slot |-> 0, live |-> FALSE, broken |-> FALSE]
    /\ joined = {}

Rests == <<signal, alive, evicted, callbacks, gate, recent>>

(* A fresh callback is like no other in use.                               *)
NewCallback == Free(callbacks \cup {pv.slot, dev.slot} \cup {job[c].cb : c \in Client})

Calls(c, op, cb)  == job' = [job EXCEPT ![c] = Call(op, cb)] /\ UNCHANGED Rests
Quietly(c)        == job' = [job EXCEPT ![c] = NoJob] /\ UNCHANGED Rests
Awaits(c, what)   == doing' = [doing EXCEPT ![c] = what]
Confirms(c)       == told' = told \cup {c}
Denies(c)         == told' = told \ {c}
Ready(c, what)    == doing[c] = what /\ Over(c)

AskValues(c) == Awaits(c, "values") /\ Calls(c, "get", 0)

-----------------------------------------------------------------------------
(* The pv socket: subscribe_pvs.                                           *)

Books(c) ==
    IF pv.clients = {}
    THEN LET cb == NewCallback
         IN  /\ pv' = [clients |-> {c}, slot |-> cb]
             /\ Awaits(c, "attempt") /\ Calls(c, "subscribe", cb)
             /\ joined' = joined \ {c}
    ELSE /\ pv' = [pv EXCEPT !.clients = @ \cup {c}]
         /\ AskValues(c)
         /\ joined' = IF \E b \in Web : doing[b] = "attempt" THEN joined \cup {c} ELSE joined \ {c}

Subscribes(c) ==
    /\ c \in Web /\ Ready(c, "idle")
    /\ Books(c)
    /\ UNCHANGED <<told, dev>>

(* subscribeSafely looks whether there is a signal that is connected, and    *)
(* opens one, before it subscribes.                                        *)
SubscribesSafely(c) ==
    /\ c \in Web /\ Ready(c, "idle")
    /\ IF signal = 0 THEN Awaits(c, "warm") /\ Calls(c, "subscribe", 0)
                     ELSE Awaits(c, "probe") /\ Calls(c, "get", 0)
    /\ UNCHANGED <<told, pv, dev, joined>>

Warmed(c) ==
    /\ Ready(c, "warm")
    /\ IF job[c].end = "ok"
       THEN Awaits(c, "probe") /\ Calls(c, "get", 0) /\ UNCHANGED told
       ELSE Awaits(c, "idle") /\ Quietly(c) /\ UNCHANGED told
    /\ UNCHANGED <<pv, dev, joined>>

Probed(c) ==
    /\ Ready(c, "probe")
    /\ IF job[c].end = "value" THEN Books(c)
                               ELSE Awaits(c, "idle") /\ Quietly(c) /\ UNCHANGED <<pv, joined>>
    /\ UNCHANGED <<told, dev>>

Reconciled_OnlyInitiator(c) ==
    LET ours == pv.slot = job[c].cb
    IN  /\ Ready(c, "attempt")
        /\ CASE job[c].end = "failed" ->
                  /\ pv' = IF ours THEN [pv EXCEPT !.clients = @ \ {c}] ELSE pv
                  /\ Denies(c) /\ Awaits(c, "idle") /\ Quietly(c) /\ UNCHANGED joined
             [] OTHER -> AskValues(c) /\ joined' = joined \ pv.clients /\ UNCHANGED <<pv, told>>
        /\ UNCHANGED dev

(* A failure rolls back everybody who joined the attempt, but only the one  *)
(* who made it is told.                                                    *)
Reconciled(c) ==
    LET ours == pv.slot = job[c].cb
    IN  /\ Ready(c, "attempt")
        /\ CASE job[c].end = "failed" ->
                  /\ pv' = IF ours THEN [clients |-> {}, slot |-> 0] ELSE pv
                  /\ Denies(c) /\ Awaits(c, "idle") /\ Quietly(c) /\ UNCHANGED joined
             [] job[c].end = "ok" /\ ours /\ pv.clients # {} ->
                  AskValues(c) /\ joined' = joined \ pv.clients /\ UNCHANGED <<pv, told>>
             [] OTHER ->
                  /\ pv' = IF ours THEN [clients |-> {}, slot |-> 0] ELSE pv
                  /\ Awaits(c, "teardown") /\ Calls(c, "unsubscribe", job[c].cb)
                  /\ UNCHANGED <<told, joined>>
        /\ UNCHANGED dev

TornDown(c) ==
    /\ Ready(c, "teardown")
    /\ AskValues(c)
    /\ UNCHANGED <<told, pv, dev, joined>>

ValuesSent(c) ==
    /\ Ready(c, "values")
    /\ Confirms(c) /\ Awaits(c, "idle") /\ Quietly(c)
    /\ UNCHANGED <<pv, dev, joined>>

(* unsubscribe_pvs, and disconnect.                                        *)
Leaves(c) ==
    /\ c \in Web /\ Ready(c, "idle")
    /\ IF pv.clients = {c}
       THEN /\ pv' = [clients |-> {}, slot |-> 0]
            /\ Awaits(c, "leave") /\ Calls(c, "unsubscribe", pv.slot)
       ELSE /\ pv' = [pv EXCEPT !.clients = @ \ {c}]
            /\ Awaits(c, "idle") /\ Quietly(c)
    /\ Denies(c) /\ joined' = joined \ {c} /\ UNCHANGED dev

Left(c) ==
    /\ Ready(c, "leave")
    /\ Awaits(c, "idle") /\ Quietly(c)
    /\ UNCHANGED <<told, pv, dev, joined>>

-----------------------------------------------------------------------------
(* The device socket: subscribe_device, one client at a time for a device.  *)
(* Later clients retry what is broken and share what is live.              *)

AsksDevice(c) ==
    /\ c \in Dev \ dev.clients /\ Ready(c, "idle")
    /\ Awaits(c, "device lock") /\ Quietly(c)
    /\ UNCHANGED <<told, pv, dev, joined>>

EntersDevice(c) ==
    /\ Ready(c, "device lock") /\ dev.holder = Nobody
    /\ IF dev.clients = {} \/ dev.broken
       THEN LET cb == NewCallback
            IN  /\ dev' = [dev EXCEPT !.clients = @ \cup {c}, !.holder = c, !.slot = cb]
                /\ Calls(c, "subscribe", cb)
       ELSE dev' = [dev EXCEPT !.clients = @ \cup {c}, !.holder = c] /\ Quietly(c)
    /\ Awaits(c, "device")
    /\ UNCHANGED <<told, pv, joined>>

Attempted(c) == job[c].op = "subscribe"

DeviceReconciled(c) ==
    /\ Ready(c, "device")
    /\ CASE Attempted(c) /\ job[c].end = "failed" ->
               dev' = [dev EXCEPT !.holder = Nobody, !.slot = 0, !.broken = TRUE]
         [] Attempted(c) /\ job[c].end = "ok" ->
               dev' = [dev EXCEPT !.holder = Nobody, !.live = TRUE, !.broken = FALSE]
         [] OTHER -> dev' = [dev EXCEPT !.holder = Nobody]
    /\ IF dev'.live THEN AskValues(c) /\ UNCHANGED told
                    ELSE Awaits(c, "idle") /\ Denies(c) /\ Quietly(c)
    /\ UNCHANGED <<pv, joined>>

(* subscribeSafely: a client that wants every component leaves again, and    *)
(* as the last one takes the device with it.                               *)
Emptied == [clients |-> {}, holder |-> Nobody, slot |-> 0, live |-> FALSE, broken |-> FALSE]

DeviceRefused_KeepsLock(c) ==
    /\ Ready(c, "device") /\ Attempted(c) /\ job[c].end = "failed"
    /\ dev' = [dev EXCEPT !.clients = @ \ {c}, !.slot = 0, !.broken = TRUE]
    /\ Denies(c) /\ Awaits(c, "idle") /\ Quietly(c)
    /\ UNCHANGED <<pv, joined>>

DeviceRefused(c) ==
    /\ Ready(c, "device") /\ Attempted(c) /\ job[c].end = "failed"
    /\ dev' = IF dev.clients = {c} THEN Emptied
              ELSE [dev EXCEPT !.clients = @ \ {c}, !.holder = Nobody, !.slot = 0, !.broken = TRUE]
    /\ Denies(c) /\ Awaits(c, "idle") /\ Quietly(c)
    /\ UNCHANGED <<pv, joined>>

LeavesDevice(c) ==
    /\ c \in dev.clients /\ Ready(c, "idle")
    /\ dev' = IF dev.clients = {c} THEN [Emptied EXCEPT !.holder = dev.holder]
              ELSE [dev EXCEPT !.clients = @ \ {c}]
    /\ IF dev.clients = {c} /\ dev.live
       THEN Awaits(c, "leave") /\ Calls(c, "unsubscribe", dev.slot)
       ELSE Awaits(c, "idle") /\ Quietly(c)
    /\ Denies(c) /\ UNCHANGED <<pv, joined>>

-----------------------------------------------------------------------------
(* GET /api/v1/pvs/{pv}/value: subscribe without a callback, then read.    *)

Reads(c) ==
    /\ c \in Rest /\ Ready(c, "idle")
    /\ Awaits(c, "warm read") /\ Calls(c, "subscribe", 0)
    /\ UNCHANGED <<told, pv, dev, joined>>

WarmedRead(c) ==
    /\ Ready(c, "warm read")
    /\ IF job[c].end = "ok" THEN Awaits(c, "read") /\ Calls(c, "get", 0)
                            ELSE Awaits(c, "idle") /\ Quietly(c)
    /\ UNCHANGED <<told, pv, dev, joined>>

Read(c) ==
    /\ Ready(c, "read")
    /\ Awaits(c, "idle") /\ Quietly(c)
    /\ UNCHANGED <<told, pv, dev, joined>>

Handles(c) ==
    \/ Warmed(c) \/ Probed(c) \/ Reconciled(c) \/ TornDown(c) \/ ValuesSent(c) \/ Left(c)
    \/ EntersDevice(c) \/ DeviceReconciled(c) \/ DeviceRefused(c) \/ WarmedRead(c) \/ Read(c)

Asks(c) ==
    Subscribes(c) \/ SubscribesSafely(c) \/ Leaves(c) \/ AsksDevice(c) \/ LeavesDevice(c) \/ Reads(c)

Next ==
    \/ MonitorNext /\ UNCHANGED sockets
    \/ \E c \in Client : Asks(c) \/ Handles(c)

Spec     == Init /\ [][Next]_vars
Works(c) == (JobStep(c) /\ UNCHANGED sockets) \/ Handles(c)
Fairness == \A c \in Client : SF_vars(Works(c))
FairSpec == Spec /\ Fairness

-----------------------------------------------------------------------------
TypeOK ==
    /\ MonitorTypeOK
    /\ pv.clients \subseteq Web /\ dev.clients \subseteq Dev
    /\ (pv.clients = {}) = (pv.slot = 0)

(* Every callback at the watch is the one of a socket's books or is about   *)
(* to be removed, and every signal is accounted for: nothing is left behind *)
(* that no client can reach.                                               *)
NothingLeaks ==
    /\ NoSignalLeaks
    /\ callbacks \subseteq {pv.slot, dev.slot} \cup {job[c].cb : c \in Client}

(* Who was told "subscribed" is on the books, and what is on the books is    *)
(* served: by a callback at the watch and a live signal.  Except who joined  *)
(* an attempt in flight, which is told nothing if it fails.                *)
SubscribedIsServed ==
    /\ CallbacksServed
    /\ \A c \in Web : c \in told /\ c \notin joined => c \in pv.clients
    /\ pv.clients # {} /\ (\A c \in Web : doing[c] # "attempt") => pv.slot \in callbacks
    /\ \A c \in Dev : c \in told /\ ~ dev.broken => c \in dev.clients /\ dev.live
    /\ dev.live /\ ~ dev.broken => dev.slot \in callbacks

(* Every message of a client is dealt with.                                *)
MessagesEnd == \A c \in Client : doing[c] # "idle" ~> doing[c] = "idle"

=============================================================================
