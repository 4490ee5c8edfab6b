----------------------------- MODULE MCProgress -----------------------------
(* What must come to an end, in small instances of parts of the queue server *)
(* and of direct control: device locks when the authority restarts, tasks,    *)
(* calls of clients, writes to PVs, commands to devices, and messages of the  *)
(* two sockets.  In a behaviour one of them moves (part).                   *)
EXTENDS Naturals

CONSTANTS d1, d2, p1, o1, NoLock, NoItem, t1, t2, c1, c2, r1, r2, v1, w1, e1, none

VARIABLES
    part,
    locks, epoch, net, call, mainPc, session, done, books, bookEpoch, beatPc,
    worker, manager, start, load, stale, pending, results, clock, seen,
    pc, calls, owner, flags, cb, data, socket, thread, outcomes, failures,
    authority, time, pvs, owners, req, ended, moved, gone, changes,
    registry, now, cached, entry, holder, instances, commands, motion, edits,
    signal, alive, evicted, callbacks, gate, recent, job, doing, confirmed, pv, dev, joined

leases   == <<locks, epoch, net, call, mainPc, session, done, books, bookEpoch, beatPc>>
work     == <<worker, manager, start, load, stale, pending, results, clock, seen>>
client   == <<pc, calls, owner, flags, cb, data, socket, thread, outcomes, failures>>
writes   == <<authority, time, pvs, owners, req, ended, moved, gone, changes>>
devices  == <<registry, now, cached, entry, holder, instances, commands, motion, edits>>
watching == <<signal, alive, evicted, callbacks, gate, recent, job, doing, confirmed, pv, dev, joined>>

R == INSTANCE LockCoordinator WITH
    Device <- {d1, d2}, Sessions <- {p1}, Others <- {o1}, Item <- {p1, o1},
    LeaseTTL <- 2, LockScope <- "plan", Faults <- {"restart"}, MaxAttempts <- 2, MaxEpoch <- 2

T == INSTANCE TaskResults WITH
    Task <- {t1, t2}, NoTask <- none, Retention <- 1, MaxTime <- 2, MaxEnv <- 1, MaxFaults <- 1

C == INSTANCE ZmqClient WITH
    Caller <- {c1, c2}, NoCaller <- none, MaxCalls <- 2, MaxFailures <- 1, Prompt <- TRUE, Encodable <- TRUE

G == INSTANCE DirectGate WITH
    Pv <- {v1}, Device <- {d1}, Nobody <- none, Missing <- "missing", Blocks <- {"locked"},
    Request <- {r1, r2}, Batches <- [r \in {r1, r2} |-> {IF r = r1 THEN <<v1, v1>> ELSE <<v1>>}],
    TTL <- 1, MaxTime <- 2, MaxChanges <- 1,
    clock <- time, outcomes <- ended

D == INSTANCE DeviceCommands WITH
    Request <- {r1, r2}, Nobody <- none,
    Kinds <- [r \in {r1, r2} |-> IF r = r1 THEN {"put"} ELSE {"initiate", "read"}],
    TTL <- 1, MaxTime <- 2, MaxInstance <- 2, MaxChanges <- 1,
    clock <- now, req <- commands, changes <- edits

P == INSTANCE PvSockets WITH
    Client <- {w1, e1}, Web <- {w1}, Dev <- {e1}, Rest <- {}, Token <- 1..4,
    told <- confirmed

Init ==
    /\ part \in {"leases", "work", "client", "gate", "commands", "sockets"}
    /\ R!Init /\ T!Init /\ C!Init /\ G!Init /\ D!Init /\ P!Init
    /\ part # "gate" => authority.status[d1] = "available"

Next ==
    \/ part = "leases"   /\ R!Next /\ UNCHANGED <<part, work, client, writes, devices, watching>>
    \/ part = "work"     /\ T!Next /\ UNCHANGED <<part, leases, client, writes, devices, watching>>
    \/ part = "client"   /\ C!Next /\ UNCHANGED <<part, leases, work, writes, devices, watching>>
    \/ part = "gate"     /\ G!Next /\ UNCHANGED <<part, leases, work, client, devices, watching>>
    \/ part = "commands" /\ D!Next /\ UNCHANGED <<part, leases, work, client, writes, watching>>
    \/ part = "sockets"  /\ P!Next /\ UNCHANGED <<part, leases, work, client, writes, devices>>

(* Where a part begins nothing that is fair is enabled, so the fairness of  *)
(* one part asks nothing of the others.                                    *)
Spec ==
    /\ Init /\ [][Next]_<<part, leases, work, client, writes, devices, watching>>
    /\ R!Fairness /\ T!Fairness /\ C!Fairness /\ G!Fairness /\ D!Fairness /\ P!Fairness

-----------------------------------------------------------------------------
(* A running plan gets a lost lock back, and devices are freed after it.   *)
LocksSettle == part = "leases" => R!LocksSettle

(* Tasks of the worker, and calls of a client, come to an end for those     *)
(* who wait for them.                                                      *)
CallsEnd == T!TasksEnd /\ C!CallsEnd

(* Writes, commands and messages of sockets come to an end.                *)
RequestsEnd == G!RequestsEnd /\ D!CommandsEnd /\ P!MessagesEnd
=============================================================================
