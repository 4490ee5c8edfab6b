-------------------------- MODULE LockCoordinator --------------------------
(***************************************************************************)
(* queueserver's device locking: ConfigServiceCoordinator, its HTTP client *)
(* and the lock authority in configuration_service, composed.              *)
(*                                                                         *)
(* The manager has one event loop.  Two of its coroutines call the         *)
(* authority: "main" (plan start and end, environment open and close) and  *)
(* "beat" (the lease heartbeat).  A call is a request in flight, served by *)
(* the authority at some later moment, and a reply; between the two the    *)
(* other coroutine runs.  The client repeats a call that timed out, though *)
(* the first request may have been served, or may be served later.         *)
(*                                                                         *)
(* A session is what a lock covers: one plan when LockScope is "plan", one *)
(* worker environment when it is "environment".                            *)
(***************************************************************************)
EXTENDS LockTable

CONSTANTS
    LockScope,    \* lock_scope: "plan" or "environment"
    Sessions,     \* items this manager locks under: plan uids, "env:" ids
    Others,       \* items of other owners of locks
    NoItem,       \* "" : no lock known
    Faults,       \* what may go wrong in this instance
    MaxAttempts,  \* max_attempts of the client
    MaxEpoch      \* bound on the number of authority starts

ASSUME CoordinatorAssumption ==
    /\ LockScope \in {"plan", "environment"}
    /\ Sessions \cup Others = Item
    /\ Sessions \cap Others = {}
    /\ NoItem \notin Item
    /\ Faults \subseteq {"timeout", "audit", "restart", "manager", "other", "operator", "reset"}
    /\ MaxAttempts \in Nat \ {0}
    /\ MaxEpoch \in Nat \ {0}

VARIABLES
    locks,      \* the authority's table
    epoch,      \* the authority's generation
    net,        \* requests in flight
    call,       \* the call each coroutine is awaiting
    mainPc,     \* where the main coroutine stands
    session,    \* the session being opened, open or being closed
    done,       \* items whose session has ended: a uid is not used again
    books,      \* _locked_devices and _locked_item_id
    bookEpoch,  \* _lock_epoch
    beatPc      \* where the heartbeat stands

authority == <<locks, epoch>>
vars == <<locks, epoch, net, call, mainPc, session, done, books, bookEpoch, beatPc>>

Coroutines == {"main", "beat"}
Ops        == {"lock", "unlock", "renew", "force"}

Claim == [devices : SUBSET Device, item : Item \cup {NoItem}]

NoClaim == [devices |-> {}, item |-> NoItem]

(* from = "nobody": the coroutine has stopped waiting for this request.    *)
Request == [from : Coroutines \cup {"nobody"}, op : Ops,
            devices : SUBSET Device, item : Item]

(* code 0 stands for "no reply yet", 1 for ConfigServiceUnreachable.       *)
Reply == [code : {0, 1, 200, 403, 409, 500}, epoch : 0..MaxEpoch, intact : BOOLEAN]

NoReply     == [code |-> 0, epoch |-> 0, intact |-> TRUE]
Unreachable == [code |-> 1, epoch |-> 0, intact |-> TRUE]

Call == [op : Ops \cup {"none"}, devices : SUBSET Device, item : Item \cup {NoItem},
         epoch : 0..MaxEpoch, try : 0..MaxAttempts, reply : Reply]

NoCall == [op |-> "none", devices |-> {}, item |-> NoItem, epoch |-> 0, try |-> 0,
           reply |-> NoReply]

Init ==
    /\ locks = EmptyTable /\ epoch = 1
    /\ net = {}
    /\ call = [c \in Coroutines |-> NoCall]
    /\ mainPc = "idle" /\ session = NoClaim /\ done = {}
    /\ books = NoClaim /\ bookEpoch = 0
    /\ beatPc = "sleep"

-----------------------------------------------------------------------------
(* The HTTP client (ConfigServiceClient._request).                         *)

RequestOf(c) == [from |-> c, op |-> call[c].op, devices |-> call[c].devices,
                 item |-> call[c].item]

Send(c, op, D, i) ==
    /\ call' = [call EXCEPT ![c] = [op |-> op, devices |-> D, item |-> i,
                                    epoch |-> bookEpoch, try |-> 1, reply |-> NoReply]]
    /\ net' = net \cup {[from |-> c, op |-> op, devices |-> D, item |-> i]}

Answered(c) == call[c].op # "none" /\ call[c].reply.code # 0
Code(c)     == call[c].reply.code

Return(c) == call' = [call EXCEPT ![c] = NoCall] /\ UNCHANGED net

(* The wait for a reply is over without one: the request or its reply was  *)
(* lost, or the authority has yet to serve it.  The client tries again, up *)
(* to MaxAttempts times; POST /lock is repeated like any other request.    *)
Timeout(c) ==
    /\ call[c].op # "none" /\ call[c].reply.code = 0
    /\ "timeout" \in Faults \/ RequestOf(c) \notin net
    /\ \E rest \in {net \ {RequestOf(c)}} \cup
                   (IF RequestOf(c) \in net
                    THEN {(net \ {RequestOf(c)}) \cup {[RequestOf(c) EXCEPT !.from = "nobody"]}}
                    ELSE {}) :
          IF call[c].try < MaxAttempts
          THEN /\ call' = [call EXCEPT ![c].try = @ + 1]
               /\ net' = rest \cup {RequestOf(c)}
          ELSE /\ call' = [call EXCEPT ![c].reply = Unreachable]
               /\ net' = rest
    /\ UNCHANGED <<authority, mainPc, session, done, books, bookEpoch, beatPc>>

-----------------------------------------------------------------------------
(* The authority serves a request: one atomic step of its event loop.      *)

AllEnabled == [d \in Device |-> "active"]

CodeOf(r) ==
    CASE r.op = "lock"   -> AcquireCode(locks, r.devices, AllEnabled)
      [] r.op = "unlock" -> IF ReleaseDenied(locks, r.devices, r.item) THEN 403 ELSE 200
      [] r.op = "renew"  -> 200
      [] r.op = "force"  -> 200

Effect(r) ==
    CASE CodeOf(r) # 200                -> locks
      [] CodeOf(r) = 200 /\ r.op = "lock"  -> Acquired(locks, r.devices, r.item, 0)
      [] CodeOf(r) = 200 /\ r.op = "renew" -> Renewed(locks, r.devices, r.item)
      [] CodeOf(r) = 200 /\ r.op \in {"unlock", "force"} -> Released(locks, r.devices)

(* The audit entry is written after the table was changed; when that write *)
(* fails the endpoint answers 500.                                         *)
AnswersOf(r) ==
    {CodeOf(r)} \cup
    (IF "audit" \in Faults /\ CodeOf(r) = 200 /\ r.op # "renew" THEN {500} ELSE {})

Serve(r) ==
    /\ r \in net
    /\ net' = net \ {r}
    /\ locks' = Effect(r)
    /\ \/ /\ r.from \in Coroutines
          /\ \E code \in AnswersOf(r) :
                call' = [call EXCEPT ![r.from].reply =
                           [code   |-> code,
                            epoch  |-> epoch,
                            intact |-> r.op = "renew" =>
                                         r.devices \subseteq HeldBy(locks, r.item)]]
       \/ /\ r.from = "nobody" \/ "timeout" \in Faults    \* the reply is lost
          /\ UNCHANGED call
    /\ UNCHANGED <<epoch, mainPc, session, done, books, bookEpoch, beatPc>>

-----------------------------------------------------------------------------
(* The main coroutine.                                                     *)

mainOnly == <<authority, done, bookEpoch, beatPc>>

(* lock_devices_for_plan, or the environment part of sync_on_env_open:     *)
(* the debt on the books is settled before any new lock is taken.          *)
Open_NoSettling(i, D) ==
    /\ mainPc = "idle" /\ i \notin done
    /\ session' = [devices |-> D, item |-> i]
    /\ mainPc' = "lock" /\ Send("main", "lock", D, i)
    /\ UNCHANGED <<mainOnly, books>>

Open(i, D) ==
    /\ mainPc = "idle"
    /\ i \notin done
    /\ session' = [devices |-> D, item |-> i]
    /\ IF books.item # NoItem
       THEN mainPc' = "settle" /\ Send("main", "unlock", books.devices, books.item)
       ELSE mainPc' = "lock"   /\ Send("main", "lock", D, i)
    /\ UNCHANGED <<mainOnly, books>>

(* In environment scope the sync runs again whenever the worker's lists    *)
(* change, and locks unless the books show this environment's lock.        *)
SyncAgain ==
    /\ LockScope = "environment"
    /\ mainPc = "run"
    /\ books.item # session.item
    /\ IF books.item # NoItem
       THEN mainPc' = "settle" /\ Send("main", "unlock", books.devices, books.item)
       ELSE mainPc' = "lock"   /\ Send("main", "lock", session.devices, session.item)
    /\ UNCHANGED <<mainOnly, session, books>>

(* A failure to lock aborts a plan start; an environment stays open.       *)
AfterFailure == IF LockScope = "plan" THEN "idle" ELSE "run"

SettleDone ==
    /\ mainPc = "settle"
    /\ Answered("main")
    /\ IF Code("main") = 200
       THEN /\ books' = NoClaim
            /\ mainPc' = "lock"
            /\ Send("main", "lock", session.devices, session.item)
       ELSE /\ mainPc' = AfterFailure
            /\ Return("main")
            /\ UNCHANGED books
    /\ UNCHANGED <<mainOnly, session>>

LockDone_TakesConflict ==
    /\ mainPc \in {"lock", "relock"} /\ Answered("main")
    /\ mainPc' = "run" /\ books' = session /\ bookEpoch' = call["main"].reply.epoch
    /\ Return("main")
    /\ UNCHANGED <<authority, session, done, beatPc>>

(* The lock request has returned.  On a conflict, environment scope once   *)
(* force-unlocks what a previous manager left (_lock_with_restart_recovery). *)
LockDone ==
    /\ mainPc \in {"lock", "relock"}
    /\ Answered("main")
    /\ \/ /\ Code("main") = 200
          /\ mainPc' = "run"
          /\ books' = session
          /\ bookEpoch' = call["main"].reply.epoch
          /\ Return("main")
       \/ /\ Code("main") = 409 /\ mainPc = "lock" /\ LockScope = "environment"
          /\ mainPc' = "force"
          /\ Send("main", "force", session.devices, session.item)
          /\ UNCHANGED <<books, bookEpoch>>
       \/ /\ Code("main") # 200
          /\ ~ (Code("main") = 409 /\ mainPc = "lock" /\ LockScope = "environment")
          /\ mainPc' = AfterFailure
          /\ Return("main")
          /\ UNCHANGED <<books, bookEpoch>>
    /\ UNCHANGED <<authority, session, done, beatPc>>

ForceDone_KeepsGoing ==
    /\ mainPc = "force" /\ Answered("main")
    /\ mainPc' = "run" /\ books' = session /\ Return("main")
    /\ UNCHANGED <<mainOnly, session>>

ForceDone ==
    /\ mainPc = "force"
    /\ Answered("main")
    /\ IF Code("main") = 200
       THEN mainPc' = "relock" /\ Send("main", "lock", session.devices, session.item)
       ELSE mainPc' = AfterFailure /\ Return("main")
    /\ UNCHANGED <<mainOnly, session, books>>

(* The plan has ended, or the environment closes: unlock_devices.          *)
CloseSession ==
    /\ mainPc = "run"
    /\ IF books.devices # {}
       THEN mainPc' = "unlock" /\ Send("main", "unlock", books.devices, books.item)
       ELSE mainPc' = "idle" /\ UNCHANGED <<call, net>>
    /\ UNCHANGED <<authority, session, bookEpoch, beatPc, books>>

Finish == CloseSession /\ done' = done \cup {session.item}

(* The worker's reset fails after the lock was taken: the lock is given    *)
(* back and the plan, its uid unchanged, stays in the queue.               *)
ResetFails ==
    /\ "reset" \in Faults
    /\ LockScope = "plan"
    /\ CloseSession
    /\ UNCHANGED done

UnlockDone ==
    /\ mainPc = "unlock"
    /\ Answered("main")
    /\ books' = IF Code("main") = 200 THEN NoClaim ELSE books
    /\ mainPc' = "idle"
    /\ Return("main")
    /\ UNCHANGED <<mainOnly, session>>

-----------------------------------------------------------------------------
(* The heartbeat (_heartbeat_once, _reacquire_after_loss).                 *)

beatOnly == <<authority, mainPc, session, done>>

Beat ==
    /\ LeaseTTL > 0
    /\ beatPc = "sleep"
    /\ books.devices # {}
    /\ beatPc' = "renew"
    /\ Send("beat", "renew", books.devices, books.item)
    /\ UNCHANGED <<beatOnly, books, bookEpoch>>

EpochChanged == /\ call["beat"].epoch # 0
                /\ call["beat"].reply.epoch # call["beat"].epoch

RenewDone_IgnoresLoss ==
    /\ beatPc = "renew" /\ Answered("beat")
    /\ beatPc' = "sleep" /\ Return("beat")
    /\ UNCHANGED <<beatOnly, books, bookEpoch>>

RenewDone ==
    /\ beatPc = "renew"
    /\ Answered("beat")
    /\ IF /\ Code("beat") = 200
          /\ books.item = call["beat"].item
          /\ EpochChanged \/ ~ call["beat"].reply.intact
       THEN /\ beatPc' = "relock"
            /\ Send("beat", "lock", call["beat"].devices, call["beat"].item)
            /\ UNCHANGED bookEpoch
       ELSE /\ beatPc' = "sleep"
            /\ Return("beat")
            /\ bookEpoch' = IF Code("beat") = 200 /\ books.item = call["beat"].item
                            THEN call["beat"].reply.epoch ELSE bookEpoch
    /\ UNCHANGED <<beatOnly, books>>

ReacquireDone_KeepsEpoch ==
    /\ beatPc = "relock" /\ Answered("beat")
    /\ beatPc' = "sleep"
    /\ books' = IF Code("beat") = 409 /\ books.item = call["beat"].item THEN NoClaim ELSE books
    /\ Return("beat")
    /\ UNCHANGED <<beatOnly, bookEpoch>>

ReacquireDone ==
    /\ beatPc = "relock"
    /\ Answered("beat")
    /\ beatPc' = "sleep"
    /\ books' = IF Code("beat") = 409 /\ books.item = call["beat"].item THEN NoClaim ELSE books
    /\ bookEpoch' = IF Code("beat") = 200 /\ books.item = call["beat"].item
                    THEN call["beat"].reply.epoch ELSE bookEpoch
    /\ Return("beat")
    /\ UNCHANGED beatOnly

-----------------------------------------------------------------------------
(* What happens around them.                                               *)

outside == <<mainPc, session, done, books, bookEpoch, beatPc, call>>

Tick ==
    /\ Aged(locks) # locks
    /\ locks' = Aged(locks)
    /\ UNCHANGED <<epoch, net, outside>>

(* The authority restarts: locks and open connections are gone.            *)
AuthorityRestart ==
    /\ "restart" \in Faults
    /\ epoch < MaxEpoch
    /\ epoch' = epoch + 1
    /\ locks' = EmptyTable
    /\ net' = {}
    /\ UNCHANGED outside

(* The watchdog restarts the manager: its coordinator starts with empty    *)
(* books; a running plan, or an open environment, goes on in the worker.   *)
(* The new coordinator draws a new environment owner id.                   *)
Survives == IF LockScope = "plan" THEN {"run"} ELSE {"settle", "lock", "force", "relock", "run"}

ManagerRestart ==
    /\ "manager" \in Faults
    /\ IF LockScope = "environment" /\ mainPc \in Survives
       THEN \E i \in Sessions \ (done \cup {session.item}) :
               /\ session' = [session EXCEPT !.item = i]
               /\ done' = done \cup {session.item}
       ELSE UNCHANGED <<session, done>>
    /\ mainPc' = IF mainPc \in Survives THEN "run" ELSE "idle"
    /\ books' = NoClaim /\ bookEpoch' = 0
    /\ beatPc' = "sleep"
    /\ call' = [c \in Coroutines |-> NoCall]
    /\ net' = {[r EXCEPT !.from = "nobody"] : r \in net}
    /\ UNCHANGED authority

OtherLocks(D, o) ==
    /\ "other" \in Faults
    /\ AcquireCode(locks, D, AllEnabled) = 200
    /\ locks' = Acquired(locks, D, o, 0)
    /\ UNCHANGED <<epoch, net, outside>>

OtherUnlocks(o) ==
    /\ "other" \in Faults
    /\ HeldBy(locks, o) # {}
    /\ locks' = Released(locks, HeldBy(locks, o))
    /\ UNCHANGED <<epoch, net, outside>>

(* An operator's force-unlock.                                             *)
OperatorUnlocks(D) ==
    /\ "operator" \in Faults
    /\ Entries(locks, D) # {}
    /\ locks' = Released(locks, D)
    /\ UNCHANGED <<epoch, net, outside>>

-----------------------------------------------------------------------------

Opening == \E i \in Sessions, D \in SUBSET Device \ {{}} : Open(i, D)

Main == SettleDone \/ LockDone \/ ForceDone \/ UnlockDone

Heartbeat == Beat \/ RenewDone \/ ReacquireDone

Network == (\E r \in net : Serve(r)) \/ (\E c \in Coroutines : Timeout(c))

Surroundings ==
    \/ Tick
    \/ AuthorityRestart
    \/ ManagerRestart
    \/ \E D \in SUBSET Device \ {{}}, o \in Others : OtherLocks(D, o)
    \/ \E o \in Others : OtherUnlocks(o)
    \/ \E D \in SUBSET Device : OperatorUnlocks(D)

Next == Opening \/ SyncAgain \/ Finish \/ ResetFails \/ Main \/ Heartbeat \/ Network
        \/ Surroundings

(* The coroutines run, the authority serves what somebody waits for, the   *)
(* heartbeat loops while a lock is on the books and time passes; no user   *)
(* is obliged to act, and an abandoned request need never be served.       *)
Fairness ==
    /\ WF_vars(Main)
    /\ WF_vars(Beat)
    /\ WF_vars(RenewDone)
    /\ WF_vars(ReacquireDone)
    /\ \A c \in Coroutines : WF_vars(Timeout(c))
    /\ \A c \in Coroutines : WF_vars(Serve(RequestOf(c)))
    /\ WF_vars(Tick)

Spec == Init /\ [][Next]_vars

FairSpec == Spec /\ Fairness

-----------------------------------------------------------------------------

TypeOK ==
    /\ locks \in Table
    /\ epoch \in 1..MaxEpoch
    /\ net \subseteq Request
    /\ call \in [Coroutines -> Call]
    /\ mainPc \in {"idle", "settle", "lock", "force", "relock", "run", "unlock"}
    /\ session \in Claim
    /\ done \subseteq Sessions
    /\ books \in Claim
    /\ bookEpoch \in 0..MaxEpoch
    /\ beatPc \in {"sleep", "renew", "relock"}

Holds(i, D) == D \subseteq HeldBy(locks, i)

(* While a plan runs, the authority holds its devices for it: no late,     *)
(* repeated or lost request, failed audit write, manager restart or other  *)
(* client takes them away.  (With leases off; a lease is another matter.)  *)
RunningPlanHoldsLocks == mainPc = "run" => Holds(session.item, session.devices)

(* A force-unlock asks nobody: one that an earlier incarnation of the       *)
(* manager sent, or that was given up, drops a later lock when it is served. *)
NoLateForce == \A r \in net : r.op = "force" => r.from = "main"

(* In environment scope the books are true: an environment whose lock is   *)
(* on them is locked at the authority, whatever locks earlier incarnations *)
(* of the manager left there (but see NoLateForce).                        *)
EnvironmentBooksTrue ==
    (mainPc = "run" /\ books.item = session.item) => Holds(session.item, session.devices)

(* Every live lock of this manager is on its books, or a call about it is  *)
(* outstanding: what is not on the books is never released.                *)
OwnLocksKnown ==
    \A i \in Sessions :
        HeldBy(locks, i) # {} =>
            \/ books.item = i /\ HeldBy(locks, i) \subseteq books.devices
            \/ \E c \in Coroutines : call[c].op # "none" /\ call[c].item = i

(* When a heartbeat's re-acquisition meets a conflict, somebody else holds *)
(* one of the devices: it never loses to the manager's own locks           *)
(* (_reacquire_after_loss).                                                *)
ConflictIsExternal ==
    \A r \in net :
        (Serve(r) /\ r.from = "beat" /\ r.op = "lock" /\ CodeOf(r) = 409) =>
            \E d \in r.devices : Active(locks, d) /\ locks[d].item # r.item

ReacquireConflictIsExternal == [][ConflictIsExternal]_vars

(* A running plan that lost its lock to a restart of the authority, or to  *)
(* a lapsed lease, gets it back while it runs.                             *)
PlanRegainsLock ==
    (mainPc = "run" /\ ~ Holds(session.item, session.devices))
       ~> (mainPc # "run" \/ Holds(session.item, session.devices))

(* A device is free again some time after the plan that locked it is over  *)
(* ("Devices are therefore free for direct control whenever no plan is     *)
(* running", config_service.py:107).                                       *)
DevicesFreedAfterPlan ==
    \A i \in Sessions : (i \in done) ~> (HeldBy(locks, i) = {})

(* What a restart of the authority or the end of a plan upsets comes right *)
(* again.                                                                  *)
LocksSettle == PlanRegainsLock /\ DevicesFreedAfterPlan

=============================================================================
