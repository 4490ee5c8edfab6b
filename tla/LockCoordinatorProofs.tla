----------------------- MODULE LockCoordinatorProofs -----------------------
(***************************************************************************)
(* Proofs about LockCoordinator: its type correctness for every value of   *)
(* the constants; and, for those that describe locking per plan without    *)
(* leases, that a running plan holds its devices, whatever is lost, late   *)
(* or repeated.                                                            *)
(***************************************************************************)
EXTENDS LockCoordinator, TLAPS

-----------------------------------------------------------------------------
(* What the operations of the lock table do to a table, for any lease.     *)

(* u has no lock t did not have: every entry of u is an entry of t under   *)
(* the same item and acquisition, live in t if it is live in u.            *)
Shrinks(t, u) ==
    \A d \in Device :
        u[d] # NoLock =>
            /\ t[d] # NoLock
            /\ u[d].item = t[d].item
            /\ u[d].at = t[d].at
            /\ Active(u, d) => Active(t, d)

(* The empty table is a table without a live lock.                         *)
LEMMA EmptyTableType == EmptyTable \in Table /\ \A d \in Device : ~ Active(EmptyTable, d)
BY DEF EmptyTable, Table, Active

(* A renewal yields a table and creates no lock: a lapsed one stays lapsed. *)
LEMMA RenewedShrinks ==
    ASSUME NEW t \in Table, NEW D \in SUBSET Device, NEW i \in Item
    PROVE  Renewed(t, D, i) \in Table /\ Shrinks(t, Renewed(t, D, i))
<1>1. \A d \in RenewedDevices(t, D, i) :
         d \in Device /\ t[d] \in Lock /\ Active(t, d)
  BY TableAssumption DEF RenewedDevices, HeldBy, ActiveLocks, Active, Table
<1>2. \A d \in RenewedDevices(t, D, i) : [t[d] EXCEPT !.left = LeaseTTL] \in Lock
  BY <1>1, TableAssumption DEF Lock
<1>3. Renewed(t, D, i) \in Table
  BY <1>2 DEF Renewed, Table
<1>4. ASSUME NEW d \in Device, d \in RenewedDevices(t, D, i)
      PROVE  /\ t[d] # NoLock
             /\ Renewed(t, D, i)[d].item = t[d].item
             /\ Renewed(t, D, i)[d].at = t[d].at
             /\ Active(t, d)
  BY <1>1, <1>4 DEF Renewed, Lock, Active
<1>5. ASSUME NEW d \in Device, d \notin RenewedDevices(t, D, i)
      PROVE  Renewed(t, D, i)[d] = t[d]
  BY <1>5 DEF Renewed
<1>6. QED
  BY <1>3, <1>4, <1>5 DEF Shrinks, Active

(* Releasing yields a table that shrinks.                                  *)
LEMMA ReleasedShrinks ==
    ASSUME NEW t \in Table, NEW D \in SUBSET Device
    PROVE  Released(t, D) \in Table /\ Shrinks(t, Released(t, D))
BY DEF Released, Table, Shrinks, Active

(* The passing of time yields a table that shrinks.                        *)
LEMMA AgedShrinks ==
    ASSUME NEW t \in Table
    PROVE  Aged(t) \in Table /\ Shrinks(t, Aged(t))
<1>1. ASSUME NEW d \in Device, t[d] # NoLock, t[d].left > 0
      PROVE  /\ [t[d] EXCEPT !.left = @ - 1] \in Lock
             /\ [t[d] EXCEPT !.left = @ - 1].item = t[d].item
             /\ [t[d] EXCEPT !.left = @ - 1].at = t[d].at
             /\ Active(t, d)
  <2>1. t[d] \in Lock
    BY <1>1 DEF Table
  <2>2. t[d].left - 1 \in 0..LeaseTTL
    BY <1>1, <2>1, TableAssumption DEF Lock
  <2>3. QED
    BY <1>1, <2>1, <2>2 DEF Lock, Active, IsExpired
<1>2. Aged(t) \in Table
  BY <1>1 DEF Aged, Table
<1>3. ASSUME NEW d \in Device, t[d] # NoLock, t[d].left > 0
      PROVE  /\ Aged(t)[d].item = t[d].item
             /\ Aged(t)[d].at = t[d].at
             /\ Active(t, d)
  BY <1>1, <1>3 DEF Aged
<1>4. ASSUME NEW d \in Device, ~ (t[d] # NoLock /\ t[d].left > 0)
      PROVE  Aged(t)[d] = t[d]
  BY <1>4 DEF Aged
<1>5. QED
  BY <1>2, <1>3, <1>4 DEF Shrinks, Active

(* An acquisition yields a table; the devices it names hold its lock, the   *)
(* others keep theirs.                                                      *)
LEMMA AcquiredTable ==
    ASSUME NEW t \in Table, NEW D \in SUBSET Device, NEW i \in Item, NEW v \in Nat
    PROVE  /\ Acquired(t, D, i, v) \in Table
           /\ \A d \in D : /\ Acquired(t, D, i, v)[d] = FreshLock(i, v)
                           /\ Acquired(t, D, i, v)[d] # NoLock
           /\ \A d \in Device \ D : Acquired(t, D, i, v)[d] = t[d]
<1>1. FreshLock(i, v) \in Lock
  BY TableAssumption DEF FreshLock, Lock
<1>2. QED
  BY <1>1, TableAssumption DEF Acquired, Table

(* An acquisition that answers 200 names only enabled devices without a     *)
(* live lock.                                                               *)
LEMMA AcquireAdmits ==
    ASSUME NEW t, NEW D \in SUBSET Device, NEW status,
           \A d \in D : status[d] \in {"absent", "missing", "disabled", "active"},
           AcquireCode(t, D, status) = 200
    PROVE  \A d \in D : status[d] = "active" /\ ~ Active(t, d)
<1> SUFFICES ASSUME NEW d \in D
             PROVE  status[d] = "active" /\ ~ Active(t, d)
  OBVIOUS
<1>1. LET reasons == {Reason(t, e, status) : e \in D}
      IN  reasons \cap {"spec_missing", "not_found", "disabled", "already_locked"} = {}
  BY DEF AcquireCode
<1>2. Reason(t, d, status) \notin {"spec_missing", "not_found", "disabled", "already_locked"}
  BY <1>1
<1>3. QED
  BY <1>2 DEF Reason

-----------------------------------------------------------------------------

(* A call under way names an item; so do a session that is opening or open *)
(* and books with devices on them.                                         *)
CallsNamed   == \A c \in Coroutines : call[c].op # "none" => call[c].item \in Item
SessionNamed == mainPc \notin {"idle", "unlock"} => session.item \in Sessions
BooksNamed   == books.item = NoItem => books.devices = {}

TypeInv == TypeOK /\ CallsNamed /\ SessionNamed /\ BooksNamed

(* What sending a request does to the calls and to the network.            *)
LEMMA SendEffect ==
    ASSUME TypeInv, NEW c \in Coroutines, NEW op \in Ops, NEW D \in SUBSET Device,
           NEW i \in Item, Send(c, op, D, i)
    PROVE  /\ call' \in [Coroutines -> Call] /\ CallsNamed'
           /\ net' \subseteq Request
           /\ net' = net \cup {[from |-> c, op |-> op, devices |-> D, item |-> i]}
           /\ call'[c] = [op |-> op, devices |-> D, item |-> i, epoch |-> bookEpoch,
                          try |-> 1, reply |-> NoReply]
           /\ \A x \in Coroutines \ {c} : call'[x] = call[x]
<1>1. [op |-> op, devices |-> D, item |-> i, epoch |-> bookEpoch, try |-> 1,
       reply |-> NoReply] \in Call
  BY CoordinatorAssumption DEF TypeInv, TypeOK, Call, Reply, NoReply
<1>2. [from |-> c, op |-> op, devices |-> D, item |-> i] \in Request
  BY DEF Request
<1>3. QED
  BY <1>1, <1>2 DEF TypeInv, TypeOK, Send, CallsNamed

(* What the return of a call does.                                         *)
LEMMA ReturnEffect ==
    ASSUME TypeInv, NEW c \in Coroutines, Return(c)
    PROVE  /\ call' \in [Coroutines -> Call] /\ CallsNamed'
           /\ net' = net
           /\ call'[c] = NoCall
           /\ \A x \in Coroutines \ {c} : call'[x] = call[x]
<1>1. NoCall \in Call
  BY CoordinatorAssumption DEF Call, NoCall, Reply, NoReply
<1>2. NoCall.op = "none"
  BY DEF NoCall
<1>3. QED
  BY <1>1, <1>2 DEF TypeInv, TypeOK, Return, CallsNamed

(* The request of a call under way is a request.                           *)
LEMMA RequestOfType ==
    ASSUME TypeInv, NEW c \in Coroutines, call[c].op # "none"
    PROVE  RequestOf(c) \in Request
BY DEF TypeInv, TypeOK, CallsNamed, RequestOf, Request, Call

LEMMA InitTyped == Init => TypeInv
<1> SUFFICES ASSUME Init PROVE TypeInv
  OBVIOUS
<1>1. NoCall \in Call /\ NoCall.op = "none"
  BY CoordinatorAssumption DEF Call, NoCall, Reply, NoReply
<1>2. locks \in Table
  BY EmptyTableType DEF Init
<1>3. call \in [Coroutines -> Call] /\ CallsNamed
  BY <1>1 DEF Init, CallsNamed
<1>4. session \in Claim /\ books \in Claim /\ BooksNamed
  BY DEF Init, Claim, NoClaim, BooksNamed
<1>5. QED
  BY <1>2, <1>3, <1>4, CoordinatorAssumption DEF Init, TypeInv, TypeOK, SessionNamed

(* A step that leaves the calls, the session, the books and the places     *)
(* alone, and takes requests away from the network at most.                *)
LEMMA TableStepTyped ==
    ASSUME TypeInv, locks' \in Table, epoch' \in 1..MaxEpoch, net' \subseteq net,
           UNCHANGED outside
    PROVE  TypeInv'
BY DEF TypeInv, TypeOK, CallsNamed, SessionNamed, BooksNamed, outside

(* Every step of the main coroutine keeps the types.                       *)
LEMMA MainTyped ==
    ASSUME TypeInv, Opening \/ SyncAgain \/ Finish \/ ResetFails \/ Main
    PROVE  TypeInv'
<1> USE DEF mainOnly, authority
<1>0. "main" \in Coroutines /\ {"lock", "unlock", "force"} \subseteq Ops
  BY DEF Coroutines, Ops
<1>1. /\ books.devices \in SUBSET Device /\ session.devices \in SUBSET Device
      /\ books.item # NoItem => books.item \in Item
      /\ Sessions \subseteq Item
  BY CoordinatorAssumption DEF TypeInv, TypeOK, Claim
<1>2. ASSUME NEW i \in Sessions, NEW D \in SUBSET Device \ {{}}, Open(i, D)
      PROVE  TypeInv'
  <2>1. session' \in Claim /\ session'.item \in Sessions
    BY <1>1, <1>2 DEF Open, Claim
  <2>2. CASE books.item # NoItem
    <3>1. Send("main", "unlock", books.devices, books.item)
      BY <1>2, <2>2 DEF Open
    <3>2. call' \in [Coroutines -> Call] /\ CallsNamed' /\ net' \subseteq Request
      BY <1>0, <1>1, <2>2, <3>1, SendEffect
    <3>3. QED
      BY <1>2, <2>1, <2>2, <3>2 DEF Open, TypeInv, TypeOK, SessionNamed, BooksNamed
  <2>3. CASE books.item = NoItem
    <3>1. Send("main", "lock", D, i)
      BY <1>2, <2>3 DEF Open
    <3>2. call' \in [Coroutines -> Call] /\ CallsNamed' /\ net' \subseteq Request
      BY <1>0, <1>1, <1>2, <3>1, SendEffect
    <3>3. QED
      BY <1>2, <2>1, <2>3, <3>2 DEF Open, TypeInv, TypeOK, SessionNamed, BooksNamed
  <2>4. QED
    BY <2>2, <2>3
<1>3. ASSUME SyncAgain
      PROVE  TypeInv'
  <2>1. session.item \in Item
    BY <1>1, <1>3 DEF SyncAgain, TypeInv, SessionNamed
  <2>2. call' \in [Coroutines -> Call] /\ CallsNamed' /\ net' \subseteq Request
    <3>1. CASE books.item # NoItem
      BY <1>0, <1>1, <1>3, <3>1, SendEffect DEF SyncAgain
    <3>2. CASE books.item = NoItem
      BY <1>0, <1>1, <1>3, <2>1, <3>2, SendEffect DEF SyncAgain
    <3>3. QED
      BY <3>1, <3>2
  <2>3. QED
    BY <1>3, <2>2 DEF SyncAgain, TypeInv, TypeOK, SessionNamed, BooksNamed
<1>4. ASSUME CloseSession, done' \subseteq Sessions
      PROVE  TypeInv'
  <2>1. call' \in [Coroutines -> Call] /\ CallsNamed' /\ net' \subseteq Request
    <3>1. CASE books.devices # {}
      <4>1. books.item \in Item
        BY <1>1, <3>1 DEF TypeInv, BooksNamed
      <4>2. QED
        BY <1>0, <1>1, <1>4, <3>1, <4>1, SendEffect DEF CloseSession
    <3>2. CASE books.devices = {}
      BY <1>4, <3>2 DEF CloseSession, TypeInv, TypeOK, CallsNamed
    <3>3. QED
      BY <3>1, <3>2
  <2>2. QED
    BY <1>4, <2>1 DEF CloseSession, TypeInv, TypeOK, SessionNamed, BooksNamed
<1>5. ASSUME Finish \/ ResetFails
      PROVE  TypeInv'
  BY <1>4, <1>5 DEF Finish, ResetFails, CloseSession, TypeInv, TypeOK, SessionNamed
<1>6. NoClaim \in Claim /\ NoClaim.devices = {}
  BY DEF NoClaim, Claim
<1>7. ASSUME SettleDone
      PROVE  TypeInv'
  <2>1. session.item \in Sessions
    BY <1>7 DEF SettleDone, TypeInv, SessionNamed
  <2>2. call' \in [Coroutines -> Call] /\ CallsNamed' /\ net' \subseteq Request
    <3>1. CASE Code("main") = 200
      <4>1. Send("main", "lock", session.devices, session.item)
        BY <1>7, <3>1 DEF SettleDone
      <4>2. QED
        BY <1>0, <1>1, <2>1, <4>1, SendEffect
    <3>2. CASE Code("main") # 200
      <4>1. Return("main")
        BY <1>7, <3>2 DEF SettleDone
      <4>2. QED
        BY <1>0, <4>1, ReturnEffect DEF TypeInv, TypeOK
    <3>3. QED
      BY <3>1, <3>2
  <2>3. books' \in Claim /\ BooksNamed'
    BY <1>6, <1>7 DEF SettleDone, TypeInv, TypeOK, BooksNamed
  <2>4. QED
    BY <1>7, <2>1, <2>2, <2>3 DEF SettleDone, AfterFailure, TypeInv, TypeOK, SessionNamed
<1>8. ASSUME LockDone
      PROVE  TypeInv'
  <2>1. session.item \in Sessions
    BY <1>8 DEF LockDone, TypeInv, SessionNamed
  <2>2. session.item \in Item /\ session.item # NoItem
    BY <1>1, <2>1, CoordinatorAssumption
  <2>3. call["main"].reply.epoch \in 0..MaxEpoch
    BY <1>0 DEF TypeInv, TypeOK, Call, Reply
  <2>4. call' \in [Coroutines -> Call] /\ CallsNamed' /\ net' \subseteq Request
    <3>1. CASE Return("main")
      BY <1>0, <3>1, ReturnEffect DEF TypeInv, TypeOK
    <3>2. CASE Send("main", "force", session.devices, session.item)
      BY <1>0, <1>1, <2>2, <3>2, SendEffect
    <3>3. QED
      BY <1>8, <3>1, <3>2 DEF LockDone
  <2>5. books' \in Claim /\ BooksNamed'
    BY <1>8, <2>2 DEF LockDone, TypeInv, TypeOK, BooksNamed
  <2>6. bookEpoch' \in 0..MaxEpoch
    BY <1>8, <2>3 DEF LockDone, TypeInv, TypeOK
  <2>7. mainPc' \in {"run", "force", "idle"}
    BY <1>8 DEF LockDone, AfterFailure
  <2>8. UNCHANGED <<locks, epoch, session, done, beatPc>>
    BY <1>8 DEF LockDone
  <2>9. QED
    BY <2>1, <2>4, <2>5, <2>6, <2>7, <2>8 DEF TypeInv, TypeOK, SessionNamed
<1>9. ASSUME ForceDone
      PROVE  TypeInv'
  <2>1. session.item \in Sessions
    BY <1>9 DEF ForceDone, TypeInv, SessionNamed
  <2>2. call' \in [Coroutines -> Call] /\ CallsNamed' /\ net' \subseteq Request
    <3>1. CASE Return("main")
      BY <1>0, <3>1, ReturnEffect DEF TypeInv, TypeOK
    <3>2. CASE Send("main", "lock", session.devices, session.item)
      BY <1>0, <1>1, <2>1, <3>2, SendEffect
    <3>3. QED
      BY <1>9, <3>1, <3>2 DEF ForceDone
  <2>3. QED
    BY <1>9, <2>1, <2>2 DEF ForceDone, AfterFailure, TypeInv, TypeOK, SessionNamed, BooksNamed
<1>10. ASSUME UnlockDone
       PROVE  TypeInv'
  <2>1. call' \in [Coroutines -> Call] /\ CallsNamed' /\ net' \subseteq Request
    BY <1>0, <1>10, ReturnEffect DEF UnlockDone, TypeInv, TypeOK
  <2>2. books' \in Claim /\ BooksNamed'
    BY <1>6, <1>10 DEF UnlockDone, TypeInv, TypeOK, BooksNamed
  <2>3. QED
    BY <1>10, <2>1, <2>2 DEF UnlockDone, TypeInv, TypeOK, SessionNamed
<1>11. QED
  BY <1>2, <1>3, <1>5, <1>7, <1>8, <1>9, <1>10 DEF Opening, Main

(* Every step of the heartbeat keeps the types.                            *)
LEMMA HeartbeatTyped ==
    ASSUME TypeInv, Heartbeat
    PROVE  TypeInv'
<1> USE DEF beatOnly, authority
<1>0. "beat" \in Coroutines /\ {"lock", "renew"} \subseteq Ops
  BY DEF Coroutines, Ops
<1>1. /\ call["beat"].devices \in SUBSET Device
      /\ call["beat"].reply.epoch \in 0..MaxEpoch
      /\ call["beat"].op # "none" => call["beat"].item \in Item
  BY <1>0 DEF TypeInv, TypeOK, CallsNamed, Call, Reply
<1>2. ASSUME Beat
      PROVE  TypeInv'
  <2>1. books.devices \in SUBSET Device /\ books.item \in Item
    BY <1>2 DEF Beat, TypeInv, TypeOK, BooksNamed, Claim
  <2>2. call' \in [Coroutines -> Call] /\ CallsNamed' /\ net' \subseteq Request
    BY <1>0, <1>2, <2>1, SendEffect DEF Beat
  <2>3. QED
    BY <1>2, <2>2 DEF Beat, TypeInv, TypeOK, SessionNamed, BooksNamed
<1>3. ASSUME RenewDone
      PROVE  TypeInv'
  <2>1. call' \in [Coroutines -> Call] /\ CallsNamed' /\ net' \subseteq Request
    <3>1. CASE Return("beat")
      BY <1>0, <3>1, ReturnEffect DEF TypeInv, TypeOK
    <3>2. CASE Send("beat", "lock", call["beat"].devices, call["beat"].item)
      <4>1. call["beat"].item \in Item
        BY <1>1, <1>3 DEF RenewDone, Answered
      <4>2. QED
        BY <1>0, <1>1, <3>2, <4>1, SendEffect
    <3>3. QED
      BY <1>3, <3>1, <3>2 DEF RenewDone
  <2>2. bookEpoch' \in 0..MaxEpoch
    BY <1>1, <1>3 DEF RenewDone, TypeInv, TypeOK
  <2>3. QED
    BY <1>3, <2>1, <2>2 DEF RenewDone, TypeInv, TypeOK, SessionNamed, BooksNamed
<1>4. ASSUME ReacquireDone
      PROVE  TypeInv'
  <2>1. call' \in [Coroutines -> Call] /\ CallsNamed' /\ net' \subseteq Request
    BY <1>0, <1>4, ReturnEffect DEF ReacquireDone, TypeInv, TypeOK
  <2>2. books' \in Claim /\ BooksNamed'
    BY <1>4 DEF ReacquireDone, TypeInv, TypeOK, BooksNamed, NoClaim, Claim
  <2>3. bookEpoch' \in 0..MaxEpoch
    BY <1>1, <1>4 DEF ReacquireDone, TypeInv, TypeOK
  <2>4. QED
    BY <1>4, <2>1, <2>2, <2>3 DEF ReacquireDone, TypeInv, TypeOK, SessionNamed
<1>5. QED
  BY <1>2, <1>3, <1>4 DEF Heartbeat

(* What a request does to the table yields a table.                        *)
LEMMA EffectType ==
    ASSUME TypeInv, NEW r \in Request
    PROVE  Effect(r) \in Table
<1>1. locks \in Table /\ r.devices \in SUBSET Device /\ r.item \in Item /\ 0 \in Nat
      /\ r.op \in Ops
  BY DEF TypeInv, TypeOK, Request
<1>2. /\ Acquired(locks, r.devices, r.item, 0) \in Table
      /\ Renewed(locks, r.devices, r.item) \in Table
      /\ Released(locks, r.devices) \in Table
  BY <1>1, AcquiredTable, RenewedShrinks, ReleasedShrinks
<1>3. QED
  BY <1>1, <1>2 DEF Effect, Ops

(* The authority answers with a code of its own.                           *)
LEMMA AnswerType ==
    ASSUME NEW r \in Request
    PROVE  AnswersOf(r) \subseteq {200, 403, 409, 500}
<1>1. CASE r.op = "lock"
  <2>1. \A d \in r.devices : Reason(locks, d, AllEnabled) \in {"already_locked", "none"}
    BY DEF Request, Reason, AllEnabled
  <2>2. AcquireCode(locks, r.devices, AllEnabled) \in {409, 200}
    BY <2>1 DEF AcquireCode
  <2>3. QED
    BY <1>1, <2>2 DEF AnswersOf, CodeOf
<1>2. CASE r.op # "lock"
  BY <1>2 DEF AnswersOf, CodeOf, Request, Ops
<1>3. QED
  BY <1>1, <1>2

(* Every step of the network, and of what surrounds the manager, keeps the *)
(* types.                                                                  *)
LEMMA NetworkTyped ==
    ASSUME TypeInv, Network
    PROVE  TypeInv'
<1> USE DEF authority
<1>1. ASSUME NEW r \in net, Serve(r)
      PROVE  TypeInv'
  <2>1. r \in Request
    BY DEF TypeInv, TypeOK
  <2>2. locks' \in Table /\ net' \subseteq Request
    BY <1>1, <2>1, EffectType DEF Serve, TypeInv, TypeOK
  <2>3. call' \in [Coroutines -> Call] /\ CallsNamed'
    <3>1. CASE UNCHANGED call
      BY <3>1 DEF TypeInv, TypeOK, CallsNamed
    <3>2. ASSUME NEW reply \in Reply, r.from \in Coroutines,
                 call' = [call EXCEPT ![r.from].reply = reply]
          PROVE  call' \in [Coroutines -> Call] /\ CallsNamed'
      BY <3>2 DEF TypeInv, TypeOK, CallsNamed, Call
    <3>3. ASSUME NEW code \in AnswersOf(r), NEW intact \in BOOLEAN
          PROVE  [code |-> code, epoch |-> epoch, intact |-> intact] \in Reply
      BY <2>1, AnswerType, CoordinatorAssumption DEF Reply, TypeInv, TypeOK
    <3>4. QED
      BY <1>1, <3>1, <3>2, <3>3 DEF Serve
  <2>4. QED
    BY <1>1, <2>2, <2>3 DEF Serve, TypeInv, TypeOK, SessionNamed, BooksNamed
<1>2. ASSUME NEW c \in Coroutines, Timeout(c)
      PROVE  TypeInv'
  <2>1. RequestOf(c) \in Request
    BY <1>2, RequestOfType DEF Timeout
  <2>2. [RequestOf(c) EXCEPT !.from = "nobody"] \in Request
    BY <2>1 DEF Request
  <2>3. net' \subseteq Request
    BY <1>2, <2>1, <2>2 DEF Timeout, TypeInv, TypeOK
  <2>4. call' \in [Coroutines -> Call] /\ CallsNamed'
    <3>1. CASE call[c].try < MaxAttempts /\ call' = [call EXCEPT ![c].try = @ + 1]
      BY <3>1, CoordinatorAssumption DEF TypeInv, TypeOK, CallsNamed, Call
    <3>2. CASE call' = [call EXCEPT ![c].reply = Unreachable]
      <4>1. Unreachable \in Reply
        BY CoordinatorAssumption DEF Unreachable, Reply
      <4>2. QED
        BY <3>2, <4>1 DEF TypeInv, TypeOK, CallsNamed, Call
    <3>3. QED
      BY <1>2, <3>1, <3>2 DEF Timeout
  <2>5. QED
    BY <1>2, <2>3, <2>4 DEF Timeout, TypeInv, TypeOK, SessionNamed, BooksNamed
<1>3. QED
  BY <1>1, <1>2 DEF Network

LEMMA SurroundingsTyped ==
    ASSUME TypeInv, Surroundings
    PROVE  TypeInv'
<1> USE DEF authority
<1>0. locks \in Table /\ epoch \in 1..MaxEpoch /\ 0 \in Nat
  BY DEF TypeInv, TypeOK
<1>1. ASSUME Tick
      PROVE  TypeInv'
  BY <1>0, <1>1, AgedShrinks, TableStepTyped DEF Tick
<1>2. ASSUME AuthorityRestart
      PROVE  TypeInv'
  BY <1>0, <1>2, EmptyTableType, TableStepTyped, CoordinatorAssumption DEF AuthorityRestart
<1>3. ASSUME ManagerRestart
      PROVE  TypeInv'
  <2>1. NoCall \in Call /\ NoCall.op = "none" /\ NoClaim \in Claim /\ NoClaim.devices = {}
    BY CoordinatorAssumption DEF Call, NoCall, Reply, NoReply, NoClaim, Claim
  <2>2. call' \in [Coroutines -> Call] /\ CallsNamed'
    BY <1>3, <2>1 DEF ManagerRestart, CallsNamed
  <2>3. \A r \in net : [r EXCEPT !.from = "nobody"] \in Request
    BY DEF TypeInv, TypeOK, Request
  <2>4. net' \subseteq Request
    BY <1>3, <2>3 DEF ManagerRestart
  <2>5. session' \in Claim /\ done' \subseteq Sessions /\ SessionNamed'
    <3>1. Sessions \subseteq Item /\ Survives \subseteq {"settle", "lock", "force", "relock", "run"}
      BY CoordinatorAssumption DEF Survives
    <3>2. CASE LockScope = "environment" /\ mainPc \in Survives
      <4>1. session.item \in Sessions
        BY <3>1, <3>2 DEF TypeInv, SessionNamed
      <4>2. PICK i \in Sessions : session' = [session EXCEPT !.item = i]
                                  /\ done' = done \cup {session.item}
        BY <1>3, <3>2 DEF ManagerRestart
      <4>3. QED
        BY <3>1, <4>1, <4>2 DEF TypeInv, TypeOK, Claim, SessionNamed
    <3>3. CASE ~ (LockScope = "environment" /\ mainPc \in Survives)
      <4>1. UNCHANGED <<session, done>>
        BY <1>3, <3>3 DEF ManagerRestart
      <4>2. mainPc' = "run" => mainPc \in {"settle", "lock", "force", "relock", "run"}
        BY <1>3, <3>1 DEF ManagerRestart
      <4>3. mainPc' \in {"run", "idle"}
        BY <1>3 DEF ManagerRestart
      <4>4. QED
        BY <4>1, <4>2, <4>3 DEF TypeInv, TypeOK, SessionNamed
    <3>4. QED
      BY <3>2, <3>3
  <2>6. UNCHANGED <<locks, epoch>> /\ mainPc' \in {"run", "idle"} /\ books' = NoClaim
        /\ bookEpoch' = 0 /\ beatPc' = "sleep"
    BY <1>3 DEF ManagerRestart
  <2>7. QED
    BY <2>1, <2>2, <2>4, <2>5, <2>6, CoordinatorAssumption DEF TypeInv, TypeOK, BooksNamed
<1>4. ASSUME NEW D \in SUBSET Device \ {{}}, NEW o \in Others, OtherLocks(D, o)
      PROVE  TypeInv'
  <2>1. o \in Item
    BY CoordinatorAssumption
  <2>2. Acquired(locks, D, o, 0) \in Table
    BY <1>0, <2>1, AcquiredTable
  <2>3. locks' \in Table /\ epoch' \in 1..MaxEpoch /\ net' \subseteq net /\ UNCHANGED outside
    BY <1>0, <1>4, <2>2 DEF OtherLocks
  <2>4. QED
    BY <1>0, <2>3, TableStepTyped
<1>5. ASSUME NEW o \in Others, OtherUnlocks(o)
      PROVE  TypeInv'
  <2>1. HeldBy(locks, o) \in SUBSET Device
    BY DEF HeldBy, ActiveLocks
  <2>2. QED
    BY <1>0, <1>5, <2>1, ReleasedShrinks, TableStepTyped DEF OtherUnlocks
<1>6. ASSUME NEW D \in SUBSET Device, OperatorUnlocks(D)
      PROVE  TypeInv'
  BY <1>0, <1>6, ReleasedShrinks, TableStepTyped DEF OperatorUnlocks
<1>7. QED
  BY <1>1, <1>2, <1>3, <1>4, <1>5, <1>6 DEF Surroundings

LEMMA NextTyped == TypeInv /\ [Next]_vars => TypeInv'
<1> SUFFICES ASSUME TypeInv, [Next]_vars PROVE TypeInv'
  OBVIOUS
<1>1. CASE UNCHANGED vars
  BY <1>1 DEF vars, TypeInv, TypeOK, CallsNamed, SessionNamed, BooksNamed
<1>2. CASE Next
  BY <1>2, MainTyped, HeartbeatTyped, NetworkTyped, SurroundingsTyped DEF Next
<1>3. QED
  BY <1>1, <1>2

(* The coordinator, its calls, the requests in flight and the authority's  *)
(* table keep their types: no call goes out, and none is answered, without *)
(* an item and its devices.                                                *)
THEOREM CoordinatorTyped == Spec => []TypeOK
<1>1. Init => TypeInv
  BY InitTyped
<1>2. TypeInv /\ [Next]_vars => TypeInv'
  BY NextTyped
<1>3. TypeInv => TypeOK
  BY DEF TypeInv
<1>4. QED
  BY <1>1, <1>2, <1>3, PTL DEF Spec

-----------------------------------------------------------------------------
(* Locking per plan and per environment.                                   *)

(* The instances the next theorems are about: a lock that never lapses by  *)
(* itself; neither the authority restarts nor an operator unlocks by force, *)
(* both of which take locks from anybody; and a plan whose start failed in *)
(* the worker does not come back under the same uid, for then the late     *)
(* unlock of the first start frees the second.                             *)
SessionLocking ==
    /\ LeaseTTL = 0
    /\ Faults \cap {"restart", "operator"} = {}
    /\ LockScope = "plan" => "reset" \notin Faults

(* The heartbeat sleeps.                                                   *)
BeatSleeps == beatPc = "sleep" /\ call["beat"] = NoCall

(* Every request in flight is for one of the manager's items; an unlock    *)
(* is for an item whose session is over; only an environment is locked by  *)
(* force; and a request that "main" waits for is the one its call says.    *)
RequestsKnown ==
    \A r \in net :
        /\ r.from # "beat" /\ r.item \in Sessions
        /\ r.op \in {"lock", "unlock", "force"}
        /\ r.op = "unlock" => r.item \in done
        /\ r.op = "force" => LockScope = "environment"
        /\ r.from = "main" => /\ call["main"].op # "none" /\ call["main"].reply.code = 0
                              /\ r = RequestOf("main")

(* What main awaits follows from where it stands.                          *)
CallFitsPc ==
    /\ mainPc \in {"idle", "run"} => call["main"] = NoCall
    /\ mainPc \in {"lock", "relock"} => /\ call["main"].op = "lock"
                                        /\ call["main"].item = session.item
                                        /\ call["main"].devices = session.devices
    /\ mainPc \in {"settle", "unlock"} => /\ call["main"].op = "unlock"
                                          /\ call["main"].item \in done
    /\ mainPc = "force" => call["main"].op = "force" /\ call["main"].item = session.item
    /\ mainPc \in {"force", "relock"} => LockScope = "environment"

(* The session being opened or open has an item that was never released;   *)
(* the books show that session, or one that is over.                       *)
SessionIsNew ==
    /\ mainPc \notin {"idle", "unlock"} => session.item \in Sessions \ done
    /\ books.item # NoItem => \/ books.item \in done
                              \/ mainPc = "run" /\ books.item = session.item

(* The lock of a plan is held from the moment the authority has granted it *)
(* till the plan ends; that of an environment while it is on the books.    *)
Locked ==
    \/ mainPc = "run" /\ (LockScope = "plan" \/ books.item = session.item)
    \/ mainPc \in {"lock", "relock"} /\ call["main"].reply.code = 200

GrantedIsHeld == Locked => Holds(session.item, session.devices)

SessionInv ==
    /\ BeatSleeps
    /\ RequestsKnown
    /\ CallFitsPc
    /\ SessionIsNew
    /\ GrantedIsHeld

(* Without leases every entry of the table is a live lock, and an          *)
(* acquisition the authority grants takes no lock from anybody.            *)
LEMMA GrantKeepsLocks ==
    ASSUME SessionLocking, TypeInv, NEW D \in SUBSET Device, NEW i \in Item,
           AcquireCode(locks, D, AllEnabled) = 200
    PROVE  /\ D \subseteq HeldBy(Acquired(locks, D, i, 0), i)
           /\ \A j : HeldBy(locks, j) \subseteq HeldBy(Acquired(locks, D, i, 0), j)
<1>1. locks \in Table /\ 0 \in Nat
  BY DEF TypeInv, TypeOK
<1>2. \A d \in D : ~ Active(locks, d)
  <2>1. \A d \in D : AllEnabled[d] \in {"absent", "missing", "disabled", "active"}
    BY DEF AllEnabled
  <2>2. QED
    BY <2>1, AcquireAdmits
<1>3. /\ \A d \in D : Acquired(locks, D, i, 0)[d] = FreshLock(i, 0)
                      /\ Acquired(locks, D, i, 0)[d] # NoLock
      /\ \A d \in Device \ D : Acquired(locks, D, i, 0)[d] = locks[d]
  BY <1>1, AcquiredTable
<1>4. \A d \in D : Acquired(locks, D, i, 0)[d].item = i
  BY <1>3 DEF FreshLock
<1>5. QED
  BY <1>2, <1>3, <1>4 DEF SessionLocking, HeldBy, ActiveLocks, Active, IsExpired

(* An unlock for one item that is not refused leaves the others' locks.    *)
LEMMA ReleaseKeepsOthers ==
    ASSUME NEW D \in SUBSET Device, NEW i, NEW j, i # j, ~ ReleaseDenied(locks, D, i)
    PROVE  HeldBy(locks, j) \subseteq HeldBy(Released(locks, D), j)
BY DEF HeldBy, ActiveLocks, Active, IsExpired, ReleaseDenied, RenewConflicts, Released

(* A coroutine that has its answer, or awaits none, has no request in      *)
(* flight.                                                                 *)
LEMMA NoneAwaited ==
    ASSUME SessionInv, call["main"].op = "none" \/ call["main"].reply.code # 0
    PROVE  \A r \in net : r.from \notin {"main", "beat"}
BY DEF SessionInv, RequestsKnown

LEMMA NoCallFields == NoCall.op = "none" /\ NoCall.reply.code = 0 /\ NoReply.code = 0
BY DEF NoCall, NoReply

(* A plan starts.                                                          *)
LEMMA OpenKeeps ==
    ASSUME SessionLocking, TypeInv, SessionInv, NEW i \in Sessions,
           NEW D \in SUBSET Device \ {{}}, Open(i, D)
    PROVE  SessionInv'
<1> USE DEF mainOnly
<1>0. "main" \in Coroutines /\ "beat" \in Coroutines \ {"main"}
      /\ {"lock", "unlock"} \subseteq Ops
  BY DEF Coroutines, Ops
<1>1. call["main"] = NoCall /\ \A r \in net : r.from \notin {"main", "beat"}
  BY NoneAwaited, NoCallFields DEF Open, SessionInv, CallFitsPc
<1>2. session' = [devices |-> D, item |-> i] /\ i \in Sessions \ done /\ i \in Item
  BY CoordinatorAssumption DEF Open
<1>3. CASE books.item = NoItem
  <2>1. mainPc' = "lock" /\ Send("main", "lock", D, i)
        /\ UNCHANGED <<done, books, beatPc>>
    BY <1>3 DEF Open
  <2>2. /\ net' = net \cup {[from |-> "main", op |-> "lock", devices |-> D, item |-> i]}
        /\ call'["main"] = [op |-> "lock", devices |-> D, item |-> i, epoch |-> bookEpoch,
                            try |-> 1, reply |-> NoReply]
        /\ call'["beat"] = call["beat"]
    BY <1>0, <1>2, <2>1, SendEffect
  <2>3. RequestsKnown'
    BY <1>1, <1>2, <2>1, <2>2, NoCallFields DEF SessionInv, RequestsKnown, RequestOf
  <2>4. QED
    BY <1>2, <1>3, <2>1, <2>2, <2>3, NoCallFields
    DEF SessionInv, BeatSleeps, CallFitsPc, SessionIsNew, GrantedIsHeld, Locked
<1>4. CASE books.item # NoItem
  <2>1. mainPc' = "settle" /\ Send("main", "unlock", books.devices, books.item)
        /\ UNCHANGED <<done, books, beatPc>>
    BY <1>4 DEF Open
  <2>2. books.item \in done /\ books.item \in Sessions /\ books.item \in Item
        /\ books.devices \in SUBSET Device
    BY <1>4, CoordinatorAssumption
    DEF Open, SessionInv, SessionIsNew, TypeInv, TypeOK, Claim
  <2>3. /\ net' = net \cup {[from |-> "main", op |-> "unlock",
                             devices |-> books.devices, item |-> books.item]}
        /\ call'["main"] = [op |-> "unlock", devices |-> books.devices,
                            item |-> books.item, epoch |-> bookEpoch,
                            try |-> 1, reply |-> NoReply]
        /\ call'["beat"] = call["beat"]
    BY <1>0, <2>1, <2>2, SendEffect
  <2>4. RequestsKnown'
    BY <1>1, <2>1, <2>2, <2>3, NoCallFields DEF SessionInv, RequestsKnown, RequestOf
  <2>5. QED
    BY <1>2, <2>1, <2>2, <2>3, <2>4, NoCallFields
    DEF SessionInv, BeatSleeps, CallFitsPc, SessionIsNew, GrantedIsHeld, Locked
<1>5. QED
  BY <1>3, <1>4

(* A plan ends.                                                            *)
LEMMA FinishKeeps ==
    ASSUME SessionLocking, TypeInv, SessionInv, Finish
    PROVE  SessionInv'
<1>0. "main" \in Coroutines /\ "beat" \in Coroutines \ {"main"} /\ "unlock" \in Ops
  BY DEF Coroutines, Ops
<1>1. call["main"] = NoCall /\ \A r \in net : r.from \notin {"main", "beat"}
  BY NoneAwaited, NoCallFields DEF Finish, CloseSession, SessionInv, CallFitsPc
<1>2. /\ done' = done \cup {session.item} /\ UNCHANGED <<session, books, beatPc>>
      /\ session.item \in Sessions
      /\ books.item # NoItem => books.item \in done'
  BY DEF Finish, CloseSession, SessionInv, SessionIsNew
<1>3. CASE books.devices = {}
  <2>1. mainPc' = "idle" /\ UNCHANGED <<call, net>>
    BY <1>3 DEF Finish, CloseSession
  <2>2. QED
    BY <1>1, <1>2, <2>1
    DEF SessionInv, BeatSleeps, RequestsKnown, CallFitsPc, SessionIsNew, GrantedIsHeld, Locked
<1>4. CASE books.devices # {}
  <2>1. mainPc' = "unlock" /\ Send("main", "unlock", books.devices, books.item)
    BY <1>4 DEF Finish, CloseSession
  <2>2. books.item \in done' /\ books.item \in Item /\ books.item \in Sessions
        /\ books.devices \in SUBSET Device
    BY <1>2, <1>4, CoordinatorAssumption DEF TypeInv, TypeOK, BooksNamed, Claim
  <2>3. /\ net' = net \cup {[from |-> "main", op |-> "unlock",
                             devices |-> books.devices, item |-> books.item]}
        /\ call'["main"] = [op |-> "unlock", devices |-> books.devices,
                            item |-> books.item, epoch |-> bookEpoch,
                            try |-> 1, reply |-> NoReply]
        /\ call'["beat"] = call["beat"]
    BY <1>0, <2>1, <2>2, SendEffect
  <2>4. RequestsKnown'
    BY <1>1, <1>2, <2>1, <2>2, <2>3, NoCallFields DEF SessionInv, RequestsKnown, RequestOf
  <2>5. QED
    BY <1>2, <2>1, <2>2, <2>3, <2>4
    DEF SessionInv, BeatSleeps, CallFitsPc, SessionIsNew, GrantedIsHeld, Locked
<1>5. QED
  BY <1>3, <1>4

(* A call of the main coroutine has returned.                              *)
LEMMA MainKeeps ==
    ASSUME SessionLocking, TypeInv, SessionInv, Main
    PROVE  SessionInv'
<1> USE DEF mainOnly
<1>0. "main" \in Coroutines /\ "beat" \in Coroutines \ {"main"}
      /\ {"lock", "force"} \subseteq Ops /\ Sessions \subseteq Item
  BY CoordinatorAssumption DEF Coroutines, Ops
<1>1. Answered("main") /\ \A r \in net : r.from \notin {"main", "beat"}
  <2>1. Answered("main")
    BY DEF Main, SettleDone, LockDone, ForceDone, UnlockDone
  <2>2. QED
    BY <2>1, NoneAwaited DEF Answered
<1>2. UNCHANGED <<done, beatPc, locks, session>>
  BY DEF Main, SettleDone, LockDone, ForceDone, UnlockDone, authority
<1>3. ASSUME Return("main"), mainPc' \in {"idle", "run"},
             books'.item # NoItem => \/ books'.item \in done
                                     \/ mainPc' = "run" /\ books'.item = session.item,
             mainPc' = "run" => session.item \in Sessions \ done,
             mainPc' = "run" /\ (LockScope = "plan" \/ books'.item = session.item)
                => Holds(session.item, session.devices)
      PROVE  SessionInv'
  <2>1. net' = net /\ call'["main"] = NoCall /\ call'["beat"] = call["beat"]
    BY <1>0, <1>3, ReturnEffect
  <2>2. RequestsKnown'
    BY <1>1, <1>2, <2>1 DEF SessionInv, RequestsKnown
  <2>3. QED
    BY <1>2, <1>3, <2>1, <2>2
    DEF SessionInv, BeatSleeps, CallFitsPc, SessionIsNew, GrantedIsHeld, Locked, Holds
<1>4. ASSUME NEW op \in {"lock", "force"}, Send("main", op, session.devices, session.item),
             session.item \in Sessions \ done,
             \/ op = "lock" /\ mainPc' \in {"lock", "relock"}
             \/ op = "force" /\ mainPc' = "force",
             mainPc' # "lock" => LockScope = "environment",
             books'.item # NoItem => books'.item \in done
      PROVE  SessionInv'
  <2>1. session.devices \in SUBSET Device /\ session.item \in Item /\ op \in Ops
    BY <1>0, <1>4 DEF TypeInv, TypeOK, Claim
  <2>2. /\ net' = net \cup {[from |-> "main", op |-> op,
                             devices |-> session.devices, item |-> session.item]}
        /\ call'["main"] = [op |-> op, devices |-> session.devices,
                            item |-> session.item, epoch |-> bookEpoch,
                            try |-> 1, reply |-> NoReply]
        /\ call'["beat"] = call["beat"]
    BY <1>0, <1>4, <2>1, SendEffect
  <2>3. RequestsKnown'
    BY <1>1, <1>2, <1>4, <2>2, NoCallFields DEF SessionInv, RequestsKnown, RequestOf
  <2>4. CallFitsPc'
    BY <1>2, <1>4, <2>2 DEF CallFitsPc
  <2>5. QED
    BY <1>2, <1>4, <2>2, <2>3, <2>4, NoCallFields
    DEF SessionInv, BeatSleeps, SessionIsNew, GrantedIsHeld, Locked
<1>5. CASE SettleDone
  <2>1. session.item \in Sessions \ done /\ (books.item # NoItem => books.item \in done)
    BY <1>5 DEF SettleDone, SessionInv, SessionIsNew
  <2>2. CASE Code("main") = 200
    BY <1>4, <1>5, <2>1, <2>2 DEF SettleDone, NoClaim
  <2>3. CASE Code("main") # 200
    BY <1>3, <1>5, <2>1, <2>3, CoordinatorAssumption DEF SettleDone, AfterFailure
  <2>4. QED
    BY <2>2, <2>3
<1>6. CASE LockDone
  <2>1. /\ mainPc \in {"lock", "relock"} /\ session.item \in Sessions \ done
        /\ books.item # NoItem => books.item \in done
    BY <1>6 DEF LockDone, SessionInv, SessionIsNew
  <2>2. CASE Code("main") = 200
    <3>1. Holds(session.item, session.devices)
      BY <2>1, <2>2 DEF SessionInv, GrantedIsHeld, Locked, Code
    <3>2. QED
      BY <1>3, <1>6, <2>1, <2>2, <3>1 DEF LockDone
  <2>3. CASE mainPc' = "force"
    BY <1>4, <1>6, <2>1, <2>3 DEF LockDone, AfterFailure
  <2>4. CASE Code("main") # 200 /\ mainPc' # "force"
    <3>1. /\ Return("main") /\ UNCHANGED books
          /\ mainPc' = AfterFailure
      BY <1>6, <2>4 DEF LockDone
    <3>2. QED
      BY <1>3, <2>1, <3>1, CoordinatorAssumption DEF AfterFailure
  <2>5. QED
    BY <2>2, <2>3, <2>4
<1>7. CASE ForceDone
  <2>1. /\ LockScope = "environment" /\ session.item \in Sessions \ done
        /\ books.item # NoItem => books.item \in done
    BY <1>7 DEF ForceDone, SessionInv, CallFitsPc, SessionIsNew
  <2>2. CASE Code("main") = 200
    BY <1>4, <1>7, <2>1, <2>2 DEF ForceDone
  <2>3. CASE Code("main") # 200
    BY <1>3, <1>7, <2>1, <2>3, CoordinatorAssumption DEF ForceDone, AfterFailure
  <2>4. QED
    BY <2>2, <2>3
<1>8. CASE UnlockDone
  <2>1. books.item # NoItem => books.item \in done
    BY <1>8 DEF UnlockDone, SessionInv, SessionIsNew
  <2>2. mainPc' = "idle" /\ Return("main") /\ (books'.item # NoItem => books'.item \in done)
    BY <1>8, <2>1 DEF UnlockDone, NoClaim
  <2>3. QED
    BY <1>2, <1>3, <2>2
<1>9. QED
  BY <1>5, <1>6, <1>7, <1>8 DEF Main

(* The authority serves a request.                                         *)
LEMMA ServeKeeps ==
    ASSUME SessionLocking, NoLateForce, TypeInv, SessionInv, NEW r \in net, Serve(r)
    PROVE  SessionInv'
<1>0. "main" \in Coroutines /\ "beat" \in Coroutines \ {"main"}
  BY DEF Coroutines
<1>1. /\ r \in Request /\ r.devices \in SUBSET Device /\ r.item \in Item
      /\ r.op \in {"lock", "unlock", "force"} /\ r.from # "beat"
      /\ r.op = "unlock" => r.item \in done
      /\ r.op = "force" => mainPc = "force"
  <2>1. r.op = "force" => call["main"].op = "force"
    BY DEF NoLateForce, SessionInv, RequestsKnown, RequestOf
  <2>2. call["main"].op = "force" => mainPc = "force"
    BY NoCallFields DEF TypeInv, TypeOK, SessionInv, CallFitsPc
  <2>3. QED
    BY <2>1, <2>2 DEF TypeInv, TypeOK, Request, SessionInv, RequestsKnown
<1>2. net' = net \ {r} /\ locks' = Effect(r)
      /\ UNCHANGED <<mainPc, session, done, books, beatPc>>
  BY DEF Serve
<1>3. ASSUME NEW i, i \notin done, mainPc # "force"
      PROVE  HeldBy(locks, i) \subseteq HeldBy(locks', i)
  <2>1. CASE CodeOf(r) # 200
    BY <1>2, <2>1 DEF Effect
  <2>2. CASE CodeOf(r) = 200 /\ r.op = "lock"
    <3>1. AcquireCode(locks, r.devices, AllEnabled) = 200
          /\ locks' = Acquired(locks, r.devices, r.item, 0)
      BY <1>2, <2>2 DEF Effect, CodeOf
    <3>2. QED
      BY <1>1, <3>1, GrantKeepsLocks
  <2>3. CASE CodeOf(r) = 200 /\ r.op = "unlock"
    <3>1. ~ ReleaseDenied(locks, r.devices, r.item)
          /\ locks' = Released(locks, r.devices)
      BY <1>2, <2>3 DEF Effect, CodeOf
    <3>2. r.item # i
      BY <1>1, <1>3, <2>3
    <3>3. QED
      BY <1>1, <3>1, <3>2, ReleaseKeepsOthers
  <2>4. QED
    BY <1>1, <1>3, <2>1, <2>2, <2>3
<1>4. Holds(session.item, session.devices) /\ session.item \notin done /\ mainPc # "force"
         => Holds(session.item, session.devices)'
  BY <1>2, <1>3 DEF Holds
<1>5. CASE UNCHANGED call
  <2>1. RequestsKnown'
    BY <1>2, <1>5 DEF SessionInv, RequestsKnown, RequestOf
  <2>2. GrantedIsHeld'
    BY <1>2, <1>4, <1>5 DEF SessionInv, GrantedIsHeld, Locked, SessionIsNew
  <2>3. QED
    BY <1>2, <1>5, <2>1, <2>2 DEF SessionInv, BeatSleeps, CallFitsPc, SessionIsNew
<1>6. ASSUME r.from = "main", NEW code \in AnswersOf(r), NEW intact,
             call' = [call EXCEPT !["main"].reply =
                        [code |-> code, epoch |-> epoch, intact |-> intact]]
      PROVE  SessionInv'
  <2>1. /\ call["main"] \in Call /\ call["main"].op # "none" /\ r = RequestOf("main")
        /\ \A q \in net' : q.from # "main"
    BY <1>0, <1>2, <1>6 DEF TypeInv, TypeOK, SessionInv, RequestsKnown
  <2>2. /\ call'["main"].op = call["main"].op /\ call'["main"].item = call["main"].item
        /\ call'["main"].devices = call["main"].devices
        /\ call'["main"].reply.code = code /\ call'["beat"] = call["beat"]
    BY <1>0, <1>6, <2>1 DEF TypeInv, TypeOK, Call
  <2>3. RequestsKnown'
    BY <1>2, <2>1 DEF SessionInv, RequestsKnown
  <2>4. mainPc \notin {"idle", "run"}
    BY <2>1, NoCallFields DEF SessionInv, CallFitsPc
  <2>5. GrantedIsHeld'
    <3>1. SUFFICES ASSUME mainPc \in {"lock", "relock"}, code = 200
                   PROVE  Holds(session.item, session.devices)'
      BY <1>2, <2>2, <2>4 DEF GrantedIsHeld, Locked
    <3>2. r.op = "lock" /\ r.item = session.item /\ r.devices = session.devices
      BY <2>1, <3>1 DEF SessionInv, CallFitsPc, RequestOf
    <3>3. CodeOf(r) = 200
      BY <1>6, <3>1 DEF AnswersOf
    <3>4. AcquireCode(locks, r.devices, AllEnabled) = 200
          /\ locks' = Acquired(locks, r.devices, r.item, 0)
      BY <1>2, <3>2, <3>3 DEF Effect, CodeOf
    <3>5. QED
      BY <1>1, <1>2, <3>2, <3>4, GrantKeepsLocks DEF Holds
  <2>6. QED
    BY <1>2, <2>2, <2>3, <2>4, <2>5
    DEF SessionInv, BeatSleeps, CallFitsPc, SessionIsNew
<1>7. QED
  BY <1>1, <1>5, <1>6 DEF Serve, Coroutines

(* A wait is over without an answer.                                       *)
LEMMA TimeoutKeeps ==
    ASSUME SessionLocking, TypeInv, SessionInv, NEW c \in Coroutines, Timeout(c)
    PROVE  SessionInv'
<1>0. "main" \in Coroutines /\ "beat" \in Coroutines \ {"main"}
  BY DEF Coroutines
<1>1. c = "main" /\ call["main"].op # "none" /\ call["main"].reply.code = 0
  BY NoCallFields DEF Timeout, SessionInv, BeatSleeps, Coroutines
<1>2. UNCHANGED <<locks, mainPc, session, done, books, beatPc>>
  BY DEF Timeout, authority
<1>3. mainPc \in {"settle", "lock", "force", "relock", "unlock"}
  BY <1>1, NoCallFields DEF SessionInv, CallFitsPc, TypeInv, TypeOK
<1>4. /\ RequestOf("main").from = "main" /\ RequestOf("main").item \in Sessions
      /\ RequestOf("main").op \in {"lock", "unlock", "force"}
      /\ RequestOf("main").op = "unlock" => RequestOf("main").item \in done
      /\ RequestOf("main").op = "force" => LockScope = "environment"
  BY <1>3 DEF SessionInv, CallFitsPc, SessionIsNew, RequestOf, TypeInv, TypeOK
<1>5. PICK rest \in {net \ {RequestOf("main")},
                     (net \ {RequestOf("main")})
                        \cup {[RequestOf("main") EXCEPT !.from = "nobody"]}} :
         \/ /\ call' = [call EXCEPT !["main"].try = @ + 1]
            /\ net' = rest \cup {RequestOf("main")}
         \/ /\ call' = [call EXCEPT !["main"].reply = Unreachable]
            /\ net' = rest
  BY <1>1 DEF Timeout
<1>6. /\ call'["main"].op = call["main"].op /\ call'["main"].item = call["main"].item
      /\ call'["main"].devices = call["main"].devices
      /\ call'["beat"] = call["beat"]
      /\ call'["main"].reply.code # 200
  BY <1>0, <1>1, <1>5 DEF TypeInv, TypeOK, Call, Unreachable
<1>7. \A q \in rest : /\ q.from \notin {"main", "beat"} /\ q.item \in Sessions
                      /\ q.op \in {"lock", "unlock", "force"}
                      /\ q.op = "unlock" => q.item \in done
                      /\ q.op = "force" => LockScope = "environment"
  <2>1. LET q == [RequestOf("main") EXCEPT !.from = "nobody"]
        IN  /\ q.from = "nobody" /\ q.item = RequestOf("main").item
            /\ q.op = RequestOf("main").op
    BY DEF RequestOf
  <2>2. \A q \in net \ {RequestOf("main")} : q.from \notin {"main", "beat"}
    BY DEF SessionInv, RequestsKnown
  <2>3. QED
    BY <1>4, <2>1, <2>2 DEF SessionInv, RequestsKnown
<1>8. RequestsKnown'
  <2>1. CASE net' = rest
    BY <1>2, <1>7, <2>1 DEF RequestsKnown
  <2>2. CASE /\ call' = [call EXCEPT !["main"].try = @ + 1]
             /\ net' = rest \cup {RequestOf("main")}
    <3>1. call'["main"].reply = call["main"].reply
      BY <1>0, <2>2 DEF TypeInv, TypeOK, Call
    <3>2. RequestOf("main")' = RequestOf("main")
      BY <1>6 DEF RequestOf
    <3>3. QED
      BY <1>1, <1>2, <1>4, <1>6, <1>7, <2>2, <3>1, <3>2 DEF RequestsKnown
  <2>3. QED
    BY <1>5, <2>1, <2>2
<1>9. QED
  BY <1>2, <1>3, <1>6, <1>8
  DEF SessionInv, BeatSleeps, CallFitsPc, SessionIsNew, GrantedIsHeld, Locked, Holds

(* The manager restarts, or somebody else uses the authority.              *)
LEMMA SurroundingsKeep ==
    ASSUME SessionLocking, TypeInv, SessionInv, Surroundings
    PROVE  SessionInv'
<1> USE DEF outside
<1>1. ASSUME UNCHANGED <<net, outside>>,
             HeldBy(locks, session.item) \subseteq HeldBy(locks', session.item)
                \/ session.item \notin Sessions
      PROVE  SessionInv'
  BY <1>1
  DEF SessionInv, BeatSleeps, RequestsKnown, RequestOf, CallFitsPc, SessionIsNew,
      GrantedIsHeld, Locked, Holds
<1>2. CASE Tick
  <2>1. \A d \in Device : locks[d] = NoLock \/ locks[d].left = 0
    BY DEF TypeInv, TypeOK, Table, Lock, SessionLocking
  <2>2. locks = [d \in Device |-> locks[d]]
    BY DEF TypeInv, TypeOK, Table
  <2>3. QED
    BY <1>2, <2>1, <2>2 DEF Tick, Aged
<1>3. CASE AuthorityRestart
  BY <1>3 DEF AuthorityRestart, SessionLocking
<1>4. CASE ManagerRestart
  <2>1. UNCHANGED locks /\ books' = NoClaim /\ beatPc' = "sleep"
        /\ call' = [x \in Coroutines |-> NoCall]
        /\ net' = {[r EXCEPT !.from = "nobody"] : r \in net}
        /\ mainPc' \in {"idle", "run"}
    BY <1>4 DEF ManagerRestart, authority
  <2>2. call'["main"] = NoCall /\ call'["beat"] = NoCall
    BY <2>1 DEF Coroutines
  <2>3. /\ done \subseteq done'
        /\ mainPc' = "run" => session'.item \in Sessions \ done'
        /\ LockScope = "plan" => UNCHANGED session /\ (mainPc' = "run" => mainPc = "run")
    <3>1. CASE LockScope = "environment" /\ mainPc \in Survives
      <4>1. PICK i \in Sessions \ (done \cup {session.item}) :
               /\ session' = [session EXCEPT !.item = i]
               /\ done' = done \cup {session.item}
        BY <1>4, <3>1 DEF ManagerRestart
      <4>2. QED
        BY <3>1, <4>1 DEF TypeInv, TypeOK, Claim
    <3>2. CASE ~ (LockScope = "environment" /\ mainPc \in Survives)
      <4>1. UNCHANGED <<session, done>> /\ mainPc' = IF mainPc \in Survives THEN "run" ELSE "idle"
        BY <1>4, <3>2 DEF ManagerRestart
      <4>2. mainPc' = "run" => LockScope = "plan" /\ mainPc = "run"
        BY <3>2, <4>1, CoordinatorAssumption DEF Survives
      <4>3. QED
        BY <4>1, <4>2 DEF SessionInv, SessionIsNew
    <3>3. QED
      BY <3>1, <3>2
  <2>4. RequestsKnown'
    <3>1. \A r \in net : LET q == [r EXCEPT !.from = "nobody"]
                         IN  q.from = "nobody" /\ q.item = r.item /\ q.op = r.op
      BY DEF TypeInv, TypeOK, Request
    <3>2. ASSUME NEW q \in net'
          PROVE  /\ q.from = "nobody" /\ q.item \in Sessions
                 /\ q.op \in {"lock", "unlock", "force"}
                 /\ q.op = "unlock" => q.item \in done'
                 /\ q.op = "force" => LockScope = "environment"
      <4>1. PICK r \in net : q = [r EXCEPT !.from = "nobody"]
        BY <2>1
      <4>2. q.from = "nobody" /\ q.item = r.item /\ q.op = r.op
        BY <3>1, <4>1
      <4>3. QED
        BY <2>3, <4>2 DEF SessionInv, RequestsKnown
    <3>3. QED
      BY <3>2 DEF RequestsKnown
  <2>5. books'.item = NoItem /\ (mainPc' = "run" => session'.item # NoItem)
    BY <2>1, <2>3, CoordinatorAssumption DEF NoClaim
  <2>6. GrantedIsHeld'
    BY <2>1, <2>3, <2>5 DEF SessionInv, GrantedIsHeld, Locked, Holds
  <2>7. QED
    BY <2>1, <2>2, <2>3, <2>4, <2>5, <2>6
    DEF SessionInv, BeatSleeps, CallFitsPc, SessionIsNew
<1>5. ASSUME NEW D \in SUBSET Device \ {{}}, NEW o \in Others, OtherLocks(D, o)
      PROVE  SessionInv'
  <2>1. o \in Item /\ AcquireCode(locks, D, AllEnabled) = 200
        /\ locks' = Acquired(locks, D, o, 0)
    BY <1>5, CoordinatorAssumption DEF OtherLocks
  <2>2. HeldBy(locks, session.item) \subseteq HeldBy(locks', session.item)
    BY <2>1, GrantKeepsLocks
  <2>3. QED
    BY <1>1, <1>5, <2>2 DEF OtherLocks
<1>6. ASSUME NEW o \in Others, OtherUnlocks(o)
      PROVE  SessionInv'
  <2>1. HeldBy(locks, o) \in SUBSET Device /\ ~ ReleaseDenied(locks, HeldBy(locks, o), o)
    BY DEF HeldBy, ActiveLocks, ReleaseDenied, RenewConflicts
  <2>2. session.item \in Sessions => session.item # o
    BY CoordinatorAssumption
  <2>3. locks' = Released(locks, HeldBy(locks, o)) /\ UNCHANGED <<net, outside>>
    BY <1>6 DEF OtherUnlocks
  <2>4. session.item \in Sessions
           => HeldBy(locks, session.item) \subseteq HeldBy(locks', session.item)
    BY <2>1, <2>2, <2>3, ReleaseKeepsOthers
  <2>5. QED
    BY <1>1, <2>3, <2>4
<1>7. ASSUME NEW D \in SUBSET Device, OperatorUnlocks(D)
      PROVE  SessionInv'
  BY <1>7 DEF OperatorUnlocks, SessionLocking
<1>8. QED
  BY <1>2, <1>3, <1>4, <1>5, <1>6, <1>7 DEF Surroundings

(* In environment scope the worker's lists have changed.                   *)
LEMMA SyncAgainKeeps ==
    ASSUME SessionLocking, TypeInv, SessionInv, SyncAgain
    PROVE  SessionInv'
<1> USE DEF mainOnly
<1>0. "main" \in Coroutines /\ "beat" \in Coroutines \ {"main"}
      /\ {"lock", "unlock"} \subseteq Ops /\ Sessions \subseteq Item
  BY CoordinatorAssumption DEF Coroutines, Ops
<1>1. call["main"] = NoCall /\ \A r \in net : r.from \notin {"main", "beat"}
  BY NoneAwaited, NoCallFields DEF SyncAgain, SessionInv, CallFitsPc
<1>2. /\ UNCHANGED <<done, books, beatPc, session>>
      /\ session.item \in Sessions \ done /\ session.item \in Item
      /\ session.devices \in SUBSET Device
  BY <1>0 DEF SyncAgain, SessionInv, SessionIsNew, TypeInv, TypeOK, Claim
<1>3. CASE books.item = NoItem
  <2>1. mainPc' = "lock" /\ Send("main", "lock", session.devices, session.item)
    BY <1>3 DEF SyncAgain
  <2>2. /\ net' = net \cup {[from |-> "main", op |-> "lock",
                             devices |-> session.devices, item |-> session.item]}
        /\ call'["main"] = [op |-> "lock", devices |-> session.devices,
                            item |-> session.item, epoch |-> bookEpoch,
                            try |-> 1, reply |-> NoReply]
        /\ call'["beat"] = call["beat"]
    BY <1>0, <1>2, <2>1, SendEffect, SMTT(20)
  <2>3. RequestsKnown'
    BY <1>1, <1>2, <2>2, NoCallFields DEF SessionInv, RequestsKnown, RequestOf
  <2>4. QED
    BY <1>2, <1>3, <2>1, <2>2, <2>3, NoCallFields
    DEF SessionInv, BeatSleeps, CallFitsPc, SessionIsNew, GrantedIsHeld, Locked
<1>4. CASE books.item # NoItem
  <2>1. mainPc' = "settle" /\ Send("main", "unlock", books.devices, books.item)
    BY <1>4 DEF SyncAgain
  <2>2. books.item \in done /\ books.item \in Sessions /\ books.item \in Item
        /\ books.devices \in SUBSET Device
    BY <1>0, <1>4 DEF SyncAgain, SessionInv, SessionIsNew, TypeInv, TypeOK, Claim
  <2>3. /\ net' = net \cup {[from |-> "main", op |-> "unlock",
                             devices |-> books.devices, item |-> books.item]}
        /\ call'["main"] = [op |-> "unlock", devices |-> books.devices,
                            item |-> books.item, epoch |-> bookEpoch,
                            try |-> 1, reply |-> NoReply]
        /\ call'["beat"] = call["beat"]
    BY <1>0, <2>1, <2>2, SendEffect
  <2>4. RequestsKnown'
    BY <1>1, <1>2, <2>2, <2>3, NoCallFields DEF SessionInv, RequestsKnown, RequestOf
  <2>5. QED
    BY <1>2, <2>1, <2>2, <2>3, <2>4, NoCallFields
    DEF SessionInv, BeatSleeps, CallFitsPc, SessionIsNew, GrantedIsHeld, Locked
<1>5. QED
  BY <1>3, <1>4

LEMMA InitSession == Init => SessionInv
<1> SUFFICES ASSUME Init PROVE SessionInv
  OBVIOUS
<1>1. call["main"] = NoCall /\ call["beat"] = NoCall
  BY DEF Init, Coroutines
<1>2. QED
  BY <1>1
  DEF Init, SessionInv, BeatSleeps, RequestsKnown, CallFitsPc, SessionIsNew, GrantedIsHeld,
      Locked, NoClaim

LEMMA NextKeeps ==
    ASSUME SessionLocking, TypeInv, SessionInv, [NoLateForce /\ Next]_vars
    PROVE  SessionInv'
<1>1. CASE UNCHANGED vars
  BY <1>1 DEF vars, SessionInv, BeatSleeps, RequestsKnown, RequestOf, CallFitsPc,
              SessionIsNew, GrantedIsHeld, Locked, Holds
<1>2. CASE Opening
  BY <1>2, OpenKeeps DEF Opening
<1>3. CASE SyncAgain
  BY <1>3, SyncAgainKeeps
<1>4. CASE Finish
  BY <1>4, FinishKeeps
<1>5. CASE ResetFails
  BY <1>5 DEF ResetFails, SessionLocking
<1>6. CASE Main
  BY <1>6, MainKeeps
<1>7. CASE Heartbeat
  BY <1>7 DEF Heartbeat, Beat, RenewDone, ReacquireDone, SessionLocking, SessionInv, BeatSleeps
<1>8. CASE NoLateForce /\ Network
  BY <1>8, ServeKeeps, TimeoutKeeps DEF Network
<1>9. CASE Surroundings
  BY <1>9, SurroundingsKeep
<1>10. QED
  BY <1>1, <1>2, <1>3, <1>4, <1>5, <1>6, <1>7, <1>8, <1>9 DEF Next

(* While a plan runs the authority holds its devices for it, however many  *)
(* plans, devices, other owners and attempts there are: no late, repeated  *)
(* or lost request, failed audit write, restart of the manager or other    *)
(* client takes them away.  A late unlock is for an item whose session is  *)
(* over, and no uid is used again, so the authority refuses it when it     *)
(* names a device of the running plan.                                     *)
THEOREM PlanHoldsLocks ==
    ASSUME SessionLocking, LockScope = "plan"
    PROVE  Spec => []RunningPlanHoldsLocks
<1>1. Init => TypeInv /\ SessionInv
  BY InitTyped, InitSession
<1>2. TypeInv /\ [Next]_vars => TypeInv'
  BY NextTyped
<1>3. SessionInv => NoLateForce
  BY DEF SessionInv, RequestsKnown, NoLateForce
<1>4. TypeInv /\ SessionInv /\ [Next]_vars => SessionInv'
  BY <1>3, NextKeeps
<1>5. SessionInv => RunningPlanHoldsLocks
  BY DEF SessionInv, GrantedIsHeld, Locked, RunningPlanHoldsLocks
<1>6. QED
  BY <1>1, <1>2, <1>4, <1>5, PTL DEF Spec

(* An environment whose lock is on the books is locked at the authority,   *)
(* however often the manager restarts over it, whatever locks its earlier  *)
(* incarnations and other owners left and whatever calls are lost, late or *)
(* repeated; for as long as no force-unlock is late, which is what it takes *)
(* to make the books untrue.                                               *)
THEOREM EnvironmentLocked ==
    ASSUME SessionLocking
    PROVE  Init /\ [][NoLateForce /\ Next]_vars => []EnvironmentBooksTrue
<1>1. Init => TypeInv /\ SessionInv
  BY InitTyped, InitSession
<1>2. TypeInv /\ SessionInv /\ [NoLateForce /\ Next]_vars => TypeInv' /\ SessionInv'
  BY NextTyped, NextKeeps
<1>3. SessionInv => EnvironmentBooksTrue
  BY DEF SessionInv, GrantedIsHeld, Locked, EnvironmentBooksTrue
<1>4. QED
  BY <1>1, <1>2, <1>3, PTL

-----------------------------------------------------------------------------
(* The books.                                                              *)

(* The instances in which the manager hears of every lock it gets: leases  *)
(* are off, no reply is lost and no audit write fails, and the manager     *)
(* itself stays up.  The authority may restart, an operator may unlock by  *)
(* force, and a plan may fail to start and come back under the same uid.   *)
Bookkeeping == LeaseTTL = 0 /\ Faults \cap {"timeout", "audit", "manager"} = {}

(* What is in flight is what "main" waits for.                             *)
OneRequest ==
    \A r \in net : /\ call["main"].op # "none" /\ call["main"].reply.code = 0
                   /\ r = RequestOf("main")

(* A lock is asked for with empty books, and given back as they say.       *)
CallFitsBooks ==
    /\ mainPc \in {"idle", "run"} => call["main"] = NoCall
    /\ mainPc \in {"lock", "force", "relock"} =>
          /\ call["main"].op = IF mainPc = "force" THEN "force" ELSE "lock"
          /\ call["main"].item = session.item
          /\ call["main"].devices = session.devices
          /\ books.item = NoItem
    /\ mainPc \in {"settle", "unlock"} =>
          /\ call["main"].op = "unlock"
          /\ call["main"].item = books.item
          /\ call["main"].devices = books.devices

(* A session that holds devices has them on the books, until an unlock has *)
(* been served; or the reply that grants them is on its way.               *)
Booked ==
    \A i \in Sessions :
        HeldBy(locks, i) # {} =>
            \/ /\ books.item = i /\ HeldBy(locks, i) \subseteq books.devices
               /\ mainPc \in {"settle", "unlock"} => call["main"].reply.code # 200
            \/ /\ mainPc \in {"lock", "relock"} /\ call["main"].reply.code = 200
               /\ session.item = i /\ HeldBy(locks, i) \subseteq session.devices

BookInv == BeatSleeps /\ OneRequest /\ CallFitsBooks /\ Booked

LEMMA ShrinkingHolds ==
    ASSUME NEW t, NEW u, Shrinks(t, u), NEW i
    PROVE  HeldBy(u, i) \subseteq HeldBy(t, i)
BY DEF Shrinks, HeldBy, ActiveLocks, Active

(* Nobody holds more after an acquisition but who acquires.                *)
LEMMA AcquiredHolds ==
    ASSUME NEW t \in Table, NEW D \in SUBSET Device, NEW j \in Item, NEW i \in Item
    PROVE  HeldBy(Acquired(t, D, j, 0), i)
              \subseteq HeldBy(t, i) \cup (IF i = j THEN D ELSE {})
<1>1. /\ \A d \in D : Acquired(t, D, j, 0)[d] = FreshLock(j, 0)
      /\ \A d \in Device \ D : Acquired(t, D, j, 0)[d] = t[d]
  BY DEF Acquired
<1>2. FreshLock(j, 0).item = j
  BY DEF FreshLock
<1>3. QED
  BY <1>1, <1>2 DEF HeldBy, ActiveLocks, Active

(* A step of the others, that leaves no session with more than it held.    *)
LEMMA TableStepBooked ==
    ASSUME BookInv, UNCHANGED outside, net' \subseteq net,
           \A i \in Sessions : HeldBy(locks', i) \subseteq HeldBy(locks, i)
    PROVE  BookInv'
BY DEF BookInv, BeatSleeps, OneRequest, CallFitsBooks, Booked, RequestOf, outside

(* A call goes out: nothing else is in flight, and nobody's locks change.  *)
LEMMA SendBooked ==
    ASSUME TypeInv, BookInv, NEW op \in Ops, NEW D \in SUBSET Device, NEW i \in Item,
           \A r \in net : r # RequestOf("main"),
           Send("main", op, D, i), UNCHANGED <<locks, beatPc>>,
           \/ /\ mainPc' \in {"lock", "force", "relock"}
              /\ op = IF mainPc' = "force" THEN "force" ELSE "lock"
              /\ i = session'.item /\ D = session'.devices /\ books'.item = NoItem
              /\ \A j \in Sessions : HeldBy(locks, j) = {}
           \/ /\ mainPc' \in {"settle", "unlock"} /\ op = "unlock"
              /\ i = books.item /\ D = books.devices /\ UNCHANGED books
              /\ mainPc \in {"idle", "run"}
    PROVE  BookInv'
<1>0. "main" \in Coroutines /\ "beat" \in Coroutines \ {"main"}
  BY DEF Coroutines
<1>1. /\ net' = net \cup {[from |-> "main", op |-> op, devices |-> D, item |-> i]}
      /\ call'["main"] = [op |-> op, devices |-> D, item |-> i, epoch |-> bookEpoch,
                          try |-> 1, reply |-> NoReply]
      /\ call'["beat"] = call["beat"]
  BY <1>0, SendEffect
<1>2. OneRequest'
  BY <1>1, NoCallFields DEF BookInv, OneRequest, RequestOf, Ops
<1>3. CallFitsBooks'
  BY <1>1 DEF CallFitsBooks
<1>4. Booked'
  BY <1>1, NoCallFields DEF BookInv, Booked
<1>5. QED
  BY <1>1, <1>2, <1>3, <1>4 DEF BookInv, BeatSleeps

(* A call returns to a coroutine that goes to sleep.                       *)
LEMMA ReturnBooked ==
    ASSUME TypeInv, BookInv, Return("main"), UNCHANGED <<locks, beatPc>>,
           \A r \in net : r # RequestOf("main"),
           mainPc' \in {"idle", "run"},
           \A i \in Sessions : HeldBy(locks, i) # {}
                => books'.item = i /\ HeldBy(locks, i) \subseteq books'.devices
    PROVE  BookInv'
<1>0. "main" \in Coroutines /\ "beat" \in Coroutines \ {"main"}
  BY DEF Coroutines
<1>1. net' = net /\ call'["main"] = NoCall /\ call'["beat"] = call["beat"]
  BY <1>0, ReturnEffect
<1>2. net' = {}
  BY <1>1 DEF BookInv, OneRequest
<1>3. QED
  BY <1>1, <1>2 DEF BookInv, BeatSleeps, OneRequest, CallFitsBooks, Booked

(* A session opens, syncs again or closes.                                 *)
LEMMA SessionBooked ==
    ASSUME TypeInv, BookInv, Opening \/ SyncAgain \/ Finish \/ ResetFails
    PROVE  BookInv'
<1> USE DEF mainOnly, authority
<1>0. {"lock", "unlock"} \subseteq Ops /\ Sessions \subseteq Item /\ NoItem \notin Item
  BY CoordinatorAssumption DEF Ops
<1>1. ASSUME mainPc \in {"idle", "run"}
      PROVE  /\ \A r \in net : r # RequestOf("main")
             /\ \A i \in Sessions : HeldBy(locks, i) # {}
                  => books.item = i /\ HeldBy(locks, i) \subseteq books.devices
  BY <1>1, NoCallFields DEF BookInv, OneRequest, CallFitsBooks, Booked
<1>2. /\ books.devices \in SUBSET Device /\ session.devices \in SUBSET Device
      /\ books.item # NoItem => books.item \in Item
      /\ books.devices # {} => books.item # NoItem
  BY DEF TypeInv, TypeOK, BooksNamed, Claim
<1>3. ASSUME NEW i \in Sessions, NEW D \in SUBSET Device \ {{}}, Open(i, D)
      PROVE  BookInv'
  <2>1. CASE books.item # NoItem
    BY <1>0, <1>1, <1>2, <1>3, <2>1, SendBooked DEF Open
  <2>2. CASE books.item = NoItem
    <3>1. /\ Send("main", "lock", D, i) /\ mainPc' = "lock"
          /\ UNCHANGED <<locks, beatPc, books>>
          /\ session'.devices = D /\ session'.item = i
      BY <1>3, <2>2 DEF Open
    <3>2. mainPc = "idle" /\ D \in SUBSET Device /\ i \in Item
      BY <1>0, <1>3 DEF Open
    <3>3. \A j \in Sessions : HeldBy(locks, j) = {}
      BY <1>0, <1>1, <2>2, <3>2
    <3>4. QED
      BY <1>0, <1>1, <2>2, <3>1, <3>2, <3>3, SendBooked
  <2>3. QED
    BY <2>1, <2>2
<1>4. ASSUME SyncAgain
      PROVE  BookInv'
  <2>1. mainPc = "run" /\ UNCHANGED <<locks, beatPc, books, session>>
    BY <1>4 DEF SyncAgain
  <2>2. CASE books.item # NoItem
    BY <1>0, <1>1, <1>2, <1>4, <2>1, <2>2, SendBooked DEF SyncAgain
  <2>3. CASE books.item = NoItem
    <3>1. Send("main", "lock", session.devices, session.item) /\ mainPc' = "lock"
      BY <1>4, <2>3 DEF SyncAgain
    <3>2. \A j \in Sessions : HeldBy(locks, j) = {}
      BY <1>0, <1>1, <2>1, <2>3
    <3>3. session.item \in Item
      BY <1>0, <2>1 DEF TypeInv, SessionNamed
    <3>4. QED
      BY <1>0, <1>1, <1>2, <2>1, <2>3, <3>1, <3>2, <3>3, SendBooked
  <2>4. QED
    BY <2>2, <2>3
<1>5. ASSUME CloseSession
      PROVE  BookInv'
  <2>1. mainPc = "run" /\ UNCHANGED <<locks, beatPc, books, session>>
    BY <1>5 DEF CloseSession
  <2>2. CASE books.devices # {}
    BY <1>0, <1>1, <1>2, <1>5, <2>1, <2>2, SendBooked DEF CloseSession
  <2>3. CASE books.devices = {}
    <3>1. mainPc' = "idle" /\ UNCHANGED <<call, net>>
      BY <1>5, <2>3 DEF CloseSession
    <3>2. QED
      BY <2>1, <3>1 DEF BookInv, BeatSleeps, OneRequest, CallFitsBooks, Booked, RequestOf
  <2>4. QED
    BY <2>2, <2>3
<1>6. QED
  BY <1>3, <1>4, <1>5 DEF Opening, Finish, ResetFails

(* A call of the main coroutine has returned.                              *)
LEMMA MainBooked ==
    ASSUME TypeInv, BookInv, Main
    PROVE  BookInv'
<1> USE DEF mainOnly, authority
<1>0. {"lock", "force"} \subseteq Ops /\ Sessions \subseteq Item /\ NoItem \notin Item
  BY CoordinatorAssumption DEF Ops
<1>1. /\ Answered("main") /\ UNCHANGED <<locks, beatPc, session>>
      /\ mainPc \in {"settle", "lock", "relock", "force", "unlock"}
  BY DEF Main, SettleDone, LockDone, ForceDone, UnlockDone
<1>2. \A r \in net : r # RequestOf("main")
  BY <1>1 DEF Answered, BookInv, OneRequest
<1>3. ASSUME Send("main", "lock", session.devices, session.item), mainPc' \in {"lock", "relock"},
             books'.item = NoItem, \A j \in Sessions : HeldBy(locks, j) = {},
             mainPc # "unlock"
      PROVE  BookInv'
  <2>1. session.item \in Item /\ session.devices \in SUBSET Device
    BY <1>0, <1>1, <1>3 DEF TypeInv, TypeOK, SessionNamed, Claim
  <2>2. QED
    BY <1>0, <1>1, <1>2, <1>3, <2>1, SendBooked
<1>4. AfterFailure \in {"idle", "run"}
  BY DEF AfterFailure
<1>5. CASE SettleDone
  <2>1. CASE Code("main") = 200
    <3>1. \A j \in Sessions : HeldBy(locks, j) = {}
      BY <1>5, <2>1 DEF SettleDone, BookInv, Booked, Code
    <3>2. QED
      BY <1>3, <1>5, <2>1, <3>1 DEF SettleDone, NoClaim
  <2>2. CASE Code("main") # 200
    <3>1. \A i \in Sessions : HeldBy(locks, i) # {}
             => books.item = i /\ HeldBy(locks, i) \subseteq books.devices
      BY <1>5 DEF SettleDone, BookInv, Booked
    <3>2. QED
      BY <1>1, <1>2, <1>4, <1>5, <2>2, <3>1, ReturnBooked DEF SettleDone
  <2>3. QED
    BY <2>1, <2>2
<1>6. CASE LockDone
  <2>1. books.item = NoItem /\ mainPc \in {"lock", "relock"}
    BY <1>6 DEF LockDone, BookInv, CallFitsBooks
  <2>2. CASE Code("main") = 200
    <3>1. mainPc' = "run" /\ books' = session /\ Return("main")
      BY <1>6, <2>2 DEF LockDone
    <3>2. \A i \in Sessions : HeldBy(locks, i) # {}
             => session.item = i /\ HeldBy(locks, i) \subseteq session.devices
      BY <1>0, <2>1 DEF BookInv, Booked
    <3>3. QED
      BY <1>1, <1>2, <3>1, <3>2, ReturnBooked
  <2>3. CASE Code("main") # 200
    <3>1. \A j \in Sessions : HeldBy(locks, j) = {}
      BY <1>0, <2>1, <2>3 DEF BookInv, Booked, Code
    <3>2. CASE mainPc' = "force"
      <4>1. Send("main", "force", session.devices, session.item) /\ UNCHANGED books
        BY <1>6, <2>3, <3>2 DEF LockDone, AfterFailure
      <4>2. session.item \in Item /\ session.devices \in SUBSET Device
        BY <1>0, <2>1 DEF TypeInv, TypeOK, SessionNamed, Claim
      <4>3. QED
        BY <1>0, <1>1, <1>2, <2>1, <3>1, <3>2, <4>1, <4>2, SendBooked
    <3>3. CASE mainPc' # "force"
      BY <1>1, <1>2, <1>4, <1>6, <2>3, <3>1, <3>3, ReturnBooked DEF LockDone
    <3>4. QED
      BY <3>2, <3>3
  <2>4. QED
    BY <2>2, <2>3
<1>7. CASE ForceDone
  <2>1. books.item = NoItem /\ UNCHANGED books /\ \A j \in Sessions : HeldBy(locks, j) = {}
    BY <1>0, <1>7 DEF ForceDone, BookInv, CallFitsBooks, Booked
  <2>2. CASE Code("main") = 200
    BY <1>3, <1>7, <2>1, <2>2 DEF ForceDone
  <2>3. CASE Code("main") # 200
    BY <1>1, <1>2, <1>4, <1>7, <2>1, <2>3, ReturnBooked DEF ForceDone
  <2>4. QED
    BY <2>2, <2>3
<1>8. CASE UnlockDone
  <2>1. \A i \in Sessions : HeldBy(locks, i) # {}
           => books'.item = i /\ HeldBy(locks, i) \subseteq books'.devices
    BY <1>8 DEF UnlockDone, BookInv, Booked, Code
  <2>2. mainPc' = "idle" /\ Return("main")
    BY <1>8 DEF UnlockDone
  <2>3. QED
    BY <1>1, <1>2, <2>1, <2>2, ReturnBooked
<1>9. QED
  BY <1>5, <1>6, <1>7, <1>8 DEF Main

(* The authority serves the request, and its answer arrives.               *)
LEMMA ServeBooked ==
    ASSUME Bookkeeping, TypeInv, BookInv, NEW r \in net, Serve(r)
    PROVE  BookInv'
<1>0. "main" \in Coroutines /\ "beat" \in Coroutines \ {"main"}
      /\ Sessions \subseteq Item /\ NoItem \notin Item
  BY CoordinatorAssumption DEF Coroutines
<1>1. /\ r = RequestOf("main") /\ r.from = "main" /\ net' = {}
      /\ call["main"].op # "none" /\ call["main"].reply.code = 0
      /\ r.devices \in SUBSET Device /\ r.item \in Item /\ locks \in Table
      /\ locks' = Effect(r) /\ UNCHANGED <<mainPc, session, books, beatPc>>
  BY DEF Serve, BookInv, OneRequest, RequestOf, TypeInv, TypeOK, Request
<1>2. PICK intact : call' = [call EXCEPT !["main"].reply =
                              [code |-> CodeOf(r), epoch |-> epoch, intact |-> intact]]
  <2>1. AnswersOf(r) = {CodeOf(r)} /\ r.from # "nobody" /\ "timeout" \notin Faults
    BY <1>1 DEF AnswersOf, Bookkeeping
  <2>2. QED
    BY <1>1, <2>1 DEF Serve
<1>3. /\ call'["main"].op = call["main"].op /\ call'["main"].item = call["main"].item
      /\ call'["main"].devices = call["main"].devices
      /\ call'["main"].reply.code = CodeOf(r) /\ call'["beat"] = call["beat"]
  BY <1>0, <1>2 DEF TypeInv, TypeOK, Call
<1>4. mainPc \in {"settle", "lock", "force", "relock", "unlock"}
  BY <1>1, NoCallFields DEF BookInv, CallFitsBooks, TypeInv, TypeOK
<1>5. Booked'
  <2>1. CASE mainPc \in {"lock", "relock"}
    <3>1. r.op = "lock" /\ r.item = session.item /\ r.devices = session.devices
      BY <1>1, <2>1 DEF BookInv, CallFitsBooks, RequestOf
    <3>2. \A i \in Sessions : HeldBy(locks, i) = {}
      BY <1>0, <1>1, <2>1 DEF BookInv, CallFitsBooks, Booked
    <3>3. CASE CodeOf(r) = 200
      <4>1. locks' = Acquired(locks, r.devices, r.item, 0)
        BY <1>1, <3>1, <3>3 DEF Effect
      <4>2. \A i \in Sessions : HeldBy(locks', i)
                   \subseteq (IF i = session.item THEN session.devices ELSE {})
        BY <1>0, <1>1, <3>1, <3>2, <4>1, AcquiredHolds
      <4>3. QED
        BY <1>1, <1>3, <2>1, <3>3, <4>2 DEF Booked
    <3>4. CASE CodeOf(r) # 200
      BY <1>1, <3>2, <3>4 DEF Effect, Booked
    <3>5. QED
      BY <3>3, <3>4
  <2>2. CASE mainPc \in {"force", "settle", "unlock"}
    <3>1. /\ r.op \in {"unlock", "force"}
          /\ mainPc # "force" => r.devices = books.devices
      BY <1>1, <2>2 DEF BookInv, CallFitsBooks, RequestOf
    <3>2. CASE CodeOf(r) = 200
      <4>1. locks' = Released(locks, r.devices)
        BY <1>1, <3>1, <3>2 DEF Effect
      <4>2. \A i : HeldBy(locks', i) \subseteq HeldBy(locks, i) \ r.devices
        BY <4>1 DEF HeldBy, ActiveLocks, Active, IsExpired, Released
      <4>3. \A i \in Sessions : HeldBy(locks, i) # {}
               => books.item = i /\ HeldBy(locks, i) \subseteq books.devices
        BY <2>2 DEF BookInv, Booked
      <4>4. mainPc = "force" => books.item = NoItem
        BY DEF BookInv, CallFitsBooks
      <4>5. \A i \in Sessions : HeldBy(locks', i) = {}
        BY <1>0, <3>1, <4>2, <4>3, <4>4
      <4>6. QED
        BY <4>5 DEF Booked
    <3>3. CASE CodeOf(r) # 200
      BY <1>1, <1>3, <2>2, <3>3 DEF Effect, BookInv, Booked
    <3>4. QED
      BY <3>2, <3>3
  <2>3. QED
    BY <1>4, <2>1, <2>2
<1>6. CallFitsBooks'
  BY <1>1, <1>3, <1>4 DEF BookInv, CallFitsBooks
<1>7. QED
  BY <1>1, <1>3, <1>5, <1>6 DEF BookInv, BeatSleeps, OneRequest

(* A request that a restart of the authority dropped is sent again or      *)
(* given up.                                                               *)
LEMMA TimeoutBooked ==
    ASSUME Bookkeeping, TypeInv, BookInv, NEW c \in Coroutines, Timeout(c)
    PROVE  BookInv'
<1>0. "main" \in Coroutines /\ "beat" \in Coroutines \ {"main"}
      /\ Sessions \subseteq Item /\ NoItem \notin Item
  BY CoordinatorAssumption DEF Coroutines
<1>1. c = "main" /\ call["main"].op # "none" /\ call["main"].reply.code = 0
  BY NoCallFields DEF Timeout, BookInv, BeatSleeps, Coroutines
<1>2. net = {} /\ UNCHANGED <<locks, mainPc, session, books, beatPc>>
  BY <1>1 DEF Timeout, Bookkeeping, BookInv, OneRequest, authority
<1>3. \/ call' = [call EXCEPT !["main"].try = @ + 1] /\ net' = {RequestOf("main")}
      \/ call' = [call EXCEPT !["main"].reply = Unreachable] /\ net' = {}
  BY <1>1, <1>2 DEF Timeout
<1>4. /\ call'["main"].op = call["main"].op /\ call'["main"].item = call["main"].item
      /\ call'["main"].devices = call["main"].devices /\ call'["beat"] = call["beat"]
      /\ call'["main"].reply.code # 200
      /\ net' # {} => call'["main"].reply.code = 0 /\ net' = {RequestOf("main")'}
  BY <1>0, <1>1, <1>3 DEF TypeInv, TypeOK, Call, Unreachable, RequestOf
<1>5. mainPc \notin {"idle", "run"}
  BY <1>1, NoCallFields DEF BookInv, CallFitsBooks
<1>6. CallFitsBooks'
  BY <1>2, <1>4, <1>5 DEF BookInv, CallFitsBooks
<1>7. Booked'
  BY <1>1, <1>2, <1>4 DEF BookInv, Booked
<1>8. QED
  BY <1>1, <1>2, <1>4, <1>6, <1>7 DEF BookInv, BeatSleeps, OneRequest

(* The authority restarts, time passes, others lock and unlock.            *)
LEMMA SurroundingsBooked ==
    ASSUME Bookkeeping, TypeInv, BookInv, Surroundings
    PROVE  BookInv'
<1>0. locks \in Table /\ Sessions \subseteq Item /\ Others \subseteq Item
      /\ Sessions \cap Others = {}
  BY CoordinatorAssumption DEF TypeInv, TypeOK
<1>1. ASSUME NEW t, Shrinks(locks, t), locks' = t, UNCHANGED outside, net' \subseteq net
      PROVE  BookInv'
  BY <1>1, ShrinkingHolds, TableStepBooked
<1>2. CASE Tick
  BY <1>0, <1>1, <1>2, AgedShrinks DEF Tick
<1>3. CASE AuthorityRestart
  BY <1>1, <1>3 DEF AuthorityRestart, Shrinks, EmptyTable
<1>4. CASE ManagerRestart
  BY <1>4 DEF ManagerRestart, Bookkeeping
<1>5. ASSUME NEW D \in SUBSET Device \ {{}}, NEW o \in Others, OtherLocks(D, o)
      PROVE  BookInv'
  <2>1. \A i \in Sessions : HeldBy(locks', i) \subseteq HeldBy(locks, i)
    BY <1>0, <1>5, AcquiredHolds DEF OtherLocks
  <2>2. QED
    BY <1>5, <2>1, TableStepBooked DEF OtherLocks
<1>6. ASSUME NEW o \in Others, OtherUnlocks(o)
      PROVE  BookInv'
  <2>1. HeldBy(locks, o) \in SUBSET Device
    BY DEF HeldBy, ActiveLocks
  <2>2. QED
    BY <1>0, <1>1, <1>6, <2>1, ReleasedShrinks DEF OtherUnlocks
<1>7. ASSUME NEW D \in SUBSET Device, OperatorUnlocks(D)
      PROVE  BookInv'
  BY <1>0, <1>1, <1>7, ReleasedShrinks DEF OperatorUnlocks
<1>8. QED
  BY <1>2, <1>3, <1>4, <1>5, <1>6, <1>7 DEF Surroundings

(* Every live lock of the manager is on its books or in a call that it     *)
(* awaits, for plans and environments alike, though the authority restarts, *)
(* operators unlock by force and others lock in between: no device stays   *)
(* locked by a plan that is over.  With leases the heartbeat breaks it (see *)
(* the run HeartbeatRace); so does a lost reply, which the lease is for.   *)
THEOREM NoForgottenLock ==
    ASSUME Bookkeeping
    PROVE  Spec => []OwnLocksKnown
<1>1. Init => TypeInv /\ BookInv
  <2> SUFFICES ASSUME Init PROVE BookInv
    BY InitTyped
  <2>1. call["main"] = NoCall /\ call["beat"] = NoCall
    BY DEF Init, Coroutines
  <2>2. \A i : HeldBy(locks, i) = {}
    BY DEF Init, HeldBy, ActiveLocks, Active, EmptyTable
  <2>3. QED
    BY <2>1, <2>2 DEF Init, BookInv, BeatSleeps, OneRequest, CallFitsBooks, Booked
<1>2. TypeInv /\ [Next]_vars => TypeInv'
  BY NextTyped
<1>3. TypeInv /\ BookInv /\ [Next]_vars => BookInv'
  <2> SUFFICES ASSUME TypeInv, BookInv, [Next]_vars PROVE BookInv'
    OBVIOUS
  <2>1. CASE UNCHANGED vars
    BY <2>1 DEF vars, BookInv, BeatSleeps, OneRequest, CallFitsBooks, Booked, RequestOf
  <2>2. CASE Opening \/ SyncAgain \/ Finish \/ ResetFails
    BY <2>2, SessionBooked
  <2>3. CASE Main
    BY <2>3, MainBooked
  <2>4. CASE Heartbeat
    BY <2>4 DEF Heartbeat, Beat, RenewDone, ReacquireDone, Bookkeeping, BookInv, BeatSleeps
  <2>5. CASE Network
    BY <2>5, ServeBooked, TimeoutBooked DEF Network
  <2>6. CASE Surroundings
    BY <2>6, SurroundingsBooked
  <2>7. QED
    BY <2>1, <2>2, <2>3, <2>4, <2>5, <2>6 DEF Next
<1>4. BookInv => OwnLocksKnown
  <2> SUFFICES ASSUME BookInv, NEW i \in Sessions, HeldBy(locks, i) # {}
               PROVE  \/ books.item = i /\ HeldBy(locks, i) \subseteq books.devices
                      \/ \E c \in Coroutines : call[c].op # "none" /\ call[c].item = i
    BY DEF OwnLocksKnown
  <2>1. CASE mainPc \in {"lock", "relock"}
    BY <2>1 DEF BookInv, Booked, CallFitsBooks, Coroutines
  <2>2. CASE mainPc \notin {"lock", "relock"}
    BY <2>2 DEF BookInv, Booked
  <2>3. QED
    BY <2>1, <2>2
<1>5. QED
  BY <1>1, <1>2, <1>3, <1>4, PTL DEF Spec

=============
