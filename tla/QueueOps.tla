------------------------------ MODULE QueueOps ------------------------------
(***************************************************************************)
(* The operations of PlanQueueOperations (plan_queue_ops.py) as functions. *)
(*                                                                         *)
(* The class keeps the queue, the running item and the history in a store  *)
(* outside the process, and in memory a dictionary of the items it knows   *)
(* and the size of the queue.  An operation issues store commands one      *)
(* after the other and adjusts memory; it may fail half-way.  It is a      *)
(* function from a state m to a state: store and memory as they become,    *)
(* path (the stores its commands produce, in order) and ok.                *)
(*                                                                         *)
(* Positions are Python indices; "front" is 0 and "back" is -1.  A loop over *)
(* a list is a function from the number of elements done.                  *)
(***************************************************************************)
EXTENDS Integers, FiniteSets, SequencesExt

CONSTANTS
    Uid,          \* item_uid values
    Body,         \* the contents of items: what a client submits
    Instruction,  \* the bodies with item_type "instruction"; the others are plans
    NoItem,       \* {} : no item is running
    NoUid         \* None

(* now is the property immediate_execution.                                *)
Item == [uid : Uid, body : Body, now : BOOLEAN]

ASSUME OpsAssumption == NoItem \notin Item /\ NoUid \notin Uid /\ Instruction \subseteq Body

(* Of a history entry only the item it is about is kept.                   *)
Store == [queue : Seq(Item), running : Item \cup {NoItem}, history : Seq(Body)]

(* Where to insert: a position, or before or after the item with a uid.    *)
Place == [pos : Int, uid : Uid \cup {NoUid}, before : BOOLEAN]

At(pos)   == [pos |-> pos, uid |-> NoUid, before |-> FALSE]
Before(u) == [pos |-> 0, uid |-> u, before |-> TRUE]
After(u)  == [pos |-> 0, uid |-> u, before |-> FALSE]

-----------------------------------------------------------------------------

Uids(q) == {q[i].uid : i \in DOMAIN q}

InDict(m, u) == \E x \in m.dict : x.uid = u
Known(m, u)  == CHOOSE x \in m.dict : x.uid = u

IsRunning(m, u) == m.store.running # NoItem /\ m.store.running.uid = u

Fail(m)  == [m EXCEPT !.ok = FALSE]
Retry(m) == [m EXCEPT !.ok = TRUE]

(* One store command; the cached size is read back after it.               *)
Put(m, s)       == [m EXCEPT !.store = s, !.path = Append(@, s), !.size = Len(s.queue)]
PutQueue(m, q)  == Put(m, [m.store EXCEPT !.queue = q])
SetRunning(m, x) == Put(m, [m.store EXCEPT !.running = x])
AddToHistory(m, e) == Put(m, [m.store EXCEPT !.history = Append(@, e)])

Learn(m, x)  == [m EXCEPT !.dict = @ \cup {x}]
Forget(m, u) == IF InDict(m, u) THEN [m EXCEPT !.dict = {x \in @ : x.uid # u}] ELSE Fail(m)

(* An element of a list by its Python index: its position from 1, or 0.    *)
Index(q, pos) ==
    LET i == IF pos >= 0 THEN pos + 1 ELSE Len(q) + pos + 1
    IN  IF i \in DOMAIN q THEN i ELSE 0

IndexOf(q, u) == SelectInSeq(q, LAMBDA x : x.uid = u)

(* q without the elements in X, in order.                                  *)
Without(q, X) ==
    LET kept[i \in 0..Len(q)] ==
            IF i = 0 THEN <<>>
            ELSE IF q[i] \in X THEN kept[i - 1] ELSE Append(kept[i - 1], q[i])
    IN  kept[Len(q)]

-----------------------------------------------------------------------------
(* _add_item_to_queue.  A reference item is looked up in the dictionary    *)
(* and inserted next to in the store: an item the store does not have      *)
(* makes list_insert answer -1, which becomes the size.                    *)

Slot(n, pos) ==
    IF pos = 0 \/ pos < 0 - n THEN 1
    ELSE IF pos = -1 \/ pos >= n THEN n + 1
    ELSE IF pos > 0 THEN pos + 1
    ELSE n + pos + 2

InsertNear(m, pivot, before, x) ==
    LET k == SelectInSeq(m.store.queue, LAMBDA y : y = pivot)
    IN  IF k = 0 THEN [m EXCEPT !.size = -1]
        ELSE PutQueue(m, InsertAt(m.store.queue, IF before THEN k ELSE k + 1, x))

Add(m, x, place) ==
    LET q == m.store.queue
        u == place.uid
    IN  IF InDict(m, x.uid) THEN Fail(m)
        ELSE IF u = NoUid
             THEN Learn(PutQueue(m, InsertAt(q, Slot(Len(q), place.pos), x)), x)
        ELSE IF ~ InDict(m, u) THEN Fail(m)
        ELSE IF ~ IsRunning(m, u) THEN Learn(InsertNear(m, Known(m, u), place.before, x), x)
        ELSE IF place.before THEN Fail(m)
        ELSE Learn(PutQueue(m, <<x>> \o q), x)

(* _pop_item_from_queue, by uid and by position.                           *)
RemoveItem(m, x) ==
    LET rest == Without(m.store.queue, {x})
        n    == Len(m.store.queue) - Len(rest)
        done == IF n = 0 THEN [m EXCEPT !.size = Len(rest)] ELSE PutQueue(m, rest)
    IN  IF n = 1 THEN done ELSE Fail(done)

Pop(m, u) ==
    IF ~ InDict(m, u) \/ IsRunning(m, u) THEN Fail(m)
    ELSE LET r == RemoveItem(m, Known(m, u))
         IN  IF r.ok THEN Forget(r, u) ELSE r

PopAt(m, pos) ==
    LET i == Index(m.store.queue, pos)
    IN  IF i = 0 THEN Fail(m)
        ELSE Forget(PutQueue(m, RemoveAt(m.store.queue, i)), m.store.queue[i].uid)

(* Pop items one by one; what cannot be popped is left.                    *)
PopEach(m, us) ==
    LET popped[i \in 0..Len(us)] ==
            IF i = 0 THEN m ELSE Pop(Retry(popped[i - 1]), us[i])
    IN  popped[Len(us)]

(* _add_batch_to_queue: the items follow the first one; when one cannot be *)
(* added those that were are popped again.                                 *)
AddNext(acc, x, place) ==
    LET r == Add(Retry(acc.m), x, IF acc.added = <<>> THEN place ELSE After(Last(acc.added)))
    IN  IF r.ok THEN [m |-> r, added |-> Append(acc.added, x.uid), ok |-> acc.ok]
        ELSE [m |-> r, added |-> acc.added, ok |-> FALSE]

AddBatch(m, xs, place) ==
    LET tried[i \in 0..Len(xs)] ==
            IF i = 0 THEN [m |-> m, added |-> <<>>, ok |-> TRUE]
            ELSE AddNext(tried[i - 1], xs[i], place)
        all == tried[Len(xs)]
    IN  IF all.ok THEN all.m ELSE Fail(PopEach(all.m, all.added))

(* _pop_item_from_queue_batch.                                             *)
PopBatch(m, us, ignoreMissing) ==
    IF ~ ignoreMissing /\ (~ IsInjective(us) \/ \E u \in ToSet(us) : ~ InDict(m, u))
    THEN Fail(m)
    ELSE Retry(PopEach(m, us))

(* _replace_item: the new item is inserted after the old one, which is     *)
(* removed then.  The uid may stay the same.                               *)
Replace(m, u, x) ==
    IF ~ InDict(m, u) \/ IsRunning(m, u) THEN Fail(m)
    ELSE IF x = Known(m, u) THEN m
    ELSE IF x.uid # u /\ InDict(m, x.uid) THEN Fail(m)
    ELSE LET old == Known(m, u)
             r   == RemoveItem(InsertNear(m, old, FALSE, x), old)
         IN  IF r.ok THEN Learn(Forget(r, u), x) ELSE r

(* _move_item: the item is popped and added next to the destination.       *)
Found(m, u) == InDict(m, u) /\ ~ IsRunning(m, u)

MoveNextTo(m, u, place) ==
    IF u = place.uid THEN m
    ELSE LET r == Pop(m, u)
         IN  IF r.ok THEN Add(r, Known(m, u), place) ELSE r

MoveTo(m, u, place) ==
    LET q  == m.store.queue
        di == Index(q, place.pos)
        si == IndexOf(q, u)
    IN  IF ~ Found(m, u) THEN Fail(m)
        ELSE IF place.uid # NoUid
             THEN IF Found(m, place.uid) THEN MoveNextTo(m, u, place) ELSE Fail(m)
        ELSE IF di = 0 \/ si = 0 THEN Fail(m)
        ELSE MoveNextTo(m, u, IF si > di THEN Before(q[di].uid) ELSE After(q[di].uid))

MoveBatch_AllToPlace(m, us, place, reorder) ==
    IF ~ IsInjective(us) \/ (\E u \in ToSet(us) : ~ InDict(m, u)) \/ place.uid \in ToSet(us)
    THEN Fail(m)
    ELSE LET moved[i \in 0..Len(us)] ==
                 IF i = 0 THEN m
                 ELSE IF moved[i - 1].ok THEN MoveTo(moved[i - 1], us[i], place) ELSE moved[i - 1]
         IN  moved[Len(us)]

(* _move_batch: the first item goes to the destination, each other item    *)
(* after the one before it; a failure stops the batch where it is.  With    *)
(* reorder they go by their index, which is -1 for what is not in the store.*)
ByIndex(q, us) ==
    LET there == Without(q, {x \in ToSet(q) : x.uid \notin ToSet(us)})
    IN  Without(us, Uids(q)) \o [i \in DOMAIN there |-> there[i].uid]

MoveNext(m, list, i, place) ==
    IF m.ok THEN MoveTo(m, list[i], IF i = 1 THEN place ELSE After(list[i - 1])) ELSE m

MoveBatch(m, us, place, reorder) ==
    LET list == IF reorder THEN ByIndex(m.store.queue, us) ELSE us
        moved[i \in 0..Len(list)] == IF i = 0 THEN m ELSE MoveNext(moved[i - 1], list, i, place)
    IN  IF \/ ~ IsInjective(us)
           \/ \E u \in ToSet(us) : ~ InDict(m, u)
           \/ place.uid \in ToSet(us)
        THEN Fail(m)
        ELSE moved[Len(list)]

(* _clear_queue: the running item stays known.                             *)
Clear_ForgetsRunning(m) == [PutQueue(m, <<>>) EXCEPT !.dict = {}]
Clear_KeepsDict(m)      == PutQueue(m, <<>>)
Clear(m) ==
    LET r == m.store.running
        c == [PutQueue(m, <<>>) EXCEPT !.size = m.size]
    IN  IF r = NoItem THEN [c EXCEPT !.dict = {}, !.size = 0]
        ELSE IF InDict(m, r.uid) THEN [c EXCEPT !.dict = {Known(m, r.uid)}, !.size = 0]
        ELSE Fail(c)

-----------------------------------------------------------------------------
(* Execution: _process_next_item, _set_next_item_as_running and            *)
(* _set_processed_item_as_completed / _stopped.  u is a new uid.           *)

ProcessNext_DropsInstruction(m, loop, u) ==
    LET q == m.store.queue
    IN  IF q = <<>> THEN Fail(m)
        ELSE IF q[1].body \in Instruction THEN PopAt(m, 0)
        ELSE IF m.store.running # NoItem THEN m
        ELSE SetRunning(PutQueue(m, Tail(q)), q[1])
ProcessNext(m, loop, u) ==
    LET q == m.store.queue
    IN  IF q = <<>> THEN Fail(m)
        ELSE IF q[1].body \notin Instruction
             THEN IF m.store.running # NoItem THEN m
                  ELSE SetRunning(PutQueue(m, Tail(q)), q[1])
        ELSE LET r == PopAt(m, 0)
             IN  IF loop /\ r.ok THEN Add(r, [q[1] EXCEPT !.uid = u], At(-1)) ELSE r

(* A plan for immediate execution enters neither queue nor dictionary.     *)
RunNow(m, x) == IF m.store.running # NoItem THEN m ELSE SetRunning(m, x)

Completed(m, loop, u) ==
    LET x == m.store.running
        again == Learn(Forget(PutQueue(m, Append(m.store.queue, [x EXCEPT !.uid = u])), x.uid),
                       [x EXCEPT !.uid = u])
    IN  IF x = NoItem THEN m
        ELSE IF x.now THEN AddToHistory(SetRunning(m, NoItem), x.body)
        ELSE IF ~ InDict(m, x.uid)
             THEN Fail(IF loop THEN PutQueue(m, Append(m.store.queue, [x EXCEPT !.uid = u]))
                       ELSE SetRunning(m, NoItem))
        ELSE IF loop THEN AddToHistory(SetRunning(again, NoItem), x.body)
        ELSE AddToHistory(Forget(SetRunning(m, NoItem), x.uid), x.body)

(* A plan that failed, was aborted or halted goes back to the front; one   *)
(* with status "stopped" counts as completed.                              *)
Stopped_PushesFirst(m, u) ==
    LET x == m.store.running
        r == Add(Forget(m, x.uid), x, At(0))
    IN  IF x = NoItem THEN m
        ELSE SetRunning(AddToHistory(IF x.now THEN m ELSE r, x.body), NoItem)
Stopped(m, u) ==
    LET x == m.store.running
        r == SetRunning(AddToHistory(m, x.body), NoItem)
    IN  IF x = NoItem THEN m
        ELSE IF x.now THEN r
        ELSE IF ~ InDict(m, x.uid) THEN Fail(r)
        ELSE Add(Forget(r, x.uid), [x EXCEPT !.uid = u], At(0))

(* _trim_history and _clear_history: the oldest entries go.                *)
TrimHistory(m, keep) ==
    LET h == m.store.history
    IN  IF keep >= Len(h) THEN m
        ELSE Put(m, [m.store EXCEPT !.history = SubSeq(h, Len(h) - keep + 1, Len(h))])

(* start(): memory is rebuilt; _uid_dict_add raises when a uid repeats.    *)
StoredItems(s) == ToSet(s.queue) \cup (IF s.running = NoItem THEN {} ELSE {s.running})

Loadable(s) ==
    /\ Cardinality(Uids(s.queue)) = Len(s.queue)
    /\ s.running # NoItem => s.running.uid \notin Uids(s.queue)

=============================================================================
