------------------------------ MODULE PlanQueue ------------------------------
(***************************************************************************)
(* The plan queue of the RE Manager: PlanQueueOperations over a QueueStore *)
(* (queue_store.py: every command is a transaction of its own), used by    *)
(* the 0MQ handlers of manager.py and by the execution loop.               *)
(*                                                                         *)
(* A lock serialises the operations, so one operation runs at a time; but  *)
(* its store commands are separate, and the watchdog may kill the manager  *)
(* between two of them.  The store survives, the memory does not.          *)
(***************************************************************************)
EXTENDS QueueOps

CONSTANTS
    MaxQueue,    \* bound: items in the queue
    MaxHistory,  \* bound: entries of the history
    MaxBatch,    \* bound: items in a batch
    MaxKills,    \* bound: how often the manager is killed
    Risks        \* \subseteq {"update", "clear", "ghost"}: see the guards below

ASSUME BoundsAssumption == {MaxQueue, MaxHistory, MaxBatch, MaxKills} \subseteq Nat

VARIABLES
    store,  \* what the store holds
    dict,   \* _uid_dict, as a set of items
    size,   \* _queue_size
    loop,   \* plan_queue_mode["loop"]: in memory and in the store
    up,     \* the manager is running
    job,    \* the rest of the operation in progress, or NoJob
    owed,   \* the submitted bodies that no one asked to withdraw (ghost)
    kills   \* how often the manager was killed

vars == <<store, dict, size, loop, up, job, owed, kills>>

NoJob == [path |-> <<>>, dict |-> {}, size |-> 0, owed |-> {}]
Idle  == up /\ job = NoJob

Here == [store |-> store, dict |-> dict, size |-> size, path |-> <<>>, ok |-> TRUE]

(* The bodies the store still has a record of.                             *)
Present(s) == {s.queue[i].body : i \in DOMAIN s.queue} \cup ToSet(s.history)
              \cup (IF s.running = NoItem THEN {} ELSE {s.running.body})

KnownUids == {x.uid : x \in dict}
UsedUids  == KnownUids \cup Uids(store.queue) \cup {x.uid : x \in StoredItems(store)}
NewUid    == Uid \ UsedUids
NewBody   == Body \ (owed \cup Present(store))
Plan      == Body \ Instruction

Places   == {At(p) : p \in (-1 - MaxQueue) .. (MaxQueue + 1)}
            \cup UNION {{Before(u), After(u)} : u \in KnownUids}
Batches  == UNION {[1..n -> KnownUids] : n \in 1..MaxBatch}
Item1(u, b) == [uid |-> u, body |-> b, now |-> FALSE]

(* The bodies of the queued items among us.                                *)
Queued(us) == {x.body : x \in {y \in dict : y.uid \in us /\ ~ IsRunning(Here, y.uid)}}

-----------------------------------------------------------------------------

Init ==
    /\ store = [queue |-> <<>>, running |-> NoItem, history |-> <<>>]
    /\ dict = {} /\ size = 0 /\ loop = FALSE
    /\ up = TRUE /\ job = NoJob /\ owed = {} /\ kills = 0

(* An operation with the outcome r: its first store command runs at once,  *)
(* and with the last one memory is adjusted.  While it runs owing is owed,  *)
(* and then is.                                                            *)
Begin(r, owing, then) ==
    /\ Idle
    /\ Len(r.store.queue) <= MaxQueue /\ Len(r.store.history) <= MaxHistory
    /\ IF Len(r.path) <= 1
       THEN /\ store' = r.store /\ dict' = r.dict /\ size' = r.size /\ owed' = then
            /\ job' = NoJob
       ELSE /\ store' = r.path[1] /\ owed' = owing
            /\ job' = [path |-> Tail(r.path), dict |-> r.dict, size |-> r.size, owed |-> then]
            /\ UNCHANGED <<dict, size>>
    /\ UNCHANGED <<loop, up, kills>>

Continue ==
    /\ up /\ job # NoJob
    /\ store' = Head(job.path)
    /\ IF Len(job.path) = 1
       THEN dict' = job.dict /\ size' = job.size /\ owed' = job.owed /\ job' = NoJob
       ELSE job' = [job EXCEPT !.path = Tail(@)] /\ UNCHANGED <<dict, size, owed>>
    /\ UNCHANGED <<loop, up, kills>>

(* What a client submits is owed once the request is answered, what it asks *)
(* to withdraw is not from the start; a request that fails does neither.   *)
Submit(r, bodies)   == Begin(r, owed, IF r.ok THEN owed \cup bodies ELSE owed)
Withdraw(r, bodies) == LET rest == IF r.ok THEN owed \ bodies ELSE owed IN Begin(r, rest, rest)
Keep(r)             == Begin(r, owed, owed)

AddItem ==
    \E u \in NewUid, b \in NewBody, p \in Places : Submit(Add(Here, Item1(u, b), p), {b})

AddItems ==
    \E n \in 1..MaxBatch, p \in Places : \E us \in [1..n -> NewUid], bs \in [1..n -> NewBody] :
        /\ IsInjective(us) /\ IsInjective(bs)
        /\ Submit(AddBatch(Here, [i \in 1..n |-> Item1(us[i], bs[i])], p), ToSet(bs))

RemoveByUid == \E u \in KnownUids : Withdraw(Pop(Here, u), Queued({u}))
RemoveAtPos ==
    \E p \in {-1, 0, 1} :
        LET at == {Index(store.queue, p)} \ {0}
        IN  Withdraw(PopAt(Here, p), {store.queue[i].body : i \in at})
RemoveItems ==
    \E us \in Batches, ignoring \in BOOLEAN :
        Withdraw(PopBatch(Here, us, ignoring), Queued(ToSet(us)))

(* queue_item_update: the item keeps its uid, or gets a new one when the   *)
(* request says replace.  With the same uid it is only interruptible, that *)
(* is run while a kill may still come, with the risk "update".             *)
UpdateItem ==
    \E u \in KnownUids, b \in NewBody, v \in Uid :
        /\ v = u \/ v \in NewUid
        /\ v = u => "update" \in Risks \/ kills = MaxKills
        /\ LET r == Replace(Here, u, Item1(v, b))
           IN  Begin(r, owed, IF r.ok THEN (owed \ {Known(Here, u).body}) \cup {b} ELSE owed)

MoveItem ==
    \E u \in KnownUids, p \in Places : Keep(MoveTo(Here, u, p))

MoveItems ==
    \E us \in Batches, p \in Places, reorder \in BOOLEAN :
        /\ p.uid = NoUid => p.pos \in {0, -1}
        /\ Keep(MoveBatch(Here, us, p, reorder))

(* queue_clear; during an immediate execution only with the risk "clear".  *)
ClearQueue ==
    /\ store.running # NoItem /\ store.running.now => "clear" \in Risks
    /\ Withdraw(Clear(Here), {store.queue[i].body : i \in DOMAIN store.queue})

SetLoopMode ==
    /\ Idle /\ loop' = ~ loop
    /\ UNCHANGED <<store, dict, size, up, job, owed, kills>>

ShortenHistory ==
    \E keep \in 0..MaxHistory :
        LET r == TrimHistory(Here, keep) IN Withdraw(r, ToSet(store.history) \ Present(r.store))

(* The execution loop.  An instruction is done when it is processed, and   *)
(* not repeated without loop mode.  An immediate plan is not owed: it is   *)
(* not queued.  It runs while a kill may still come only with the risk     *)
(* "ghost".                                                                *)
StartNext ==
    /\ store.queue # <<>> /\ store.running = NoItem
    /\ \E u \in NewUid :
           Begin(ProcessNext(Here, loop, u), owed,
                 IF loop THEN owed ELSE owed \ ({store.queue[1].body} \cap Instruction))
ExecuteNow  ==
    /\ "ghost" \in Risks \/ kills = MaxKills
    /\ store.running = NoItem
    /\ \E u \in NewUid, b \in Plan : Keep(RunNow(Here, [Item1(u, b) EXCEPT !.now = TRUE]))
PlanDone    == store.running # NoItem /\ \E u \in NewUid : Keep(Completed(Here, loop, u))
PlanStopped == store.running # NoItem /\ \E u \in NewUid : Keep(Stopped(Here, u))

(* The watchdog kills a manager whose heartbeat stopped (or the host       *)
(* fails), and starts another; start() rebuilds memory from the store.     *)
Kill ==
    /\ up /\ kills < MaxKills
    /\ up' = FALSE /\ job' = NoJob /\ dict' = {} /\ size' = 0 /\ kills' = kills + 1
    /\ UNCHANGED <<store, loop, owed>>

Start ==
    /\ ~ up /\ Loadable(store)
    /\ up' = TRUE /\ dict' = StoredItems(store) /\ size' = Len(store.queue)
    /\ UNCHANGED <<store, loop, job, owed, kills>>

Next ==
    \/ Continue
    \/ AddItem \/ AddItems \/ RemoveByUid \/ RemoveAtPos \/ RemoveItems \/ UpdateItem
    \/ MoveItem \/ MoveItems \/ ClearQueue \/ SetLoopMode \/ ShortenHistory
    \/ StartNext \/ ExecuteNow \/ PlanDone \/ PlanStopped
    \/ Kill \/ Start

Spec == Init /\ [][Next]_vars

-----------------------------------------------------------------------------
(* Properties.                                                             *)

(* Types.  size is never the -1 with which list_insert answers when the    *)
(* item to insert next to is not in the store.                             *)
TypeOK ==
    /\ store.queue \in Seq(Item) /\ store.running \in Item \cup {NoItem}
    /\ store.history \in Seq(Body)
    /\ dict \subseteq Item /\ size \in Nat /\ loop \in BOOLEAN /\ up \in BOOLEAN
    /\ owed \subseteq Body /\ kills \in 0..MaxKills
    /\ ~ up => job = NoJob

(* Memory mirrors the store between two operations: _uid_dict has the      *)
(* items of the queue and the queued item that is running, each as the     *)
(* store has it, and nothing else; _queue_size is the length.              *)
MemoryMirrorsStore ==
    Idle => /\ size = Len(store.queue)
            /\ dict = {x \in StoredItems(store) : ~ x.now}

(* What _uid_dict knows is in the queue or running: "remove all entries    *)
(* from _uid_dict except the running item" (plan_queue_ops.py:1443).       *)
KnownItemsExist == Idle => dict \subseteq StoredItems(store)

(* Each kill costs at most one item: otherwise everything submitted and    *)
(* not withdrawn is in the queue, running, or in the history.              *)
NothingLost == Idle => Cardinality(owed \ Present(store)) <= kills

(* What a kill leaves in the store can be loaded: start() does not raise.  *)
QueueRestarts == ~ up => Loadable(store)

(* The sequence without one of its elements.                               *)
Others(q, us) == Without(q, {x \in ToSet(q) : x.uid \in us})

(* A place in the queue q as the docstrings word it, for a block of items  *)
(* us that ends up in it: where the first stands (0-based).                *)
StandsAt(q, us, place) ==
    LET n     == Len(q) - Len(us)
        first == IndexOf(q, us[1]) - 1
        ref   == IndexOf(q, place.uid) - 1
        p     == place.pos
    IN  CASE place.uid # NoUid /\ place.before -> ref = first + Len(us)
          [] place.uid # NoUid /\ ~ place.before ->
                 first = IF ref >= 0 THEN ref + 1 ELSE 0
          [] p >= 0 /\ place.uid = NoUid -> first = IF p <= n THEN p ELSE n
          [] OTHER -> first = IF n + p + 1 >= 0 THEN n + p + 1 ELSE 0

Block(q, us) ==
    \A i \in 1..(Len(us) - 1) : IndexOf(q, us[i + 1]) = IndexOf(q, us[i]) + 1

(* add_item_to_queue puts the item where its docstring says, a position    *)
(* counted from either end or next to an item, and shifts nothing else.    *)
AddAsAsked ==
    Idle => \A u \in NewUid, p \in Places :
        LET r == Add(Here, Item1(u, CHOOSE b \in Body : TRUE), p)
        IN  r.ok => /\ StandsAt(r.store.queue, <<u>>, p)
                    /\ Others(r.store.queue, {u}) = store.queue

(* add_batch_to_queue adds the batch as one block, in order, or nothing.   *)
BatchWholeOrNot ==
    Idle => \A u, v \in NewUid, p \in Places :
        LET b == CHOOSE b \in Body : TRUE
            r == AddBatch(Here, <<Item1(u, b), Item1(v, b)>>, p)
            q == r.store.queue
        IN  u # v => IF r.ok THEN /\ Block(q, <<u, v>>) /\ StandsAt(q, <<u, v>>, p)
                                  /\ Others(q, {u, v}) = store.queue
                     ELSE q = store.queue /\ r.dict = dict

(* move_item takes the item to the index the client names (of the queue    *)
(* as it was) or next to the reference, and keeps the order of the others. *)
MoveAsAsked ==
    Idle => \A u \in KnownUids, p \in Places :
        LET r  == MoveTo(Here, u, p)
            q  == r.store.queue
            i  == Index(store.queue, p.pos)
            at == IndexOf(q, u)
        IN  /\ Others(q, {u}) = Others(store.queue, {u})
            /\ Len(q) = Len(store.queue)
            /\ r.ok /\ p.uid = NoUid => at = i
            /\ r.ok /\ p.uid \notin {NoUid, u} =>
                   at = IF p.before THEN IndexOf(q, p.uid) - 1 ELSE IndexOf(q, p.uid) + 1

(* move_batch leaves the items as one block at the destination, in the     *)
(* order of the request or, with reorder, in the order they had.           *)
MoveBatchAsAsked ==
    Idle => \A us \in Batches, p \in Places, reorder \in BOOLEAN :
        LET r    == MoveBatch(Here, us, p, reorder)
            q    == r.store.queue
            old  == store.queue
            list == IF reorder /\ Len(us) = 2 /\ IndexOf(old, us[1]) > IndexOf(old, us[2])
                    THEN <<us[2], us[1]>> ELSE us
        IN  r.ok /\ (p.uid = NoUid => p.pos \in {0, -1}) =>
                /\ Block(q, list) /\ StandsAt(q, list, p)
                /\ Others(q, ToSet(us)) = Others(old, ToSet(us))

(* Whatever may be asked next, the queue is edited as asked.               *)
EditsAsAsked == AddAsAsked /\ BatchWholeOrNot /\ MoveAsAsked /\ MoveBatchAsAsked

=============================================================================
