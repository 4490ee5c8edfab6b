----------------------------- MODULE RegistrySync -----------------------------
(* How the devices of the worker reach the registry (queueserver,            *)
(* config_service.py and config_service_coordinator.py): an empty registry   *)
(* is filled when the environment opens, and on request the difference of    *)
(* the two is written, while other clients edit the registry.  Calls run at  *)
(* once, one per device, and are tried again when no answer comes.           *)
EXTENDS Naturals, FiniteSets

CONSTANTS
    Device, Def,
    Missing,        \* no row, or no such device in the worker
    Unread,         \* a device of the worker whose introspection failed
    First,          \* registry and worker at the beginning: set of records
    MaxAttempts, MaxFaults, MaxEdits, MaxSyncs

VARIABLES
    registry,   \* Device -> Missing or def, active, tag
    locked,     \* devices that a plan holds
    worker,     \* Device -> def, Unread or Missing: what the worker reported last
    prefetched, \* there were active devices when the environment began to open
    sync,       \* the sync in progress, under the sync lock
    late,       \* calls that were given up and are still on their way: op, d, def
    counts,     \* faults, edits, syncs: how many there were
    seen        \* history of this sync: the rows that it read; foreign: the rows
                \* that others, or calls that were given up, changed after that

vars == <<registry, locked, worker, prefetched, sync, late, counts, seen>>

(* An instantiation spec as the worker sends it has no framework tag; as the  *)
(* service sends it, it has one, if only null.                               *)
Sent(def)      == [def |-> def, active |-> TRUE]
Row(def, tag)  == [def |-> def, active |-> TRUE, tag |-> tag]
Payloads(w)    == {d \in Device : w[d] \in Def}
Rows(r)        == {d \in Device : r[d] # Missing}
Active(r)      == {d \in Rows(r) : r[d].active}

-----------------------------------------------------------------------------
(* compute_diff and _select_writes.                                          *)
Added(w, r)    == Payloads(w) \ Rows(r)
Gone(w, r)     == Active(r) \ Payloads(w)
Modified(w, r) == {d \in Payloads(w) \cap Active(r) : r[d] # Sent(w[d])}

Upserts(kind, chosen, w, r) ==
    CASE kind = "additions_only" -> Added(w, r)
      [] kind = "all"            -> Added(w, r) \cup Modified(w, r)
      [] OTHER                   -> (Added(w, r) \cup Modified(w, r)) \cap chosen

Deletes(kind, chosen, w, r) ==
    CASE kind = "additions_only" -> {}
      [] kind = "all"            -> Gone(w, r)
      [] OTHER                   -> Gone(w, r) \cap chosen

-----------------------------------------------------------------------------
NoCall  == [op |-> "none", tries |-> 0, def |-> Missing]
NoCalls == [d \in Device |-> NoCall]
NoSync  == [at |-> "idle", kind |-> "none", chosen |-> {}, calls |-> NoCalls, upserted |-> {}, deleted |-> {},
            failed |-> {}, data |-> [d \in Device |-> Missing], deletes |-> {}, again |-> FALSE, told |-> "none", after |-> {}]

Init ==
    /\ \E f \in First : registry = f.registry /\ worker = f.worker
    /\ locked = {} /\ prefetched = (Active(registry) # {})
    /\ sync = NoSync /\ late = {}
    /\ counts = [faults |-> 0, edits |-> 0, syncs |-> 0]
    /\ seen = [registry |-> registry, foreign |-> {}]

Calling   == {d \in Device : sync.calls[d].op # "none"}
Quiet     == UNCHANGED <<locked, worker, prefetched>>
NoChange  == UNCHANGED <<registry, late>>
Fault     == counts.faults < MaxFaults /\ counts' = [counts EXCEPT !.faults = @ + 1]
Edit      == counts.edits < MaxEdits /\ counts' = [counts EXCEPT !.edits = @ + 1]

Calls(op, ds, w) == [d \in Device |-> IF d \in ds THEN [op |-> op, tries |-> 1, def |-> w[d]] ELSE NoCall]

(* The end of a sync, as its caller sees it.                                  *)
Ends(told, s) == sync' = [s EXCEPT !.at = "over", !.told = told, !.calls = NoCalls]

Starts(kind, chosen) ==
    /\ sync.at \in {"idle", "over"} /\ counts.syncs < MaxSyncs
    /\ counts' = [counts EXCEPT !.syncs = @ + 1]
    /\ LET begun == [NoSync EXCEPT !.kind = kind, !.chosen = chosen, !.data = worker]
       IN  IF kind = "open" /\ \E d \in Device : worker[d] = Unread
           THEN Ends("error", begun)
           ELSE sync' = [begun EXCEPT !.at = IF kind = "open" /\ prefetched THEN "feed" ELSE "asks"]
    /\ seen' = [registry |-> registry, foreign |-> {}]
    /\ NoChange /\ Quiet

Opens == Starts("open", {})
Syncs == \E kind \in {"all", "additions_only"} : Starts(kind, {})
Picks == \E chosen \in SUBSET Device \ {{}} : Starts("selected", chosen)

(* The answer of the registry to the first question, whole.                   *)
Reads ==
    /\ sync.at = "asks"
    /\ LET data == IF sync.kind = "open" THEN sync.data ELSE worker
           ups  == IF sync.kind = "open" THEN IF Rows(registry) = {} THEN Payloads(data) ELSE {}
                   ELSE Upserts(sync.kind, sync.chosen, data, registry)
       IN  sync' = [sync EXCEPT !.at = "upserts", !.data = data, !.calls = Calls("post", ups, data),
                                !.deletes = IF sync.kind = "open" THEN {}
                                            ELSE Deletes(sync.kind, sync.chosen, worker, registry)]
    /\ seen' = [registry |-> registry, foreign |-> {}]
    /\ NoChange /\ Quiet /\ UNCHANGED counts

(* Any of the questions fails: the caller gets an error.                      *)
ReadFails ==
    /\ sync.at \in {"asks", "after", "feed"} /\ Fault /\ Ends("error", sync)
    /\ NoChange /\ Quiet /\ UNCHANGED seen

-----------------------------------------------------------------------------
(* What the service does with a call; handlers hold its registry lock.        *)
Accepts(op, d) ==
    CASE op = "post" -> registry[d] = Missing
      [] OTHER       -> registry[d] # Missing /\ d \notin locked

Result(op, d, def) ==
    CASE op = "post" -> Row(def, "null")
      [] op = "put"  -> [registry[d] EXCEPT !.def = def, !.active = TRUE]
      [] OTHER       -> Missing

Takes(op, d, def) ==
    registry' = IF Accepts(op, d) THEN [registry EXCEPT ![d] = Result(op, d, def)] ELSE registry

Done(d) ==
    IF sync.calls[d].op = "delete" THEN [sync EXCEPT !.calls[d] = NoCall, !.deleted = @ \cup {d}]
    ELSE [sync EXCEPT !.calls[d] = NoCall, !.upserted = @ \cup {d}]

Failed(d) == [sync EXCEPT !.calls[d] = NoCall, !.failed = @ \cup {d}]

(* 409 to the POST of an upsert becomes a PUT.                                *)
Answers(d) ==
    /\ d \in Calling
    /\ LET c == sync.calls[d]
       IN  /\ Takes(c.op, d, c.def)
           /\ sync' = CASE Accepts(c.op, d)                      -> Done(d)
                        [] ~Accepts(c.op, d) /\ c.op = "post"    -> [sync EXCEPT !.calls[d].op = "put", !.calls[d].tries = 1]
                        [] OTHER                                 -> Failed(d)
           /\ seen' = IF Accepts(c.op, d) THEN [seen EXCEPT !.foreign = @ \ {d}] ELSE seen
    /\ Quiet /\ UNCHANGED <<late, counts>>

(* No answer: nothing was done, or it was, or it will be.  Tried again, and   *)
(* at last given up.                                                         *)
Retried(d) ==
    IF sync.calls[d].tries < MaxAttempts THEN [sync EXCEPT !.calls[d].tries = @ + 1] ELSE Failed(d)

Lost(d) ==
    /\ d \in Calling /\ Fault /\ sync' = Retried(d)
    /\ LET c == sync.calls[d]
       IN  \/ NoChange
           \/ Takes(c.op, d, c.def) /\ UNCHANGED late
           \/ late' = late \cup {[op |-> c.op, d |-> d, def |-> c.def]} /\ UNCHANGED registry
    /\ Quiet /\ UNCHANGED seen

Arrives(c) ==
    /\ c \in late /\ late' = late \ {c} /\ Takes(c.op, c.d, c.def)
    /\ seen' = IF Accepts(c.op, c.d) THEN [seen EXCEPT !.foreign = @ \cup {c.d}] ELSE seen
    /\ Quiet /\ UNCHANGED <<sync, counts>>

-----------------------------------------------------------------------------
(* When all calls of a pass have ended.  A bootstrap tries its failures once  *)
(* more; a sync goes on to its deletes, and fails at the end.                 *)
UpsertsEnd ==
    /\ sync.at = "upserts" /\ Calling = {}
    /\ CASE sync.kind = "open" /\ sync.failed # {} /\ ~sync.again ->
                sync' = [sync EXCEPT !.again = TRUE, !.failed = {}, !.calls = Calls("post", sync.failed, sync.data)]
         [] sync.kind = "open" /\ sync.failed # {} /\ sync.again -> Ends("error", sync)
         [] sync.kind = "open" /\ sync.failed = {}               -> sync' = [sync EXCEPT !.at = "feed"]
         [] OTHER -> sync' = [sync EXCEPT !.at = "deletes", !.calls = Calls("delete", sync.deletes, sync.data)]
    /\ NoChange /\ Quiet /\ UNCHANGED <<counts, seen>>

DeletesEnd ==
    /\ sync.at = "deletes" /\ Calling = {}
    /\ IF sync.failed # {} THEN Ends("error", sync) ELSE sync' = [sync EXCEPT !.at = "after"]
    /\ NoChange /\ Quiet /\ UNCHANGED <<counts, seen>>

(* What is left, after the writes; the version of the registry, at open.      *)
ReadsAfter ==
    /\ sync.at = "after"
    /\ Ends("success", [sync EXCEPT !.after = Added(worker, registry) \cup Modified(worker, registry)
                                              \cup Gone(worker, registry)])
    /\ NoChange /\ Quiet /\ UNCHANGED <<counts, seen>>

ReadsFeed ==
    /\ sync.at = "feed" /\ Ends("success", sync)
    /\ NoChange /\ Quiet /\ UNCHANGED <<counts, seen>>

-----------------------------------------------------------------------------
(* Others: an edit of a row, a lock of a plan, and new lists of the worker.   *)
EditsRow(d) ==
    /\ Edit /\ d \notin locked
    /\ \E row \in {Missing} \cup [def : Def, active : BOOLEAN, tag : {"null"}] :
           row # registry[d] /\ registry' = [registry EXCEPT ![d] = row]
    /\ seen' = [seen EXCEPT !.foreign = @ \cup {d}]
    /\ Quiet /\ UNCHANGED <<sync, late>>

Locks(d) ==
    /\ Edit /\ d \in Rows(registry) /\ locked' = IF d \in locked THEN locked \ {d} ELSE locked \cup {d}
    /\ NoChange /\ UNCHANGED <<worker, prefetched, sync, seen>>

Reloads(d) ==
    /\ Edit /\ \E def \in Def \cup {Missing, Unread} : worker' = [worker EXCEPT ![d] = def]
    /\ NoChange /\ UNCHANGED <<locked, prefetched, sync, seen>>

Reopens ==
    /\ sync.at \in {"idle", "over"} /\ prefetched' = (Active(registry) # {}) /\ prefetched' # prefetched
    /\ NoChange /\ UNCHANGED <<locked, worker, sync, counts, seen>>

Next ==
    \/ Opens \/ Syncs \/ Picks \/ Reads \/ ReadFails
    \/ UpsertsEnd \/ DeletesEnd \/ ReadsAfter \/ ReadsFeed \/ Reopens
    \/ \E d \in Device : Answers(d) \/ Lost(d) \/ EditsRow(d) \/ Locks(d) \/ Reloads(d)
    \/ \E c \in late : Arrives(c)

Spec == Init /\ [][Next]_vars

-----------------------------------------------------------------------------
TypeOK ==
    /\ \A d \in Rows(registry) : registry[d].def \in Def /\ registry[d].tag \in {"null", "sync"}
    /\ locked \subseteq Device /\ \A c \in late : c.d \in Device

(* Rows that a sync may write: those its strategy names.                      *)
Writable(d) ==
    LET r == seen.registry
    IN  CASE sync.kind = "additions_only" -> r[d] = Missing
          [] sync.kind = "open"           -> Rows(r) = {}
          [] sync.kind = "selected"       -> d \in sync.chosen /\ (r[d] = Missing \/ r[d].active)
          [] OTHER                        -> r[d] = Missing \/ r[d].active

(* A row outside of what the strategy names, and that nobody else changed, is *)
(* as it was: a disabled device stays disabled, additions destroy nothing, and *)
(* no row of a registry that is not empty is changed by an environment that    *)
(* opens.                                                                     *)
OthersStand ==
    sync.at # "idle" =>
        \A d \in Device : ~Writable(d) /\ d \notin seen.foreign => registry[d] = seen.registry[d]

(* What a sync reports as written, it wrote, and it is still so, unless        *)
(* somebody else changed it.                                                  *)
WrittenStands ==
    \A d \in Device \ seen.foreign :
        /\ d \in sync.upserted => registry[d] # Missing /\ registry[d].active
        /\ d \in sync.deleted  => registry[d] = Missing

(* Success is said when every write was done; after a bootstrap no device of   *)
(* the worker is missing.                                                     *)
SuccessIsWhole ==
    sync.told = "success" =>
        /\ sync.failed = {} /\ sync.deletes \subseteq sync.deleted
        /\ sync.kind = "open" /\ sync.upserted # {} => Payloads(sync.data) \subseteq Rows(registry) \cup seen.foreign

(* With nobody else at work, what is left after a sync of everything has the   *)
(* definition that the worker reports.  (Nothing should be left, says the      *)
(* handler; but the registry spells a definition with a framework key that     *)
(* the worker does not send, so that no device counts as unchanged.)           *)
Alone == sync.told = "success" /\ sync.kind = "all" /\ counts.edits = 0 /\ seen.foreign = {}

LeftOver == Alone => \A d \in sync.after : registry[d] # Missing /\ registry[d].def = worker[d]

RegistrySyncTrue == TypeOK /\ OthersStand /\ WrittenStands /\ SuccessIsWhole /\ LeftOver
=============================================================================
