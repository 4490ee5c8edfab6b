---------------------------- MODULE ServicesProofs ----------------------------
(***************************************************************************)
(* Parts of MCServices that are proved: the lock of the RE Manager, for any *)
(* keys and any number of faults; the results of tasks, for any tasks,      *)
(* timeouts, restarts of the manager and environments (T); callers that     *)
(* share one REQ socket, for any callers, calls and timeouts, where the     *)
(* receiving thread is through with a call before the next begins (C); and  *)
(* the permissions of plans, for any devices, patterns and parameters (R).  *)
(***************************************************************************)
EXTENDS MCServices, TLAPS

-----------------------------------------------------------------------------
(* The lock of the RE Manager.                                             *)

(* A client that was told of the lock was told when nothing was being      *)
(* written, and then memory and store agree: a restart changes nothing.    *)
Settled == told.sure = TRUE => saving = "none" /\ info = told.lock /\ kept = told.lock

(* No key is NoKey: clients give non-empty strings.                        *)
Keys == NoKey \notin Key /\ MaxFaults \in Nat

(* The values the variables take; a lock has a key if and only if          *)
(* something is locked (LockInfo.set, LockInfo.clear).                     *)
THEOREM LockTyped == ASSUME Keys PROVE Spec => []TypeOK
<1> USE DEF Keys, Lock, Unlocked, IsSet, Told, Unsure
<1>1. Init => TypeOK
  BY DEF Init, TypeOK
<1>2. TypeOK /\ [Next]_vars => TypeOK'
  <2> SUFFICES ASSUME TypeOK, [Next]_vars PROVE TypeOK'
    OBVIOUS
  <2>1. ASSUME NEW key \in Key, NEW environment \in BOOLEAN, NEW queue \in BOOLEAN,
               LockAsked(key, environment, queue)
        PROVE  TypeOK'
    BY <2>1 DEF LockAsked, TypeOK
  <2>2. ASSUME NEW key \in Key \cup {Emergency}, UnlockAsked(key)
        PROVE  TypeOK'
    BY <2>2 DEF UnlockAsked, TypeOK
  <2>3. CASE Saved
    BY <2>3 DEF Saved, TypeOK
  <2>4. CASE SaveFails
    BY <2>4 DEF SaveFails, Written, TypeOK
  <2>5. CASE Restart
    BY <2>5 DEF Restart, Written, TypeOK
  <2>6. CASE UNCHANGED vars
    BY <2>6 DEF vars, TypeOK
  <2>7. QED
    BY <2>1, <2>2, <2>3, <2>4, <2>5, <2>6 DEF Next
<1>3. QED
  BY <1>1, <1>2, PTL DEF Spec

(* What a client was told of the lock stays true until somebody locks or   *)
(* unlocks again, whatever writes fail and however often the manager       *)
(* restarts (LockInfo and the lock and unlock handlers).                   *)
THEOREM ToldIsTrue == Spec => []LockAsTold
<1>1. Init => Settled
  BY DEF Init, Settled, Told
<1>2. Settled /\ [Next]_vars => Settled'
  <2> SUFFICES ASSUME Settled, [Next]_vars PROVE Settled'
    OBVIOUS
  <2>1. ASSUME NEW key \in Key, NEW environment \in BOOLEAN, NEW queue \in BOOLEAN,
               LockAsked(key, environment, queue)
        PROVE  Settled'
    BY <2>1 DEF LockAsked, Settled, Unsure
  <2>2. ASSUME NEW key \in Key \cup {Emergency}, UnlockAsked(key)
        PROVE  Settled'
    BY <2>2 DEF UnlockAsked, Settled, Unsure
  <2>3. CASE Saved
    BY <2>3 DEF Saved, Settled, Told
  <2>4. CASE SaveFails
    BY <2>4 DEF SaveFails, Settled
  <2>5. CASE Restart
    BY <2>5 DEF Restart, Written, Settled
  <2>6. CASE UNCHANGED vars
    BY <2>6 DEF vars, Settled
  <2>7. QED
    BY <2>1, <2>2, <2>3, <2>4, <2>5, <2>6 DEF Next
<1>3. Settled => LockAsTold
  BY DEF Settled, LockAsTold
<1>4. QED
  BY <1>1, <1>2, <1>3, PTL DEF Spec

-----------------------------------------------------------------------------
(* Tasks and their results.                                                *)

TaskNames == NoTask \notin Task /\ Retention \in Nat

Recorded == {u \in Task : seen.added[u] # << >>}
Given    == Recorded \cup {pending}
Running  == worker.bg \cup {worker.fg}

Download == [at : {"none", "wait", "sent", "answered"}, uids : SUBSET Task]

TaskTypes ==
    /\ worker \in [env : {"none", "open", "closing"}, fg : Task \cup {NoTask},
                   bg : SUBSET Task, done : SUBSET Task]
    /\ manager \in [state : {"idle", "executing_task", "closing_environment"},
                    fg : Task \cup {NoTask}, received : SUBSET Task, loading : BOOLEAN]
    /\ start \in [at : {"none", "wait", "sent", "accepted", "rejected"}, task : Task \cup {NoTask},
                  background : BOOLEAN]
    /\ stale \in [at : {"none", "sent"}, task : Task \cup {NoTask}, background : BOOLEAN]
    /\ start.at # "none" => start.task \in Task
    /\ stale.at # "none" => stale.task \in Task
    /\ load \in [T!Loads -> Download]
    /\ pending \in Task \cup {NoTask}
    /\ seen \in [used : SUBSET Task, finished : SUBSET Task, added : [Task -> Seq(Nat)],
                 excused : SUBSET Task, envs : Nat, faults : Nat]
    /\ clock \in Nat

(* One call at a time is out on the pipe.                                  *)
Out(i) == load[i].at \in {"sent", "answered"}
OneCall ==
    /\ start.at \in {"sent", "accepted", "rejected"} => \A i \in T!Loads : ~ Out(i)
    /\ \A i, j \in T!Loads : Out(i) /\ Out(j) => i = j
    /\ worker.env = "none" =>
           worker.fg = NoTask /\ worker.bg = {} /\ worker.done = {} /\ seen.finished = {}
    /\ \A i \in T!Loads : load[i].at = "answered" => worker.env # "none"

(* Tasks that a worker may still start.                                    *)
Starting == {u \in Task : \/ start.at \in {"wait", "sent"} /\ u = start.task
                          \/ stale.at # "none" /\ u = stale.task}

Delivered == {u \in Task : \E i \in T!Loads : load[i].at = "answered" /\ u \in load[i].uids}

(* A task that is not over has no result; uids are used once.              *)
NotOver ==
    /\ Starting \cup Running \cup worker.done \cup Given \cup Delivered \subseteq seen.used \cup {NoTask}
    /\ Starting \cap Running = {}
    /\ start.at \in {"wait", "sent"} /\ stale.at # "none" => start.task # stale.task
    /\ \A u \in Task : u \in Starting \cup Running => u \notin worker.done \cup Given \cup Delivered

(* What is acknowledged is recorded, or about to be.                       *)
AckedIsGiven ==
    /\ manager.received \subseteq Given
    /\ \A i \in T!Loads : load[i].at \in {"wait", "sent"} => load[i].uids \subseteq Given

(* A result that the worker may deliver again is known to the manager.     *)
AgainIsKnown ==
    /\ worker.done \cap Given \subseteq manager.received
    /\ \A i \in T!Loads : load[i].at = "answered" =>
           /\ load[i].uids \cap Given \subseteq manager.received
           /\ worker.done \cap Given \subseteq load[i].uids

PendingIsNew == pending \notin Recorded

Entry   == [task : Task, time : Nat]
Results == [running : SUBSET Task, data : UNION {[few -> Nat] : few \in SUBSET Task}, times : SUBSET Entry]

(* What is kept was recorded at the time it is kept with, and what was      *)
(* recorded is kept for the retention time.                                *)
Kept ==
    /\ DOMAIN results.data = {e.task : e \in results.times}
    /\ \A e \in results.times : seen.added[e.task] = <<e.time>>
    /\ \A u \in Task : \A k \in DOMAIN seen.added[u] :
           /\ seen.added[u][k] <= clock
           /\ clock <= seen.added[u][k] + Retention =>
                  [task |-> u, time |-> seen.added[u][k]] \in results.times

(* What is listed as running was not recorded, and what was accepted runs   *)
(* or has a result at the worker.                                          *)
Listed ==
    /\ results.running \cap Recorded = {}
    /\ T!RunningIsTrue
    /\ start.at = "accepted" => worker.env # "none" /\ start.task \in (Running \cup worker.done) \ Given
    /\ worker.env = "none" => results.running = {}

(* The manager is occupied from the request for a foreground task to its    *)
(* result, and knows the task by its answer.  The task that it remembers    *)
(* while it is idle, or starts another, is one that the worker rejected.    *)
Foreground == start.at # "none" /\ ~ start.background

Occupied ==
    /\ worker.fg # NoTask /\ worker.fg \notin seen.excused =>
         /\ manager.state = "executing_task"
         /\ IF Foreground THEN start.at = "accepted" /\ start.task = worker.fg
           ELSE manager.fg = worker.fg
    /\ Foreground => manager.state = "executing_task" /\ pending = NoTask
    /\ pending # NoTask => manager.state = "executing_task" /\ worker.fg \in seen.excused \cup {NoTask}
    /\ stale.at # "none" => stale.task \in seen.excused
    /\ start.at \in {"accepted", "rejected"} => stale.at = "none"
    /\ manager.fg \in seen.used \cup {NoTask}
    /\ Foreground \/ manager.state = "idle" =>
         manager.fg \notin (Starting \cup Running \cup worker.done \cup Delivered) \ {NoTask}
    /\ start.at = "rejected" => start.task \notin Running \cup worker.done \cup Delivered
    /\ start.at # "none" => start.task \in seen.used

TaskInv == /\ TaskTypes /\ OneCall /\ NotOver /\ AckedIsGiven /\ AgainIsKnown /\ PendingIsNew
       /\ T!RecordedOnce /\ T!NoResultLost

-----------------------------------------------------------------------------
(* Records and results.                                                    *)

(* A step that records nothing leaves what is said of records true.         *)
LEMMA NothingRecorded ==
  ASSUME seen'.added = seen.added, pending' = pending
  PROVE  /\ Recorded' = Recorded /\ Given' = Given
         /\ PendingIsNew => PendingIsNew'
         /\ T!RecordedOnce => T!RecordedOnce'
<1>1. Recorded' = Recorded
  BY DEF Recorded
<1>2. QED
  BY <1>1 DEF Given, PendingIsNew, T!RecordedOnce

(* Results that are recorded for the first time are recorded once.         *)
LEMMA FirstRecord ==
  ASSUME TaskTypes, T!RecordedOnce, NEW uids \in SUBSET Task, uids \cap Recorded = {},
         seen' = T!Noted(seen, uids)
  PROVE  /\ seen' \in [used : SUBSET Task, finished : SUBSET Task, added : [Task -> Seq(Nat)],
                       excused : SUBSET Task, envs : Nat, faults : Nat]
         /\ seen'.used = seen.used /\ seen'.finished = seen.finished
         /\ Recorded' = Recorded \cup uids
         /\ T!RecordedOnce'
<1> DEFINE Later(u) == IF u \in uids THEN Append(seen.added[u], clock) ELSE seen.added[u]
<1>1. seen' = [seen EXCEPT !.added = [u \in Task |-> Later(u)]]
  BY DEF TaskTypes, T!Noted
<1>2. \A u \in Task : /\ Later(u) \in Seq(Nat)
                      /\ Later(u) # << >> <=> u \in uids \/ seen.added[u] # << >>
                      /\ u \in uids => Len(Later(u)) = Len(seen.added[u]) + 1
                      /\ u \notin uids => Later(u) = seen.added[u]
  <2> SUFFICES ASSUME NEW u \in Task
               PROVE  /\ Later(u) \in Seq(Nat)
                      /\ Later(u) # << >> <=> u \in uids \/ seen.added[u] # << >>
                      /\ u \in uids => Len(Later(u)) = Len(seen.added[u]) + 1
                      /\ u \notin uids => Later(u) = seen.added[u]
    OBVIOUS
  <2>1. seen.added[u] \in Seq(Nat) /\ clock \in Nat
    BY DEF TaskTypes
  <2> DEFINE longer == Append(seen.added[u], clock)
  <2>2. longer \in Seq(Nat) /\ Len(longer) = Len(seen.added[u]) + 1
    BY <2>1
  <2>3. longer # << >>
    BY <2>1, <2>2
  <2>4. QED
    BY <2>1, <2>2, <2>3
<1>3. \A u \in uids : Len(seen.added[u]) = 0
  BY DEF Recorded
<1> HIDE DEF Later
<1>4. seen'.added = [u \in Task |-> Later(u)]
  BY <1>1 DEF TaskTypes
<1>5. T!RecordedOnce'
  <2> SUFFICES ASSUME NEW u \in Task PROVE Len(Later(u)) <= 1
    BY <1>4 DEF T!RecordedOnce
  <2>1. QED
    BY <1>2, <1>3 DEF T!RecordedOnce
<1>6. Recorded' = Recorded \cup uids
  BY <1>2, <1>4 DEF Recorded
<1>7. seen'.added \in [Task -> Seq(Nat)]
  BY <1>2, <1>4
<1>8. seen' = [seen EXCEPT !.added = seen'.added]
  BY <1>1 DEF TaskTypes
<1>9. QED
  BY <1>5, <1>6, <1>7, <1>8 DEF TaskTypes

LEMMA TaskInitInv == ASSUME TaskNames, T!Init PROVE TaskInv
<1>1. TaskTypes
  BY DEF TaskNames, T!Init, TaskTypes, Download, T!Gone, T!Booted, T!Nobody, T!NoLoad
<1>2. Recorded = {} /\ Starting = {} /\ Delivered = {} /\ Given = {NoTask}
  BY DEF T!Init, Recorded, Starting, Delivered, Given, T!Nobody, T!NoLoad
<1>3. OneCall /\ T!NoResultLost /\ T!RecordedOnce /\ PendingIsNew
  BY <1>2 DEF T!Init, OneCall, Out, T!Gone, T!Nobody, T!NoLoad, T!NoResultLost, T!RecordedOnce, PendingIsNew
<1>4. NotOver /\ AckedIsGiven /\ AgainIsKnown
  BY <1>2 DEF TaskNames, T!Init, NotOver, AckedIsGiven, AgainIsKnown, Running, T!Gone, T!Booted, T!Nobody, T!NoLoad
<1>5. QED
  BY <1>1, <1>3, <1>4 DEF TaskInv

-----------------------------------------------------------------------------
(* Starting a task and ending it.                                          *)

LEMMA StartAskedKeeps ==
  ASSUME TaskNames, TaskInv, NEW u \in Task, NEW background \in BOOLEAN, T!StartAsked(u, background)
  PROVE  TaskInv'
<1>1. TaskTypes'
  BY DEF TaskInv, TaskTypes, T!StartAsked
<1>2. seen'.added = seen.added /\ UNCHANGED <<worker, load, stale, pending>>
  BY DEF T!StartAsked, TaskInv, TaskTypes
<1>3. manager'.received = manager.received /\ seen'.used = seen.used \cup {u}
  BY DEF T!StartAsked, TaskInv, TaskTypes
<1>4. OneCall'
  BY DEF TaskInv, TaskTypes, OneCall, Out, T!StartAsked
<1>5. Starting' \subseteq Starting \cup {u} /\ Delivered' = Delivered /\ u \notin Starting
  BY DEF TaskInv, TaskTypes, NotOver, TaskNames, Starting, Delivered, T!StartAsked
<1>6. NotOver'
  BY <1>2, <1>3, <1>5, NothingRecorded DEF TaskInv, TaskTypes, TaskNames, NotOver, Running, T!StartAsked, Starting
<1>7. AckedIsGiven' /\ AgainIsKnown'
  BY <1>2, <1>3, NothingRecorded DEF TaskInv, AckedIsGiven, AgainIsKnown
<1>8. PendingIsNew' /\ T!RecordedOnce' /\ T!NoResultLost'
  BY <1>2, NothingRecorded DEF TaskInv, T!NoResultLost, T!StartAsked, TaskTypes
<1>9. QED
  BY <1>1, <1>4, <1>6, <1>7, <1>8 DEF TaskInv

LEMMA StartSentKeeps == ASSUME TaskNames, TaskInv, T!StartSent PROVE TaskInv'
<1>1. TaskTypes'
  BY DEF TaskInv, TaskTypes, T!StartSent
<1>2. UNCHANGED <<worker, manager, load, stale, pending, seen>>
  BY DEF T!StartSent
<1>3. OneCall'
  BY <1>2 DEF TaskInv, TaskTypes, OneCall, Out, T!PipeFree, T!StartSent
<1>4. Starting' = Starting /\ Delivered' = Delivered
  BY <1>2 DEF TaskInv, TaskTypes, Starting, Delivered, T!StartSent
<1>5. NotOver'
  BY <1>2, <1>4, NothingRecorded DEF TaskInv, TaskTypes, NotOver, Running, T!StartSent
<1>6. AckedIsGiven' /\ AgainIsKnown' /\ PendingIsNew' /\ T!RecordedOnce' /\ T!NoResultLost'
  BY <1>2, NothingRecorded DEF TaskInv, AckedIsGiven, AgainIsKnown, T!NoResultLost
<1>7. QED
  BY <1>1, <1>3, <1>5, <1>6 DEF TaskInv

(* A worker that starts a task runs one that was not over.                 *)
LEMMA StartedRuns ==
  ASSUME TaskTypes, NEW s \in [at : {"none", "wait", "sent", "accepted", "rejected"},
                           task : Task, background : BOOLEAN],
         T!Accepts(worker, s), worker' = T!Started(worker, s)
  PROVE  /\ worker' \in [env : {"none", "open", "closing"}, fg : Task \cup {NoTask},
                          bg : SUBSET Task, done : SUBSET Task]
         /\ Running' \subseteq Running \cup {s.task}
         /\ worker'.done = worker.done /\ worker'.env = "open"
  BY DEF TaskTypes, T!Accepts, T!Started, Running

LEMMA StartServedKeeps == ASSUME TaskNames, TaskInv, T!StartServed PROVE TaskInv'
<1>1. UNCHANGED <<manager, load, stale, pending, seen, clock>>
  BY DEF T!StartServed
<1>2. /\ start.at = "sent" /\ start.task \in Task /\ stale.at = "none" /\ worker.env # "none"
      /\ start'.at \in {"accepted", "rejected"} /\ start'.task = start.task
      /\ start' \in [at : {"none", "wait", "sent", "accepted", "rejected"},
                     task : Task \cup {NoTask}, background : BOOLEAN]
  <2>1. /\ start.at = "sent" /\ stale.at = "none" /\ worker.env # "none" /\ TaskTypes
        /\ start' \in {[start EXCEPT !.at = "accepted"], [start EXCEPT !.at = "rejected"]}
    BY DEF TaskInv, T!StartServed
  <2>2. start.task \in Task
    BY <2>1 DEF TaskTypes
  <2>3. QED
    BY <2>1, <2>2 DEF TaskTypes
<1>3. /\ worker' \in [env : {"none", "open", "closing"}, fg : Task \cup {NoTask},
                       bg : SUBSET Task, done : SUBSET Task]
      /\ Running' \subseteq Running \cup {start.task}
      /\ worker'.done = worker.done /\ worker'.env # "none"
  <2>1. start \in [at : {"none", "wait", "sent", "accepted", "rejected"}, task : Task,
                   background : BOOLEAN]
    BY <1>2 DEF TaskInv, TaskTypes
  <2>2. CASE T!Accepts(worker, start)
    BY <2>1, <2>2, StartedRuns DEF T!StartServed, TaskInv
  <2>3. CASE ~ T!Accepts(worker, start)
    BY <1>2, <2>3 DEF T!StartServed, TaskInv, TaskTypes, Running
  <2>4. QED
    BY <2>2, <2>3
<1>4. TaskTypes'
  BY <1>1, <1>2, <1>3 DEF TaskInv, TaskTypes
<1>5. OneCall'
  BY <1>1, <1>2, <1>3 DEF TaskInv, OneCall, Out
<1>6. Starting' = {} /\ Delivered' = Delivered /\ start.task \in Starting
  BY <1>1, <1>2 DEF Starting, Delivered
<1>7. NotOver'
  BY <1>1, <1>2, <1>3, <1>6, NothingRecorded DEF TaskInv, NotOver
<1>8. AckedIsGiven' /\ AgainIsKnown' /\ PendingIsNew' /\ T!RecordedOnce' /\ T!NoResultLost'
  BY <1>1, <1>3, NothingRecorded DEF TaskInv, AckedIsGiven, AgainIsKnown, T!NoResultLost
<1>9. QED
  BY <1>4, <1>5, <1>7, <1>8 DEF TaskInv

LEMMA StaleServedKeeps == ASSUME TaskNames, TaskInv, T!StaleServed PROVE TaskInv'
<1>1. UNCHANGED <<manager, load, start, pending, seen, clock>> /\ stale' = T!Nobody
  BY DEF T!StaleServed
<1>2. stale.at # "none" /\ stale.task \in Task
  BY DEF TaskInv, TaskTypes, T!StaleServed
<1>3. /\ worker' \in [env : {"none", "open", "closing"}, fg : Task \cup {NoTask},
                       bg : SUBSET Task, done : SUBSET Task]
      /\ Running' \subseteq Running \cup {stale.task}
      /\ worker'.done = worker.done /\ worker'.env = worker.env
      /\ worker.env = "none" => worker' = worker
  <2>1. stale \in [at : {"none", "wait", "sent", "accepted", "rejected"}, task : Task,
                   background : BOOLEAN]
    BY <1>2 DEF TaskInv, TaskTypes
  <2>2. CASE T!Accepts(worker, stale)
    <3>1. worker' = T!Started(worker, stale) /\ worker.env = "open"
      BY <2>2 DEF T!StaleServed, T!Accepts
    <3>2. QED
      BY <2>1, <2>2, <3>1, StartedRuns DEF TaskInv
  <2>3. CASE ~ T!Accepts(worker, stale)
    BY <2>3 DEF T!StaleServed, TaskInv, TaskTypes, Running
  <2>4. QED
    BY <2>2, <2>3
<1>4. TaskTypes'
  BY <1>1, <1>3 DEF TaskInv, TaskTypes, T!Nobody
<1>5. OneCall'
  BY <1>1, <1>3 DEF TaskInv, OneCall, Out
<1>6. Starting' \subseteq Starting \ {stale.task} /\ Delivered' = Delivered /\ stale.task \in Starting
  BY <1>1, <1>2 DEF TaskInv, NotOver, Starting, Delivered, T!Nobody
<1>7. NotOver'
  BY <1>1, <1>2, <1>3, <1>6, NothingRecorded DEF TaskInv, NotOver, T!Nobody
<1>8. AckedIsGiven' /\ AgainIsKnown' /\ PendingIsNew' /\ T!RecordedOnce' /\ T!NoResultLost'
  BY <1>1, <1>3, NothingRecorded DEF TaskInv, AckedIsGiven, AgainIsKnown, T!NoResultLost
<1>9. QED
  BY <1>4, <1>5, <1>7, <1>8 DEF TaskInv

LEMMA StartAnsweredKeeps == ASSUME TaskNames, TaskInv, T!StartAnswered PROVE TaskInv'
<1>1. UNCHANGED <<worker, load, stale, pending, seen, clock>> /\ start' = T!Nobody
  BY DEF T!StartAnswered
<1>2. /\ manager' \in [state : {"idle", "executing_task", "closing_environment"},
                        fg : Task \cup {NoTask}, received : SUBSET Task, loading : BOOLEAN]
      /\ manager'.received = manager.received
  BY DEF TaskInv, TaskTypes, T!StartAnswered
<1>3. TaskTypes'
  BY <1>1, <1>2 DEF TaskInv, TaskTypes, T!Nobody
<1>4. OneCall'
  BY <1>1 DEF TaskInv, OneCall, Out, T!Nobody
<1>5. Starting' \subseteq Starting /\ Delivered' = Delivered
  BY <1>1 DEF Starting, Delivered, T!Nobody
<1>6. NotOver'
  BY <1>1, <1>5, NothingRecorded DEF TaskInv, NotOver, Running, T!Nobody
<1>7. AckedIsGiven' /\ AgainIsKnown' /\ PendingIsNew' /\ T!RecordedOnce' /\ T!NoResultLost'
  BY <1>1, <1>2, NothingRecorded DEF TaskInv, AckedIsGiven, AgainIsKnown, T!NoResultLost
<1>8. QED
  BY <1>3, <1>4, <1>6, <1>7 DEF TaskInv

LEMMA StartTimesOutKeeps == ASSUME TaskNames, TaskInv, T!StartTimesOut PROVE TaskInv'
<1>1. /\ UNCHANGED <<worker, load, pending, clock>> /\ start' = T!Nobody
      /\ stale' = stale \/ (start.at = "sent" /\ stale' = start)
  BY DEF T!StartTimesOut
<1>2. /\ manager' \in [state : {"idle", "executing_task", "closing_environment"},
                        fg : Task \cup {NoTask}, received : SUBSET Task, loading : BOOLEAN]
      /\ manager'.received = manager.received
  BY DEF TaskInv, TaskTypes, T!StartTimesOut
<1>3. /\ seen' \in [used : SUBSET Task, finished : SUBSET Task, added : [Task -> Seq(Nat)],
                     excused : SUBSET Task, envs : Nat, faults : Nat]
      /\ seen'.added = seen.added /\ seen'.used = seen.used /\ seen'.finished = seen.finished
  <2> DEFINE n == IF worker.env = "none" THEN seen.faults ELSE seen.faults + 1
             e == seen.excused \cup {start.task}
  <2>1. n \in Nat /\ e \in SUBSET Task
    BY DEF TaskInv, TaskTypes, T!StartTimesOut
  <2>2. seen' = [seen EXCEPT !.faults = n, !.excused = e]
    BY DEF TaskInv, TaskTypes, T!StartTimesOut
  <2> HIDE DEF n, e
  <2>3. QED
    BY <2>1, <2>2 DEF TaskInv, TaskTypes
<1>4. TaskTypes'
  BY <1>1, <1>2, <1>3 DEF TaskInv, TaskTypes, T!Nobody
<1>5. OneCall'
  BY <1>1, <1>3 DEF TaskInv, OneCall, Out, T!Nobody
<1>6. Starting' \subseteq Starting /\ Delivered' = Delivered
  BY <1>1 DEF Starting, Delivered, T!Nobody
<1>7. NotOver'
  BY <1>1, <1>3, <1>6, NothingRecorded DEF TaskInv, NotOver, Running, T!Nobody
<1>8. AckedIsGiven' /\ AgainIsKnown' /\ PendingIsNew' /\ T!RecordedOnce' /\ T!NoResultLost'
  BY <1>1, <1>2, <1>3, NothingRecorded DEF TaskInv, AckedIsGiven, AgainIsKnown, T!NoResultLost
<1>9. QED
  BY <1>4, <1>5, <1>7, <1>8 DEF TaskInv

LEMMA TaskEndsKeeps == ASSUME TaskNames, TaskInv, NEW u \in Task, T!TaskEnds(u) PROVE TaskInv'
<1>1. UNCHANGED <<manager, start, load, stale, pending, clock>> /\ u \in Running
  BY DEF T!TaskEnds, Running
<1>2. /\ worker' \in [env : {"none", "open", "closing"}, fg : Task \cup {NoTask},
                       bg : SUBSET Task, done : SUBSET Task]
      /\ worker'.done = worker.done \cup {u} /\ worker'.env = worker.env /\ worker.env # "none"
      /\ Running' \subseteq (Running \ {u}) \cup {NoTask}
  BY DEF TaskNames, TaskInv, TaskTypes, OneCall, T!TaskEnds, Running
<1>3. /\ seen' \in [used : SUBSET Task, finished : SUBSET Task, added : [Task -> Seq(Nat)],
                     excused : SUBSET Task, envs : Nat, faults : Nat]
      /\ seen'.added = seen.added /\ seen'.used = seen.used
      /\ seen'.finished = seen.finished \cup {u}
  BY DEF TaskInv, TaskTypes, T!TaskEnds
<1>4. TaskTypes'
  BY <1>1, <1>2, <1>3 DEF TaskInv, TaskTypes
<1>5. OneCall'
  BY <1>1, <1>2, <1>3 DEF TaskInv, OneCall, Out
<1>6. Starting' = Starting /\ Delivered' = Delivered /\ Starting \subseteq Task
  BY <1>1 DEF Starting, Delivered
<1>7. u \notin Starting /\ u \notin Given
  BY <1>1 DEF TaskInv, NotOver
<1>8. NotOver'
  <2>1. \A v \in Task : v \in Starting' \cup Running' =>
             v \in Starting \cup Running /\ v # u
    BY <1>2, <1>6, <1>7, TaskNames DEF TaskNames
  <2>2. Starting' \cap Running' = {}
    BY <1>2, <1>6, TaskNames DEF TaskInv, NotOver, TaskNames
  <2>3. Running' \cup worker'.done \subseteq seen.used \cup {NoTask}
    BY <1>1, <1>2 DEF TaskInv, NotOver
  <2>4. QED
    BY <1>1, <1>2, <1>3, <1>6, <2>1, <2>2, <2>3, NothingRecorded DEF TaskInv, NotOver
<1>9. AckedIsGiven' /\ AgainIsKnown' /\ PendingIsNew' /\ T!RecordedOnce' /\ T!NoResultLost'
  BY <1>1, <1>2, <1>3, <1>7, NothingRecorded DEF TaskInv, AckedIsGiven, AgainIsKnown, T!NoResultLost
<1>10. QED
  BY <1>4, <1>5, <1>8, <1>9 DEF TaskInv

-----------------------------------------------------------------------------
(* Downloading results.                                                    *)

LEMMA LoadAskedKeeps == ASSUME TaskNames, TaskInv, NEW i \in T!Loads, T!LoadAsked(i) PROVE TaskInv'
<1>1. /\ UNCHANGED <<worker, start, stale, pending, seen, clock>>
      /\ load' = [load EXCEPT ![i] = [at |-> "wait", uids |-> manager.received]]
      /\ manager' = [manager EXCEPT !.loading = TRUE]
  BY DEF T!LoadAsked
<1>2. TaskTypes'
  BY <1>1 DEF TaskInv, TaskTypes, Download
<1>3. OneCall'
  BY <1>1 DEF TaskInv, TaskTypes, OneCall, Out
<1>4. Starting' = Starting /\ Delivered' \subseteq Delivered
  BY <1>1 DEF TaskInv, TaskTypes, Starting, Delivered
<1>5. NotOver'
  BY <1>1, <1>4, NothingRecorded DEF TaskInv, NotOver, Running
<1>6. AckedIsGiven' /\ AgainIsKnown'
  BY <1>1, NothingRecorded DEF TaskInv, TaskTypes, AckedIsGiven, AgainIsKnown
<1>7. PendingIsNew' /\ T!RecordedOnce' /\ T!NoResultLost'
  BY <1>1, NothingRecorded DEF TaskInv, T!NoResultLost
<1>8. QED
  BY <1>2, <1>3, <1>5, <1>6, <1>7 DEF TaskInv

LEMMA LoadSentKeeps == ASSUME TaskNames, TaskInv, NEW i \in T!Loads, T!LoadSent(i) PROVE TaskInv'
<1>1. /\ UNCHANGED <<worker, manager, start, stale, pending, seen, clock>>
      /\ load' = [load EXCEPT ![i].at = "sent"] /\ load[i].at = "wait" /\ T!PipeFree
  BY DEF T!LoadSent
<1>2. TaskTypes'
  <2>1. load' \in [T!Loads -> Download]
    <3> DEFINE l == [load[i] EXCEPT !.at = "sent"]
    <3>1. /\ load \in [T!Loads -> Download]
          /\ load[i] \in Download
      BY DEF TaskInv, TaskTypes
    <3>2. l \in Download
      BY <3>1 DEF Download
    <3>3. load' = [load EXCEPT ![i] = l]
      BY <1>1
    <3> HIDE DEF l
    <3>4. QED
      BY <3>1, <3>2, <3>3
  <2>2. QED
    BY <1>1, <2>1 DEF TaskInv, TaskTypes
<1>3. OneCall'
  BY <1>1 DEF TaskInv, TaskTypes, OneCall, Out, T!PipeFree
<1>4. Starting' = Starting /\ Delivered' = Delivered
  BY <1>1 DEF TaskInv, TaskTypes, Starting, Delivered
<1>5. NotOver'
  BY <1>1, <1>4, NothingRecorded DEF TaskInv, NotOver, Running
<1>6. AckedIsGiven' /\ AgainIsKnown'
  BY <1>1, NothingRecorded DEF TaskInv, TaskTypes, AckedIsGiven, AgainIsKnown
<1>7. PendingIsNew' /\ T!RecordedOnce' /\ T!NoResultLost'
  BY <1>1, NothingRecorded DEF TaskInv, T!NoResultLost
<1>8. QED
  BY <1>2, <1>3, <1>5, <1>6, <1>7 DEF TaskInv

LEMMA LoadServedKeeps == ASSUME TaskNames, TaskInv, NEW i \in T!Loads, T!LoadServed(i) PROVE TaskInv'
<1> DEFINE left == worker.done \ load[i].uids
<1>1. /\ UNCHANGED <<manager, start, stale, pending, seen, clock>>
      /\ load' = [load EXCEPT ![i] = [at |-> "answered", uids |-> left]]
      /\ worker' = [worker EXCEPT !.done = left]
      /\ load[i].at = "sent" /\ worker.env # "none"
  BY DEF T!LoadServed, T!Unacknowledged
<1>2. left \in SUBSET Task /\ load[i].uids \subseteq Given
  BY <1>1 DEF TaskInv, TaskTypes, AckedIsGiven
<1>3. left \subseteq worker.done /\ worker.done \subseteq left \cup load[i].uids
  OBVIOUS
<1> HIDE DEF left
<1>4. TaskTypes'
  <2>1. TaskTypes
    BY DEF TaskInv
  <2>2. load' \in [T!Loads -> Download]
    BY <1>1, <1>2, <2>1 DEF TaskTypes, Download
  <2>3. worker' \in [env : {"none", "open", "closing"}, fg : Task \cup {NoTask},
                      bg : SUBSET Task, done : SUBSET Task]
    <3>1. worker \in [env : {"none", "open", "closing"}, fg : Task \cup {NoTask},
                      bg : SUBSET Task, done : SUBSET Task]
      BY <2>1 DEF TaskTypes
    <3>2. worker' = [worker EXCEPT !.done = left]
      BY <1>1
    <3>3. QED
      BY <1>2, <3>1, <3>2
  <2>4. UNCHANGED <<manager, start, stale, pending, seen, clock>>
    BY <1>1
  <2>5. QED
    BY <2>1, <2>2, <2>3, <2>4 DEF TaskTypes
<1>5. OneCall'
  <2>1. \A j \in T!Loads : Out(j)' => Out(j)
    BY <1>1 DEF TaskInv, TaskTypes, Out
  <2>2. worker'.env = worker.env /\ worker.env # "none"
    BY <1>1 DEF TaskInv, TaskTypes
  <2>3. QED
    BY <1>1, <2>1, <2>2 DEF TaskInv, OneCall
<1>6. Starting' = Starting /\ Running' = Running /\ Delivered' \subseteq Delivered \cup left
  BY <1>1 DEF TaskInv, TaskTypes, Starting, Running, Delivered
<1>7. NotOver'
  BY <1>1, <1>3, <1>6, NothingRecorded DEF TaskInv, TaskTypes, NotOver
<1>8. worker'.done = left
  BY <1>1 DEF TaskInv, TaskTypes
<1>9. AckedIsGiven'
  BY <1>1, NothingRecorded DEF TaskInv, TaskTypes, AckedIsGiven
<1>10. AgainIsKnown'
  <2>1. \A j \in T!Loads : load'[j].at = "answered" => j = i
    BY <1>1 DEF TaskInv, TaskTypes, OneCall, Out
  <2>2. load'[i].uids = left
    BY <1>1 DEF TaskInv, TaskTypes
  <2>3. QED
    BY <1>1, <1>3, <1>8, <2>1, <2>2, NothingRecorded DEF TaskInv, AgainIsKnown
<1>11. T!NoResultLost'
  BY <1>1, <1>2, <1>3, <1>8 DEF TaskInv, T!NoResultLost, Given, Recorded
<1>12. PendingIsNew' /\ T!RecordedOnce'
  BY <1>1, NothingRecorded DEF TaskInv
<1>13. QED
  BY <1>4, <1>5, <1>7, <1>9, <1>10, <1>11, <1>12 DEF TaskInv

LEMMA LoadAnsweredKeeps == ASSUME TaskNames, TaskInv, NEW i \in T!Loads, T!LoadAnswered(i) PROVE TaskInv'
<1> DEFINE uids == load[i].uids
           new  == uids \ manager.received
           fresh  == {u \in new : ~ T!Awaited(u)}
<1>1. /\ UNCHANGED <<worker, start, stale, clock>>
      /\ load' = [load EXCEPT ![i] = T!NoLoad] /\ load[i].at = "answered"
      /\ manager' = [manager EXCEPT !.received = uids, !.loading = FALSE]
      /\ pending = NoTask /\ seen' = T!Noted(seen, fresh)
      /\ pending' = IF new = fresh THEN NoTask ELSE CHOOSE u \in new \ fresh : TRUE
  BY DEF T!LoadAnswered, T!NewResults
<1>2. uids \in SUBSET Task /\ uids \cap Given \subseteq manager.received
  BY <1>1 DEF TaskInv, TaskTypes, Download, AgainIsKnown
<1>3. fresh \in SUBSET Task /\ fresh \cap Recorded = {} /\ new \cap Given = {} /\ fresh \subseteq new
  BY <1>2 DEF Given
<1>4. /\ seen' \in [used : SUBSET Task, finished : SUBSET Task, added : [Task -> Seq(Nat)],
                     excused : SUBSET Task, envs : Nat, faults : Nat]
      /\ seen'.used = seen.used /\ seen'.finished = seen.finished
      /\ Recorded' = Recorded \cup fresh /\ T!RecordedOnce'
  BY <1>1, <1>3, FirstRecord DEF TaskInv
<1>5. new \subseteq fresh \cup {pending'} /\ pending' \in (new \ fresh) \cup {NoTask}
  <2>1. \A u, v \in new \ fresh : u = v
    BY DEF T!Awaited
  <2>2. CASE new = fresh
    BY <1>1, <2>2
  <2>3. CASE new # fresh
    <3>1. \E u \in new \ fresh : TRUE
      BY <2>3
    <3>2. pending' \in new \ fresh
      BY <1>1, <2>3, <3>1
    <3>3. QED
      BY <2>1, <3>2
  <2>4. QED
    BY <2>2, <2>3
<1>6. uids \subseteq manager.received \cup new /\ new \subseteq uids
  OBVIOUS
<1>7. new \subseteq Delivered
  BY <1>1, <1>2 DEF Delivered
<1> HIDE DEF uids, new, fresh
<1>8. /\ manager' \in [state : {"idle", "executing_task", "closing_environment"},
                        fg : Task \cup {NoTask}, received : SUBSET Task, loading : BOOLEAN]
      /\ manager'.received = uids
  BY <1>1, <1>2 DEF TaskInv, TaskTypes
<1>9. TaskTypes'
  <2>1. pending' \in Task \cup {NoTask}
    BY <1>2, <1>5, <1>6
  <2>2. load' \in [T!Loads -> Download]
    BY <1>1 DEF TaskInv, TaskTypes, Download, T!NoLoad
  <2>3. QED
    BY <1>1, <1>4, <1>8, <2>1, <2>2 DEF TaskInv, TaskTypes
<1>10. OneCall'
  <2>1. \A j \in T!Loads : load'[j].at # "none" => load'[j] = load[j]
    BY <1>1 DEF TaskInv, TaskTypes, T!NoLoad
  <2>2. UNCHANGED <<worker, start>> /\ seen'.finished = seen.finished
    BY <1>1, <1>4
  <2>3. QED
    BY <2>1, <2>2 DEF TaskInv, OneCall, Out
<1>11. Starting' = Starting /\ Running' = Running /\ Delivered' \subseteq Delivered
  <2>1. \A j \in T!Loads : load'[j].at # "none" => load'[j] = load[j]
    BY <1>1 DEF TaskInv, TaskTypes, T!NoLoad
  <2>2. UNCHANGED <<worker, start, stale>>
    BY <1>1
  <2>3. QED
    BY <2>1, <2>2 DEF Starting, Running, Delivered
<1>12. Given' \cap Task = (Given \cup new) \cap Task /\ Given' \subseteq Given \cup new
  <2>1. pending = NoTask /\ Recorded' = Recorded \cup fresh
    BY <1>1, <1>4
  <2>2. Given = Recorded \cup {NoTask} /\ Given' = Recorded \cup fresh \cup {pending'}
    BY <2>1 DEF Given
  <2>3. QED
    BY <1>3, <1>5, <2>2, TaskNames DEF TaskNames
<1>13. Starting \cup Running \cup worker.done \cup Delivered \subseteq Task \cup {NoTask}
  BY DEF TaskInv, TaskTypes, Starting, Running, Delivered
<1>14. NotOver'
  BY <1>1, <1>4, <1>7, <1>11, <1>12 DEF TaskInv, NotOver
<1>15. AckedIsGiven'
  <2>1. uids \subseteq Given'
    BY <1>2, <1>6, <1>12 DEF TaskInv, AckedIsGiven
  <2>2. \A j \in T!Loads : load'[j].at \in {"wait", "sent"} => load'[j] = load[j]
    BY <1>1 DEF TaskInv, TaskTypes, T!NoLoad
  <2>3. QED
    BY <1>8, <1>12, <2>1, <2>2 DEF TaskInv, TaskTypes, Download, AckedIsGiven
<1>16. AgainIsKnown'
  <2>1. \A j \in T!Loads : load'[j].at # "answered"
    BY <1>1 DEF TaskInv, TaskTypes, OneCall, Out, T!NoLoad
  <2>2. worker.done \cap Given \subseteq uids
    BY <1>1 DEF TaskInv, AgainIsKnown, uids
  <2>3. QED
    BY <1>1, <1>6, <1>8, <1>12, <2>1, <2>2 DEF AgainIsKnown
<1>17. PendingIsNew'
  BY <1>3, <1>4, <1>5, TaskNames DEF TaskNames, PendingIsNew, Recorded, Given
<1>18. T!NoResultLost'
  <2>1. \A u \in seen.finished : u \in worker.done \/ u \in Recorded
    BY <1>1, TaskNames DEF TaskNames, TaskInv, TaskTypes, T!NoResultLost, Recorded
  <2>2. QED
    BY <1>1, <1>4, <2>1 DEF T!NoResultLost, Recorded
<1>19. QED
  BY <1>4, <1>9, <1>10, <1>14, <1>15, <1>16, <1>17, <1>18 DEF TaskInv

LEMMA LoadTimesOutKeeps == ASSUME TaskNames, TaskInv, NEW i \in T!Loads, T!LoadTimesOut(i) PROVE TaskInv'
<1>1. /\ UNCHANGED <<worker, start, stale, pending, clock>>
      /\ load' = [load EXCEPT ![i] = T!NoLoad]
      /\ manager' = [manager EXCEPT !.loading = FALSE]
  BY DEF T!LoadTimesOut
<1>2. /\ seen' \in [used : SUBSET Task, finished : SUBSET Task, added : [Task -> Seq(Nat)],
                     excused : SUBSET Task, envs : Nat, faults : Nat]
      /\ seen'.added = seen.added /\ seen'.used = seen.used /\ seen'.finished = seen.finished
  <2> DEFINE n == IF worker.env = "none" THEN seen.faults ELSE seen.faults + 1
  <2>1. n \in Nat
    BY DEF TaskInv, TaskTypes
  <2>2. seen' = [seen EXCEPT !.faults = n]
    BY DEF T!LoadTimesOut
  <2> HIDE DEF n
  <2>3. QED
    BY <2>1, <2>2 DEF TaskInv, TaskTypes
<1>3. TaskTypes'
  BY <1>1, <1>2 DEF TaskInv, TaskTypes, Download, T!NoLoad
<1>4. OneCall'
  BY <1>1, <1>2 DEF TaskInv, TaskTypes, OneCall, Out, T!NoLoad
<1>5. Starting' = Starting /\ Delivered' \subseteq Delivered
  BY <1>1 DEF TaskInv, TaskTypes, Starting, Delivered, T!NoLoad
<1>6. NotOver'
  BY <1>1, <1>2, <1>5, NothingRecorded DEF TaskInv, NotOver, Running
<1>7. AckedIsGiven' /\ AgainIsKnown'
  BY <1>1, <1>2, NothingRecorded DEF TaskInv, TaskTypes, AckedIsGiven, AgainIsKnown, T!NoLoad
<1>8. PendingIsNew' /\ T!RecordedOnce' /\ T!NoResultLost'
  BY <1>1, <1>2, NothingRecorded DEF TaskInv, T!NoResultLost
<1>9. QED
  BY <1>3, <1>4, <1>6, <1>7, <1>8 DEF TaskInv

LEMMA StateSetKeeps == ASSUME TaskNames, TaskInv, T!StateSet PROVE TaskInv'
<1>1. /\ UNCHANGED <<worker, start, load, stale, clock>>
      /\ manager' = [manager EXCEPT !.state = "idle", !.fg = NoTask]
      /\ pending # NoTask /\ pending' = NoTask /\ seen' = T!Noted(seen, {pending})
  BY DEF T!StateSet
<1>2. pending \in Task /\ pending \notin Recorded
  BY <1>1 DEF TaskInv, TaskTypes, PendingIsNew
<1>3. /\ seen' \in [used : SUBSET Task, finished : SUBSET Task, added : [Task -> Seq(Nat)],
                     excused : SUBSET Task, envs : Nat, faults : Nat]
      /\ seen'.used = seen.used /\ seen'.finished = seen.finished
      /\ Recorded' = Recorded \cup {pending} /\ T!RecordedOnce'
  BY <1>1, <1>2, FirstRecord DEF TaskInv
<1>4. Given' = Given \cup {NoTask}
  BY <1>1, <1>3 DEF Given
<1>5. TaskTypes' /\ manager'.received = manager.received
  BY <1>1, <1>3 DEF TaskInv, TaskTypes
<1>6. OneCall'
  BY <1>1, <1>3 DEF TaskInv, OneCall, Out
<1>7. Starting' = Starting /\ Delivered' = Delivered /\ Running' = Running
  BY <1>1 DEF Starting, Delivered, Running
<1>8. NotOver'
  BY <1>1, <1>3, <1>4, <1>7, TaskNames DEF TaskNames, TaskInv, NotOver
<1>9. AckedIsGiven' /\ AgainIsKnown'
  <2>1. worker.done \subseteq Task /\ \A j \in T!Loads : load[j].uids \subseteq Task
    BY DEF TaskInv, TaskTypes, Download
  <2>2. QED
    BY <1>1, <1>4, <1>5, <2>1, TaskNames DEF TaskNames, TaskInv, AckedIsGiven, AgainIsKnown
<1>10. PendingIsNew' /\ T!NoResultLost'
  BY <1>1, <1>3, TaskNames DEF TaskNames, TaskInv, PendingIsNew, T!NoResultLost, Recorded
<1>11. QED
  BY <1>3, <1>5, <1>6, <1>8, <1>9, <1>10 DEF TaskInv

-----------------------------------------------------------------------------
(* Environments and the manager.                                           *)

LEMMA OpenKeeps == ASSUME TaskNames, TaskInv, T!Open PROVE TaskInv'
<1>1. /\ UNCHANGED <<start, load, stale, pending, clock>>
      /\ worker' = [T!Gone EXCEPT !.env = "open"] /\ worker.env = "none"
      /\ manager' = [manager EXCEPT !.received = {}, !.loading = FALSE]
      /\ seen' = [seen EXCEPT !.envs = @ + 1]
  BY DEF T!Open
<1>2. /\ worker'.env = "open" /\ worker'.fg = NoTask /\ worker'.bg = {} /\ worker'.done = {}
      /\ worker' \in [env : {"none", "open", "closing"}, fg : Task \cup {NoTask},
                       bg : SUBSET Task, done : SUBSET Task]
  BY <1>1 DEF T!Gone
<1>3. /\ seen'.added = seen.added /\ seen'.used = seen.used /\ seen'.finished = seen.finished
      /\ seen.finished = {} /\ manager'.received = {}
  <2>1. seen.finished = {}
    BY <1>1 DEF TaskInv, OneCall
  <2>2. QED
    BY <1>1, <2>1 DEF TaskInv, TaskTypes
<1>4. TaskTypes'
  <2> DEFINE n == seen.envs + 1
  <2>1. n \in Nat /\ seen' = [seen EXCEPT !.envs = n]
    BY <1>1 DEF TaskInv, TaskTypes
  <2> HIDE DEF n
  <2>2. QED
    BY <1>1, <1>2, <2>1 DEF TaskInv, TaskTypes
<1>5. OneCall'
  BY <1>1, <1>2 DEF TaskInv, OneCall, Out
<1>6. Starting' = Starting /\ Delivered' = Delivered /\ Running' = {NoTask} /\ Starting \subseteq Task
  BY <1>1, <1>2 DEF Starting, Delivered, Running
<1>7. NotOver'
  BY <1>1, <1>2, <1>3, <1>6, NothingRecorded DEF TaskNames, TaskInv, NotOver
<1>8. AckedIsGiven' /\ AgainIsKnown'
  BY <1>1, <1>2, <1>3, NothingRecorded DEF TaskInv, OneCall, AckedIsGiven, AgainIsKnown
<1>9. PendingIsNew' /\ T!RecordedOnce' /\ T!NoResultLost'
  BY <1>1, <1>3, NothingRecorded DEF TaskInv, T!NoResultLost
<1>10. QED
  BY <1>4, <1>5, <1>7, <1>8, <1>9 DEF TaskInv

LEMMA CloseAskedKeeps == ASSUME TaskNames, TaskInv, T!CloseAsked PROVE TaskInv'
<1>1. /\ UNCHANGED <<start, load, stale, pending, seen, clock>>
      /\ worker' = [worker EXCEPT !.env = "closing"] /\ worker.env = "open"
      /\ manager' = [manager EXCEPT !.state = "closing_environment"]
  BY DEF T!CloseAsked
<1>2. TaskTypes' /\ manager'.received = manager.received /\ worker'.done = worker.done
  BY <1>1 DEF TaskInv, TaskTypes
<1>3. OneCall'
  BY <1>1 DEF TaskInv, TaskTypes, OneCall, Out
<1>4. Starting' = Starting /\ Delivered' = Delivered /\ Running' = Running
  BY <1>1 DEF TaskInv, TaskTypes, Starting, Delivered, Running
<1>5. NotOver'
  BY <1>1, <1>2, <1>4, NothingRecorded DEF TaskInv, NotOver
<1>6. AckedIsGiven' /\ AgainIsKnown' /\ PendingIsNew' /\ T!RecordedOnce' /\ T!NoResultLost'
  BY <1>1, <1>2, NothingRecorded DEF TaskInv, AckedIsGiven, AgainIsKnown, T!NoResultLost
<1>7. QED
  BY <1>2, <1>3, <1>5, <1>6 DEF TaskInv

(* The worker goes with what it had; what was recorded stays.              *)
LEMMA LeavesKeeps ==
  ASSUME TaskNames, TaskInv, T!Leaves, UNCHANGED <<start, load, pending, clock>>,
         seen' \in [used : SUBSET Task, finished : SUBSET Task, added : [Task -> Seq(Nat)],
                    excused : SUBSET Task, envs : Nat, faults : Nat],
         seen'.added = seen.added, seen'.used = seen.used, seen'.finished = {}
  PROVE  TaskInv'
<1>1. /\ worker' = T!Gone /\ stale' = T!Nobody
      /\ manager' = [manager EXCEPT !.state = "idle", !.fg = NoTask]
      /\ \A i \in T!Loads : load[i].at # "answered"
  BY DEF T!Leaves
<1>2. worker'.env = "none" /\ worker'.fg = NoTask /\ worker'.bg = {} /\ worker'.done = {}
  BY <1>1 DEF T!Gone
<1>3. TaskTypes' /\ manager'.received = manager.received
  BY <1>1 DEF TaskInv, TaskTypes, T!Gone, T!Nobody
<1>4. OneCall'
  BY <1>1, <1>2 DEF TaskInv, OneCall, Out
<1>5. /\ Starting' \subseteq Starting /\ Starting \subseteq Task
      /\ Delivered' = Delivered /\ Running' = {NoTask}
  BY <1>1, <1>2 DEF Starting, Delivered, Running, T!Nobody
<1>6. NotOver'
  BY <1>1, <1>2, <1>5, NothingRecorded DEF TaskNames, TaskInv, NotOver, T!Nobody
<1>7. AckedIsGiven' /\ AgainIsKnown' /\ PendingIsNew' /\ T!RecordedOnce' /\ T!NoResultLost'
  BY <1>1, <1>2, <1>3, NothingRecorded DEF TaskInv, AckedIsGiven, AgainIsKnown, T!NoResultLost
<1>8. QED
  BY <1>3, <1>4, <1>6, <1>7 DEF TaskInv

LEMMA ClosedKeeps == ASSUME TaskNames, TaskInv, T!Closed PROVE TaskInv'
<1>1. /\ seen' \in [used : SUBSET Task, finished : SUBSET Task, added : [Task -> Seq(Nat)],
                     excused : SUBSET Task, envs : Nat, faults : Nat]
      /\ seen'.added = seen.added /\ seen'.used = seen.used /\ seen'.finished = {}
  BY DEF T!Closed, TaskInv, TaskTypes
<1>2. QED
  BY <1>1, LeavesKeeps DEF T!Closed

LEMMA DestroyedKeeps == ASSUME TaskNames, TaskInv, T!Destroyed PROVE TaskInv'
<1>1. /\ seen' \in [used : SUBSET Task, finished : SUBSET Task, added : [Task -> Seq(Nat)],
                     excused : SUBSET Task, envs : Nat, faults : Nat]
      /\ seen'.added = seen.added /\ seen'.used = seen.used /\ seen'.finished = {}
  <2> DEFINE n == seen.faults + 1
  <2>1. n \in Nat /\ seen' = [seen EXCEPT !.finished = {}, !.faults = n]
    BY DEF T!Destroyed, TaskInv, TaskTypes
  <2> HIDE DEF n
  <2>2. QED
    BY <2>1 DEF TaskInv, TaskTypes
<1>2. QED
  BY <1>1, LeavesKeeps DEF T!Destroyed

LEMMA RestartSeen ==
  ASSUME TaskInv, T!Restart
  PROVE  /\ seen' \in [used : SUBSET Task, finished : SUBSET Task, added : [Task -> Seq(Nat)],
                       excused : SUBSET Task, envs : Nat, faults : Nat]
         /\ seen'.added = [u \in Task |-> << >>] /\ seen'.used = seen.used
         /\ seen'.finished = worker.done /\ seen'.excused = seen.used
<1> DEFINE n     == seen.faults + 1
           fresh == [u \in Task |-> << >>]
<1>1. n \in Nat /\ fresh \in [Task -> Seq(Nat)] /\ worker.done \subseteq Task
  BY DEF TaskInv, TaskTypes
<1>2. seen' = [seen EXCEPT !.faults = n, !.finished = worker.done, !.excused = seen.used,
                           !.added = fresh]
  BY DEF T!Restart
<1> HIDE DEF n
<1>3. QED
  <2>1. seen'.added = fresh
    BY <1>2 DEF TaskInv, TaskTypes
  <2> HIDE DEF fresh
  <2>2. /\ seen' \in [used : SUBSET Task, finished : SUBSET Task, added : [Task -> Seq(Nat)],
                      excused : SUBSET Task, envs : Nat, faults : Nat]
        /\ seen'.used = seen.used /\ seen'.finished = worker.done /\ seen'.excused = seen.used
    BY <1>1, <1>2 DEF TaskInv, TaskTypes
  <2>3. QED
    BY <2>1, <2>2 DEF fresh

LEMMA RestartKeeps == ASSUME TaskNames, TaskInv, T!Restart PROVE TaskInv'
<1>1. /\ UNCHANGED <<worker, clock>> /\ manager' = T!Booted /\ pending' = NoTask
      /\ start' = T!Nobody /\ load' = [i \in T!Loads |-> T!NoLoad] /\ worker.env = "open"
      /\ stale' = stale \/ (start.at = "sent" /\ stale' = start)
  BY DEF T!Restart
<1>2. /\ seen' \in [used : SUBSET Task, finished : SUBSET Task, added : [Task -> Seq(Nat)],
                     excused : SUBSET Task, envs : Nat, faults : Nat]
      /\ seen'.added = [u \in Task |-> << >>] /\ seen'.used = seen.used
      /\ seen'.finished = worker.done
  BY RestartSeen
<1>3. TaskTypes'
  BY <1>1, <1>2 DEF TaskInv, TaskTypes, Download, T!Booted, T!Nobody, T!NoLoad
<1>4. Recorded' = {} /\ Given' = {NoTask}
  BY <1>1, <1>2 DEF Recorded, Given
<1>5. OneCall'
  BY <1>1 DEF OneCall, Out, T!Nobody, T!NoLoad
<1>6. /\ Starting' \subseteq Starting /\ Starting \subseteq Task
      /\ Delivered' = {} /\ Running' = Running
  BY <1>1 DEF Starting, Delivered, Running, T!Nobody, T!NoLoad
<1>7. NotOver'
  BY <1>1, <1>2, <1>4, <1>6, TaskNames DEF TaskNames, TaskInv, NotOver, T!Nobody
<1>8. AckedIsGiven' /\ AgainIsKnown'
  BY <1>1, <1>4, TaskNames DEF TaskNames, TaskInv, TaskTypes, AckedIsGiven, AgainIsKnown, T!Booted, T!NoLoad
<1>9. PendingIsNew' /\ T!RecordedOnce' /\ T!NoResultLost'
  BY <1>1, <1>2, <1>4 DEF PendingIsNew, T!RecordedOnce, T!NoResultLost
<1>10. QED
  BY <1>3, <1>5, <1>7, <1>8, <1>9 DEF TaskInv

LEMMA RestKeeps ==
  ASSUME TaskInv, UNCHANGED <<worker, manager, start, load, stale, pending, seen>>, clock' \in Nat
  PROVE  TaskInv'
<1>1. Starting' = Starting /\ Delivered' = Delivered /\ Running' = Running
  BY DEF Starting, Delivered, Running
<1>2. NotOver' /\ AckedIsGiven' /\ AgainIsKnown' /\ PendingIsNew' /\ T!RecordedOnce' /\ T!NoResultLost'
  BY <1>1, NothingRecorded DEF TaskInv, NotOver, AckedIsGiven, AgainIsKnown, T!NoResultLost
<1>3. TaskTypes' /\ OneCall'
  BY DEF TaskInv, TaskTypes, OneCall, Out
<1>4. QED
  BY <1>2, <1>3 DEF TaskInv

LEMMA TaskNextKeeps == ASSUME TaskNames, TaskInv, [T!Next]_T!vars PROVE TaskInv'
<1>1. ASSUME NEW u \in Task, NEW background \in BOOLEAN, T!StartAsked(u, background) PROVE TaskInv'
  BY <1>1, StartAskedKeeps
<1>2. CASE T!StartSent \/ T!StartServed \/ T!StaleServed \/ T!StartAnswered \/ T!StartTimesOut
  BY <1>2, StartSentKeeps, StartServedKeeps, StaleServedKeeps, StartAnsweredKeeps,
     StartTimesOutKeeps
<1>3. ASSUME NEW u \in Task, T!TaskEnds(u) PROVE TaskInv'
  BY <1>3, TaskEndsKeeps
<1>4. ASSUME NEW i \in T!Loads,
             T!LoadAsked(i) \/ T!LoadSent(i) \/ T!LoadServed(i) \/ T!LoadAnswered(i) \/ T!LoadTimesOut(i)
      PROVE  TaskInv'
  BY <1>4, LoadAskedKeeps, LoadSentKeeps, LoadServedKeeps, LoadAnsweredKeeps, LoadTimesOutKeeps
<1>5. CASE T!StateSet \/ T!Open \/ T!CloseAsked \/ T!Closed \/ T!Destroyed \/ T!Restart
  BY <1>5, StateSetKeeps, OpenKeeps, CloseAskedKeeps, ClosedKeeps, DestroyedKeeps, RestartKeeps
<1>6. CASE T!Tick \/ UNCHANGED T!vars
  <2>1. UNCHANGED <<worker, manager, start, load, stale, pending, seen>> /\ clock' \in Nat
    BY <1>6 DEF TaskInv, TaskTypes, T!Tick, T!vars
  <2>2. QED
    BY <2>1, RestKeeps
<1>7. QED
  BY <1>1, <1>2, <1>3, <1>4, <1>5, <1>6 DEF T!Next

-----------------------------------------------------------------------------
(* How long results are kept.                                              *)

LEMMA AddEffect ==
  ASSUME TaskNames, results \in Results, clock \in Nat, NEW uids \in SUBSET Task
  PROVE  /\ T!Add(results, uids) \in Results
         /\ T!Add(results, uids).running = results.running \ uids
         /\ uids = {} => T!Add(results, uids) = results
         /\ uids # {} =>
              /\ T!Add(results, uids).times =
                    {e \in results.times : ~ (e.time + Retention < clock)}
                    \cup {[task |-> u, time |-> clock] : u \in uids}
              /\ DOMAIN T!Add(results, uids).data =
                    (DOMAIN results.data \ {e.task : e \in T!Expired(results)}) \cup uids
<1> DEFINE old  == T!Expired(results)
           left == DOMAIN results.data \ {e.task : e \in old}
           after == [v \in left \cup uids |-> IF v \in uids THEN clock ELSE results.data[v]]
<1>1. PICK had \in SUBSET Task : results.data \in [had -> Nat]
  BY DEF Results
<1>2. left \subseteq had /\ after \in [left \cup uids -> Nat]
  BY <1>1
<1>3. CASE uids = {}
  BY <1>3 DEF T!Add
<1>4. CASE uids # {}
  <2> DEFINE c == T!Clean(results)
  <2>1. /\ c.running = results.running /\ c.times = results.times \ old
        /\ c.data = [u \in left |-> results.data[u]]
    BY DEF T!Clean, Results
  <2>2. T!Add(results, uids) =
           [running |-> results.running \ uids, data |-> after,
            times |-> (results.times \ old) \cup {[task |-> u, time |-> clock] : u \in uids}]
    BY <1>4, <2>1 DEF T!Add
  <2>3. results.times \ old = {e \in results.times : ~ (e.time + Retention < clock)}
    BY DEF T!Expired
  <2>4. (results.times \ old) \cup {[task |-> u, time |-> clock] : u \in uids} \in SUBSET Entry
    BY DEF Results, Entry
  <2>5. after \in UNION {[few -> Nat] : few \in SUBSET Task}
    BY <1>1, <1>2
  <2> HIDE DEF after, old
  <2>6. T!Add(results, uids) \in Results
    BY <2>2, <2>4, <2>5 DEF Results
  <2>7. DOMAIN after = left \cup uids
    BY DEF after
  <2>8. QED
    BY <1>4, <2>2, <2>3, <2>6, <2>7 DEF old
<1>5. QED
  BY <1>3, <1>4

(* What is added was not recorded before.                                  *)
LEMMA AddKeeps ==
  ASSUME TaskNames, TaskTypes, results \in Results, Kept, NEW uids \in SUBSET Task,
         uids \cap Recorded = {}, results' = T!Add(results, uids), seen' = T!Noted(seen, uids),
         clock' = clock
  PROVE  results' \in Results /\ Kept'
<1>1. clock \in Nat /\ results' \in Results
  BY AddEffect DEF TaskTypes
<1>2. /\ seen'.added \in [Task -> Seq(Nat)]
      /\ \A u \in Task \ uids : seen'.added[u] = seen.added[u]
      /\ \A u \in uids : seen'.added[u] = <<clock>>
  <2> DEFINE Later(u) == IF u \in uids THEN Append(seen.added[u], clock) ELSE seen.added[u]
  <2>1. seen'.added = [u \in Task |-> Later(u)]
    BY DEF TaskTypes, T!Noted
  <2>2. \A u \in uids : seen.added[u] = << >>
    BY DEF Recorded
  <2>3. \A u \in uids : Later(u) = <<clock>>
    <3>1. Append(<< >>, clock) = <<clock>>
      BY <1>1
    <3>2. QED
      BY <2>2, <3>1
  <2>4. \A u \in Task : u \notin uids => Later(u) = seen.added[u]
    OBVIOUS
  <2>5. \A u \in Task : seen.added[u] \in Seq(Nat)
    BY DEF TaskTypes
  <2>6. \A u \in Task : Later(u) \in Seq(Nat)
    BY <1>1, <2>3, <2>4, <2>5
  <2> HIDE DEF Later
  <2>7. QED
    BY <2>1, <2>3, <2>4, <2>6
<1>3. CASE uids = {}
  <2>1. results' = results /\ \A u \in Task : seen'.added[u] = seen.added[u]
    BY <1>2, <1>3, AddEffect, <1>1
  <2>2. Kept'
    BY <2>1 DEF Kept, Results, Entry
  <2>3. QED
    BY <1>1, <2>2
<1>4. CASE uids # {}
  <2> DEFINE fresh == {[task |-> u, time |-> clock] : u \in uids}
             due(e) == e.time + Retention < clock
  <2>1. /\ results'.times = {e \in results.times : ~ due(e)} \cup fresh
        /\ DOMAIN results'.data = (DOMAIN results.data \ {e.task : e \in T!Expired(results)}) \cup uids
    BY <1>1, <1>4, AddEffect
  <2>2. \A e \in results.times : e \in Entry /\ e.task \notin uids /\ seen.added[e.task] = <<e.time>>
    BY DEF Kept, Recorded, Results, Entry
  <2>3. \A e, f \in results.times : e.task = f.task => e = f
    <3> SUFFICES ASSUME NEW e \in results.times, NEW f \in results.times, e.task = f.task PROVE e = f
      OBVIOUS
    <3>1. <<e.time>> = <<f.time>>
      BY <2>2
    <3>2. e.time = f.time
      BY <3>1
    <3>3. QED
      BY <2>2, <3>2 DEF Entry
  <2>4. DOMAIN results'.data = {e.task : e \in results'.times}
    <3>1. T!Expired(results) = {e \in results.times : due(e)}
      BY DEF T!Expired
    <3>2. DOMAIN results.data \ {e.task : e \in T!Expired(results)}
             = {e.task : e \in {f \in results.times : ~ due(f)}}
      BY <2>3, <3>1 DEF Kept
    <3>3. \A e \in fresh : e.task \in uids
      OBVIOUS
    <3>4. \A u \in uids : \E e \in fresh : e.task = u
      <4> SUFFICES ASSUME NEW u \in uids PROVE \E e \in fresh : e.task = u
        OBVIOUS
      <4>1. [task |-> u, time |-> clock] \in fresh
        OBVIOUS
      <4> HIDE DEF fresh
      <4>2. QED
        BY <4>1
    <3> HIDE DEF fresh, due
    <3>5. {e.task : e \in fresh} = uids
      BY <3>3, <3>4
    <3>6. QED
      BY <2>1, <3>2, <3>5
  <2>5. ASSUME NEW e \in results'.times PROVE seen'.added[e.task] = <<e.time>>
    <3>1. CASE e \in results.times
      <4>1. e.task \in Task \ uids /\ seen.added[e.task] = <<e.time>>
        BY <2>2, <3>1 DEF Entry
      <4>2. QED
        BY <1>2, <4>1
    <3>2. CASE e \in fresh
      <4>1. PICK u \in uids : e = [task |-> u, time |-> clock]
        BY <3>2
      <4>2. e.task = u /\ e.time = clock
        BY <4>1
      <4>3. QED
        BY <1>2, <4>2
    <3>3. QED
      BY <2>1, <2>5, <3>1, <3>2
  <2>6. ASSUME NEW u \in Task, NEW k \in DOMAIN seen'.added[u]
        PROVE  /\ seen'.added[u][k] <= clock'
               /\ clock' <= seen'.added[u][k] + Retention =>
                     [task |-> u, time |-> seen'.added[u][k]] \in results'.times
    <3>1. CASE u \in uids
      <4>1. seen'.added[u] = <<clock>>
        BY <1>2, <3>1
      <4>2. seen'.added[u][k] = clock
        BY <2>6, <4>1
      <4>3. QED
        BY <1>1, <2>1, <3>1, <4>2
    <3>2. CASE u \notin uids
      <4>1. seen'.added[u] = seen.added[u] /\ seen.added[u] \in Seq(Nat)
        BY <1>2, <3>2 DEF TaskTypes
      <4>2. seen.added[u][k] \in Nat
        BY <2>6, <4>1
      <4> DEFINE e == [task |-> u, time |-> seen.added[u][k]]
      <4>3. seen.added[u][k] <= clock /\ (clock <= seen.added[u][k] + Retention => e \in results.times)
        BY <2>6, <4>1 DEF Kept
      <4>4. clock <= seen.added[u][k] + Retention => ~ due(e)
        BY <1>1, <4>2, TaskNames DEF TaskNames
      <4>5. QED
        BY <2>1, <4>1, <4>3, <4>4
    <3>3. QED
      BY <3>1, <3>2
  <2>7. QED
    BY <1>1, <2>4, <2>5, <2>6 DEF Kept
<1>5. QED
  BY <1>3, <1>4

LEMMA ResultsKept ==
  ASSUME TaskNames, TaskInv, results \in Results, Kept, [T!Next]_T!vars
  PROVE  results' \in Results /\ Kept'
<1> USE DEF TaskInv
<1> DEFINE Same == /\ results'.times = results.times /\ results'.data = results.data
                   /\ seen'.added = seen.added /\ clock' = clock
<1>1. ASSUME Same PROVE Kept'
  BY <1>1 DEF Kept
<1>2. ASSUME UNCHANGED results, seen'.added = seen.added, clock' = clock
      PROVE  results' \in Results /\ Kept'
  BY <1>1, <1>2
<1>3. ASSUME NEW u \in Task, NEW background \in BOOLEAN, T!StartAsked(u, background)
      PROVE  results' \in Results /\ Kept'
  BY <1>2, <1>3 DEF T!StartAsked, TaskTypes
<1>4. CASE T!StartSent \/ T!StartServed \/ T!StaleServed
  BY <1>2, <1>4 DEF T!StartSent, T!StartServed, T!StaleServed
<1>5. CASE T!StartAnswered
  <2>1. results' = results \/ results' = [results EXCEPT !.running = @ \cup {start.task}]
    BY <1>5 DEF T!StartAnswered
  <2>2. start.task \in Task
    BY <1>5 DEF T!StartAnswered, TaskTypes
  <2>3. results' \in Results
    BY <2>1, <2>2 DEF Results
  <2>4. Same
    BY <1>5, <2>1 DEF T!StartAnswered, Results
  <2>5. QED
    BY <1>1, <2>3, <2>4
<1>6. CASE T!StartTimesOut
  BY <1>2, <1>6 DEF T!StartTimesOut, TaskTypes
<1>7. ASSUME NEW u \in Task, T!TaskEnds(u) PROVE results' \in Results /\ Kept'
  BY <1>2, <1>7 DEF T!TaskEnds, TaskTypes
<1>8. ASSUME NEW i \in T!Loads, T!LoadAsked(i) \/ T!LoadSent(i) \/ T!LoadServed(i) \/ T!LoadTimesOut(i)
      PROVE  results' \in Results /\ Kept'
  BY <1>2, <1>8 DEF T!LoadAsked, T!LoadSent, T!LoadServed, T!LoadTimesOut, TaskTypes
<1>9. ASSUME NEW i \in T!Loads, T!LoadAnswered(i) PROVE results' \in Results /\ Kept'
  <2> DEFINE new   == load[i].uids \ manager.received
             fresh == {u \in new : ~ T!Awaited(u)}
  <2>1. /\ results' = T!Add(results, fresh) /\ seen' = T!Noted(seen, fresh) /\ clock' = clock
        /\ load[i].at = "answered"
    BY <1>9 DEF T!LoadAnswered, T!NewResults
  <2>2. fresh \in SUBSET Task /\ fresh \cap Recorded = {}
    BY <2>1 DEF AgainIsKnown, Given, TaskTypes, Download
  <2> HIDE DEF fresh
  <2>3. QED
    BY <2>1, <2>2, AddKeeps
<1>10. CASE T!StateSet
  <2>1. results' = T!Add(results, {pending}) /\ seen' = T!Noted(seen, {pending}) /\ clock' = clock
    BY <1>10 DEF T!StateSet
  <2>2. {pending} \in SUBSET Task /\ {pending} \cap Recorded = {}
    BY <1>10 DEF T!StateSet, TaskTypes, PendingIsNew
  <2>3. QED
    BY <2>1, <2>2, AddKeeps
<1>11. CASE T!Open \/ T!CloseAsked
  BY <1>2, <1>11 DEF T!Open, T!CloseAsked, TaskTypes
<1>12. CASE T!Closed \/ T!Destroyed
  <2>1. results' = [results EXCEPT !.running = {}]
    BY <1>12 DEF T!Closed, T!Destroyed, T!Leaves
  <2>2. results' \in Results
    BY <2>1 DEF Results
  <2>3. Same
    BY <1>12, <2>1 DEF T!Closed, T!Destroyed, Results, TaskTypes
  <2>4. QED
    BY <1>1, <2>2, <2>3
<1>13. CASE T!Restart
  <2>1. /\ results' = T!Empty /\ clock' = clock
        /\ seen'.added = [u \in Task |-> << >>]
    <3>1. results' = T!Empty /\ clock' = clock
      BY <1>13 DEF T!Restart
    <3> HIDE DEF TaskInv
    <3>2. QED
      BY <1>13, <3>1, RestartSeen
  <2>2. results' \in Results
    <3>1. << >> \in [{} -> Nat] /\ {} \in SUBSET Task
      OBVIOUS
    <3>2. << >> \in UNION {[few -> Nat] : few \in SUBSET Task}
      BY <3>1
    <3>3. T!Empty.running = {} /\ T!Empty.data = << >> /\ T!Empty.times = {}
      BY DEF T!Empty
    <3>4. QED
      BY <2>1, <3>2 DEF T!Empty, Results
  <2>3. results'.times = {} /\ results'.data = << >>
    BY <2>1 DEF T!Empty
  <2>4. DOMAIN results'.data = {}
    BY <2>3
  <2>5. QED
    BY <2>1, <2>2, <2>3, <2>4 DEF Kept
<1>14. CASE T!Tick
  <2>1. /\ clock' = clock + 1 /\ results' = results /\ seen' = seen
        /\ clock \in Nat /\ Retention \in Nat
    BY <1>14, TaskNames DEF T!Tick, TaskTypes, TaskNames
  <2>2. \A u \in Task : \A k \in DOMAIN seen.added[u] : seen.added[u][k] \in Nat
    BY DEF TaskTypes
  <2>3. QED
    BY <2>1, <2>2 DEF Kept
<1>15. CASE UNCHANGED T!vars
  BY <1>2, <1>15 DEF T!vars
<1>16. QED
  BY <1>3, <1>4, <1>5, <1>6, <1>7, <1>8, <1>9, <1>10, <1>11, <1>12, <1>13, <1>14, <1>15 DEF T!Next

-----------------------------------------------------------------------------
(* What is listed as running.                                              *)

LEMMA ListedKeeps ==
  ASSUME TaskNames, TaskInv, results \in Results, Listed, [T!Next]_T!vars
  PROVE  Listed'
<1>1. results.running \subseteq Task /\ NoTask \notin results.running
  BY TaskNames DEF TaskNames, Results
<1>2. ASSUME UNCHANGED <<results, pending>>, seen'.added = seen.added,
             Running \subseteq Running' \cup worker'.done \cup {NoTask},
             worker.done \subseteq worker'.done, worker'.env # "none",
             start'.at = "accepted" => start.at = "accepted" /\ start'.task = start.task
      PROVE  Listed'
  <2>1. Recorded' = Recorded /\ Given' = Given
    BY <1>2, NothingRecorded
  <2>2. T!RunningIsTrue'
    BY <1>1, <1>2 DEF Listed, T!RunningIsTrue, Running
  <2>3. start'.at = "accepted" =>
            worker'.env # "none" /\ start'.task \in (Running' \cup worker'.done) \ Given'
    <3>1. start.at = "accepted" => start.task \in Task
      BY DEF TaskInv, TaskTypes
    <3>2. QED
      BY <1>2, <2>1, <3>1, TaskNames DEF TaskNames, Listed
  <2>4. QED
    BY <1>2, <2>1, <2>2, <2>3 DEF Listed
<1>3. ASSUME UNCHANGED <<results, pending, worker>>, seen'.added = seen.added,
             start'.at = "accepted" => start' = start
      PROVE  Listed'
  <2>1. Recorded' = Recorded /\ Given' = Given /\ Running' = Running
    BY <1>3, NothingRecorded DEF Running
  <2>2. QED
    BY <1>3, <2>1 DEF Listed, T!RunningIsTrue
<1>4. ASSUME NEW u \in Task, NEW background \in BOOLEAN, T!StartAsked(u, background)
      PROVE  Listed'
  BY <1>3, <1>4 DEF T!StartAsked, TaskInv, TaskTypes
<1>5. CASE T!StartSent
  BY <1>3, <1>5 DEF T!StartSent, TaskInv, TaskTypes
<1>6. CASE T!StartServed
  <2>1. UNCHANGED <<results, pending, seen>> /\ worker.env # "none" /\ start.at = "sent"
    BY <1>6 DEF T!StartServed
  <2>2. CASE T!Accepts(worker, start)
    <3>1. worker' = T!Started(worker, start) /\ worker.env = "open" /\ start.task \in Task
          /\ start'.task = start.task
      BY <1>6, <2>1, <2>2 DEF T!StartServed, T!Accepts, TaskInv, TaskTypes
    <3>2. /\ worker'.done = worker.done /\ worker'.env = "open"
          /\ Running \subseteq Running' \cup {NoTask} /\ start.task \in Running'
      BY <2>2, <3>1 DEF T!Accepts, T!Started, Running, TaskInv, TaskTypes
    <3>3. start.task \notin Given /\ Given' = Given /\ Recorded' = Recorded
      BY <2>1, <3>1, NothingRecorded DEF TaskInv, NotOver, Starting
    <3>4. T!RunningIsTrue'
      BY <1>1, <2>1, <3>2 DEF Listed, T!RunningIsTrue, Running
    <3>5. QED
      BY <2>1, <3>1, <3>2, <3>3, <3>4 DEF Listed
  <2>3. CASE ~ T!Accepts(worker, start)
    <3>1. worker' = worker /\ start'.at = "rejected"
      BY <1>6, <2>3 DEF T!StartServed, TaskInv, TaskTypes
    <3>2. QED
      BY <1>3, <2>1, <3>1
  <2>4. QED
    BY <2>2, <2>3
<1>7. CASE T!StaleServed
  <2>1. UNCHANGED <<results, pending, seen, start>>
    BY <1>7 DEF T!StaleServed
  <2>2. CASE T!Accepts(worker, stale)
    <3>1. worker' = T!Started(worker, stale) /\ worker.env = "open"
      BY <1>7, <2>2 DEF T!StaleServed, T!Accepts
    <3>2. /\ worker'.done = worker.done /\ worker'.env = "open"
          /\ Running \subseteq Running' \cup {NoTask}
      BY <2>2, <3>1 DEF T!Accepts, T!Started, Running, TaskInv, TaskTypes
    <3>3. QED
      BY <1>2, <2>1, <3>2
  <2>3. CASE ~ T!Accepts(worker, stale)
    BY <1>3, <1>7, <2>1, <2>3 DEF T!StaleServed
  <2>4. QED
    BY <2>2, <2>3
<1>8. CASE T!StartAnswered
  <2>1. /\ UNCHANGED <<worker, pending, seen>> /\ start' = T!Nobody
        /\ start.at = "rejected" => results' = results
        /\ start.at = "accepted" => results' = [results EXCEPT !.running = @ \cup {start.task}]
        /\ start.at \in {"accepted", "rejected"}
    BY <1>8 DEF T!StartAnswered
  <2>2. start'.at = "none"
    BY <2>1 DEF T!Nobody
  <2>3. CASE start.at = "rejected"
    BY <1>3, <2>1, <2>2, <2>3
  <2>4. CASE start.at = "accepted"
    <3>1. results'.running = results.running \cup {start.task}
      BY <2>1, <2>4 DEF Results
    <3>2. Recorded' = Recorded /\ Given' = Given /\ Running' = Running
      BY <2>1, NothingRecorded DEF Running
    <3>3. start.task \in (Running \cup worker.done) \ Given /\ worker.env # "none"
      BY <2>4 DEF Listed
    <3>4. T!RunningIsTrue'
      BY <2>1, <3>1, <3>3 DEF Listed, T!RunningIsTrue, Running
    <3>5. results'.running \cap Recorded' = {}
      BY <3>1, <3>2, <3>3 DEF Listed, Given
    <3>6. QED
      BY <2>1, <2>2, <3>3, <3>4, <3>5 DEF Listed
  <2>5. QED
    BY <2>1, <2>3, <2>4
<1>9. CASE T!StartTimesOut
  BY <1>3, <1>9 DEF T!StartTimesOut, T!Nobody, TaskInv, TaskTypes
<1>10. ASSUME NEW u \in Task, T!TaskEnds(u) PROVE Listed'
  <2>1. /\ UNCHANGED <<results, pending, start>> /\ u \in Running
        /\ worker' = [worker EXCEPT !.bg = @ \ {u}, !.fg = IF @ = u THEN NoTask ELSE @,
                                    !.done = @ \cup {u}]
        /\ seen'.added = seen.added
    BY <1>10 DEF T!TaskEnds, Running, TaskInv, TaskTypes
  <2>2. worker.env # "none"
    BY <2>1, TaskNames DEF TaskNames, Running, TaskInv, OneCall
  <2>3. /\ worker'.env # "none" /\ worker.done \subseteq worker'.done
        /\ Running \subseteq Running' \cup worker'.done
    BY <2>1, <2>2 DEF Running, TaskInv, TaskTypes
  <2>4. QED
    BY <1>2, <2>1, <2>3
<1>11. ASSUME NEW i \in T!Loads, T!LoadAsked(i) \/ T!LoadSent(i) \/ T!LoadTimesOut(i) PROVE Listed'
  BY <1>3, <1>11 DEF T!LoadAsked, T!LoadSent, T!LoadTimesOut, TaskInv, TaskTypes
<1>12. ASSUME NEW i \in T!Loads, T!LoadServed(i) PROVE Listed'
  <2>1. /\ UNCHANGED <<results, pending, start, seen>> /\ load[i].at = "sent" /\ worker.env # "none"
        /\ worker' = [worker EXCEPT !.done = @ \ load[i].uids]
    BY <1>12 DEF T!LoadServed, T!Unacknowledged
  <2>2. Recorded' = Recorded /\ load[i].uids \subseteq Given
    BY <2>1, NothingRecorded DEF TaskInv, AckedIsGiven
  <2>3. T!RunningIsTrue'
    <3>1. worker'.bg = worker.bg /\ worker'.fg = worker.fg /\ worker'.done = worker.done \ load[i].uids
      BY <2>1 DEF TaskInv, TaskTypes
    <3>2. QED
      BY <2>1, <2>2, <3>1 DEF Listed, T!RunningIsTrue, Given
  <2>4. start'.at # "accepted" /\ worker'.env # "none"
    BY <2>1 DEF TaskInv, TaskTypes, OneCall, Out
  <2>5. QED
    BY <2>1, <2>2, <2>3, <2>4 DEF Listed
<1>13. ASSUME NEW uids \in SUBSET Task, results' = T!Add(results, uids), seen' = T!Noted(seen, uids),
              uids \cap Recorded = {}, UNCHANGED <<worker, start>>,
              pending \in uids \cup {NoTask}, pending' \in Task \cup {NoTask},
              start.at = "accepted" => pending' = NoTask /\ start.task \notin uids
       PROVE  Listed'
  <2>1. results'.running = results.running \ uids
    BY <1>13, AddEffect DEF TaskInv, TaskTypes
  <2>2. Recorded' = Recorded \cup uids
    BY <1>13, FirstRecord DEF TaskInv
  <2>3. T!RunningIsTrue'
    BY <1>1, <1>13, <2>1 DEF Listed, T!RunningIsTrue
  <2>4. start.at = "accepted" => start.task \notin Given'
    BY <1>13, <2>2, TaskNames DEF TaskNames, TaskInv, TaskTypes, Listed, Given
  <2>5. Running' = Running
    BY <1>13 DEF Running
  <2>6. QED
    BY <1>13, <2>1, <2>2, <2>3, <2>4, <2>5 DEF Listed
<1>14. ASSUME NEW i \in T!Loads, T!LoadAnswered(i) PROVE Listed'
  <2> DEFINE new   == load[i].uids \ manager.received
             fresh == {u \in new : ~ T!Awaited(u)}
  <2>1. /\ results' = T!Add(results, fresh) /\ seen' = T!Noted(seen, fresh)
        /\ load[i].at = "answered" /\ UNCHANGED <<worker, start>> /\ pending = NoTask
    BY <1>14 DEF T!LoadAnswered, T!NewResults
  <2>2. fresh \in SUBSET Task /\ fresh \cap Recorded = {}
    BY <2>1 DEF TaskInv, AgainIsKnown, Given, TaskTypes, Download
  <2>3. start.at # "accepted"
    BY <2>1 DEF TaskInv, OneCall, Out
  <2>4. pending' \in Task \cup {NoTask}
    <3>1. new \subseteq Task
      BY DEF TaskInv, TaskTypes, Download
    <3>2. pending' = IF new = fresh THEN NoTask ELSE CHOOSE u \in new \ fresh : TRUE
      BY <1>14 DEF T!LoadAnswered, T!NewResults
    <3>3. fresh \subseteq new
      OBVIOUS
    <3> HIDE DEF fresh, new
    <3>4. QED
      BY <3>1, <3>2, <3>3
  <2> HIDE DEF fresh
  <2>5. QED
    BY <1>13, <2>1, <2>2, <2>3, <2>4
<1>15. CASE T!StateSet
  <2>1. results' = T!Add(results, {pending}) /\ seen' = T!Noted(seen, {pending})
        /\ UNCHANGED <<worker, start>> /\ pending' = NoTask
    BY <1>15 DEF T!StateSet
  <2>2. {pending} \in SUBSET Task /\ {pending} \cap Recorded = {}
    BY <1>15 DEF T!StateSet, TaskInv, TaskTypes, PendingIsNew
  <2>3. start.at = "accepted" => start.task \notin {pending}
    BY DEF Listed, Given
  <2>4. QED
    BY <1>13, <2>1, <2>2, <2>3
<1>16. CASE T!Open
  <2>1. /\ results' = results /\ start' = start /\ start.at = "none" /\ worker.env = "none"
        /\ worker' = [T!Gone EXCEPT !.env = "open"]
    BY <1>16 DEF T!Open
  <2>2. results'.running = {} /\ worker'.env # "none"
    BY <2>1 DEF Listed, T!Gone
  <2>3. QED
    BY <2>1, <2>2 DEF Listed, T!RunningIsTrue
<1>17. CASE T!CloseAsked
  <2>1. /\ UNCHANGED <<results, start, pending, seen>>
        /\ worker' = [worker EXCEPT !.env = "closing"]
    BY <1>17 DEF T!CloseAsked
  <2>2. /\ worker'.env # "none" /\ worker'.done = worker.done /\ Running' = Running
    BY <2>1 DEF Running, TaskInv, TaskTypes
  <2>3. QED
    BY <1>2, <2>1, <2>2
<1>18. CASE T!Closed \/ T!Destroyed \/ T!Restart
  <2>1. results'.running = {}
    BY <1>18 DEF T!Closed, T!Destroyed, T!Leaves, T!Restart, T!Empty, Results
  <2>2. start'.at # "accepted"
    BY <1>18 DEF T!Closed, T!Destroyed, T!Leaves, T!Restart, T!Nobody, T!PipeFree
  <2>3. QED
    BY <2>1, <2>2 DEF Listed, T!RunningIsTrue
<1>19. CASE T!Tick \/ UNCHANGED T!vars
  BY <1>3, <1>19 DEF T!Tick, T!vars
<1>20. QED
  BY <1>4, <1>5, <1>6, <1>7, <1>8, <1>9, <1>10, <1>11, <1>12, <1>14, <1>15, <1>16, <1>17, <1>18,
     <1>19 DEF T!Next

-----------------------------------------------------------------------------
(* The manager is occupied while a foreground task runs.                   *)

LEMMA OccupiedKeeps ==
  ASSUME TaskNames, TaskInv, Listed, Occupied, [T!Next]_T!vars
  PROVE  Occupied'
<1>1. ASSUME UNCHANGED <<start, stale, pending>>, manager'.state = manager.state,
             manager'.fg = manager.fg, seen'.excused = seen.excused, seen'.used = seen.used,
             worker'.fg \in {worker.fg, NoTask},
             Running' \cup worker'.done \cup Delivered' \subseteq
                 Running \cup worker.done \cup Delivered \cup {NoTask}
      PROVE  Occupied'
  <2>1. Starting' = Starting /\ Foreground' = Foreground
    BY <1>1 DEF Starting, Foreground
  <2>2. start.at # "none" => start.task # NoTask
    BY TaskNames DEF TaskNames, TaskInv, TaskTypes
  <2>3. QED
    BY <1>1, <2>1, <2>2 DEF Occupied
<1>2. ASSUME NEW u \in Task, NEW background \in BOOLEAN, T!StartAsked(u, background)
      PROVE  Occupied'
  <2>1. /\ UNCHANGED <<worker, load, stale, pending>> /\ start.at = "none" /\ u \notin seen.used
        /\ start' = [at |-> "wait", task |-> u, background |-> background]
        /\ ~ background => manager.state = "idle" /\ manager'.state = "executing_task"
        /\ background => manager' = manager
        /\ manager'.fg = manager.fg
        /\ seen'.used = seen.used \cup {u} /\ seen'.excused = seen.excused
    BY <1>2 DEF T!StartAsked, TaskInv, TaskTypes
  <2>2. /\ ~ Foreground /\ Foreground' = ~ background
        /\ start'.at = "wait" /\ start'.task = u
    BY <2>1 DEF Foreground
  <2>3. /\ Starting' \subseteq Starting \cup {u} /\ Running' = Running /\ Delivered' = Delivered
    BY <2>1 DEF Starting, Running, Delivered
  <2>4. manager.fg # u
    BY <2>1, TaskNames DEF TaskNames, Occupied
  <2>5. background => Occupied'
    BY <2>1, <2>2, <2>3, <2>4 DEF Occupied
  <2>6. ~ background => Occupied'
    BY <2>1, <2>2, <2>3, <2>4 DEF Occupied
  <2>7. QED
    BY <2>5, <2>6
<1>3. CASE T!StartSent
  <2>1. /\ UNCHANGED <<worker, manager, load, stale, pending, seen>> /\ start.at = "wait"
        /\ start' = [start EXCEPT !.at = "sent"]
    BY <1>3 DEF T!StartSent
  <2>2. start'.at = "sent" /\ start'.task = start.task /\ start'.background = start.background
    BY <2>1 DEF TaskInv, TaskTypes
  <2>3. /\ Starting' = Starting /\ Foreground' = Foreground
        /\ Running' = Running /\ Delivered' = Delivered
    BY <2>1, <2>2 DEF Starting, Running, Delivered, Foreground
  <2>4. QED
    BY <2>1, <2>2, <2>3 DEF Occupied
<1>4. CASE T!StartServed
  <2>1. /\ UNCHANGED <<manager, load, stale, pending, seen>> /\ start.at = "sent"
        /\ stale.at = "none" /\ start.task \in Task
    BY <1>4 DEF T!StartServed, TaskInv, TaskTypes
  <2>2. /\ start'.at = IF T!Accepts(worker, start) THEN "accepted" ELSE "rejected"
        /\ start'.task = start.task /\ start'.background = start.background
        /\ worker' = IF T!Accepts(worker, start) THEN T!Started(worker, start) ELSE worker
    BY <1>4 DEF T!StartServed, TaskInv, TaskTypes
  <2>3. /\ Starting' = {} /\ Starting = {start.task} /\ Delivered' = Delivered
        /\ Foreground' = Foreground
    BY <2>1, <2>2 DEF Starting, Delivered, Foreground
  <2>4. start.task \notin Running \cup worker.done \cup Delivered
    BY <2>1, <2>3 DEF TaskInv, NotOver
  <2>5. CASE T!Accepts(worker, start)
    <3>1. /\ worker'.done = worker.done /\ Running' \subseteq Running \cup {start.task}
          /\ start.background => worker'.fg = worker.fg
          /\ ~ start.background => worker.fg = NoTask /\ worker'.fg = start.task
      BY <2>2, <2>5 DEF T!Accepts, T!Started, Running, TaskInv, TaskTypes
    <3>2. start'.at = "accepted"
      BY <2>2, <2>5
    <3>3. CASE start.background
      BY <2>1, <2>2, <2>3, <3>1, <3>2, <3>3 DEF Occupied, Foreground
    <3>4. CASE ~ start.background
      BY <2>1, <2>2, <2>3, <3>1, <3>2, <3>4 DEF Occupied, Foreground
    <3>5. QED
      BY <3>3, <3>4
  <2>6. CASE ~ T!Accepts(worker, start)
    <3>1. worker' = worker /\ Running' = Running /\ start'.at = "rejected"
      BY <2>2, <2>6 DEF Running
    <3>2. QED
      BY <2>1, <2>2, <2>3, <2>4, <3>1 DEF Occupied
  <2>7. QED
    BY <2>5, <2>6
<1>5. CASE T!StaleServed
  <2>1. /\ UNCHANGED <<manager, start, load, pending, seen>> /\ stale.at # "none"
        /\ stale.task \in Task /\ stale.task \in seen.excused /\ stale'.at = "none"
        /\ worker' = IF T!Accepts(worker, stale) THEN T!Started(worker, stale) ELSE worker
    BY <1>5 DEF T!StaleServed, T!Nobody, TaskInv, TaskTypes, Occupied
  <2>2. /\ worker'.done = worker.done /\ Running' \subseteq Running \cup {stale.task}
        /\ worker'.fg \in {worker.fg, stale.task}
    BY <2>1 DEF T!Accepts, T!Started, Running, TaskInv, TaskTypes
  <2>3. /\ Starting' \subseteq Starting /\ stale.task \in Starting /\ Delivered' = Delivered
        /\ Foreground' = Foreground
    BY <2>1 DEF Starting, Delivered, Foreground
  <2>4. start.at \notin {"accepted", "rejected"}
    BY <2>1 DEF Occupied
  <2>5. QED
    BY <2>1, <2>2, <2>3, <2>4 DEF Occupied
<1>6. CASE T!StartAnswered
  <2>1. /\ UNCHANGED <<worker, load, stale, pending, seen>>
        /\ start.at \in {"accepted", "rejected"} /\ start' = T!Nobody
        /\ start.background => manager' = manager
        /\ ~ start.background => manager'.fg = start.task
        /\ ~ start.background /\ start.at = "accepted" => manager'.state = manager.state
        /\ ~ start.background /\ start.at = "rejected" => manager'.state = "idle"
    <3>1. start.background \in BOOLEAN
      BY DEF TaskInv, TaskTypes
    <3>2. QED
      BY <1>6, <3>1 DEF T!StartAnswered, TaskInv, TaskTypes
  <2>2. start'.at = "none" /\ ~ Foreground' /\ (Foreground <=> ~ start.background)
    BY <2>1 DEF T!Nobody, Foreground
  <2>3. /\ stale.at = "none" /\ start.task \in seen.used
        /\ Starting' = {} /\ Running' = Running /\ Delivered' = Delivered
    <3>1. stale.at = "none" /\ start.task \in seen.used
      BY <2>1 DEF Occupied
    <3>2. QED
      BY <2>1, <2>2, <3>1 DEF Starting, Running, Delivered
  <2>4. CASE start.background
    BY <2>1, <2>2, <2>3, <2>4 DEF Occupied
  <2>5. CASE ~ start.background /\ start.at = "accepted"
    BY <2>1, <2>2, <2>3, <2>5 DEF Occupied
  <2>6. CASE ~ start.background /\ start.at = "rejected"
    BY <2>1, <2>2, <2>3, <2>6 DEF Occupied
  <2>7. QED
    BY <2>1, <2>4, <2>5, <2>6
<1>7. CASE T!StartTimesOut
  <2>1. /\ UNCHANGED <<worker, load, pending>> /\ start' = T!Nobody
        /\ start.at \in {"sent", "accepted", "rejected"}
        /\ start.background => manager' = manager
        /\ ~ start.background => manager'.state = "idle" /\ manager'.fg = NoTask
        /\ stale' = stale \/ (start.at = "sent" /\ stale' = start)
        /\ seen'.used = seen.used /\ seen'.excused = seen.excused \cup {start.task}
    BY <1>7 DEF T!StartTimesOut, TaskInv, TaskTypes
  <2>2. start'.at = "none" /\ ~ Foreground' /\ (Foreground <=> ~ start.background)
    BY <2>1 DEF T!Nobody, Foreground
  <2>3. Starting' \subseteq Starting /\ Running' = Running /\ Delivered' = Delivered
    BY <2>1, <2>2 DEF Starting, Running, Delivered
  <2>4. stale'.at # "none" => stale'.task \in seen'.excused
    BY <2>1 DEF Occupied
  <2>5. CASE start.background
    BY <2>1, <2>2, <2>3, <2>4, <2>5 DEF Occupied
  <2>6. CASE ~ start.background
    BY <2>1, <2>2, <2>3, <2>4, <2>6 DEF Occupied
  <2>7. QED
    BY <2>5, <2>6
<1>8. ASSUME NEW u \in Task, T!TaskEnds(u) PROVE Occupied'
  <2>1. /\ UNCHANGED <<start, load, stale, pending, manager>> /\ u \in Running
        /\ worker' = [worker EXCEPT !.bg = @ \ {u}, !.fg = IF @ = u THEN NoTask ELSE @,
                                    !.done = @ \cup {u}]
        /\ seen'.excused = seen.excused /\ seen'.used = seen.used
    BY <1>8 DEF T!TaskEnds, Running, TaskInv, TaskTypes
  <2>2. /\ Running' \cup worker'.done \subseteq Running \cup worker.done \cup {NoTask}
        /\ worker'.fg \in {worker.fg, NoTask} /\ Delivered' = Delivered
    BY <2>1 DEF Running, Delivered, TaskInv, TaskTypes
  <2>3. QED
    BY <1>1, <2>1, <2>2
<1>9. ASSUME NEW i \in T!Loads, T!LoadAsked(i) \/ T!LoadSent(i) \/ T!LoadTimesOut(i) PROVE Occupied'
  <2>1. /\ UNCHANGED <<worker, start, stale, pending>>
        /\ manager'.state = manager.state /\ manager'.fg = manager.fg
        /\ seen'.excused = seen.excused /\ seen'.used = seen.used
    BY <1>9 DEF T!LoadAsked, T!LoadSent, T!LoadTimesOut, TaskInv, TaskTypes
  <2>2. Delivered' \subseteq Delivered /\ Running' = Running
    <3>1. /\ load \in [T!Loads -> Download]
          /\ \/ load' = [load EXCEPT ![i] = [at |-> "wait", uids |-> manager.received]]
             \/ load' = [load EXCEPT ![i].at = "sent"]
             \/ load' = [load EXCEPT ![i] = T!NoLoad]
      BY <1>9 DEF T!LoadAsked, T!LoadSent, T!LoadTimesOut, TaskInv, TaskTypes
    <3>2. load'[i].at # "answered" /\ \A j \in T!Loads : j # i => load'[j] = load[j]
      BY <3>1 DEF T!NoLoad, Download
    <3>3. QED
      BY <2>1, <3>2 DEF Delivered, Running
  <2>3. QED
    BY <1>1, <2>1, <2>2
<1>10. ASSUME NEW i \in T!Loads, T!LoadServed(i) PROVE Occupied'
  <2>1. /\ UNCHANGED <<manager, start, stale, pending, seen>>
        /\ worker' = [worker EXCEPT !.done = @ \ load[i].uids]
        /\ load' = [load EXCEPT ![i] = [at |-> "answered", uids |-> worker.done \ load[i].uids]]
    BY <1>10 DEF T!LoadServed, T!Unacknowledged
  <2>2. /\ Running' = Running /\ worker'.fg = worker.fg /\ worker'.done \subseteq worker.done
        /\ Delivered' \subseteq Delivered \cup worker.done
    BY <2>1 DEF Running, Delivered, TaskInv, TaskTypes, Download
  <2>3. QED
    BY <1>1, <2>1, <2>2
<1>11. ASSUME NEW i \in T!Loads, T!LoadAnswered(i) PROVE Occupied'
  <2> DEFINE new   == load[i].uids \ manager.received
             fresh == {u \in new : ~ T!Awaited(u)}
  <2>1. /\ UNCHANGED <<worker, start, stale>> /\ load[i].at = "answered" /\ pending = NoTask
        /\ manager'.state = manager.state /\ manager'.fg = manager.fg
        /\ seen'.excused = seen.excused /\ seen'.used = seen.used
        /\ load' = [load EXCEPT ![i] = T!NoLoad]
    BY <1>11 DEF T!LoadAnswered, T!Noted, TaskInv, TaskTypes
  <2>2. /\ Delivered' \subseteq Delivered /\ Running' = Running
        /\ Foreground' = Foreground /\ Starting' = Starting
    BY <2>1 DEF Delivered, Running, Foreground, Starting, T!NoLoad, TaskInv, TaskTypes
  <2>3. start.at \notin {"accepted", "rejected"}
    BY <2>1 DEF TaskInv, OneCall, Out
  <2>4. pending' = NoTask \/ (pending' \in new /\ T!Awaited(pending'))
    <3>1. pending' = IF new = fresh THEN NoTask ELSE CHOOSE u \in new \ fresh : TRUE
      BY <1>11 DEF T!LoadAnswered, T!NewResults
    <3>2. \A u \in new \ fresh : T!Awaited(u)
      OBVIOUS
    <3>3. fresh \subseteq new
      OBVIOUS
    <3> HIDE DEF fresh, new
    <3>4. QED
      BY <3>1, <3>2, <3>3
  <2>5. CASE pending' = NoTask
    BY <2>1, <2>2, <2>5 DEF Occupied
  <2>6. CASE pending' \in new /\ T!Awaited(pending')
    <3>1. /\ pending' \in Delivered /\ pending' \in Task /\ manager.state = "executing_task"
          /\ manager.fg = pending'
      BY <2>1, <2>6 DEF Delivered, T!Awaited, TaskInv, TaskTypes, Download
    <3>2. ~ Foreground
      BY <3>1, TaskNames DEF TaskNames, Occupied
    <3>3. worker.fg \in seen.excused \cup {NoTask}
      <4>1. pending' \notin Running
        BY <3>1 DEF TaskInv, NotOver
      <4>2. QED
        BY <3>1, <3>2, <4>1 DEF Occupied, Running
    <3>4. QED
      BY <2>1, <2>2, <3>1, <3>2, <3>3 DEF Occupied
  <2>7. QED
    BY <2>4, <2>5, <2>6
<1>12. CASE T!StateSet
  <2>1. /\ UNCHANGED <<worker, start, load, stale>> /\ pending # NoTask /\ pending' = NoTask
        /\ manager'.state = "idle" /\ manager'.fg = NoTask
        /\ seen'.excused = seen.excused /\ seen'.used = seen.used
    BY <1>12 DEF T!StateSet, T!Noted, TaskInv, TaskTypes
  <2>2. /\ Delivered' = Delivered /\ Running' = Running
        /\ Foreground' = Foreground /\ Starting' = Starting
    BY <2>1 DEF Delivered, Running, Foreground, Starting
  <2>3. QED
    BY <2>1, <2>2 DEF Occupied
<1>13. CASE T!Open
  <2>1. /\ UNCHANGED <<start, load, stale, pending>> /\ worker.env = "none"
        /\ worker' = [T!Gone EXCEPT !.env = "open"]
        /\ manager'.state = manager.state /\ manager'.fg = manager.fg
        /\ seen'.excused = seen.excused /\ seen'.used = seen.used
    BY <1>13 DEF T!Open, TaskInv, TaskTypes
  <2>2. worker'.fg = NoTask /\ worker'.bg = {} /\ worker'.done = {}
    BY <2>1 DEF T!Gone
  <2>3. Delivered' = Delivered /\ Running' = {NoTask}
    BY <2>1, <2>2 DEF Delivered, Running
  <2>4. QED
    BY <1>1, <2>1, <2>2, <2>3
<1>14. CASE T!CloseAsked
  <2>1. /\ UNCHANGED <<start, load, stale, pending, seen>> /\ worker.fg = NoTask
        /\ manager.state = "idle" /\ start.at = "none"
        /\ manager'.state = "closing_environment" /\ manager'.fg = manager.fg
        /\ worker'.fg = worker.fg /\ worker'.bg = worker.bg /\ worker'.done = worker.done
    BY <1>14 DEF T!CloseAsked, TaskInv, TaskTypes
  <2>2. /\ Delivered' = Delivered /\ Running' = Running
        /\ ~ Foreground /\ ~ Foreground' /\ Starting' = Starting
    BY <2>1 DEF Delivered, Running, Foreground, Starting
  <2>3. QED
    BY <2>1, <2>2 DEF Occupied
<1>15. CASE T!Closed \/ T!Destroyed
  <2>1. /\ UNCHANGED <<start, load, pending>> /\ worker' = T!Gone /\ stale' = T!Nobody
        /\ manager'.state = "idle" /\ manager'.fg = NoTask
        /\ seen'.excused = seen.excused /\ seen'.used = seen.used
    BY <1>15 DEF T!Closed, T!Destroyed, T!Leaves, TaskInv, TaskTypes
  <2>2. pending = NoTask /\ start.at \in {"none", "wait"} /\ ~ Foreground
    BY <1>15 DEF T!Closed, T!Destroyed, T!PipeFree, Foreground, Occupied
  <2>3. worker'.fg = NoTask /\ stale'.at = "none" /\ Foreground' = Foreground
    BY <2>1 DEF T!Gone, T!Nobody, Foreground
  <2>4. QED
    BY <2>1, <2>2, <2>3 DEF Occupied
<1>16. CASE T!Restart
  <2>1. /\ worker' = worker /\ manager' = T!Booted /\ pending' = NoTask /\ start' = T!Nobody
        /\ stale' = stale \/ (start.at = "sent" /\ stale' = start)
    BY <1>16 DEF T!Restart
  <2>2. seen'.used = seen.used /\ seen'.excused = seen.used
    BY <1>16, RestartSeen
  <2>3. worker.fg \in seen.used \cup {NoTask}
    BY DEF TaskInv, NotOver, Running
  <2>4. stale'.at # "none" => stale'.task \in seen.used
    <3>1. stale.at # "none" => stale.task \in seen.used
      BY TaskNames DEF TaskNames, TaskInv, TaskTypes, NotOver, Starting
    <3>2. QED
      BY <2>1, <3>1 DEF Occupied
  <2>5. start'.at = "none" /\ ~ Foreground' /\ manager'.fg = NoTask /\ manager'.state = "idle"
    BY <2>1 DEF T!Nobody, T!Booted, Foreground
  <2>6. QED
    BY <2>1, <2>2, <2>3, <2>4, <2>5 DEF Occupied
<1>17. CASE T!Tick \/ UNCHANGED T!vars
  <2>1. UNCHANGED <<worker, manager, start, load, stale, pending, seen>>
    BY <1>17 DEF T!Tick, T!vars
  <2>2. Running' = Running /\ Delivered' = Delivered
    BY <2>1 DEF Running, Delivered
  <2>3. QED
    BY <1>1, <2>1, <2>2
<1>18. QED
  BY <1>2, <1>3, <1>4, <1>5, <1>6, <1>7, <1>8, <1>9, <1>10, <1>11, <1>12, <1>13, <1>14, <1>15, <1>16,
     <1>17 DEF T!Next

-----------------------------------------------------------------------------
TaskWhole == TaskInv /\ results \in Results /\ Kept /\ Listed /\ Occupied

LEMMA TaskInitWhole == ASSUME TaskNames, T!Init PROVE TaskWhole
<1>1. /\ results.running = {} /\ results.data = << >> /\ results.times = {}
      /\ results = [running |-> {}, data |-> << >>, times |-> {}]
      /\ seen.added = [u \in Task |-> << >>] /\ start.at = "none" /\ stale.at = "none"
      /\ worker.fg = NoTask /\ worker.bg = {} /\ worker.done = {} /\ pending = NoTask
      /\ manager.fg = NoTask /\ \A i \in T!Loads : load[i].at = "none"
  BY DEF T!Init, T!Empty, T!Nobody, T!Gone, T!Booted, T!NoLoad
<1>2. results \in Results
  <2>1. << >> \in [{} -> Nat] /\ {} \in SUBSET Task
    OBVIOUS
  <2>2. << >> \in UNION {[few -> Nat] : few \in SUBSET Task}
    BY <2>1
  <2>3. QED
    BY <1>1, <2>2 DEF Results
<1>3. Kept
  <2>1. DOMAIN results.data = {}
    BY <1>1
  <2>2. QED
    BY <1>1, <2>1 DEF Kept
<1>4. Listed
  BY <1>1 DEF Listed, T!RunningIsTrue
<1>5. Occupied
  BY <1>1, TaskNames DEF TaskNames, Occupied, Foreground, Starting, Running, Delivered
<1>6. QED
  BY <1>2, <1>3, <1>4, <1>5, TaskInitInv DEF TaskWhole

LEMMA TaskWholeKeeps == ASSUME TaskNames, TaskWhole, [T!Next]_T!vars PROVE TaskWhole'
  BY TaskNextKeeps, ResultsKept, ListedKeeps, OccupiedKeeps DEF TaskWhole

LEMMA TaskWholeResults == ASSUME TaskNames, TaskWhole PROVE T!ResultsTrue
<1>1. T!TypeOK
  BY DEF TaskWhole, TaskInv, TaskTypes, Kept, T!TypeOK
<1>2. T!KeptLongEnough
  <2> SUFFICES ASSUME NEW u \in Task, NEW k \in DOMAIN seen.added[u],
                      clock <= seen.added[u][k] + Retention
               PROVE  u \in DOMAIN results.data
    BY DEF T!KeptLongEnough
  <2> DEFINE e == [task |-> u, time |-> seen.added[u][k]]
  <2>1. e \in results.times
    BY DEF TaskWhole, Kept
  <2>2. e.task = u
    OBVIOUS
  <2>3. DOMAIN results.data = {f.task : f \in results.times}
    BY DEF TaskWhole, Kept
  <2> HIDE DEF e
  <2>4. QED
    BY <2>1, <2>2, <2>3
<1>3. T!TaskOccupiesManager
  BY DEF TaskWhole, Occupied, T!TaskOccupiesManager
<1>4. QED
  BY <1>1, <1>2, <1>3 DEF TaskWhole, TaskInv, Listed, T!ResultsTrue

(* The result of a task is recorded once, none is lost on the way from the  *)
(* worker, each is kept for the retention time, what is listed as running   *)
(* runs or is to be fetched, and the manager is occupied while a foreground *)
(* task runs: whatever requests and answers are late, whichever downloads   *)
(* overlap and however often the manager restarts                          *)
(* (_request_task_results_handler, _load_task_results, TaskResults).       *)
THEOREM TaskResultsTrue == ASSUME TaskNames PROVE T!Spec => []T!ResultsTrue
<1>1. T!Init => TaskWhole
  BY TaskInitWhole
<1>2. TaskWhole /\ [T!Next]_T!vars => TaskWhole'
  BY TaskWholeKeeps
<1>3. TaskWhole => T!ResultsTrue
  BY TaskWholeResults
<1>4. QED
  BY <1>1, <1>2, <1>3, PTL DEF T!Spec

-----------------------------------------------------------------------------
(* Calls over one socket.                                                  *)

CallNames == NoCaller \notin Caller /\ MaxCalls \in Nat

Message == [answer : C!Calls \cup {C!NoCall}, err : {"none", "timeout", "no data", "not sent"}]

(* An answer that the caller of a call may be given.                       *)
Fits(msg, call) == msg.err # "no data" /\ (msg.err = "none" => msg.answer = call)

CallTypes ==
    /\ pc \in [Caller -> {"idle", "lock", "send", "signal", "wait"}]
    /\ calls \in [Caller -> 0..MaxCalls]
    /\ owner \in C!Calls \cup {C!NoCall} /\ cb \in C!Calls \cup {C!NoCall} /\ socket \in C!Calls \cup {C!NoCall}
    /\ flags \in [wait : BOOLEAN, received : BOOLEAN, blocking : BOOLEAN, error : BOOLEAN]
    /\ data \in Message
    /\ thread \in [at : {"wait", "poll", "call", "clear", "finish"}, msg : Message]
    /\ outcomes \subseteq [call : C!Calls, outcome : Message, by : {"caller", "callback"}]

(* The request on the socket is the one whose callback is set, from the    *)
(* time it was sent until the thread has a message for it.                 *)
Awaited == (thread.at = "wait" /\ flags.wait) \/ thread.at = "poll"

(* The call under way: until its message has been handed over.             *)
Undelivered == Awaited \/ thread.at = "call"

SocketInv ==
    /\ Awaited => socket = cb /\ cb # C!NoCall
    /\ thread.at = "call" => cb # C!NoCall /\ Fits(thread.msg, cb)
    /\ thread.at = "finish" => ~ flags.wait

CallerInv ==
    \A c \in Caller :
        /\ pc[c] \in {"send", "signal", "wait"} => owner = C!Call(c) /\ cb = C!Call(c)
        /\ pc[c] \in {"send", "signal"} => thread.at = "wait" /\ ~ flags.wait /\ ~ flags.received
        /\ pc[c] = "signal" => socket = cb
        /\ pc[c] = "wait" => flags.blocking
        /\ pc[c] = "wait" /\ (flags.received \/ ~ Undelivered) => Fits(data, cb)
        /\ pc[c] = "wait" /\ flags.received => ~ Undelivered

(* Calls are numbered, and one that has ended is not under way.            *)
NumberInv ==
    /\ \A c \in Caller : pc[c] # "idle" => C!Call(c) \in C!Calls
    /\ \A k \in {owner, cb} \ {C!NoCall} : k.n <= calls[k.caller]
    /\ \A d \in outcomes : d.call.n <= calls[d.call.caller]
    /\ \A c \in Caller : pc[c] = "lock" => C!Call(c) \notin {owner, cb}
    /\ \A c \in Caller : pc[c] # "idle" => \A d \in outcomes : d.call # C!Call(c)
    /\ Undelivered => owner # C!NoCall /\ owner = cb /\ \A d \in outcomes : d.call # cb

AnsweredInv == C!AnswerIsOwn /\ C!FailsOnTimeout /\ C!EndsOnce

CallInv == CallTypes /\ SocketInv /\ CallerInv /\ NumberInv /\ AnsweredInv

-----------------------------------------------------------------------------
(* Facts about calls and their messages.                                   *)

LEMMA CallIsOfCaller ==
  ASSUME NEW c \in Caller, NEW d \in Caller, C!Call(c) = C!Call(d)
  PROVE  c = d
  BY DEF C!Call

LEMMA NoCallIsNone == ASSUME CallNames PROVE C!NoCall \notin C!Calls
  BY DEF CallNames, C!NoCall, C!Calls

LEMMA MessageTyped ==
  ASSUME NEW k \in C!Calls \cup {C!NoCall}, NEW e \in {"none", "timeout", "no data", "not sent"}
  PROVE  [answer |-> k, err |-> e] \in Message
  BY DEF Message

LEMMA EndedTyped ==
  ASSUME NEW call \in C!Calls, NEW msg \in Message, NEW by \in {"caller", "callback"}
  PROVE  C!Ended(call, msg, by) \in [call : C!Calls, outcome : Message, by : {"caller", "callback"}]
  BY DEF C!Ended

(* A call that ends for the first time, with a message that fits, leaves    *)
(* what is said of ended calls true.                                       *)
LEMMA EndsWell ==
  ASSUME AnsweredInv, NEW call, NEW msg, NEW by,
         outcomes' = outcomes \cup {C!Ended(call, msg, by)},
         \A d \in outcomes : d.call # call, Fits(msg, call)
  PROVE  AnsweredInv'
<1> DEFINE e == C!Ended(call, msg, by)
<1>1. outcomes' = outcomes \cup {e} /\ e.call = call /\ e.outcome = msg
  BY DEF C!Ended
<1> HIDE DEF e
<1>2. QED
  BY <1>1 DEF AnsweredInv, C!AnswerIsOwn, C!FailsOnTimeout, C!EndsOnce, Fits

LEMMA CallInitInv == ASSUME CallNames, C!Init PROVE CallInv
<1>1. CallTypes
  <2>1. C!NoData \in Message
    BY MessageTyped DEF C!NoData
  <2>2. flags \in [wait : BOOLEAN, received : BOOLEAN, blocking : BOOLEAN, error : BOOLEAN]
    BY DEF C!Init
  <2>3. QED
    BY <2>1, <2>2 DEF CallNames, C!Init, CallTypes
<1>2. SocketInv /\ CallerInv /\ AnsweredInv
  BY DEF C!Init, SocketInv, CallerInv, AnsweredInv, C!AnswerIsOwn, C!FailsOnTimeout, C!EndsOnce, Awaited
<1>3. NumberInv
  BY DEF C!Init, NumberInv, Awaited, Undelivered
<1>4. QED
  BY <1>1, <1>2, <1>3 DEF CallInv

-----------------------------------------------------------------------------
(* The steps of a caller.                                                  *)

LEMMA AsksKeeps == ASSUME CallNames, CallInv, NEW c \in Caller, C!Asks(c) PROVE CallInv'
<1>1. CallTypes'
  BY DEF CallNames, CallInv, CallTypes, C!Asks
<1>2. SocketInv'
  BY DEF CallInv, SocketInv, Awaited, C!Asks
<1>3. CallerInv'
  BY DEF CallInv, CallTypes, CallerInv, C!Call, Awaited, Undelivered, C!Asks
<1>4. NumberInv'
  BY DEF CallNames, CallInv, CallTypes, NumberInv, C!NoCall, C!Call, C!Calls, Awaited, Undelivered, C!Asks
<1>5. AnsweredInv'
  BY DEF CallInv, AnsweredInv, C!AnswerIsOwn, C!FailsOnTimeout, C!EndsOnce, C!Asks
<1>6. QED
  BY <1>1, <1>2, <1>3, <1>4, <1>5 DEF CallInv

LEMMA PreparesKeeps ==
  ASSUME CallNames, Prompt, CallInv, NEW c \in Caller, NEW b \in BOOLEAN, C!Prepares(c, b)
  PROVE  CallInv'
<1>1. CallTypes'
  BY MessageTyped DEF CallInv, CallTypes, NumberInv, C!NoData, C!Prepares
<1>2. SocketInv'
  BY DEF CallInv, CallTypes, SocketInv, Awaited, C!Prepares
<1>3. CallerInv'
  BY DEF CallNames, CallInv, CallTypes, CallerInv, C!NoCall, C!Call, C!Calls, Awaited, Undelivered, C!Prepares
<1>4. NumberInv'
  BY DEF CallNames, CallInv, CallTypes, NumberInv, C!NoCall, C!Call, C!Calls, Awaited, Undelivered, C!Prepares
<1>5. AnsweredInv'
  BY DEF CallInv, AnsweredInv, C!AnswerIsOwn, C!FailsOnTimeout, C!EndsOnce, C!Prepares
<1>6. QED
  BY <1>1, <1>2, <1>3, <1>4, <1>5 DEF CallInv

LEMMA SendsKeeps == ASSUME CallNames, CallInv, NEW c \in Caller, C!Sends(c) PROVE CallInv'
<1>1. CallTypes'
  BY DEF CallInv, CallTypes, NumberInv, C!Sends
<1>2. SocketInv'
  BY DEF CallInv, CallTypes, SocketInv, CallerInv, Awaited, C!Sends
<1>3. CallerInv'
  BY DEF CallInv, CallTypes, CallerInv, C!Call, Awaited, Undelivered, C!Sends
<1>4. NumberInv'
  BY DEF CallInv, CallTypes, NumberInv, C!Call, Awaited, Undelivered, C!Sends
<1>5. AnsweredInv'
  BY DEF CallInv, AnsweredInv, C!AnswerIsOwn, C!FailsOnTimeout, C!EndsOnce, C!Sends
<1>6. QED
  BY <1>1, <1>2, <1>3, <1>4, <1>5 DEF CallInv

LEMMA SendRaisesKeeps == ASSUME CallNames, CallInv, NEW c \in Caller, C!SendRaises(c) PROVE CallInv'
<1> DEFINE msg == [answer |-> C!NoCall, err |-> "not sent"]
           e   == C!Ended(C!Call(c), msg, "caller")
<1>1. /\ outcomes' = outcomes \cup {e}
      /\ UNCHANGED <<calls, owner, flags, cb, data, socket, thread>>
      /\ pc[c] = "send" /\ pc' = [pc EXCEPT ![c] = "idle"]
  BY DEF C!SendRaises
<1>2. msg \in Message /\ Fits(msg, C!Call(c)) /\ e.call = C!Call(c)
  BY MessageTyped DEF Fits, C!Ended
<1>3. e \in [call : C!Calls, outcome : Message, by : {"caller", "callback"}]
  BY <1>1, <1>2, EndedTyped DEF CallInv, NumberInv
<1>4. \A d \in outcomes : d.call # C!Call(c)
  BY <1>1 DEF CallInv, NumberInv
<1>5. AnsweredInv'
  BY <1>1, <1>2, <1>4, EndsWell DEF CallInv
<1> HIDE DEF msg, e
<1>6. CallTypes'
  BY <1>1, <1>3 DEF CallInv, CallTypes
<1>7. SocketInv'
  BY <1>1 DEF CallInv, SocketInv, Awaited
<1>8. CallerInv'
  BY <1>1 DEF CallInv, CallTypes, CallerInv, C!Call, Awaited, Undelivered
<1>9. NumberInv'
  <2>1. ~ Undelivered'
    BY <1>1 DEF CallInv, CallerInv, Undelivered, Awaited
  <2>2. \A x \in Caller : C!Call(x)' = C!Call(x) /\ (x # c => C!Call(x) # C!Call(c))
    BY <1>1, CallIsOfCaller DEF C!Call
  <2>3. \A d \in outcomes' : d \in outcomes \/ d.call = C!Call(c)
    BY <1>1, <1>2
  <2>4. \A d \in outcomes' : d.call.n <= calls[d.call.caller]
    BY <2>3 DEF CallInv, CallTypes, NumberInv, C!Call
  <2>5. QED
    BY <1>1, <2>1, <2>2, <2>3, <2>4 DEF CallInv, CallTypes, NumberInv
<1>10. QED
  BY <1>5, <1>6, <1>7, <1>8, <1>9 DEF CallInv

LEMMA SignalsKeeps == ASSUME CallNames, CallInv, NEW c \in Caller, C!Signals(c) PROVE CallInv'
<1>1. flags'.wait = TRUE /\ flags'.received = flags.received /\ flags'.blocking = flags.blocking
  BY DEF C!Signals, CallInv, CallTypes
<1>2. socket' = cb' /\ cb' = C!Call(c) /\ cb' # C!NoCall /\ thread'.at = "wait"
  BY DEF C!Signals, CallInv, CallerInv, C!Call, C!NoCall, CallNames
<1>3. CallTypes'
  BY DEF CallInv, CallTypes, C!Signals
<1>4. SocketInv'
  BY <1>1, <1>2 DEF SocketInv, Awaited
<1>5. CallerInv'
  <2>1. \A x \in Caller : C!Call(x)' = C!Call(x)
    BY DEF C!Call, C!Signals
  <2>2. \A x \in Caller \ {c} : pc[x] \notin {"send", "signal", "wait"}
    BY CallIsOfCaller DEF CallInv, CallerInv, C!Signals
  <2>3. QED
    BY <1>1, <1>2, <2>1, <2>2 DEF C!Signals, CallInv, CallTypes, CallerInv, Undelivered, Awaited
<1>6. NumberInv'
  BY DEF CallNames, CallInv, CallTypes, CallerInv, NumberInv, C!NoCall, C!Call, C!Calls, Awaited, Undelivered, C!Signals
<1>7. AnsweredInv'
  BY DEF CallInv, AnsweredInv, C!AnswerIsOwn, C!FailsOnTimeout, C!EndsOnce, C!Signals
<1>8. QED
  BY <1>3, <1>4, <1>5, <1>6, <1>7 DEF CallInv

LEMMA TakesKeeps == ASSUME CallNames, CallInv, NEW c \in Caller, C!Takes(c) PROVE CallInv'
<1> DEFINE e == C!Ended(C!Call(c), data, "caller")
<1>1. /\ outcomes' = outcomes \cup {e} /\ e.call = C!Call(c)
      /\ pc[c] = "wait" /\ pc' = [pc EXCEPT ![c] = "idle"] /\ owner' = C!NoCall
      /\ UNCHANGED <<calls, cb, data, socket, thread>>
  BY DEF C!Takes, C!Ended
<1>2. flags'.wait = flags.wait /\ ~ Undelivered
  BY DEF C!Takes, CallInv, CallTypes, CallerInv
<1>3. \A d \in outcomes : d.call # C!Call(c)
  BY <1>1 DEF CallInv, NumberInv
<1>4. Fits(data, C!Call(c))
  BY DEF C!Takes, CallInv, CallerInv
<1>5. AnsweredInv'
  BY <1>1, <1>3, <1>4, EndsWell DEF CallInv
<1>6. e \in [call : C!Calls, outcome : Message, by : {"caller", "callback"}]
  BY <1>1, EndedTyped DEF CallInv, CallTypes, NumberInv
<1> HIDE DEF e
<1>7. CallTypes'
  BY <1>1, <1>6 DEF CallInv, CallTypes, C!Takes
<1>8. \A x \in Caller : pc'[x] \notin {"send", "signal", "wait"}
  <2>1. \A x \in Caller \ {c} : pc[x] \notin {"send", "signal", "wait"}
    BY <1>1, CallIsOfCaller DEF CallInv, CallerInv
  <2>2. QED
    BY <1>1, <2>1 DEF CallInv, CallTypes
<1>9. SocketInv'
  BY <1>1, <1>2 DEF CallInv, SocketInv, Undelivered, Awaited
<1>10. CallerInv'
  BY <1>8 DEF CallerInv
<1>11. NumberInv'
  <2>1. ~ Undelivered'
    BY <1>1, <1>2 DEF Undelivered, Awaited
  <2>2. \A x \in Caller : C!Call(x)' = C!Call(x) /\ (x # c => C!Call(x) # C!Call(c))
    BY <1>1, CallIsOfCaller DEF C!Call
  <2>3. \A d \in outcomes' : d \in outcomes \/ d.call = C!Call(c)
    BY <1>1
  <2>4. \A d \in outcomes' : d.call.n <= calls[d.call.caller]
    BY <2>3 DEF CallInv, CallTypes, NumberInv, C!Call
  <2>5. QED
    BY <1>1, <2>1, <2>2, <2>3, <2>4, NoCallIsNone DEF CallInv, CallTypes, NumberInv
<1>12. QED
  BY <1>5, <1>7, <1>9, <1>10, <1>11 DEF CallInv

-----------------------------------------------------------------------------
(* The steps of the receiving thread.                                      *)

LEMMA WakesKeeps == ASSUME CallInv, C!Wakes PROVE CallInv'
<1>1. CallTypes'
  BY DEF CallInv, CallTypes, C!Wakes
<1>2. SocketInv' /\ CallerInv'
  BY DEF CallInv, CallTypes, SocketInv, CallerInv, C!Call, Awaited, Undelivered, C!Wakes
<1>3. NumberInv'
  BY DEF CallInv, CallTypes, NumberInv, C!Call, Awaited, Undelivered, C!Wakes
<1>4. AnsweredInv'
  BY DEF CallInv, AnsweredInv, C!AnswerIsOwn, C!FailsOnTimeout, C!EndsOnce, C!Wakes
<1>5. QED
  BY <1>1, <1>2, <1>3, <1>4 DEF CallInv

LEMMA ReceivesKeeps == ASSUME CallInv, C!Receives PROVE CallInv'
<1>1. CallTypes'
  BY MessageTyped DEF CallInv, CallTypes, C!Receives
<1>2. SocketInv' /\ CallerInv'
  BY DEF CallInv, CallTypes, SocketInv, CallerInv, C!Call, Awaited, Undelivered, Fits, C!Receives
<1>3. NumberInv'
  BY DEF CallInv, CallTypes, NumberInv, C!Call, Awaited, Undelivered, C!Receives
<1>4. AnsweredInv'
  BY DEF CallInv, AnsweredInv, C!AnswerIsOwn, C!FailsOnTimeout, C!EndsOnce, C!Receives
<1>5. QED
  BY <1>1, <1>2, <1>3, <1>4 DEF CallInv

LEMMA TimesOutKeeps == ASSUME CallInv, C!TimesOut PROVE CallInv'
<1>1. CallTypes'
  BY MessageTyped DEF CallInv, CallTypes, C!TimesOut
<1>2. SocketInv' /\ CallerInv'
  BY DEF CallInv, CallTypes, SocketInv, CallerInv, C!Call, Awaited, Undelivered, Fits, C!TimesOut
<1>3. NumberInv'
  BY DEF CallInv, CallTypes, NumberInv, C!Call, Awaited, Undelivered, C!TimesOut
<1>4. AnsweredInv'
  BY DEF CallInv, AnsweredInv, C!AnswerIsOwn, C!FailsOnTimeout, C!EndsOnce, C!TimesOut
<1>5. QED
  BY <1>1, <1>2, <1>3, <1>4 DEF CallInv

LEMMA CallsBackKeeps == ASSUME CallInv, C!CallsBack PROVE CallInv'
<1>1. Undelivered /\ cb # C!NoCall /\ Fits(thread.msg, cb)
  BY DEF C!CallsBack, Undelivered, CallInv, SocketInv
<1>2. CASE flags.blocking
  <2>1. CallTypes' /\ flags'.wait = flags.wait /\ flags'.blocking = flags.blocking
    BY <1>2 DEF C!CallsBack, CallInv, CallTypes
  <2>2. SocketInv' /\ CallerInv'
    BY <1>1, <1>2, <2>1 DEF C!CallsBack, CallInv, CallTypes, SocketInv, CallerInv, C!Call, Awaited, Undelivered, Fits
  <2>3. NumberInv'
    BY <1>2 DEF C!CallsBack, CallInv, CallTypes, NumberInv, C!Call, Awaited, Undelivered
  <2>4. AnsweredInv'
    BY <1>2 DEF C!CallsBack, CallInv, AnsweredInv, C!AnswerIsOwn, C!FailsOnTimeout, C!EndsOnce
  <2>5. QED
    BY <2>1, <2>2, <2>3, <2>4 DEF CallInv
<1>3. CASE ~ flags.blocking
  <2> DEFINE e == C!Ended(cb, thread.msg, "callback")
  <2>1. /\ outcomes' = outcomes \cup {e} /\ e.call = cb
        /\ thread' = [thread EXCEPT !.at = "clear"] /\ thread.at = "call"
        /\ UNCHANGED <<pc, calls, owner, flags, cb, data, socket>>
    BY <1>3 DEF C!CallsBack, C!Ended
  <2>2. \A d \in outcomes : d.call # cb
    BY <1>1 DEF CallInv, NumberInv
  <2>3. AnsweredInv'
    BY <1>1, <2>1, <2>2, EndsWell DEF CallInv
  <2>4. e \in [call : C!Calls, outcome : Message, by : {"caller", "callback"}]
    BY <1>1, EndedTyped DEF CallInv, CallTypes
  <2> HIDE DEF e
  <2>5. CallTypes'
    BY <2>1, <2>4 DEF CallInv, CallTypes
  <2>6. thread'.at = "clear" /\ ~ Undelivered'
    BY <2>1 DEF CallInv, CallTypes, Undelivered, Awaited
  <2>7. \A c \in Caller : C!Call(c)' = C!Call(c) /\ pc[c] \notin {"send", "signal", "wait"}
    BY <1>3, <2>1 DEF C!Call, CallInv, CallerInv
  <2>8. SocketInv' /\ CallerInv'
    BY <2>1, <2>6, <2>7 DEF SocketInv, CallerInv, Undelivered
  <2>9. NumberInv'
    <3>1. \A d \in outcomes' : d \in outcomes \/ d.call = cb
      BY <2>1
    <3>2. \A c \in Caller : pc[c] # "idle" => pc[c] = "lock"
      BY <2>7 DEF CallInv, CallTypes
    <3>3. QED
      BY <1>1, <2>1, <2>6, <2>7, <3>1, <3>2 DEF CallInv, NumberInv
  <2>10. QED
    BY <2>3, <2>5, <2>8, <2>9 DEF CallInv
<1>4. QED
  BY <1>2, <1>3

LEMMA ClearsKeeps == ASSUME CallInv, C!Clears PROVE CallInv'
<1>1. CallTypes'
  BY DEF CallInv, CallTypes, C!Clears
<1>2. SocketInv' /\ CallerInv'
  BY DEF CallInv, CallTypes, SocketInv, CallerInv, C!Call, Awaited, Undelivered, C!Clears
<1>3. NumberInv'
  BY DEF CallInv, CallTypes, NumberInv, C!Call, Awaited, Undelivered, C!Clears
<1>4. AnsweredInv'
  BY DEF CallInv, AnsweredInv, C!AnswerIsOwn, C!FailsOnTimeout, C!EndsOnce, C!Clears
<1>5. QED
  BY <1>1, <1>2, <1>3, <1>4 DEF CallInv

LEMMA FinishesKeeps == ASSUME CallNames, CallInv, C!Finishes PROVE CallInv'
<1>1. /\ thread.at = "finish" /\ thread' = [at |-> "wait", msg |-> C!NoData]
      /\ ~ flags.wait /\ ~ Undelivered
      /\ UNCHANGED <<pc, calls, cb, data, socket, outcomes>>
  BY DEF C!Finishes, Undelivered, Awaited, CallInv, SocketInv
<1>2. \A c \in Caller : C!Call(c)' = C!Call(c)
  BY <1>1 DEF C!Call
<1>3. AnsweredInv'
  BY <1>1 DEF CallInv, AnsweredInv, C!AnswerIsOwn, C!FailsOnTimeout, C!EndsOnce
<1>4. thread' \in [at : {"wait", "poll", "call", "clear", "finish"}, msg : Message]
  BY <1>1, MessageTyped DEF C!NoData
<1>5. CASE flags.blocking
  <2>1. owner' = owner /\ flags'.wait = flags.wait /\ flags'.blocking = flags.blocking
    BY <1>5 DEF C!Finishes, CallInv, CallTypes
  <2>2. CallTypes'
    BY <1>1, <1>4, <1>5 DEF C!Finishes, CallInv, CallTypes
  <2>3. ~ Undelivered'
    BY <1>1, <2>1 DEF Undelivered, Awaited
  <2>4. SocketInv' /\ CallerInv' /\ NumberInv'
    BY <1>1, <1>2, <2>1, <2>3 DEF CallInv, SocketInv, CallerInv, NumberInv, Undelivered
  <2>5. QED
    BY <1>3, <2>2, <2>4 DEF CallInv
<1>6. CASE ~ flags.blocking
  <2>1. owner' = C!NoCall /\ flags' = flags
    BY <1>6 DEF C!Finishes
  <2>2. CallTypes'
    BY <1>1, <1>4, <2>1 DEF CallInv, CallTypes
  <2>3. ~ Undelivered'
    BY <1>1, <2>1 DEF Undelivered, Awaited
  <2>4. \A c \in Caller : pc[c] \notin {"send", "signal", "wait"}
    BY <1>1, <1>6 DEF CallInv, CallerInv
  <2>5. SocketInv' /\ CallerInv'
    BY <1>1, <2>1, <2>3, <2>4 DEF SocketInv, CallerInv, Undelivered
  <2>6. NumberInv'
    BY <1>1, <1>2, <2>1, <2>3, NoCallIsNone DEF CallInv, NumberInv
  <2>7. QED
    BY <1>3, <2>2, <2>5, <2>6 DEF CallInv
<1>7. QED
  BY <1>5, <1>6

LEMMA CallNextKeeps == ASSUME CallNames, Prompt, CallInv, [C!Next]_C!vars PROVE CallInv'
<1>1. ASSUME NEW c \in Caller,
             C!Asks(c) \/ C!Sends(c) \/ C!SendRaises(c) \/ C!Signals(c) \/ C!Takes(c)
      PROVE  CallInv'
  BY <1>1, AsksKeeps, SendsKeeps, SendRaisesKeeps, SignalsKeeps, TakesKeeps
<1>2. ASSUME NEW c \in Caller, NEW b \in BOOLEAN, C!Prepares(c, b) PROVE CallInv'
  BY <1>2, PreparesKeeps
<1>3. CASE C!Wakes \/ C!Receives \/ C!TimesOut \/ C!CallsBack \/ C!Clears \/ C!Finishes
  BY <1>3, WakesKeeps, ReceivesKeeps, TimesOutKeeps, CallsBackKeeps, ClearsKeeps, FinishesKeeps
<1>4. CASE UNCHANGED C!vars
  <2> USE <1>4 DEF C!vars
  <2>1. CallTypes'
    BY DEF CallInv, CallTypes
  <2>2. (Awaited' <=> Awaited) /\ (Undelivered' <=> Undelivered)
    BY DEF Awaited, Undelivered
  <2>3. SocketInv' /\ CallerInv' /\ NumberInv'
    BY <2>2 DEF CallInv, SocketInv, CallerInv, NumberInv, C!Call
  <2>4. AnsweredInv'
    BY DEF CallInv, AnsweredInv, C!AnswerIsOwn, C!FailsOnTimeout, C!EndsOnce
  <2>5. QED
    BY <2>1, <2>3, <2>4 DEF CallInv
<1>5. QED
  BY <1>1, <1>2, <1>3, <1>4 DEF C!Next

LEMMA CallInvAnswers == ASSUME CallInv PROVE C!CallsAnswered
  BY DEF CallInv, CallTypes, AnsweredInv, C!CallsAnswered, C!TypeOK

-----------------------------------------------------------------------------
(* Every call gets the answer to its own request, or an error that says    *)
(* that it was not sent or not answered in time, and gets it once, however *)
(* many threads share the socket and whatever times out                    *)
(* (ZMQCommSendThreads._zmq_communicate and _receive_thread).              *)
THEOREM AnswersAreOwn == ASSUME CallNames, Prompt PROVE C!Spec => []C!CallsAnswered
<1>1. C!Init => CallInv
  BY CallInitInv
<1>2. CallInv /\ [C!Next]_C!vars => CallInv'
  BY CallNextKeeps
<1>3. CallInv => C!CallsAnswered
  BY CallInvAnswers
<1>4. QED
  BY <1>1, <1>2, <1>3, PTL DEF C!Spec

-----------------------------------------------------------------------------
(* In every behaviour of the modules together, whichever part moves, the    *)
(* results of tasks and the answers of calls are as they should be.         *)
THEOREM ResultsAreTrue ==
  ASSUME TaskNames, CallNames, Prompt
  PROVE  ServicesSpec => []ResultsTrue
<1> DEFINE Inv == /\ part = "work" => TaskWhole
                  /\ part = "client" => CallInv
<1>1. ServicesInit => Inv
  BY TaskInitWhole, CallInitInv DEF ServicesInit
<1>2. Inv /\ [ServicesNext]_<<part, lock, work, client, rights, writes, motions, watching, registryVars>>
        => Inv'
  <2> SUFFICES ASSUME Inv, [ServicesNext]_<<part, lock, work, client, rights, writes, motions,
                                            watching, registryVars>>
               PROVE  Inv'
    OBVIOUS
  <2>1. part' = part
    BY DEF ServicesNext, RegistryNext
  <2>2. part = "work" => [T!Next]_T!vars
    BY DEF ServicesNext, RegistryNext, RegistryParts, work, T!vars
  <2>3. part = "client" => [C!Next]_C!vars
    BY DEF ServicesNext, RegistryNext, RegistryParts, client, C!vars
  <2>4. QED
    BY <2>1, <2>2, <2>3, TaskWholeKeeps, CallNextKeeps
<1>3. Inv => ResultsTrue
  BY TaskWholeResults, CallInvAnswers DEF ResultsTrue
<1>4. QED
  BY <1>1, <1>2, <1>3, PTL DEF ServicesSpec
-----------------------------------------------------------------------------
(* Permissions of plans.                                                   *)

(* A device has a name, and each attribute of the namespace a path of       *)
(* names.  No device of the profile is marked "excluded": only the filter   *)
(* marks one (profile_ops.py:1753-1774).                                    *)
Path == Seq(STRING) \ {<< >>}

PermissionNames ==
    /\ Existing \in [DOMAIN Existing -> [type : STRING, excluded : {FALSE}]]
    /\ DOMAIN Existing \subseteq Path
    /\ Attributes \subseteq Path
    /\ none \notin Permissions
    /\ MaxEvents \in Nat

Copies == [perms : Permissions, of : Permissions]
Plans  == [at : {"queued", "locked", "running"}, group : {"root", "user"}, param : Parameters,
           value : Values, left : BOOLEAN]

Errors == [failed : BOOLEAN, missed : BOOLEAN, raced : BOOLEAN, events : Nat]

PermTypes ==
    /\ stored \in Permissions /\ lists \in Copies /\ allowed \in Copies
    /\ handler \in {"idle", "set", "file", "tell"}
    /\ tasks \in Seq(Permissions \cup {none}) /\ Len(tasks) <= 2
    /\ item \in Plans \cup {R!NoItem}
    /\ locks \subseteq Roots /\ given \subseteq Attributes
    /\ errors \in Errors

(* What is locked for a plan that is not running yet, and for one that is.  *)
(* A value left out is the default.                                         *)
PlanLocked ==
    /\ item.at = "locked" => locks = R!LockedFor(item)
    /\ item.at # "none" /\ item.left => item.param.default = {item.value}
    /\ R!GivenIsLocked

(* The manager goes by what is stored once the handler has written it, the  *)
(* worker once it was told, and its lists follow when its one task ended.   *)
CopiesTrue ==
    /\ handler \in {"idle", "tell"} /\ ~ errors.failed => lists = [perms |-> stored, of |-> stored]
    /\ handler # "tell" /\ ~ errors.failed /\ ~ errors.missed => allowed.perms = stored
    /\ ~ errors.raced =>
           /\ Len(tasks) <= 1
           /\ tasks = << >> => allowed.of = allowed.perms
           /\ \A i \in DOMAIN tasks : tasks[i] \in {none, allowed.perms}

PermInv == PermTypes /\ PlanLocked /\ CopiesTrue

LEMMA PathIsWithinItself ==
  ASSUME NEW path \in Path
  PROVE  R!Within(path, path) /\ Len(path) \in Nat /\ Len(path) > 0
<1>1. path \in Seq(STRING) /\ path # << >>
  BY DEF Path
<1>2. Len(path) \in Nat /\ Len(path) > 0 /\ SubSeq(path, 1, Len(path)) = path
  BY <1>1
<1>3. QED
  BY <1>2 DEF R!Within

IsTree(tree) ==
    /\ DOMAIN tree \subseteq Path
    /\ tree \in [DOMAIN tree -> [type : STRING, excluded : BOOLEAN]]

(* What the filter leaves is part of the tree; it takes back no exclusion,  *)
(* and a device that it leaves excluded has a part that is not.             *)
LEMMA FilterLeaves ==
  ASSUME NEW tree, IsTree(tree), NEW of
  PROVE  LET left == R!FilterTree(tree, of)
         IN  /\ IsTree(left)
             /\ DOMAIN left \subseteq DOMAIN tree
             /\ \A path \in DOMAIN left : R!InList(path, left) => R!InList(path, tree)
             /\ \A path \in DOMAIN left : \E part_ \in DOMAIN left :
                    R!InList(part_, left) /\ R!Within(path, part_)
<1> DEFINE before == {path \in DOMAIN tree : tree[path].excluded}
<1>1. PICK out : /\ before \subseteq out
                 /\ R!FilterTree(tree, of) = R!Cut(tree, out)
  BY DEF R!FilterTree
<1> DEFINE left == R!Cut(tree, out)
           stays == {path \in DOMAIN tree : \E part_ \in DOMAIN tree \ out : R!Within(path, part_)}
<1>2. left = [path \in stays |-> [tree[path] EXCEPT !.excluded = path \in out]]
  BY DEF R!Cut
<1>3. ASSUME NEW path \in stays
      PROVE  /\ left[path] \in [type : STRING, excluded : BOOLEAN]
             /\ left[path].excluded <=> path \in out
  <2>1. tree[path] \in [type : STRING, excluded : BOOLEAN]
    BY DEF IsTree
  <2> DEFINE mark == path \in out
  <2>2. left[path] = [tree[path] EXCEPT !.excluded = mark]
    BY <1>2
  <2>3. mark \in BOOLEAN
    OBVIOUS
  <2> HIDE DEF mark, left, stays
  <2>4. left[path].excluded = mark /\ left[path] \in [type : STRING, excluded : BOOLEAN]
    BY <2>1, <2>2, <2>3
  <2>5. QED
    BY <2>4 DEF mark
<1>4. DOMAIN left = stays
  BY <1>2
<1> HIDE DEF left
<1>5. IsTree(left)
  <2>1. left = [path \in stays |-> left[path]]
    BY <1>2
  <2>2. left \in [stays -> [type : STRING, excluded : BOOLEAN]]
    BY <1>3, <2>1
  <2>3. QED
    BY <1>4, <2>2 DEF IsTree
<1>6. \A path \in DOMAIN left : R!InList(path, left) => R!InList(path, tree)
  BY <1>1, <1>3, <1>4 DEF R!InList
<1>7. ASSUME NEW path \in DOMAIN left
      PROVE  \E part_ \in DOMAIN left : R!InList(part_, left) /\ R!Within(path, part_)
  <2>1. PICK part_ \in DOMAIN tree \ out : R!Within(path, part_)
    BY <1>4
  <2>2. part_ \in stays
    BY PathIsWithinItself, <2>1 DEF IsTree
  <2>3. QED
    BY <1>3, <1>4, <2>1, <2>2 DEF R!InList
<1>8. QED
  BY <1>1, <1>4, <1>5, <1>6, <1>7 DEF left

LEMMA GroupsAreWithinRoot == ASSUME PermissionNames PROVE R!GroupsWithinRoot
<1> DEFINE perms == allowed.of
           top   == R!FilterTree(Existing, perms.root)
           below == R!FilterTree(top, perms.user)
<1>1. CASE ~ R!Readable(perms)
  <2>1. R!AllowedDevices(perms) = [root |-> Existing]
    BY <1>1 DEF R!AllowedDevices
  <2>2. "user" \notin DOMAIN R!AllowedDevices(perms)
    BY <2>1
  <2>3. QED
    BY <2>2 DEF R!GroupsWithinRoot
<1>2. CASE R!Readable(perms)
  <2> DEFINE trees == R!AllowedDevices(perms)
  <2>1. trees = [root |-> top, user |-> below]
    BY <1>2 DEF R!AllowedDevices
  <2>2. trees.root = top /\ trees["user"] = below /\ trees["root"] = top /\ trees.user = below
    BY <2>1
  <2>3. IsTree(Existing)
    BY DEF PermissionNames, IsTree
  <2>4. /\ IsTree(top)
        /\ \A path \in DOMAIN top : \E part_ \in DOMAIN top : R!InList(part_, top) /\ R!Within(path, part_)
    BY <2>3, FilterLeaves
  <2>5. /\ DOMAIN below \subseteq DOMAIN top
        /\ \A path \in DOMAIN below : R!InList(path, below) => R!InList(path, top)
    BY <2>4, FilterLeaves
  <2> HIDE DEF trees, top, below
  <2>6. {path \in DOMAIN trees["user"] : R!InList(path, trees["user"])}
            \subseteq {path \in DOMAIN trees["root"] : R!InList(path, trees["root"])}
    BY <2>2, <2>5
  <2>7. \A path \in DOMAIN trees.root :
            \E part_ \in {p \in DOMAIN trees["root"] : R!InList(p, trees["root"])} : R!Within(path, part_)
    BY <2>2, <2>4
  <2>8. QED
    BY <2>2, <2>5, <2>6, <2>7 DEF R!GroupsWithinRoot, trees
<1>3. QED
  BY <1>1, <1>2

(* A device that a plan is given has the name that the plan was submitted   *)
(* with, which is locked if it is registered and is no name with blanks.    *)
LEMMA NamedIsLocked ==
  ASSUME PermissionNames, item \in Plans, item.left => item.param.default = {item.value},
         NEW path \in Attributes, path = item.value.path, ~ item.value.blank,
         R!Root(path) \in Roots, <<R!Root(path)>> \in DOMAIN Existing
  PROVE  R!Root(path) \in R!LockedFor(item)
<1>1. item.value \in R!Strings(item)
  BY DEF R!Strings
<1>2. \A p \in DOMAIN Existing : R!InList(p, Existing)
  <2>1. ASSUME NEW p \in DOMAIN Existing PROVE R!InList(p, Existing)
    <3>1. Existing[p] \in [type : STRING, excluded : {FALSE}]
      BY DEF PermissionNames
    <3>2. Existing[p].excluded = FALSE
      BY <3>1
    <3>3. QED
      BY <3>2 DEF R!InList
  <2>2. QED
    BY <2>1
<1>3. path \in Path
  BY DEF PermissionNames
<1>4. Len(path) > 1 \/ path = <<R!Root(path)>>
  BY <1>3 DEF Path, R!Root
<1>5. R!Named(item.value)
  BY <1>2, <1>4 DEF R!Named
<1>6. R!Root(path) \in R!NamesOf(item)
  BY <1>1, <1>5 DEF R!NamesOf
<1>7. QED
  BY <1>6 DEF R!LockedFor

LEMMA GivenIsNamed ==
  ASSUME item.left => item.param.default = {item.value}, NEW tree,
         NEW path \in R!Given(item, tree)
  PROVE  path \in Attributes /\ path = item.value.path
<1>1. CASE item.left
  BY <1>1 DEF R!Given, R!DefaultDevices
<1>2. CASE ~ item.left
  BY <1>2 DEF R!Given, R!DevicesOf
<1>3. QED
  BY <1>1, <1>2

LEMMA PermInitInv == ASSUME PermissionNames, R!Init PROVE PermInv
<1> USE DEF R!Init, R!NoItem
<1>1. stored \in Permissions /\ lists = [perms |-> stored, of |-> stored] /\ allowed = lists
  OBVIOUS
<1>2. PermTypes
  <2>1. errors \in [failed : BOOLEAN, missed : BOOLEAN, raced : BOOLEAN, events : Nat]
    OBVIOUS
  <2>2. tasks \in Seq(Permissions \cup {none}) /\ Len(tasks) = 0
    OBVIOUS
  <2>3. QED
    BY <1>1, <2>1, <2>2 DEF PermTypes, Copies, Errors
<1>3. PlanLocked
  <2>1. item.at = "none"
    OBVIOUS
  <2>2. QED
    BY <2>1 DEF PlanLocked, R!GivenIsLocked
<1>4. CopiesTrue
  BY <1>1 DEF CopiesTrue
<1>5. QED
  BY <1>2, <1>3, <1>4 DEF PermInv

(* Steps of the permissions leave the plan alone, and the other way round.  *)
LEMMA PlanStays ==
  ASSUME PlanLocked, UNCHANGED R!permsOnly
  PROVE  PlanLocked'
<1>1. item' = item /\ locks' = locks /\ given' = given
  BY DEF R!permsOnly
<1>2. R!GivenIsLocked' = R!GivenIsLocked
  BY <1>1 DEF R!GivenIsLocked, R!Root
<1>3. (item.at = "locked" => locks = R!LockedFor(item))' = (item.at = "locked" => locks = R!LockedFor(item))
  BY <1>1
<1>4. QED
  BY <1>1, <1>2, <1>3 DEF PlanLocked

LEMMA CopiesStay ==
  ASSUME CopiesTrue, UNCHANGED R!planOnly
  PROVE  CopiesTrue'
BY DEF CopiesTrue, R!planOnly

(* The manager's part of the handlers.                                      *)
LEMMA ManagerKeeps ==
  ASSUME PermissionNames, PermInv,
         \/ \E perms \in Permissions : R!Sets(perms) \/ R!ReloadsFile(perms)
         \/ R!ReloadsStore \/ R!Saved \/ R!SaveFails \/ R!ManagerRestart
  PROVE  PermInv'
<1> USE DEF PermInv
<1>1. /\ UNCHANGED R!permsOnly
      /\ allowed' = allowed /\ tasks' = tasks
  BY DEF R!Sets, R!ReloadsFile, R!ReloadsStore, R!Saved, R!SaveFails, R!ManagerRestart
<1>2. errors \in Errors /\ errors.events + 1 \in Nat
  BY DEF PermTypes, Errors
<1>3. errors' \in Errors /\ errors'.raced = errors.raced
  BY <1>2 DEF R!Sets, R!ReloadsFile, R!ReloadsStore, R!Saved, R!SaveFails, R!ManagerRestart, Errors
<1>4. stored' \in Permissions /\ lists' \in Copies
  BY DEF R!Sets, R!ReloadsFile, R!ReloadsStore, R!Saved, R!SaveFails, R!ManagerRestart, PermTypes, Copies
<1>5. handler' \in {"idle", "set", "file", "tell"}
  BY DEF R!Sets, R!ReloadsFile, R!ReloadsStore, R!Saved, R!SaveFails, R!ManagerRestart, PermTypes
<1>6. PermTypes'
  BY <1>1, <1>3, <1>4, <1>5 DEF PermTypes, R!permsOnly, Errors
<1>7. handler' \in {"idle", "tell"} /\ ~ errors'.failed => lists' = [perms |-> stored', of |-> stored']
  BY <1>2 DEF R!Sets, R!ReloadsFile, R!ReloadsStore, R!Saved, R!SaveFails, R!ManagerRestart,
              PermTypes, Copies, CopiesTrue, Errors
<1>8. handler' # "tell" /\ ~ errors'.failed /\ ~ errors'.missed => allowed'.perms = stored'
  BY <1>1, <1>2 DEF R!Sets, R!ReloadsFile, R!ReloadsStore, R!Saved, R!SaveFails, R!ManagerRestart,
              PermTypes, CopiesTrue, Errors
<1>9. CopiesTrue'
  BY <1>1, <1>3, <1>7, <1>8 DEF CopiesTrue
<1>10. PlanLocked'
  BY <1>1, PlanStays
<1>11. QED
  BY <1>6, <1>9, <1>10

(* The worker is told or not, and a new worker starts with a copy.          *)
LEMMA ToldKeeps == ASSUME PermissionNames, PermInv, R!Told PROVE PermInv'
<1> USE DEF PermInv, R!Told
<1>1. /\ stored' = stored /\ lists' = lists /\ handler' = "idle" /\ UNCHANGED R!permsOnly
      /\ tasks' = Append(tasks, none) /\ Len(tasks) < 2
  BY DEF R!NotRead
<1>2. stored \in Permissions /\ lists \in Copies /\ allowed \in Copies /\ errors \in Errors
  BY DEF PermTypes, Errors
<1>3. allowed' \in Copies /\ allowed'.perms = lists.perms /\ allowed'.of = allowed.of
  BY <1>2 DEF Copies
<1>4. /\ errors' \in Errors /\ errors'.failed = errors.failed
      /\ ~ errors'.raced => tasks = << >>
  <2> DEFINE more == tasks # << >>
  <2>1. more \in BOOLEAN /\ errors' = [errors EXCEPT !.missed = FALSE, !.raced = more]
    OBVIOUS
  <2> HIDE DEF more
  <2>2. errors' \in Errors /\ errors'.failed = errors.failed /\ errors'.raced = more
    BY <1>2, <2>1 DEF Errors
  <2>3. QED
    BY <2>2 DEF more
<1>5. tasks' \in Seq(Permissions \cup {none}) /\ Len(tasks') <= 2
  BY <1>1 DEF PermTypes
<1>6. PermTypes'
  BY <1>1, <1>2, <1>3, <1>4, <1>5 DEF PermTypes, R!permsOnly, Errors
<1>7. ASSUME ~ errors'.raced
      PROVE  Len(tasks') <= 1 /\ tasks' # << >> /\ \A i \in DOMAIN tasks' : tasks'[i] = none
  <2>1. tasks' = <<none>>
    BY <1>1, <1>4, <1>7
  <2>2. QED
    BY <2>1
<1>8. CopiesTrue'
  BY <1>1, <1>2, <1>3, <1>4, <1>7 DEF CopiesTrue, Copies
<1>9. QED
  BY <1>1, <1>6, <1>8, PlanStays

LEMMA NotToldKeeps == ASSUME PermissionNames, PermInv, R!NotTold PROVE PermInv'
<1> USE DEF PermInv, R!NotTold
<1>1. /\ stored' = stored /\ lists' = lists /\ handler' = "idle" /\ UNCHANGED R!permsOnly
      /\ tasks' = tasks /\ allowed' = allowed
  OBVIOUS
<1>2. errors \in Errors /\ errors.events + 1 \in Nat
  BY DEF PermTypes, Errors
<1>3. errors' \in Errors /\ errors'.failed = errors.failed /\ errors'.raced = errors.raced /\ errors'.missed
  BY <1>2 DEF Errors
<1>4. PermTypes'
  BY <1>1, <1>3 DEF PermTypes, R!permsOnly, Errors
<1>5. CopiesTrue'
  BY <1>1, <1>3 DEF CopiesTrue
<1>6. QED
  BY <1>1, <1>4, <1>5, PlanStays

LEMMA OpensKeeps == ASSUME PermissionNames, PermInv, R!EnvironmentOpens PROVE PermInv'
<1> USE DEF PermInv, R!EnvironmentOpens
<1>1. /\ stored' = stored /\ lists' = lists /\ handler' = handler /\ UNCHANGED R!permsOnly
      /\ tasks' = << >> /\ allowed' = [perms |-> lists.perms, of |-> lists.perms]
  OBVIOUS
<1>2. errors \in Errors /\ errors.events + 1 \in Nat /\ lists \in Copies
      /\ handler \in {"idle", "set", "file", "tell"}
  BY DEF PermTypes, Errors
<1>3. allowed' \in Copies /\ allowed'.perms = lists.perms /\ allowed'.of = lists.perms
  BY <1>1, <1>2 DEF Copies
<1>4. /\ errors' \in Errors /\ errors'.failed = errors.failed
      /\ ~ errors'.missed => handler \notin {"set", "file"}
  <2> DEFINE writing == handler \in {"set", "file"}
  <2>1. /\ writing \in BOOLEAN
        /\ errors' = [errors EXCEPT !.missed = writing, !.raced = FALSE, !.events = @ + 1]
    OBVIOUS
  <2> HIDE DEF writing
  <2>2. errors' \in Errors /\ errors'.failed = errors.failed /\ errors'.missed = writing
    BY <1>2, <2>1 DEF Errors
  <2>3. QED
    BY <2>2 DEF writing
<1>5. PermTypes'
  BY <1>1, <1>3, <1>4 DEF PermTypes, R!permsOnly, Errors
<1>6. CopiesTrue'
  BY <1>1, <1>2, <1>3, <1>4 DEF CopiesTrue
<1>7. QED
  BY <1>1, <1>5, <1>6, PlanStays

LEMMA TaskReadsKeeps ==
  ASSUME PermissionNames, PermInv, NEW i \in DOMAIN tasks, R!TaskReads(i) PROVE PermInv'
<1> USE DEF PermInv, R!TaskReads
<1>1. /\ stored' = stored /\ lists' = lists /\ handler' = handler /\ UNCHANGED R!permsOnly
      /\ tasks' = [tasks EXCEPT ![i] = allowed.perms] /\ allowed' = allowed /\ errors' = errors
  OBVIOUS
<1>2. allowed.perms \in Permissions /\ tasks \in Seq(Permissions \cup {none}) /\ Len(tasks) <= 2
  BY DEF PermTypes, Copies
<1>3. tasks' \in Seq(Permissions \cup {none}) /\ Len(tasks') = Len(tasks)
      /\ \A j \in DOMAIN tasks' : j \in DOMAIN tasks /\ tasks'[j] \in {tasks[j], allowed.perms}
  BY <1>1, <1>2
<1>4. PermTypes'
  BY <1>1, <1>2, <1>3 DEF PermTypes, R!permsOnly
<1>5. tasks # << >> /\ tasks' # << >>
  BY <1>2, <1>3
<1>6. CopiesTrue'
  BY <1>1, <1>3, <1>5 DEF CopiesTrue
<1>7. QED
  BY <1>1, <1>4, <1>6, PlanStays

LEMMA OneTaskLeaves ==
  ASSUME NEW W, NEW s \in Seq(W), NEW i \in DOMAIN s
  PROVE  LET rest == [j \in 1 .. Len(s) - 1 |-> s[IF j < i THEN j ELSE j + 1]]
         IN  /\ rest \in Seq(W) /\ Len(rest) = Len(s) - 1
             /\ Len(s) <= 1 => rest = << >> /\ i = 1
<1> DEFINE rest == [j \in 1 .. Len(s) - 1 |-> s[IF j < i THEN j ELSE j + 1]]
<1>1. Len(s) \in Nat /\ i \in 1 .. Len(s)
  OBVIOUS
<1>2. Len(s) - 1 \in Nat
  BY <1>1
<1>3. ASSUME NEW j \in 1 .. Len(s) - 1 PROVE s[IF j < i THEN j ELSE j + 1] \in W
  <2>1. (IF j < i THEN j ELSE j + 1) \in 1 .. Len(s)
    BY <1>1
  <2>2. QED
    BY <2>1
<1>4. rest \in [1 .. Len(s) - 1 -> W]
  BY <1>3
<1>5. rest \in Seq(W) /\ Len(rest) = Len(s) - 1
  BY <1>2, <1>4
<1> HIDE DEF rest
<1>6. ASSUME Len(s) <= 1 PROVE rest = << >> /\ i = 1
  <2>1. Len(s) = 1 /\ i = 1
    <3>1. \A n \in Nat : n <= 1 => \A k \in 1 .. n : n = 1 /\ k = 1
      OBVIOUS
    <3>2. QED
      BY <1>1, <1>6, <3>1
  <2>2. Len(rest) = 0
    BY <1>5, <2>1
  <2>3. rest = << >>
    BY <1>5, <2>2
  <2>4. QED
    BY <2>1, <2>3
<1>7. QED
  BY <1>5, <1>6 DEF rest

LEMMA ListsComputedKeeps ==
  ASSUME PermissionNames, PermInv, NEW i \in DOMAIN tasks, R!TaskEnds(i) PROVE PermInv'
<1> USE DEF PermInv
<1>1. /\ stored' = stored /\ lists' = lists /\ handler' = handler /\ UNCHANGED R!permsOnly
      /\ allowed' = [allowed EXCEPT !.of = tasks[i]] /\ errors' = errors /\ tasks[i] # none
      /\ tasks' = [j \in 1 .. Len(tasks) - 1 |-> tasks[IF j < i THEN j ELSE j + 1]]
  BY DEF R!TaskEnds, R!NotRead
<1>2. allowed \in Copies /\ tasks \in Seq(Permissions \cup {none}) /\ Len(tasks) <= 2
  BY DEF PermTypes
<1>3. tasks[i] \in Permissions
  BY <1>1, <1>2
<1>4. allowed' \in Copies /\ allowed'.perms = allowed.perms /\ allowed'.of = tasks[i]
  BY <1>1, <1>2, <1>3 DEF Copies
<1>5. /\ tasks' \in Seq(Permissions \cup {none}) /\ Len(tasks') = Len(tasks) - 1
      /\ Len(tasks) <= 1 => tasks' = << >> /\ i = 1
  BY <1>1, <1>2, OneTaskLeaves
<1>6. Len(tasks') <= 2
  BY <1>2, <1>5
<1>7. PermTypes'
  BY <1>1, <1>2, <1>4, <1>5, <1>6 DEF PermTypes, R!permsOnly
<1>8. ASSUME ~ errors'.raced
      PROVE  tasks' = << >> /\ allowed'.of = allowed'.perms
  <2>1. Len(tasks) <= 1 /\ tasks[i] \in {none, allowed.perms}
    BY <1>1, <1>8 DEF CopiesTrue
  <2>2. QED
    BY <1>1, <1>4, <1>5, <2>1
<1>9. ~ errors'.raced => Len(tasks') <= 1 /\ \A j \in DOMAIN tasks' : tasks'[j] \in {none, allowed'.perms}
  BY <1>8
<1>10. CopiesTrue'
  BY <1>1, <1>4, <1>8, <1>9 DEF CopiesTrue
<1>11. QED
  BY <1>1, <1>7, <1>10, PlanStays

(* A plan from submission to its end.                                       *)
LEMMA PlanTyped ==
  ASSUME PermInv, item.at # "none"
  PROVE  item \in Plans
<1>1. R!NoItem.at = "none"
  BY DEF R!NoItem
<1>2. QED
  BY <1>1 DEF PermInv, PermTypes

LEMMA NoPlan ==
  ASSUME item = R!NoItem
  PROVE  PlanLocked /\ item.at = "none"
<1>1. item.at = "none"
  BY DEF R!NoItem
<1>2. QED
  BY <1>1 DEF PlanLocked, R!GivenIsLocked

LEMMA RightsPlanTypes ==
  ASSUME PermTypes, UNCHANGED R!planOnly, item' \in Plans \cup {R!NoItem},
         locks' \subseteq Roots, given' \subseteq Attributes
  PROVE  PermTypes'
BY DEF PermTypes, R!planOnly, R!NoItem

LEMMA SubmitsKeeps ==
  ASSUME PermissionNames, PermInv, NEW of \in {"root", "user"}, NEW param \in Parameters,
         NEW value \in Values, NEW default \in BOOLEAN, R!Submits(of, param, value, default)
  PROVE  PermInv'
<1> USE DEF PermInv
<1>1. /\ UNCHANGED R!planOnly /\ locks' = locks /\ given' = given
      /\ default => param.default = {value}
      /\ item' = [at |-> "queued", group |-> of, param |-> param, value |-> value, left |-> default]
  BY DEF R!Submits
<1>2. item' \in Plans /\ item'.at = "queued" /\ item'.left = default /\ item'.param = param /\ item'.value = value
  BY <1>1 DEF Plans
<1>3. PermTypes'
  <2>1. PermTypes
    OBVIOUS
  <2>2. locks \subseteq Roots /\ given \subseteq Attributes
    BY DEF PermTypes
  <2>3. QED
    BY <1>1, <1>2, <2>1, <2>2, RightsPlanTypes
<1>4. PlanLocked'
  BY <1>1, <1>2 DEF PlanLocked, R!GivenIsLocked
<1>5. QED
  BY <1>1, <1>3, <1>4, CopiesStay

LEMMA LocksKeeps == ASSUME PermissionNames, PermInv, R!Locks PROVE PermInv'
<1> USE DEF PermInv
<1>1. /\ UNCHANGED R!planOnly /\ given' = given /\ item.at = "queued"
      /\ locks' = R!LockedFor(item) /\ item' = [item EXCEPT !.at = "locked"]
  BY DEF R!Locks
<1>2. item \in Plans
  BY <1>1, PlanTyped
<1>3. /\ item' \in Plans /\ item'.at = "locked" /\ item'.left = item.left
      /\ item'.param = item.param /\ item'.value = item.value
  BY <1>1, <1>2 DEF Plans
<1>4. R!LockedFor(item') = R!LockedFor(item)
  BY <1>3 DEF R!LockedFor, R!NamesOf, R!Strings
<1>5. locks' \subseteq Roots
  BY <1>1 DEF R!LockedFor
<1>6. PermTypes'
  <2>1. PermTypes /\ given \subseteq Attributes
    BY DEF PermTypes
  <2>2. QED
    BY <1>1, <1>3, <1>5, <2>1, RightsPlanTypes
<1>7. PlanLocked'
  BY <1>1, <1>3, <1>4 DEF PlanLocked, R!GivenIsLocked
<1>8. QED
  BY <1>1, <1>6, <1>7, CopiesStay

LEMMA PreparesPlanKeeps == ASSUME PermissionNames, PermInv, R!Prepares PROVE PermInv'
<1> USE DEF PermInv
<1>1. UNCHANGED R!planOnly /\ item.at = "locked"
  BY DEF R!Prepares
<1>2. item \in Plans /\ PermTypes /\ locks \subseteq Roots /\ given \subseteq Attributes
  BY <1>1, PlanTyped DEF PermTypes
<1>3. CASE item' = R!NoItem /\ locks' = {} /\ given' = given
  <2>1. PermTypes'
    BY <1>1, <1>2, <1>3, RightsPlanTypes
  <2>2. PlanLocked'
    BY <1>3 DEF PlanLocked, R!GivenIsLocked, R!NoItem
  <2>3. QED
    BY <1>1, <2>1, <2>2, CopiesStay
<1>4. CASE /\ \E tree : given' = R!Given(item, tree)
           /\ item' = [item EXCEPT !.at = "running"] /\ locks' = locks
  <2>1. PICK tree : given' = R!Given(item, tree)
    BY <1>4
  <2>2. /\ item' \in Plans /\ item'.at = "running" /\ item'.left = item.left
        /\ item'.param = item.param /\ item'.value = item.value
    BY <1>2, <1>4 DEF Plans
  <2>3. item.left => item.param.default = {item.value}
    BY <1>1 DEF PlanLocked
  <2>4. \A path \in given' : path \in Attributes /\ path = item.value.path
    BY <2>1, <2>3, GivenIsNamed
  <2>5. PermTypes'
    <3>1. given' \subseteq Attributes
      BY <2>4
    <3>2. QED
      BY <1>1, <1>2, <1>4, <2>2, <3>1, RightsPlanTypes
  <2>6. locks' = R!LockedFor(item)
    BY <1>1, <1>4 DEF PlanLocked
  <2>7. R!GivenIsLocked'
    <3>1. ASSUME NEW path \in given', ~ item.value.blank, R!Root(path) \in Roots,
                 <<R!Root(path)>> \in DOMAIN Existing
          PROVE  R!Root(path) \in locks'
      BY <1>2, <2>3, <2>4, <2>6, <3>1, NamedIsLocked
    <3>2. QED
      BY <2>2, <3>1 DEF R!GivenIsLocked, R!Root
  <2>8. PlanLocked'
    BY <2>2, <2>3, <2>7 DEF PlanLocked
  <2>9. QED
    BY <1>1, <2>5, <2>8, CopiesStay
<1>5. QED
  BY <1>3, <1>4 DEF R!Prepares

LEMMA PlanEndsKeeps == ASSUME PermissionNames, PermInv, R!PlanEnds PROVE PermInv'
<1> USE DEF PermInv
<1>1. UNCHANGED R!planOnly /\ item' = R!NoItem /\ locks' = {} /\ given' = {}
  BY DEF R!PlanEnds
<1>2. PermTypes'
  BY <1>1, RightsPlanTypes
<1>3. PlanLocked'
  BY <1>1 DEF PlanLocked, R!GivenIsLocked, R!NoItem
<1>4. QED
  BY <1>1, <1>2, <1>3, CopiesStay

LEMMA PermNextKeeps == ASSUME PermissionNames, PermInv, [R!Next]_R!vars PROVE PermInv'
<1>1. CASE \/ \E perms \in Permissions : R!Sets(perms) \/ R!ReloadsFile(perms)
           \/ R!ReloadsStore \/ R!Saved \/ R!SaveFails \/ R!ManagerRestart
  BY <1>1, ManagerKeeps
<1>2. CASE R!Told \/ R!NotTold \/ R!EnvironmentOpens
  BY <1>2, ToldKeeps, NotToldKeeps, OpensKeeps
<1>3. ASSUME NEW i \in DOMAIN tasks, R!TaskReads(i) \/ R!TaskEnds(i) PROVE PermInv'
  BY <1>3, TaskReadsKeeps, ListsComputedKeeps
<1>4. ASSUME NEW of \in {"root", "user"}, NEW param \in Parameters, NEW value \in Values,
             NEW default \in BOOLEAN, R!Submits(of, param, value, default)
      PROVE  PermInv'
  BY <1>4, SubmitsKeeps
<1>5. CASE R!Locks \/ R!Prepares \/ R!PlanEnds
  BY <1>5, LocksKeeps, PreparesPlanKeeps, PlanEndsKeeps
<1>6. CASE UNCHANGED R!vars
  <2>1. UNCHANGED R!planOnly /\ UNCHANGED R!permsOnly
    BY <1>6 DEF R!vars, R!planOnly, R!permsOnly
  <2>2. PlanLocked' /\ CopiesTrue'
    BY <2>1, PlanStays, CopiesStay DEF PermInv
  <2>3. PermTypes'
    BY <2>1 DEF PermInv, PermTypes, R!planOnly, R!permsOnly, R!NoItem
  <2>4. QED
    BY <2>2, <2>3 DEF PermInv
<1>7. QED
  BY <1>1, <1>2, <1>3, <1>4, <1>5, <1>6 DEF R!Next

LEMMA PermInvTrue == ASSUME PermissionNames, PermInv PROVE R!PermissionsTrue
<1> USE DEF PermInv
<1>1. R!TypeOK
  <2>1. {stored, lists.perms, lists.of, allowed.perms, allowed.of} \subseteq Permissions
    BY DEF PermTypes, Copies
  <2>2. QED
    BY <2>1 DEF PermTypes, R!TypeOK
<1>2. R!GivenIsLocked
  BY DEF PlanLocked
<1>3. R!PermissionsInForce
  <2>1. handler = "idle" /\ ~ errors.failed => lists.of = lists.perms /\ lists.perms = stored
    BY DEF CopiesTrue
  <2>2. handler = "idle" /\ tasks = << >> /\ ~ errors.failed /\ ~ errors.missed /\ ~ errors.raced =>
            allowed.of = stored
    BY DEF CopiesTrue
  <2>3. QED
    BY <2>1, <2>2 DEF R!PermissionsInForce
<1>4. QED
  BY <1>1, <1>2, <1>3, GroupsAreWithinRoot DEF R!PermissionsTrue

(* No group is allowed what is withheld from root; a running plan has been   *)
(* given no registered device that is not locked for it; and manager and     *)
(* worker go by the permissions that are stored, unless a write failed, the  *)
(* worker was not told, or two of its tasks raced (profile_ops.py,           *)
(* permissions_set and permissions_reload of the manager, and the worker).   *)
THEOREM PermissionsHold == ASSUME PermissionNames PROVE ServicesSpec => []PermissionsTrue
<1> DEFINE Mine == part = "rights" => PermInv
<1>1. ServicesInit => Mine
  BY PermInitInv DEF ServicesInit
<1>2. Mine /\ [ServicesNext]_<<part, lock, work, client, rights, writes, motions, watching, registryVars>>
        => Mine'
  <2> SUFFICES ASSUME Mine, [ServicesNext]_<<part, lock, work, client, rights, writes, motions,
                                             watching, registryVars>>
               PROVE  Mine'
    OBVIOUS
  <2>1. part' = part
    BY DEF ServicesNext, RegistryNext
  <2>2. part = "rights" => [R!Next]_R!vars
    BY DEF ServicesNext, RegistryNext, RegistryParts, rights, R!vars
  <2>3. QED
    BY <2>1, <2>2, PermNextKeeps
<1>3. Mine => PermissionsTrue
  BY PermInvTrue DEF PermissionsTrue
<1> HIDE DEF Mine
<1>4. QED
  BY <1>1, <1>2, <1>3, PTL DEF ServicesSpec

=============================================================================
