--------------------------- MODULE ReManagerProofs ---------------------------
(***************************************************************************)
(* Proofs about ReManager, for any plans, worker processes, coroutines and *)
(* budgets.  Its type correctness needs that every answer reaches the      *)
(* coroutine that asked for it: a reply means something else to each of    *)
(* them.  That there is never more than one worker, that the records are    *)
(* true, that a stop or a pause is honoured and that plans run with their   *)
(* devices locked is proved for budgets without failures, with any number  *)
(* of requests and restarts of the manager.                                *)
(***************************************************************************)
EXTENDS ReManager, FiniteSetTheorems, SequenceTheorems, TLAPS

-----------------------------------------------------------------------------
(* The worker: every handler and every step of the main thread leaves a     *)
(* worker.                                                                 *)

LEMMA WorkersTyped ==
    NoWorker \in Worker /\ Fresh \in Worker /\ Gone \in Worker /\ Opened \in Worker
BY ManagerAssumption DEF NoWorker, Fresh, Gone, Opened, Worker

(* The flags that a handler or a step sets, by their values. *)
LEMMA WorkerChanged ==
    ASSUME NEW w \in Worker, NEW b \in BOOLEAN, NEW c \in BOOLEAN
    PROVE  /\ [w EXCEPT !.told = b] \in Worker
           /\ [w EXCEPT !.item = NoPlan, !.exec = "reset", !.report = "none", !.told = b] \in Worker
           /\ [w EXCEPT !.pause = b] \in Worker
           /\ [w EXCEPT !.exit = b, !.asked = c] \in Worker
           /\ [w EXCEPT !.sure = b] \in Worker
           /\ [w EXCEPT !.env = "failed", !.exit = b] \in Worker
           /\ \A e \in {"idle", "paused"} : [w EXCEPT !.re = e, !.pause = b] \in Worker
           /\ [w EXCEPT !.todo = "none", !.report = "failed", !.told = b, !.exec = "completed",
                        !.env = "idle"] \in Worker
           /\ \A o \in Outcome, x \in {"reset", "active", "completed"} :
                 [w EXCEPT !.report = o, !.told = b, !.doing = "none", !.env = "idle", !.exec = x] \in Worker
<1>1. [w EXCEPT !.told = b] \in Worker
  BY DEF Worker
<1>2. [w EXCEPT !.item = NoPlan, !.exec = "reset", !.report = "none", !.told = b] \in Worker
  BY DEF Worker
<1>3. [w EXCEPT !.pause = b] \in Worker /\ [w EXCEPT !.sure = b] \in Worker
  BY DEF Worker
<1>4. [w EXCEPT !.exit = b, !.asked = c] \in Worker
  BY DEF Worker
<1>5. [w EXCEPT !.env = "failed", !.exit = b] \in Worker
  BY DEF Worker
<1>6. \A e \in {"idle", "paused"} : [w EXCEPT !.re = e, !.pause = b] \in Worker
  BY DEF Worker
<1>7. [w EXCEPT !.todo = "none", !.report = "failed", !.told = b, !.exec = "completed",
               !.env = "idle"] \in Worker
  <2>1. \A o \in Outcome :
           [w EXCEPT !.todo = "none", !.report = o, !.told = b, !.exec = "completed",
                     !.env = "idle"] \in Worker
    BY DEF Worker
  <2>2. "failed" \in Outcome
    BY DEF Outcome
  <2>3. QED
    BY <2>1, <2>2
<1>8. \A o \in Outcome, x \in {"reset", "active", "completed"} :
         [w EXCEPT !.report = o, !.told = b, !.doing = "none", !.env = "idle", !.exec = x] \in Worker
  BY DEF Worker
<1>9. QED
  BY <1>1, <1>2, <1>3, <1>4, <1>5, <1>6, <1>7, <1>8

LEMMA HandlersTyped ==
    ASSUME NEW w \in Worker
    PROVE  /\ FetchReport(w) \in Worker /\ Reset(w) \in Worker /\ Pause(w) \in Worker
           /\ CloseEnv(w) \in Worker /\ ConfirmExit(w) \in Worker
           /\ \A p \in Plan : RunPlan(w, p) \in Worker
           /\ \A o \in Options : Continue(w, o) \in Worker
<1> DEFINE yes == TRUE
           no  == FALSE
<1>0. yes \in BOOLEAN /\ no \in BOOLEAN
  OBVIOUS
<1>1. FetchReport(w) \in Worker
  <2>1. FetchReport(w) = [w EXCEPT !.told = yes]
    BY DEF FetchReport
  <2>2. QED
    BY <2>1, <1>0, WorkerChanged
<1>2. Reset(w) \in Worker
  <2>1. Reset(w) = IF ResetRefused(w) THEN w
                   ELSE [w EXCEPT !.item = NoPlan, !.exec = "reset", !.report = "none", !.told = no]
    BY DEF Reset
  <2>2. QED
    BY <2>1, <1>0, WorkerChanged
<1>3. Pause(w) \in Worker
  <2>1. Pause(w) = IF PauseRefused(w) THEN w ELSE [w EXCEPT !.pause = yes]
    BY DEF Pause
  <2>2. QED
    BY <2>1, <1>0, WorkerChanged
<1>4. CloseEnv(w) \in Worker
  <2>1. CloseEnv(w) = IF CloseRefused(w) THEN w ELSE [w EXCEPT !.exit = yes, !.asked = yes]
    BY DEF CloseEnv
  <2>2. QED
    BY <2>1, <1>0, WorkerChanged
<1>5. ConfirmExit(w) \in Worker
  <2>1. ConfirmExit(w) = IF ConfirmRefused(w) THEN w ELSE [w EXCEPT !.sure = yes]
    BY DEF ConfirmExit
  <2>2. QED
    BY <2>1, <1>0, WorkerChanged
<1>6. \A p \in Plan : RunPlan(w, p) \in Worker
  BY DEF RunPlan, Worker
<1>7. \A o \in Options : Continue(w, o) \in Worker
  BY DEF Continue, Worker, Options
<1>8. QED
  BY <1>1, <1>2, <1>3, <1>4, <1>5, <1>6, <1>7

LEMMA MainThreadTyped ==
    ASSUME NEW w \in Worker
    PROVE  MainThread(w) \subseteq Worker /\ Listens(w) \subseteq Worker
<1> DEFINE yes == TRUE
           no  == FALSE
<1>0. yes \in BOOLEAN /\ no \in BOOLEAN
  OBVIOUS
<1>1. Started(w) \subseteq Worker
  <2>1. [w EXCEPT !.env = "failed", !.exit = yes] \in Worker
    BY <1>0, WorkerChanged
  <2>2. [w EXCEPT !.env = "idle"] \in Worker
    BY DEF Worker
  <2>3. QED
    BY <2>1, <2>2 DEF Started, When
<1>2. TakesPlan(w) \subseteq Worker
  <2>1. [w EXCEPT !.todo = "none", !.doing = w.todo, !.re = "running"] \in Worker
    <3>1. w.todo \in {"none", "new", "resume", "stop", "abort"}
      BY DEF Worker
    <3>2. \A o \in {"none", "new", "resume", "stop", "abort"} :
             [w EXCEPT !.todo = "none", !.doing = o, !.re = "running"] \in Worker
      BY DEF Worker
    <3>3. QED
      BY <3>1, <3>2
  <2>2. [w EXCEPT !.todo = "none", !.report = "failed", !.told = no, !.exec = "completed",
                  !.env = "idle"] \in Worker
    BY <1>0, WorkerChanged
  <2>3. QED
    BY <2>1, <2>2 DEF TakesPlan, When
<1>3. EngineReturns(w) \subseteq Worker
  <2>1. \A e \in {"idle", "paused"} : [w EXCEPT !.re = e, !.pause = no] \in Worker
    BY <1>0, WorkerChanged
  <2>2. QED
    BY <2>1 DEF EngineReturns, When
<1>4. WritesReport(w) \subseteq Worker
  <2>1. SUFFICES ASSUME w.doing # "none", NEW o \in Outcomes(w)
                 PROVE  [w EXCEPT !.report = o, !.told = no, !.doing = "none", !.env = "idle",
                            !.exec = IF o = "paused" THEN @ ELSE "completed"] \in Worker
    BY DEF WritesReport, When
  <2>2. o \in Outcome
    BY <2>1 DEF Outcomes, OutcomeOf, Outcome, Worker
  <2>3. PICK x : x = IF o = "paused" THEN w.exec ELSE "completed"
    OBVIOUS
  <2>4. x \in {"reset", "active", "completed"}
    BY <2>3 DEF Worker
  <2>5. [w EXCEPT !.report = o, !.told = no, !.doing = "none", !.env = "idle", !.exec = x] \in Worker
    BY <2>2, <2>4, <1>0, WorkerChanged
  <2>6. QED
    BY <2>3, <2>5
<1>5. ShutsDown(w) \subseteq Worker
  BY WorkersTyped DEF ShutsDown, When, Worker
<1>6. Listens(w) \subseteq Worker
  BY DEF Listens, When, Worker
<1>7. QED
  BY <1>1, <1>2, <1>3, <1>4, <1>5, <1>6 DEF MainThread

-----------------------------------------------------------------------------
(* Coroutines. *)

Kinds == DOMAIN Places

TaskSet(ts) == ts \subseteq Task /\ \A t, u \in ts : t.id = u.id => t = u

LEMMA TaskForm ==
    \A t : t \in Task <=> \E i \in 1..MaxTasks, k \in Kinds : \E p \in Places[k], q \in Plan \cup {NoPlan} :
                              t = [id |-> i, kind |-> k, at |-> p, plan |-> q]
BY DEF Task, Kinds

LEMMA KindsAre == Kinds = {"boot", "open", "close", "kill", "unexp", "plan", "report", "set", "client"}
BY DEF Kinds, Places

LEMMA TaskMade ==
    ASSUME NEW i \in 1..MaxTasks, NEW k \in Kinds, NEW p \in Places[k], NEW q \in Plan \cup {NoPlan}
    PROVE  [id |-> i, kind |-> k, at |-> p, plan |-> q] \in Task
BY TaskForm

LEMMA TaskOpened ==
    ASSUME NEW t \in Task
    PROVE  /\ t.id \in 1..MaxTasks /\ t.kind \in Kinds /\ t.at \in Places[t.kind]
           /\ t.plan \in Plan \cup {NoPlan}
           /\ t = [id |-> t.id, kind |-> t.kind, at |-> t.at, plan |-> t.plan]
BY TaskForm

OfKind(k) == [id : 1..MaxTasks, kind : {k}, at : Places[k], plan : Plan \cup {NoPlan}]

LEMMA TaskOfKind ==
    /\ \A k \in Kinds : OfKind(k) \subseteq Task
    /\ \A t \in Task : t.kind \in Kinds /\ t \in OfKind(t.kind)
BY TaskForm DEF OfKind, Kinds, Task

LEMMA TaskMoved ==
    ASSUME NEW t \in Task, NEW k \in Kinds, NEW p \in Places[k]
    PROVE  LET moved == [t EXCEPT !.kind = k, !.at = p]
           IN  moved \in Task /\ moved.id = t.id /\ moved.kind = k /\ moved.at = p
<1> DEFINE moved == [t EXCEPT !.kind = k, !.at = p]
<1>1. moved \in OfKind(k) /\ moved.id = t.id /\ moved.kind = k /\ moved.at = p
  BY TaskOfKind DEF OfKind
<1>2. QED
  BY <1>1, TaskOfKind

LEMMA TaskGoes ==
    ASSUME NEW t \in Task, NEW p \in Places[t.kind]
    PROVE  LET goes == [t EXCEPT !.at = p]
           IN  goes \in Task /\ goes.id = t.id /\ goes.kind = t.kind /\ goes.at = p
<1> DEFINE goes == [t EXCEPT !.at = p]
<1>1. goes \in OfKind(t.kind) /\ goes.id = t.id /\ goes.kind = t.kind /\ goes.at = p
  BY TaskOfKind DEF OfKind
<1>2. QED
  BY <1>1, TaskOfKind

LEMMA TaskTakes ==
    ASSUME NEW t \in Task, NEW p \in Places[t.kind], NEW q \in Plan \cup {NoPlan}
    PROVE  LET goes == [t EXCEPT !.at = p, !.plan = q]
           IN  goes \in Task /\ goes.id = t.id /\ goes.kind = t.kind /\ goes.at = p
<1> DEFINE goes == [t EXCEPT !.at = p, !.plan = q]
<1>1. goes \in OfKind(t.kind) /\ goes.id = t.id /\ goes.kind = t.kind /\ goes.at = p
  BY TaskOfKind DEF OfKind
<1>2. QED
  BY <1>1, TaskOfKind

LEMMA NewIdTyped ==
    ASSUME NEW ts, Free(ts) # {}
    PROVE  /\ NewId(ts) \in 1..MaxTasks
           /\ \A t \in ts : t.id # NewId(ts)
<1>1. NewId(ts) \in Free(ts)
  BY DEF NewId
<1>2. QED
  BY <1>1 DEF Free

LEMMA SpawnTyped ==
    ASSUME NEW ts, TaskSet(ts), Free(ts) # {}, NEW k \in Kinds, NEW p \in Places[k]
    PROVE  /\ TaskSet(Spawn(ts, k, p))
           /\ \A t \in ts : t.id # NewId(ts)
           /\ [id |-> NewId(ts), kind |-> k, at |-> p, plan |-> NoPlan] \in Spawn(ts, k, p)
           /\ \A t \in ts : t \in Spawn(ts, k, p)
<1> DEFINE new == [id |-> NewId(ts), kind |-> k, at |-> p, plan |-> NoPlan]
<1>1. new \in Task
  BY NewIdTyped, TaskMade
<1>2. new.id = NewId(ts)
  OBVIOUS
<1>3. Spawn(ts, k, p) = ts \cup {new}
  BY DEF Spawn
<1> HIDE DEF new
<1>4. QED
  BY <1>1, <1>2, <1>3, NewIdTyped DEF TaskSet, new

(* A coroutine that ends leaves its id to a new one. *)
LEMMA FinishTyped ==
    ASSUME NEW ts, TaskSet(ts), NEW t \in ts
    PROVE  /\ TaskSet(ts \ {t})
           /\ Free(ts \ {t}) # {}
           /\ \A u \in ts \ {t} : u.id # t.id
<1>1. t.id \in Free(ts \ {t})
  BY TaskOpened DEF TaskSet, Free
<1>2. QED
  BY <1>1 DEF TaskSet

LEMMA ReplaceTyped ==
    ASSUME NEW ts, TaskSet(ts), NEW t \in ts, NEW u \in Task, u.id = t.id
    PROVE  TaskSet((ts \ {t}) \cup {u})
BY DEF TaskSet

-----------------------------------------------------------------------------
(* Calls.  A coroutine that waits for a reply waits for one to a known      *)
(* method; every call in line is one that the poll or a coroutine waits     *)
(* for; the last request in the pipe alone may be one that somebody waits   *)
(* for, the others have been given up; and the answer is one to the method  *)
(* of the call at the head of the line.                                    *)
Waits(t, method) ==
    \/ t.kind = "boot" /\ t.at = "state" /\ method = "state"
    \/ t.kind \in {"open", "close", "unexp"} /\ t.at = "confirm" /\ method = "confirm"
    \/ t.kind = "close" /\ t.at = "close" /\ method = "close"
    \/ t.kind = "client" /\ method = t.at
    \/ t.kind = "plan" /\ t.at \in {"reset", "run"} /\ method = t.at
    \/ t.kind = "report" /\ t.at \in {"fetch", "again"} /\ method = "report"

ArgGiven(r) == (r.method = "run" => r.arg \in Plan) /\ (r.method = "continue" => r.arg \in Options)

Expected(r, ts, p) ==
    \/ r.from = 0 /\ r.method = "state" /\ p = "asks"
    \/ \E t \in ts : t.id = r.from /\ Waits(t, r.method)

StateReplies ==
    [item : Plan \cup {NoPlan}, re : {"idle", "running", "paused"},
     env : {"initializing", "idle", "executing_plan", "failed", "closing"},
     available : BOOLEAN, pausing : BOOLEAN, unexpected : BOOLEAN]

AnswersTo(method) ==
    IF method = "state" THEN StateReplies
    ELSE IF method = "report" THEN Outcome \cup {"none"} ELSE BOOLEAN

Lined(c, ts, p) ==
    /\ c.line \in Seq(Request)
    /\ \A i \in 1..Len(c.line) : ArgGiven(c.line[i]) /\ Expected(c.line[i], ts, p)
    /\ \A i, j \in 1..Len(c.line) : c.line[i].from = c.line[j].from => i = j

Piped(c) ==
    /\ c.pipe \in Seq(Request)
    /\ \A i \in 1..Len(c.pipe) :
          /\ ArgGiven(c.pipe[i])
          /\ c.pipe[i].from # Nobody => i = Len(c.pipe) /\ c.line # <<>> /\ c.pipe[i] = Head(c.line)

AnswerFits(c) ==
    \/ c.answer = <<>>
    \/ c.line # <<>> /\ \E x \in AnswersTo(Head(c.line).method) : c.answer = <<x>>

CommForm(c) == c = [line |-> c.line, pipe |-> c.pipe, answer |-> c.answer]

Calls(c, ts, p) == CommForm(c) /\ Lined(c, ts, p) /\ Piped(c) /\ AnswerFits(c)

LEMMA SeqHead ==
    ASSUME NEW S, NEW s \in Seq(S), s # <<>>
    PROVE  /\ Head(s) = s[1] /\ 1 \in 1..Len(s) /\ Head(s) \in S
           /\ Tail(s) \in Seq(S) /\ Len(Tail(s)) = Len(s) - 1 /\ Len(s) \in Nat \ {0}
           /\ \A i \in 1..Len(Tail(s)) : Tail(s)[i] = s[i + 1] /\ i + 1 \in 1..Len(s) /\ i + 1 # 1
OBVIOUS

LEMMA SeqAppended ==
    ASSUME NEW S, NEW s \in Seq(S), NEW e \in S
    PROVE  /\ Append(s, e) \in Seq(S) /\ Append(s, e) # <<>>
           /\ Len(s) \in Nat /\ Len(Append(s, e)) = Len(s) + 1
           /\ \A i \in 1..Len(Append(s, e)) : Append(s, e)[i] = IF i = Len(s) + 1 THEN e ELSE s[i]
           /\ \A i \in 1..Len(Append(s, e)) : i # Len(s) + 1 => i \in 1..Len(s)
           /\ Head(Append(s, e)) = IF s = <<>> THEN e ELSE Head(s)
           /\ s = <<>> => Append(s, e) = <<e>>
<1>1. Append(s, e) \in Seq(S) /\ Append(s, e) # <<>> /\ Len(s) \in Nat /\ Len(Append(s, e)) = Len(s) + 1
  OBVIOUS
<1>2. \A i \in 1..Len(Append(s, e)) : Append(s, e)[i] = IF i = Len(s) + 1 THEN e ELSE s[i]
  OBVIOUS
<1>3. \A i \in 1..Len(Append(s, e)) : i # Len(s) + 1 => i \in 1..Len(s)
  BY <1>1
<1>4. Head(Append(s, e)) = IF s = <<>> THEN e ELSE Head(s)
  BY HeadTailAppend
<1>5. s = <<>> => Append(s, e) = <<e>>
  OBVIOUS
<1>6. QED
  BY <1>1, <1>2, <1>3, <1>4, <1>5

(* What stands in line is left alone by coroutines that come, and by those  *)
(* that go and wait for nothing.                                           *)
LEMMA CallsKept ==
    ASSUME NEW c, NEW ts, NEW p, Calls(c, ts, p), NEW us, NEW q,
           \A t \in ts, method \in Methods : Waits(t, method) => t \in us,
           p = q \/ \A i \in 1..Len(c.line) : c.line[i].from # 0
    PROVE  Calls(c, us, q)
<1>1. ASSUME NEW i \in 1..Len(c.line)
      PROVE  Expected(c.line[i], us, q)
  <2>1. c.line[i].method \in Methods
    <3>1. c.line[i] \in Request
      BY ElementOfSeq DEF Calls, Lined
    <3>2. QED
      BY <3>1 DEF Request
  <2>2. Expected(c.line[i], ts, p)
    BY DEF Calls, Lined
  <2>3. QED
    BY <2>1, <2>2 DEF Expected
<1>2. QED
  BY <1>1 DEF Calls, Lined

(* A coroutine, or the poll, joins the line. *)
LEMMA CallsJoined ==
    ASSUME NEW c, NEW ts, NEW p, Calls(c, ts, p),
           NEW id \in 0..(MaxTasks + 1), NEW method \in Methods, NEW arg \in Plan \cup {NoPlan} \cup Options,
           id # Nobody,
           \A i \in 1..Len(c.line) : c.line[i].from # id,
           method = "run" => arg \in Plan, method = "continue" => arg \in Options,
           \/ id = 0 /\ method = "state" /\ p = "asks"
           \/ \E t \in ts : t.id = id /\ Waits(t, method)
    PROVE  Calls(Call(c, id, method, arg), ts, p)
<1> DEFINE r == [from |-> id, method |-> method, arg |-> arg]
           n == Call(c, id, method, arg)
           line == Append(c.line, r)
           pipe == IF c.line = <<>> THEN Append(c.pipe, r) ELSE c.pipe
<1>1. r \in Request /\ ArgGiven(r) /\ Expected(r, ts, p) /\ r.from = id
  BY DEF Request, ArgGiven, Expected
<1>2. n = [line |-> line, pipe |-> pipe, answer |-> c.answer]
  BY DEF Call, Calls, CommForm
<1>3. n.line = line /\ n.pipe = pipe /\ n.answer = c.answer
  BY <1>2
<1> HIDE DEF r, n
<1>4. CommForm(n)
  BY <1>2, <1>3 DEF CommForm
<1>5. c.line \in Seq(Request) /\ c.pipe \in Seq(Request)
  BY DEF Calls, Lined, Piped
<1>6. Lined(n, ts, p)
  BY <1>1, <1>3, <1>5, SeqAppended DEF Calls, Lined
<1>7. Piped(n)
  <2>1. CASE c.line = <<>>
    <3>1. n.line = <<r>> /\ n.pipe = Append(c.pipe, r) /\ Head(n.line) = r /\ n.line # <<>>
      BY <2>1, <1>1, <1>3
    <3>2. \A i \in 1..Len(c.pipe) : ArgGiven(c.pipe[i]) /\ c.pipe[i].from = Nobody
      BY <2>1 DEF Calls, Piped
    <3>3. QED
      BY <3>1, <3>2, <1>1, <1>5, SeqAppended DEF Piped
  <2>2. CASE c.line # <<>>
    BY <2>2, <1>1, <1>3, <1>5, SeqAppended DEF Calls, Piped
  <2>3. QED
    BY <2>1, <2>2
<1>8. AnswerFits(n)
  <2>1. c.line # <<>> => Head(line) = Head(c.line) /\ line # <<>>
    BY <1>1, <1>5, SeqAppended
  <2>2. QED
    BY <2>1, <1>3 DEF Calls, AnswerFits
<1>9. QED
  BY <1>4, <1>6, <1>7, <1>8 DEF Calls, n

(* The call at the head is over: nothing of its caller is left in line, and *)
(* whoever made it need not stay.                                          *)
LEMMA CallsLeft ==
    ASSUME NEW c, NEW ts, NEW p, Calls(c, ts, p), c.line # <<>>,
           MaxTasks \in Nat, \A t \in ts : t.id \in 1..MaxTasks,
           NEW us, NEW q,
           \A t \in ts : t.id # Head(c.line).from => t \in us,
           p = q \/ Head(c.line).from = 0
    PROVE  /\ Calls(HangUp(c), us, q)
           /\ \A i \in 1..Len(HangUp(c).line) : HangUp(c).line[i].from # Head(c.line).from
<1> DEFINE caller == Head(c.line).from
           last   == Len(c.pipe)
           unread == last # 0 /\ c.pipe[last].from = caller
           stays  == Head(c.line).method # "state" /\ Read
           left   == IF ~ unread THEN c.pipe
                     ELSE IF stays THEN [c.pipe EXCEPT ![last].from = Nobody] ELSE SubSeq(c.pipe, 1, last - 1)
           rest   == Tail(c.line)
           pipe   == IF rest = <<>> THEN left ELSE Append(left, Head(rest))
           n      == HangUp(c)
<1>1. c.line \in Seq(Request) /\ c.pipe \in Seq(Request) /\ last \in Nat
  BY DEF Calls, Lined, Piped
<1>2. n.line = rest /\ n.answer = <<>> /\ n.pipe = pipe /\ CommForm(n)
  BY DEF HangUp, CommForm
<1> HIDE DEF n
<1>3. \A i \in 1..Len(rest) : rest[i].from # caller
  BY <1>1, SeqHead DEF Calls, Lined
<1>4. rest \in Seq(Request)
  BY <1>1, SeqHead
<1>5. Lined(n, us, q)
  <2>1. \A i \in 1..Len(rest) : ArgGiven(rest[i]) /\ Expected(rest[i], ts, p)
    BY <1>1, SeqHead DEF Calls, Lined
  <2>2. \A i \in 1..Len(rest) : Expected(rest[i], us, q)
    BY <2>1, <1>3 DEF Expected
  <2>3. \A i, j \in 1..Len(rest) : rest[i].from = rest[j].from => i = j
    BY <1>1, SeqHead DEF Calls, Lined
  <2>4. QED
    BY <2>1, <2>2, <2>3, <1>2, <1>4 DEF Lined
<1>6. caller # Nobody
  BY <1>1, SeqHead DEF Calls, Lined, Expected, Nobody
<1>7. /\ left \in Seq(Request)
      /\ \A i \in 1..Len(left) : ArgGiven(left[i]) /\ left[i].from = Nobody
  <2>1. CASE ~ unread
    <3>1. left = c.pipe
      BY <2>1
    <3>2. \A i \in 1..Len(c.pipe) : ArgGiven(c.pipe[i]) /\ c.pipe[i].from = Nobody
      BY <2>1, <1>1 DEF Calls, Piped
    <3>3. QED
      BY <3>1, <3>2, <1>1
  <2>2. CASE unread /\ stays
    <3>1. PICK e : e = [c.pipe[last] EXCEPT !.from = Nobody]
      OBVIOUS
    <3>2. last \in 1..Len(c.pipe) /\ c.pipe[last] \in Request
      BY <2>2, <1>1
    <3>3. e \in Request /\ e.from = Nobody /\ (ArgGiven(c.pipe[last]) => ArgGiven(e))
      BY <3>1, <3>2 DEF Request, ArgGiven, Nobody
    <3>4. left = [c.pipe EXCEPT ![last] = e]
      BY <2>2, <3>1, <3>2, <1>1
    <3>5. /\ left \in Seq(Request) /\ Len(left) = Len(c.pipe)
          /\ \A j \in 1..Len(c.pipe) : left[j] = IF j = last THEN e ELSE c.pipe[j]
      BY <3>2, <3>3, <3>4, <1>1, ExceptSeq
    <3>6. QED
      BY <3>2, <3>3, <3>5, <1>1 DEF Calls, Piped
  <2>3. CASE unread /\ ~ stays
    <3>1. left = SubSeq(c.pipe, 1, last - 1)
      BY <2>3
    <3>2. /\ left \in Seq(Request) /\ Len(left) = last - 1
          /\ \A j \in 1..(last - 1) : left[j] = c.pipe[j]
      BY <3>1, <2>3, <1>1
    <3>3. \A j \in 1..(last - 1) : j \in 1..Len(c.pipe) /\ j # Len(c.pipe)
      BY <1>1
    <3>4. \A j \in 1..(last - 1) : ArgGiven(c.pipe[j]) /\ c.pipe[j].from = Nobody
      BY <3>3 DEF Calls, Piped
    <3>5. QED
      BY <3>2, <3>4
  <2>4. QED
    BY <2>1, <2>2, <2>3
<1> HIDE DEF left
<1>8. Piped(n)
  <2>1. CASE rest = <<>>
    BY <2>1, <1>2, <1>7 DEF Piped
  <2>2. CASE rest # <<>>
    <3>1. Head(rest) \in Request /\ ArgGiven(Head(rest))
      BY <2>2, <1>1, <1>4, SeqHead DEF Calls, Lined
    <3>2. n.pipe = Append(left, Head(rest))
      BY <2>2, <1>2
    <3>3. QED
      BY <2>2, <3>1, <3>2, <1>2, <1>7, SeqAppended DEF Piped
  <2>3. QED
    BY <2>1, <2>2
<1>9. AnswerFits(n)
  BY <1>2 DEF AnswerFits
<1>10. QED
  BY <1>2, <1>3, <1>5, <1>8, <1>9 DEF Calls, n

(* The call at the head is answered by what its method promises. *)
LEMMA AnswerTyped ==
    ASSUME NEW ts, NEW p, Calls(comm, ts, p), NEW t \in ts, TaskSet(ts), MaxTasks \in Nat, Answered(t.id)
    PROVE  /\ Waits(t, Head(comm.line).method)
           /\ Answer \in AnswersTo(Head(comm.line).method)
<1>1. Expected(Head(comm.line), ts, p)
  BY SeqHead DEF Calls, Lined, Answered, Calling
<1>2. Head(comm.line).from = t.id /\ t.id # 0
  BY TaskOpened DEF Answered, Calling, TaskSet
<1>3. PICK u \in ts : u.id = t.id /\ Waits(u, Head(comm.line).method)
  BY <1>1, <1>2 DEF Expected
<1>4. u = t
  BY <1>3 DEF TaskSet
<1>5. QED
  BY <1>3, <1>4 DEF Calls, AnswerFits, Answered, Answer

-----------------------------------------------------------------------------
(* The manager, the store and the coroutines after a step. *)

ManagerOk(x) == x \in Manager /\ x.count \in 0..TimeoutLimit

Futures == {"none", "pending", "true", "false"}

LEMMA ManagerChanged ==
    ASSUME NEW x, ManagerOk(x), TimeoutLimit \in Nat
    PROVE  /\ \A s \in MState :
              ManagerOk([x EXCEPT !.state = s])
           /\ \A b \in BOOLEAN :
              ManagerOk([x EXCEPT !.pause_pending = b])
           /\ \A s \in MState, b \in BOOLEAN :
              ManagerOk([x EXCEPT !.state = s, !.pause_pending = b])
           /\ \A s \in MState, b \in BOOLEAN, d \in BOOLEAN :
              ManagerOk([x EXCEPT !.state = s, !.env_exists = b, !.known = d])
           /\ \A b \in BOOLEAN, d \in BOOLEAN :
              ManagerOk([x EXCEPT !.env_exists = b, !.known = d])
           /\ \A b \in BOOLEAN :
              ManagerOk([x EXCEPT !.env_exists = b])
           /\ \A s \in MState, b \in BOOLEAN, d \in BOOLEAN, e \in BOOLEAN :
              ManagerOk([x EXCEPT !.env_exists = b, !.known = d, !.pause_pending = e, !.state = s])
           /\ \A b \in BOOLEAN, d \in BOOLEAN :
              ManagerOk([x EXCEPT !.env_exists = b, !.pause_pending = d])
           /\ \A s \in MState, b \in BOOLEAN, d \in BOOLEAN :
              ManagerOk([x EXCEPT !.env_exists = b, !.pause_pending = d, !.state = s])
           /\ \A s \in MState, b \in BOOLEAN, n \in 0..TimeoutLimit, f \in Futures :
              ManagerOk([x EXCEPT !.state = s, !.fut = f, !.count = n, !.handled = b])
           /\ \A s \in MState, f \in Futures :
              ManagerOk([x EXCEPT !.state = s, !.fut = f])
           /\ \A f \in Futures :
              ManagerOk([x EXCEPT !.fut = f])
           /\ \A s \in MState, b \in BOOLEAN, d \in BOOLEAN :
              ManagerOk([x EXCEPT !.state = s, !.pause_pending = b, !.known = d])
           /\ \A b \in BOOLEAN, d \in BOOLEAN, n \in 0..TimeoutLimit :
              ManagerOk([x EXCEPT !.count = n, !.known = b, !.pause_pending = d])
           /\ \A n \in 0..TimeoutLimit :
              ManagerOk([x EXCEPT !.count = n])
           /\ \A b \in BOOLEAN, n \in 0..TimeoutLimit :
              ManagerOk([x EXCEPT !.count = n, !.handled = b])
<1>0. /\ x \in [state : MState, env_exists : BOOLEAN, fut : Futures, pause_pending : BOOLEAN,
                count : Nat, handled : BOOLEAN, known : BOOLEAN]
      /\ x.count \in 0..TimeoutLimit /\ 0..TimeoutLimit \subseteq Nat
  BY DEF ManagerOk, Manager, Futures
<1>00. \A y : y \in [state : MState, env_exists : BOOLEAN, fut : Futures, pause_pending : BOOLEAN,
                     count : Nat, handled : BOOLEAN, known : BOOLEAN] /\ y.count \in 0..TimeoutLimit
              => ManagerOk(y)
  BY DEF ManagerOk, Manager, Futures
<1>1. \A s \in MState :
        ManagerOk([x EXCEPT !.state = s])
  BY <1>0, <1>00
<1>2. \A b \in BOOLEAN :
        ManagerOk([x EXCEPT !.pause_pending = b])
  BY <1>0, <1>00
<1>3. \A s \in MState, b \in BOOLEAN :
        ManagerOk([x EXCEPT !.state = s, !.pause_pending = b])
  BY <1>0, <1>00
<1>4. \A s \in MState, b \in BOOLEAN, d \in BOOLEAN :
        ManagerOk([x EXCEPT !.state = s, !.env_exists = b, !.known = d])
  BY <1>0, <1>00
<1>5. \A b \in BOOLEAN, d \in BOOLEAN :
        ManagerOk([x EXCEPT !.env_exists = b, !.known = d])
  BY <1>0, <1>00
<1>6. \A b \in BOOLEAN :
        ManagerOk([x EXCEPT !.env_exists = b])
  BY <1>0, <1>00
<1>7. \A s \in MState, b \in BOOLEAN, d \in BOOLEAN, e \in BOOLEAN :
        ManagerOk([x EXCEPT !.env_exists = b, !.known = d, !.pause_pending = e, !.state = s])
  BY <1>0, <1>00
<1>8. \A b \in BOOLEAN, d \in BOOLEAN :
        ManagerOk([x EXCEPT !.env_exists = b, !.pause_pending = d])
  BY <1>0, <1>00
<1>9. \A s \in MState, b \in BOOLEAN, d \in BOOLEAN :
        ManagerOk([x EXCEPT !.env_exists = b, !.pause_pending = d, !.state = s])
  BY <1>0, <1>00
<1>10. \A s \in MState, b \in BOOLEAN, n \in 0..TimeoutLimit, f \in Futures :
        ManagerOk([x EXCEPT !.state = s, !.fut = f, !.count = n, !.handled = b])
  BY <1>0, <1>00
<1>11. \A s \in MState, f \in Futures :
        ManagerOk([x EXCEPT !.state = s, !.fut = f])
  BY <1>0, <1>00
<1>12. \A f \in Futures :
        ManagerOk([x EXCEPT !.fut = f])
  BY <1>0, <1>00
<1>13. \A s \in MState, b \in BOOLEAN, d \in BOOLEAN :
        ManagerOk([x EXCEPT !.state = s, !.pause_pending = b, !.known = d])
  BY <1>0, <1>00
<1>14. \A b \in BOOLEAN, d \in BOOLEAN, n \in 0..TimeoutLimit :
        ManagerOk([x EXCEPT !.count = n, !.known = b, !.pause_pending = d])
  BY <1>0, <1>00
<1>15. \A n \in 0..TimeoutLimit :
        ManagerOk([x EXCEPT !.count = n])
  BY <1>0, <1>00
<1>16. \A b \in BOOLEAN, n \in 0..TimeoutLimit :
        ManagerOk([x EXCEPT !.count = n, !.handled = b])
  BY <1>0, <1>00
<1>17. QED
  BY <1>1, <1>2, <1>3, <1>4, <1>5, <1>6, <1>7, <1>8, <1>9, <1>10, <1>11, <1>12, <1>13, <1>14,
     <1>15, <1>16

LEMMA CompleteTyped ==
    ASSUME NEW x, ManagerOk(x), NEW f \in {"true", "false"}, TimeoutLimit \in Nat
    PROVE  ManagerOk(Complete(x, f))
<1>1. f \in Futures
  BY DEF Futures
<1>2. ManagerOk([x EXCEPT !.fut = f])
  BY <1>1, ManagerChanged
<1>3. QED
  BY <1>2 DEF Complete

History == [plan : Plan, exit : Outcome \cup {"unknown"}]
Store   == [queue : Seq(Plan), running : Plan \cup {NoPlan}, history : SUBSET History,
            stop : BOOLEAN, auto : BOOLEAN]

LEMMA StoreChanged ==
    ASSUME NEW s \in Store
    PROVE  /\ \A q \in Seq(Plan) : [s EXCEPT !.queue = q] \in Store
           /\ \A q \in Seq(Plan), r \in Plan \cup {NoPlan} : [s EXCEPT !.running = r, !.queue = q] \in Store
           /\ \A b \in BOOLEAN : [s EXCEPT !.stop = b] \in Store
           /\ \A b \in BOOLEAN : [s EXCEPT !.auto = b] \in Store
           /\ \A b \in BOOLEAN, d \in BOOLEAN : [s EXCEPT !.stop = b, !.auto = d] \in Store
<1>1. \A q \in Seq(Plan) : [s EXCEPT !.queue = q] \in Store
  BY DEF Store
<1>2. \A q \in Seq(Plan), r \in Plan \cup {NoPlan} : [s EXCEPT !.running = r, !.queue = q] \in Store
  BY DEF Store
<1>3. \A b \in BOOLEAN : [s EXCEPT !.stop = b] \in Store
  BY DEF Store
<1>4. \A b \in BOOLEAN : [s EXCEPT !.auto = b] \in Store
  BY DEF Store
<1>5. \A b \in BOOLEAN, d \in BOOLEAN : [s EXCEPT !.stop = b, !.auto = d] \in Store
  BY DEF Store
<1>6. QED
  BY <1>1, <1>2, <1>3, <1>4, <1>5

LEMMA RecordTyped ==
    ASSUME NEW s \in Store, s.running # NoPlan, NEW x \in Outcome \cup {"unknown"}
    PROVE  Record(s, x) \in Store /\ Record(s, x).queue = s.queue
<1>1. s.history \cup {[plan |-> s.running, exit |-> x]} \in SUBSET History
  <2>1. s.running \in Plan /\ s.history \in SUBSET History
    BY DEF Store
  <2>2. [plan |-> s.running, exit |-> x] \in History
    BY <2>1 DEF History
  <2>3. QED
    BY <2>1, <2>2
<1>2. PICK h : h = s.history \cup {[plan |-> s.running, exit |-> x]}
  OBVIOUS
<1>3. Record(s, x) = [s EXCEPT !.running = NoPlan, !.history = h]
  BY <1>2 DEF Record
<1>4. QED
  BY <1>1, <1>2, <1>3 DEF Store

LEMMA SetTyped ==
    ASSUME NEW s \in Store, NEW x \in Outcome \cup {"unknown"}
    PROVE  SetCompleted(s, x) \in Store /\ SetStopped(s, x) \in Store
<1>1. SetCompleted(s, x) \in Store
  BY RecordTyped DEF SetCompleted
<1>2. CASE s.running = NoPlan \/ x = "stopped"
  BY <1>1, <1>2 DEF SetStopped
<1>3. CASE ~ (s.running = NoPlan \/ x = "stopped")
  <2>1. <<s.running>> \o Record(s, x).queue \in Seq(Plan)
    BY <1>3, RecordTyped DEF Store
  <2>2. [Record(s, x) EXCEPT !.queue = <<s.running>> \o @] \in Store
    BY <2>1, <1>3, RecordTyped, StoreChanged
  <2>3. QED
    BY <1>1, <1>3, <2>2 DEF SetStopped
<1>4. QED
  BY <1>2, <1>3

-----------------------------------------------------------------------------
(* Coroutines and calls together. *)

Resting(t) == \A method : ~ Waits(t, method)

Fits(c, ts, p) == TaskSet(ts) /\ Calls(c, ts, p) /\ MaxTasks \in Nat

LEMMA Finishes ==
    ASSUME NEW c, NEW ts, NEW p, Fits(c, ts, p), NEW t \in ts, Resting(t)
    PROVE  Fits(c, ts \ {t}, p) /\ Free(ts \ {t}) # {}
<1>1. TaskSet(ts \ {t}) /\ Free(ts \ {t}) # {}
  BY FinishTyped DEF Fits
<1>2. \A u \in ts, method \in Methods : Waits(u, method) => u \in ts \ {t}
  BY DEF Resting
<1>3. Calls(c, ts \ {t}, p)
  BY <1>2, CallsKept DEF Fits
<1>4. QED
  BY <1>1, <1>3 DEF Fits

LEMMA Becomes ==
    ASSUME NEW c, NEW ts, NEW p, Fits(c, ts, p), NEW t \in ts, Resting(t), NEW u \in Task, u.id = t.id
    PROVE  Fits(c, (ts \ {t}) \cup {u}, p)
<1>1. TaskSet((ts \ {t}) \cup {u})
  BY ReplaceTyped DEF Fits
<1>2. \A v \in ts, method \in Methods : Waits(v, method) => v \in (ts \ {t}) \cup {u}
  BY DEF Resting
<1>3. Calls(c, (ts \ {t}) \cup {u}, p)
  BY <1>2, CallsKept DEF Fits
<1>4. QED
  BY <1>1, <1>3 DEF Fits

LEMMA Spawns ==
    ASSUME NEW c, NEW ts, NEW p, Fits(c, ts, p), Free(ts) # {}, NEW k \in Kinds, NEW at \in Places[k]
    PROVE  Fits(c, Spawn(ts, k, at), p)
<1>1. TaskSet(Spawn(ts, k, at))
  BY SpawnTyped DEF Fits
<1>2. \A v \in ts, method \in Methods : Waits(v, method) => v \in Spawn(ts, k, at)
  BY SpawnTyped DEF Fits
<1>3. Calls(c, Spawn(ts, k, at), p)
  BY <1>2, CallsKept DEF Fits
<1>4. QED
  BY <1>1, <1>3 DEF Fits

(* Whoever is not in line has no call there. *)
LEMMA NotInLine ==
    ASSUME NEW c, NEW ts, NEW p, Fits(c, ts, p), NEW id, id # 0, \A u \in ts : u.id = id => Resting(u)
    PROVE  \A i \in 1..Len(c.line) : c.line[i].from # id
BY DEF Fits, Calls, Lined, Expected, Resting

LEMMA SpawnsCalling ==
    ASSUME NEW c, NEW ts, NEW p, Fits(c, ts, p), Free(ts) # {}, NEW k \in Kinds, NEW at \in Places[k],
           NEW method \in Methods, NEW arg \in Plan \cup {NoPlan} \cup Options,
           method # "run", method = "continue" => arg \in Options,
           \A t : t.kind = k /\ t.at = at => Waits(t, method)
    PROVE  Fits(Call(c, NewId(ts), method, arg), Spawn(ts, k, at), p)
<1> DEFINE new == [id |-> NewId(ts), kind |-> k, at |-> at, plan |-> NoPlan]
<1>1. new \in Spawn(ts, k, at) /\ new.id = NewId(ts) /\ Waits(new, method)
  BY SpawnTyped DEF Fits
<1>2. NewId(ts) \in 1..MaxTasks /\ \A u \in ts : u.id # NewId(ts)
  BY NewIdTyped
<1>3. Fits(c, Spawn(ts, k, at), p)
  BY Spawns
<1>4. \A i \in 1..Len(c.line) : c.line[i].from # NewId(ts)
  <2>1. NewId(ts) # 0
    BY <1>2 DEF Fits
  <2>2. QED
    BY <1>2, <2>1, NotInLine
<1>5. NewId(ts) \in 0..(MaxTasks + 1) /\ NewId(ts) # Nobody
  BY <1>2 DEF Fits, Nobody
<1> HIDE DEF new
<1>6. Calls(Call(c, NewId(ts), method, arg), Spawn(ts, k, at), p)
  BY <1>1, <1>3, <1>4, <1>5, CallsJoined DEF Fits
<1>7. QED
  BY <1>3, <1>6 DEF Fits

LEMMA BecomesCalling ==
    ASSUME NEW c, NEW ts, NEW p, Fits(c, ts, p), NEW t \in ts, Resting(t),
           NEW u \in Task, u.id = t.id,
           NEW method \in Methods, NEW arg \in Plan \cup {NoPlan} \cup Options,
           method = "run" => arg \in Plan, method = "continue" => arg \in Options,
           Waits(u, method)
    PROVE  Fits(Call(c, t.id, method, arg), (ts \ {t}) \cup {u}, p)
<1>1. t.id \in 1..MaxTasks
  BY TaskOpened DEF Fits, TaskSet
<1>2. Fits(c, (ts \ {t}) \cup {u}, p)
  BY Becomes
<1>3. \A i \in 1..Len(c.line) : c.line[i].from # t.id
  <2>1. \A v \in ts : v.id = t.id => Resting(v)
    BY DEF Fits, TaskSet
  <2>2. t.id # 0
    BY <1>1
  <2>3. QED
    BY <2>1, <2>2, NotInLine
<1>4. t.id \in 0..(MaxTasks + 1) /\ t.id # Nobody
  BY <1>1 DEF Fits, Nobody
<1>5. \E v \in (ts \ {t}) \cup {u} : v.id = t.id /\ Waits(v, method)
  OBVIOUS
<1>6. Calls(Call(c, t.id, method, arg), (ts \ {t}) \cup {u}, p)
  BY <1>2, <1>3, <1>4, <1>5, CallsJoined DEF Fits
<1>7. QED
  BY <1>2, <1>6 DEF Fits

LEMMA HangsUp ==
    ASSUME NEW ts, NEW p, Fits(comm, ts, p), NEW t \in ts, Calling(t.id)
    PROVE  /\ Fits(HangUp(comm), ts \ {t}, p) /\ Free(ts \ {t}) # {}
           /\ \A i \in 1..Len(HangUp(comm).line) : HangUp(comm).line[i].from # t.id
<1>1. TaskSet(ts \ {t}) /\ Free(ts \ {t}) # {}
  BY FinishTyped DEF Fits
<1>2. comm.line # <<>> /\ Head(comm.line).from = t.id
  BY DEF Calling
<1>3. \A u \in ts : u.id # Head(comm.line).from => u \in ts \ {t}
  BY <1>2
<1>4. \A u \in ts : u.id \in 1..MaxTasks
  BY TaskOpened DEF Fits, TaskSet
<1>5. /\ Calls(HangUp(comm), ts \ {t}, p)
      /\ \A i \in 1..Len(HangUp(comm).line) : HangUp(comm).line[i].from # t.id
  BY <1>2, <1>3, <1>4, CallsLeft DEF Fits
<1>6. QED
  BY <1>1, <1>5 DEF Fits

LEMMA HangsUpBecomes ==
    ASSUME NEW ts, NEW p, Fits(comm, ts, p), NEW t \in ts, Calling(t.id), NEW u \in Task, u.id = t.id
    PROVE  Fits(HangUp(comm), (ts \ {t}) \cup {u}, p)
<1>1. TaskSet((ts \ {t}) \cup {u})
  BY ReplaceTyped DEF Fits
<1>2. Calls(HangUp(comm), ts \ {t}, p)
  BY HangsUp DEF Fits
<1>3. Calls(HangUp(comm), (ts \ {t}) \cup {u}, p)
  BY <1>2, CallsKept
<1>4. QED
  BY <1>1, <1>3 DEF Fits

LEMMA HangsUpCalling ==
    ASSUME NEW ts, NEW p, Fits(comm, ts, p), NEW t \in ts, Calling(t.id), NEW u \in Task, u.id = t.id,
           NEW method \in Methods, NEW arg \in Plan \cup {NoPlan} \cup Options,
           method = "run" => arg \in Plan, method = "continue" => arg \in Options,
           Waits(u, method)
    PROVE  Fits(Call(HangUp(comm), t.id, method, arg), (ts \ {t}) \cup {u}, p)
<1>1. Fits(HangUp(comm), (ts \ {t}) \cup {u}, p)
  BY HangsUpBecomes
<1>2. \A i \in 1..Len(HangUp(comm).line) : HangUp(comm).line[i].from # t.id
  BY HangsUp
<1>3. t.id \in 1..MaxTasks
  BY TaskOpened DEF Fits, TaskSet
<1>4. t.id \in 0..(MaxTasks + 1) /\ t.id # Nobody
  BY <1>3 DEF Fits, Nobody
<1>5. \E v \in (ts \ {t}) \cup {u} : v.id = t.id /\ Waits(v, method)
  OBVIOUS
<1>6. Calls(Call(HangUp(comm), t.id, method, arg), (ts \ {t}) \cup {u}, p)
  BY <1>1, <1>2, <1>4, <1>5, CallsJoined DEF Fits
<1>7. QED
  BY <1>1, <1>6 DEF Fits

LEMMA PollJoins ==
    ASSUME NEW ts, Fits(comm, ts, "sleep")
    PROVE  Fits(Call(comm, 0, "state", NoPlan), ts, "asks")
<1>1. \A i \in 1..Len(comm.line) : comm.line[i].from # 0
  <2>1. \A u \in ts : u.id \in 1..MaxTasks
    BY TaskOpened DEF Fits, TaskSet
  <2>2. QED
    BY <2>1 DEF Fits, Calls, Lined, Expected
<1>2. \A u \in ts, method \in Methods : Waits(u, method) => u \in ts
  OBVIOUS
<1>3. Calls(comm, ts, "asks")
  BY <1>1, <1>2, CallsKept DEF Fits
<1>4. 0 \in 0..(MaxTasks + 1) /\ 0 # Nobody /\ "state" \in Methods
  BY DEF Fits, Nobody, Methods
<1>5. Calls(Call(comm, 0, "state", NoPlan), ts, "asks")
  BY <1>1, <1>3, <1>4, CallsJoined
<1>6. QED
  BY <1>5 DEF Fits

LEMMA PollLeaves ==
    ASSUME NEW ts, NEW p, Fits(comm, ts, p), Calling(0)
    PROVE  Fits(HangUp(comm), ts, "sleep")
<1>1. comm.line # <<>> /\ Head(comm.line).from = 0
  BY DEF Calling
<1>2. \A u \in ts : u.id \in 1..MaxTasks
  BY TaskOpened DEF Fits, TaskSet
<1>3. Calls(HangUp(comm), ts, "sleep")
  BY <1>1, <1>2, CallsLeft DEF Fits
<1>4. QED
  BY <1>3 DEF Fits

-----------------------------------------------------------------------------
(* The invariant, and what each step makes of it. *)

TypeInv ==
    /\ ManagerOk(m)
    /\ poll \in {"sleep", "asks"} /\ Fits(comm, tasks, poll)
    /\ store \in Store
    /\ worker \in [Processes -> Worker] /\ watched \in Processes \cup {0}
    /\ locked \in Plan \cup {NoPlan}

World ==
    /\ store \in Store
    /\ worker \in [Processes -> Worker] /\ watched \in Processes \cup {0}
    /\ locked \in Plan \cup {NoPlan}

LEMMA ConstantsTyped ==
    /\ MaxTasks \in Nat \ {0} /\ TimeoutLimit \in Nat \ {0} /\ 0 \in 0..TimeoutLimit
    /\ Plans0 \in Seq(Plan) /\ NoPlan \notin Plan
BY ManagerAssumption

LEMMA TypesTold == TypeInv => TypeOK
<1> SUFFICES ASSUME TypeInv PROVE TypeOK
  OBVIOUS
<1>1. comm.line \in Seq(Request) /\ comm.pipe \in Seq(Request) /\ Len(comm.answer) \in 0..1
  <2>1. comm.line \in Seq(Request) /\ comm.pipe \in Seq(Request)
    BY DEF TypeInv, Fits, Calls, Lined, Piped
  <2>2. comm.answer = <<>> \/ \E x : comm.answer = <<x>>
    BY DEF TypeInv, Fits, Calls, AnswerFits
  <2>3. CASE comm.answer = <<>>
    BY <2>1, <2>3
  <2>4. CASE \E x : comm.answer = <<x>>
    <3>1. PICK x : comm.answer = <<x>>
      BY <2>4
    <3>2. Len(comm.answer) = 1
      BY <3>1
    <3>3. QED
      BY <2>1, <3>2
  <2>5. QED
    BY <2>2, <2>3, <2>4
<1>2. /\ store.queue \in Seq(Plan) /\ store.running \in Plan \cup {NoPlan}
      /\ store.history \subseteq [plan : Plan, exit : Outcome \cup {"unknown"}]
      /\ {store.stop, store.auto} \subseteq BOOLEAN
  BY DEF TypeInv, Store, History
<1>3. QED
  BY <1>1, <1>2 DEF TypeInv, TypeOK, ManagerOk, Fits, TaskSet

LEMMA PlacesAre ==
    /\ Places["boot"] = {"alive", "state"}
    /\ Places["open"] = {"prefetch", "start", "wait", "sync", "confirm", "join", "exited"}
    /\ Places["close"] = {"close", "wait", "confirm", "join", "exited"}
    /\ Places["kill"] = {"kill", "check", "unlock"}
    /\ Places["unexp"] = {"begin", "confirm", "join", "exited"}
    /\ Places["plan"] = {"begin", "prepare", "reset", "run", "release"}
    /\ Places["report"] = {"begin", "fetch", "again", "unlock"}
    /\ Places["set"] = {"idle", "idle_auto", "paused"}
    /\ Places["client"] = {"pause", "continue"}
BY DEF Places

(* Places at which a coroutine waits for no reply. *)
LEMMA RestsAt ==
    ASSUME NEW t
    PROVE  /\ t.at \in {"alive", "prefetch", "start", "wait", "sync", "join", "exited", "kill", "check",
                        "unlock", "begin", "prepare", "release"} /\ t.kind # "client" => Resting(t)
           /\ t.kind = "set" => Resting(t)
BY DEF Resting, Waits

LEMMA TypesBegin == Init => TypeInv
<1> SUFFICES ASSUME Init PROVE TypeInv
  OBVIOUS
<1>1. ManagerOk(m)
  <2>0. budget["open"] \in Nat
    BY ManagerAssumption DEF Init, External
  <2>00. (budget["open"] > 0) \in BOOLEAN
    BY <2>0
  <2>1. PICK b \in BOOLEAN : b = May("open")
    BY <2>00 DEF May
  <2>2. PICK no \in BOOLEAN : no = FALSE
    OBVIOUS
  <2>3. m = [[state |-> "initializing", env_exists |-> no, fut |-> "none", pause_pending |-> no,
              count |-> 0, handled |-> no, known |-> no]
                EXCEPT !.state = "idle", !.env_exists = b, !.known = b]
    BY <2>1, <2>2 DEF Init, Restarted
  <2>4. QED
    BY <2>3, ConstantsTyped DEF ManagerOk, Manager, MState
<1>2. Fits(comm, tasks, poll)
  <2>1. comm.line = <<>> /\ comm.pipe = <<>> /\ comm.answer = <<>> /\ CommForm(comm) /\ tasks = {}
    BY DEF Init, CommForm
  <2>2. Calls(comm, tasks, poll)
    BY <2>1 DEF Calls, Lined, Piped, AnswerFits
  <2>3. QED
    BY <2>1, <2>2, ConstantsTyped DEF Fits, TaskSet
<1>3. store \in Store
  <2>1. PICK no \in BOOLEAN : no = FALSE
    OBVIOUS
  <2>2. store = [queue |-> Plans0, running |-> NoPlan, history |-> {}, stop |-> no, auto |-> no]
    BY <2>1 DEF Init
  <2>3. QED
    BY <2>2, ConstantsTyped DEF Store
<1>4. worker \in [Processes -> Worker]
  BY WorkersTyped DEF Init
<1>5. watched \in Processes \cup {0}
  <2>1. Cardinality(Processes) \in Nat
    BY ManagerAssumption, FS_CardinalityType
  <2>2. 1 \in Processes
    BY <2>1, ManagerAssumption
  <2>3. QED
    BY <2>2 DEF Init
<1>6. QED
  BY <1>1, <1>2, <1>3, <1>4, <1>5 DEF Init, TypeInv

-----------------------------------------------------------------------------
(* Requests of clients. *)

LEMMA OpenAskedTyped ==
    ASSUME TypeInv, OpenAsked
    PROVE  TypeInv'
<1> DEFINE yes == TRUE
           no  == FALSE
<1>0. yes \in BOOLEAN /\ no \in BOOLEAN
  OBVIOUS
<1>1. ManagerOk(m')
  <2>1. m' = [m EXCEPT !.state = "creating_environment", !.fut = "pending", !.count = 0, !.handled = no]
    BY DEF OpenAsked
  <2>2. "creating_environment" \in MState /\ "pending" \in Futures
    BY DEF MState, Futures
  <2>3. QED
    BY <2>1, <2>2, <1>0, ManagerChanged, ConstantsTyped DEF TypeInv
<1>2. Fits(comm', tasks', poll') /\ poll' \in {"sleep", "asks"}
  <2>1. Free(tasks) # {}
    BY DEF OpenAsked, Serving, Room
  <2>2. PICK at \in Places["open"] : tasks' = Spawn(tasks, "open", at)
    BY PlacesAre DEF OpenAsked
  <2>3. "open" \in Kinds /\ comm' = comm /\ poll' = poll
    BY KindsAre DEF OpenAsked
  <2>4. QED
    BY <2>1, <2>2, <2>3, Spawns DEF TypeInv
<1>3. World'
  BY DEF OpenAsked, TypeInv, World
<1>4. QED
  BY <1>1, <1>2, <1>3 DEF TypeInv, World

LEMMA CloseAskedTyped ==
    ASSUME TypeInv, CloseAsked
    PROVE  TypeInv'
<1>1. ManagerOk(m')
  <2>1. m' = [m EXCEPT !.state = "closing_environment", !.fut = "pending"]
    BY DEF CloseAsked
  <2>2. "closing_environment" \in MState /\ "pending" \in Futures
    BY DEF MState, Futures
  <2>3. QED
    BY <2>1, <2>2, ManagerChanged, ConstantsTyped DEF TypeInv
<1>2. Fits(comm', tasks', poll') /\ poll' \in {"sleep", "asks"}
  <2>1. Free(tasks) # {}
    BY DEF CloseAsked, Serving, Room
  <2>2. "close" \in Kinds /\ "close" \in Places["close"] /\ "close" \in Methods
    BY KindsAre, PlacesAre DEF Methods
  <2>3. PICK arg \in Plan \cup {NoPlan} \cup Options :
           /\ tasks' = Spawn(tasks, "close", "close") /\ poll' = poll
           /\ comm' = Call(comm, NewId(tasks), "close", arg)
           /\ "close" = "continue" => arg \in Options
    BY DEF CloseAsked
  <2>4. \A t : t.kind = "close" /\ t.at = "close" => Waits(t, "close")
    BY DEF Waits
  <2>5. QED
    BY <2>1, <2>2, <2>3, <2>4, SpawnsCalling DEF TypeInv
<1>3. World'
  BY DEF CloseAsked, TypeInv, World
<1>4. QED
  BY <1>1, <1>2, <1>3 DEF TypeInv, World

LEMMA DestroyAskedTyped ==
    ASSUME TypeInv, DestroyAsked
    PROVE  TypeInv'
<1>1. ManagerOk(m')
  BY CompleteTyped, ConstantsTyped DEF DestroyAsked, TypeInv
<1>2. Fits(comm', tasks', poll') /\ poll' \in {"sleep", "asks"}
  <2>1. Free(tasks) # {}
    BY DEF DestroyAsked, Serving, Room
  <2>2. "kill" \in Kinds /\ "kill" \in Places["kill"]
    BY KindsAre, PlacesAre
  <2>3. tasks' = Spawn(tasks, "kill", "kill") /\ comm' = comm /\ poll' = poll
    BY DEF DestroyAsked, Start
  <2>4. QED
    BY <2>1, <2>2, <2>3, Spawns DEF TypeInv
<1>3. World'
  BY DEF DestroyAsked, TypeInv, World
<1>4. QED
  BY <1>1, <1>2, <1>3 DEF TypeInv, World

LEMMA StartAskedTyped ==
    ASSUME TypeInv, StartAsked
    PROVE  TypeInv'
<1>1. ManagerOk(m')
  <2>1. m' = [m EXCEPT !.state = "starting_queue"]
    BY DEF StartAsked, Start
  <2>2. "starting_queue" \in MState
    BY DEF MState
  <2>3. QED
    BY <2>1, <2>2, ManagerChanged, ConstantsTyped DEF TypeInv
<1>2. Fits(comm', tasks', poll') /\ poll' \in {"sleep", "asks"}
  <2>1. Free(tasks) # {}
    BY DEF StartAsked, Serving, Room
  <2>2. "plan" \in Kinds /\ "begin" \in Places["plan"]
    BY KindsAre, PlacesAre
  <2>3. tasks' = Spawn(tasks, "plan", "begin") /\ comm' = comm /\ poll' = poll
    BY DEF StartAsked, Start
  <2>4. QED
    BY <2>1, <2>2, <2>3, Spawns DEF TypeInv
<1>3. store' \in Store
  <2>1. PICK no \in BOOLEAN : no = FALSE
    OBVIOUS
  <2>2. store' = [store EXCEPT !.stop = no]
    BY <2>1 DEF StartAsked, Start
  <2>3. QED
    BY <2>2, StoreChanged DEF TypeInv
<1>4. worker' \in [Processes -> Worker] /\ watched' \in Processes \cup {0}
  BY DEF StartAsked, TypeInv
<1>5. locked' \in Plan \cup {NoPlan}
  BY DEF StartAsked, TypeInv
<1>6. QED
  BY <1>1, <1>2, <1>3, <1>4, <1>5 DEF TypeInv

LEMMA AutostartsTyped ==
    ASSUME TypeInv, Autostarts
    PROVE  TypeInv'
<1>1. ManagerOk(m')
  <2>1. m' = [m EXCEPT !.state = "starting_queue"]
    BY DEF Autostarts, Start
  <2>2. "starting_queue" \in MState
    BY DEF MState
  <2>3. QED
    BY <2>1, <2>2, ManagerChanged, ConstantsTyped DEF TypeInv
<1>2. Fits(comm', tasks', poll') /\ poll' \in {"sleep", "asks"}
  <2>1. Free(tasks) # {}
    BY DEF Autostarts, Serving, Room
  <2>2. "plan" \in Kinds /\ "begin" \in Places["plan"]
    BY KindsAre, PlacesAre
  <2>3. tasks' = Spawn(tasks, "plan", "begin") /\ comm' = comm /\ poll' = poll
    BY DEF Autostarts, Start
  <2>4. QED
    BY <2>1, <2>2, <2>3, Spawns DEF TypeInv
<1>3. store' \in Store
  <2>1. PICK no \in BOOLEAN : no = FALSE
    OBVIOUS
  <2>2. store' = [store EXCEPT !.stop = no]
    BY <2>1 DEF Autostarts, Start
  <2>3. QED
    BY <2>2, StoreChanged DEF TypeInv
<1>4. worker' \in [Processes -> Worker] /\ watched' \in Processes \cup {0}
  BY DEF Autostarts, TypeInv
<1>5. locked' \in Plan \cup {NoPlan}
  BY DEF Autostarts, TypeInv
<1>6. QED
  BY <1>1, <1>2, <1>3, <1>4, <1>5 DEF TypeInv

LEMMA AutostartAskedTyped ==
    ASSUME TypeInv, AutostartAsked
    PROVE  TypeInv'
<1>1. ManagerOk(m')
  BY DEF AutostartAsked, TypeInv
<1>2. Fits(comm', tasks', poll') /\ poll' \in {"sleep", "asks"}
  BY DEF AutostartAsked, TypeInv
<1>3. store' \in Store
  <2>1. store' = [store EXCEPT !.auto = ~ @]
    BY DEF AutostartAsked
  <2>2. PICK b \in BOOLEAN : b = ~ store.auto
    BY DEF TypeInv, Store
  <2>3. QED
    BY <2>1, <2>2, StoreChanged DEF TypeInv
<1>4. worker' \in [Processes -> Worker] /\ watched' \in Processes \cup {0}
  BY DEF AutostartAsked, TypeInv
<1>5. locked' \in Plan \cup {NoPlan}
  BY DEF AutostartAsked, TypeInv
<1>6. QED
  BY <1>1, <1>2, <1>3, <1>4, <1>5 DEF TypeInv

LEMMA StopAskedTyped ==
    ASSUME TypeInv, StopAsked
    PROVE  TypeInv'
<1>1. ManagerOk(m')
  BY DEF StopAsked, TypeInv
<1>2. Fits(comm', tasks', poll') /\ poll' \in {"sleep", "asks"}
  BY DEF StopAsked, TypeInv
<1>3. store' \in Store
  <2>1. PICK b \in BOOLEAN : b = TRUE
    OBVIOUS
  <2>2. store' = [store EXCEPT !.stop = b]
    BY <2>1 DEF StopAsked
  <2>3. QED
    BY <2>2, StoreChanged DEF TypeInv
<1>4. worker' \in [Processes -> Worker] /\ watched' \in Processes \cup {0}
  BY DEF StopAsked, TypeInv
<1>5. locked' \in Plan \cup {NoPlan}
  BY DEF StopAsked, TypeInv
<1>6. QED
  BY <1>1, <1>2, <1>3, <1>4, <1>5 DEF TypeInv

LEMMA StopCancelledTyped ==
    ASSUME TypeInv, StopCancelled
    PROVE  TypeInv'
<1>1. ManagerOk(m')
  BY DEF StopCancelled, TypeInv
<1>2. Fits(comm', tasks', poll') /\ poll' \in {"sleep", "asks"}
  BY DEF StopCancelled, TypeInv
<1>3. store' \in Store
  <2>1. PICK b \in BOOLEAN : b = FALSE
    OBVIOUS
  <2>2. store' = [store EXCEPT !.stop = b]
    BY <2>1 DEF StopCancelled
  <2>3. QED
    BY <2>2, StoreChanged DEF TypeInv
<1>4. worker' \in [Processes -> Worker] /\ watched' \in Processes \cup {0}
  BY DEF StopCancelled, TypeInv
<1>5. locked' \in Plan \cup {NoPlan}
  BY DEF StopCancelled, TypeInv
<1>6. QED
  BY <1>1, <1>2, <1>3, <1>4, <1>5 DEF TypeInv

LEMMA PauseAskedTyped ==
    ASSUME TypeInv, PauseAsked
    PROVE  TypeInv'
<1>1. ManagerOk(m')
  BY DEF PauseAsked, TypeInv
<1>2. Fits(comm', tasks', poll') /\ poll' \in {"sleep", "asks"}
  <2>1. Free(tasks) # {}
    BY DEF PauseAsked, Serving, Room
  <2>2. "client" \in Kinds /\ "pause" \in Places["client"] /\ "pause" \in Methods
    BY KindsAre, PlacesAre DEF Methods
  <2>3. PICK arg \in Plan \cup {NoPlan} \cup Options :
           /\ tasks' = Spawn(tasks, "client", "pause") /\ poll' = poll
           /\ comm' = Call(comm, NewId(tasks), "pause", arg)
           /\ "pause" = "continue" => arg \in Options
    BY DEF PauseAsked
  <2>4. \A t : t.kind = "client" /\ t.at = "pause" => Waits(t, "pause")
    BY DEF Waits
  <2>5. QED
    BY <2>1, <2>2, <2>3, <2>4, SpawnsCalling DEF TypeInv
<1>3. World'
  BY DEF PauseAsked, TypeInv, World
<1>4. QED
  BY <1>1, <1>2, <1>3 DEF TypeInv, World

LEMMA ContinueAskedTyped ==
    ASSUME TypeInv, ContinueAsked
    PROVE  TypeInv'
<1>1. ManagerOk(m')
  BY DEF ContinueAsked, TypeInv
<1>2. Fits(comm', tasks', poll') /\ poll' \in {"sleep", "asks"}
  <2>1. Free(tasks) # {}
    BY DEF ContinueAsked, Serving, Room
  <2>2. "client" \in Kinds /\ "continue" \in Places["client"] /\ "continue" \in Methods
    BY KindsAre, PlacesAre DEF Methods
  <2>3. PICK arg \in Plan \cup {NoPlan} \cup Options :
           /\ tasks' = Spawn(tasks, "client", "continue") /\ poll' = poll
           /\ comm' = Call(comm, NewId(tasks), "continue", arg)
           /\ "continue" = "continue" => arg \in Options
    BY DEF ContinueAsked
  <2>4. \A t : t.kind = "client" /\ t.at = "continue" => Waits(t, "continue")
    BY DEF Waits
  <2>5. QED
    BY <2>1, <2>2, <2>3, <2>4, SpawnsCalling DEF TypeInv
<1>3. World'
  BY DEF ContinueAsked, TypeInv, World
<1>4. QED
  BY <1>1, <1>2, <1>3 DEF TypeInv, World

LEMMA QueueEditedTyped ==
    ASSUME TypeInv, QueueEdited
    PROVE  TypeInv'
<1>1. ManagerOk(m')
  BY DEF QueueEdited, TypeInv
<1>2. Fits(comm', tasks', poll') /\ poll' \in {"sleep", "asks"}
  BY DEF QueueEdited, TypeInv
<1>3. store' \in Store
  <2>0. store \in Store /\ store.queue \in Seq(Plan)
    BY DEF TypeInv, Store
  <2>1. CASE store' = [store EXCEPT !.queue = <<>>]
    <3>1. <<>> \in Seq(Plan)
      OBVIOUS
    <3>2. QED
      BY <2>0, <2>1, <3>1, StoreChanged
  <2>2. CASE /\ Len(store.queue) > 1
             /\ store' = [store EXCEPT !.queue = <<@[2], @[1]>> \o SubSeq(@, 3, Len(@))]
    <3>1. <<store.queue[2], store.queue[1]>> \o SubSeq(store.queue, 3, Len(store.queue)) \in Seq(Plan)
      BY <2>0, <2>2
    <3>2. QED
      BY <2>0, <2>2, <3>1, StoreChanged
  <2>3. QED
    BY <2>1, <2>2 DEF QueueEdited
<1>4. worker' \in [Processes -> Worker] /\ watched' \in Processes \cup {0}
  BY DEF QueueEdited, TypeInv
<1>5. locked' \in Plan \cup {NoPlan}
  BY DEF QueueEdited, TypeInv
<1>6. QED
  BY <1>1, <1>2, <1>3, <1>4, <1>5 DEF TypeInv

LEMMA PauseAnsweredTyped ==
    ASSUME TypeInv, NEW t \in tasks, PauseAnswered(t)
    PROVE  TypeInv'
<1> DEFINE yes == TRUE
           no  == FALSE
<1>0. yes \in BOOLEAN /\ no \in BOOLEAN
  OBVIOUS
<1>1. ManagerOk(m')
  <2>1. m' = [m EXCEPT !.pause_pending = yes] \/ m' = m
    BY DEF PauseAnswered
  <2>2. QED
    BY <2>1, <1>0, ManagerChanged, ConstantsTyped DEF TypeInv
<1>2. Fits(comm', tasks', poll') /\ poll' \in {"sleep", "asks"}
  <2>1. Calling(t.id)
    BY DEF PauseAnswered, Accepted, Refused, Answered, TimedOut
  <2>2. tasks' = tasks \ {t} /\ comm' = HangUp(comm) /\ poll' = poll
    BY DEF PauseAnswered, Finish
  <2>3. QED
    BY <2>1, <2>2, HangsUp DEF TypeInv
<1>3. World'
  BY DEF PauseAnswered, TypeInv, World
<1>4. QED
  BY <1>1, <1>2, <1>3 DEF TypeInv, World

LEMMA ContinueAnsweredTyped ==
    ASSUME TypeInv, NEW t \in tasks, ContinueAnswered(t)
    PROVE  TypeInv'
<1>1. ManagerOk(m')
  <2>1. m' = [m EXCEPT !.state = "executing_queue"] \/ m' = m
    BY DEF ContinueAnswered
  <2>2. "executing_queue" \in MState
    BY DEF MState
  <2>3. CASE m' = [m EXCEPT !.state = "executing_queue"]
    BY <2>3, <2>2, ManagerChanged, ConstantsTyped DEF TypeInv
  <2>4. CASE m' = m
    BY <2>4, <2>2, ManagerChanged, ConstantsTyped DEF TypeInv
  <2>5. QED
    BY <2>1, <2>3, <2>4
<1>2. Fits(comm', tasks', poll') /\ poll' \in {"sleep", "asks"}
  <2>1. Calling(t.id)
    BY DEF ContinueAnswered, Accepted, Refused, Answered, TimedOut
  <2>2. tasks' = tasks \ {t} /\ comm' = HangUp(comm) /\ poll' = poll
    BY DEF ContinueAnswered, Finish
  <2>3. QED
    BY <2>1, <2>2, HangsUp DEF TypeInv
<1>3. World'
  BY DEF ContinueAnswered, TypeInv, World
<1>4. QED
  BY <1>1, <1>2, <1>3 DEF TypeInv, World

-----------------------------------------------------------------------------
(* Opening and closing. *)

LEMMA OpenPrefetchedTyped ==
    ASSUME TypeInv, NEW t \in tasks, OpenPrefetched(t)
    PROVE  TypeInv'
<1>1. ManagerOk(m')
  <2>1. m' = [m EXCEPT !.state = "idle"] \/ m' = m
    BY DEF OpenPrefetched
  <2>2. "idle" \in MState
    BY DEF MState
  <2>3. CASE m' = [m EXCEPT !.state = "idle"]
    BY <2>3, <2>2, ManagerChanged, ConstantsTyped DEF TypeInv
  <2>4. CASE m' = m
    BY <2>4, <2>2, ManagerChanged, ConstantsTyped DEF TypeInv
  <2>5. QED
    BY <2>1, <2>3, <2>4
<1>2. Fits(comm', tasks', poll') /\ poll' \in {"sleep", "asks"}
  <2>1. Resting(t)
    BY RestsAt DEF OpenPrefetched, At
  <2>2. (tasks' = Finish(t) \/ tasks' = Goto(t, "start")) /\ comm' = comm /\ poll' = poll
    BY DEF OpenPrefetched
  <2>3. "start" \in Places[t.kind] /\ t \in Task
    BY PlacesAre DEF OpenPrefetched, At, TypeInv, Fits, TaskSet
  <2>4. CASE tasks' = Finish(t)
    BY <2>1, <2>2, <2>4, Finishes DEF TypeInv, Finish
  <2>5. CASE tasks' = Goto(t, "start")
    <3>1. PICK u : u = [t EXCEPT !.at = "start"]
      OBVIOUS
    <3>2. u \in Task /\ u.id = t.id
      BY <2>3, <3>1, TaskGoes
    <3>3. Fits(comm, (tasks \ {t}) \cup {u}, poll)
      BY <2>1, <3>2, Becomes DEF TypeInv
    <3>4. QED
      BY <2>2, <2>5, <3>1, <3>3 DEF TypeInv, Goto, Finish
  <2>6. QED
    BY <2>2, <2>4, <2>5
<1>3. World'
  BY DEF OpenPrefetched, TypeInv, World
<1>4. QED
  BY <1>1, <1>2, <1>3 DEF TypeInv, World

LEMMA OpenStartsTyped ==
    ASSUME TypeInv, NEW t \in tasks, OpenStarts(t)
    PROVE  TypeInv'
<1>1. ManagerOk(m')
  BY DEF OpenStarts, TypeInv
<1>2. Fits(comm', tasks', poll') /\ poll' \in {"sleep", "asks"}
  <2>1. Resting(t)
    BY RestsAt DEF OpenStarts, At
  <2>2. (tasks' = Goto(t, "wait")) /\ comm' = comm /\ poll' = poll
    BY DEF OpenStarts
  <2>3. "wait" \in Places[t.kind] /\ t \in Task
    BY PlacesAre DEF OpenStarts, At, TypeInv, Fits, TaskSet
  <2>4. CASE tasks' = Goto(t, "wait")
    <3>1. PICK u : u = [t EXCEPT !.at = "wait"]
      OBVIOUS
    <3>2. u \in Task /\ u.id = t.id
      BY <2>3, <3>1, TaskGoes
    <3>3. Fits(comm, (tasks \ {t}) \cup {u}, poll)
      BY <2>1, <3>2, Becomes DEF TypeInv
    <3>4. QED
      BY <2>2, <2>4, <3>1, <3>3 DEF TypeInv, Goto, Finish
  <2>5. QED
    BY <2>2, <2>4
<1>3. store' \in Store
  BY DEF OpenStarts, TypeInv
<1>4. worker' \in [Processes -> Worker] /\ watched' \in Processes \cup {0}
  <2>1. watched' \in Unused
    BY DEF OpenStarts
  <2>2. watched' \in Processes
    BY <2>1 DEF Unused
  <2>3. QED
    BY <2>2, WorkersTyped DEF OpenStarts, TypeInv
<1>5. locked' \in Plan \cup {NoPlan}
  BY DEF OpenStarts, TypeInv
<1>6. QED
  BY <1>1, <1>2, <1>3, <1>4, <1>5 DEF TypeInv

LEMMA OpenReadyTyped ==
    ASSUME TypeInv, NEW t \in tasks, OpenReady(t)
    PROVE  TypeInv'
<1> DEFINE yes == TRUE
           no  == FALSE
<1>0. yes \in BOOLEAN /\ no \in BOOLEAN
  OBVIOUS
<1>1. ManagerOk(m')
  <2>1. m' = [m EXCEPT !.env_exists = yes, !.pause_pending = no] \/ m' = [m EXCEPT !.env_exists = yes, !.pause_pending = no, !.state = "idle"]
    BY DEF OpenReady
  <2>2. "idle" \in MState
    BY DEF MState
  <2>3. CASE m' = [m EXCEPT !.env_exists = yes, !.pause_pending = no]
    BY <2>3, <2>2, <1>0, ManagerChanged, ConstantsTyped DEF TypeInv
  <2>4. CASE m' = [m EXCEPT !.env_exists = yes, !.pause_pending = no, !.state = "idle"]
    BY <2>4, <2>2, <1>0, ManagerChanged, ConstantsTyped DEF TypeInv
  <2>5. QED
    BY <2>1, <2>3, <2>4
<1>2. Fits(comm', tasks', poll') /\ poll' \in {"sleep", "asks"}
  <2>1. Resting(t)
    BY RestsAt DEF OpenReady, At
  <2>2. (tasks' = Finish(t) \/ tasks' = Goto(t, "sync")) /\ comm' = comm /\ poll' = poll
    BY DEF OpenReady
  <2>3. "sync" \in Places[t.kind] /\ t \in Task
    BY PlacesAre DEF OpenReady, At, TypeInv, Fits, TaskSet
  <2>4. CASE tasks' = Finish(t)
    BY <2>1, <2>2, <2>4, Finishes DEF TypeInv, Finish
  <2>5. CASE tasks' = Goto(t, "sync")
    <3>1. PICK u : u = [t EXCEPT !.at = "sync"]
      OBVIOUS
    <3>2. u \in Task /\ u.id = t.id
      BY <2>3, <3>1, TaskGoes
    <3>3. Fits(comm, (tasks \ {t}) \cup {u}, poll)
      BY <2>1, <3>2, Becomes DEF TypeInv
    <3>4. QED
      BY <2>2, <2>5, <3>1, <3>3 DEF TypeInv, Goto, Finish
  <2>6. QED
    BY <2>2, <2>4, <2>5
<1>3. World'
  BY DEF OpenReady, TypeInv, World
<1>4. QED
  BY <1>1, <1>2, <1>3 DEF TypeInv, World

LEMMA OpenSyncedTyped ==
    ASSUME TypeInv, NEW t \in tasks, OpenSynced(t)
    PROVE  TypeInv'
<1>1. ManagerOk(m')
  <2>1. m' = [m EXCEPT !.state = "idle"]
    BY DEF OpenSynced
  <2>2. "idle" \in MState
    BY DEF MState
  <2>3. QED
    BY <2>1, <2>2, ManagerChanged, ConstantsTyped DEF TypeInv
<1>2. Fits(comm', tasks', poll') /\ poll' \in {"sleep", "asks"}
  <2>1. Resting(t)
    BY RestsAt DEF OpenSynced, At
  <2>2. tasks' = tasks \ {t} /\ comm' = comm /\ poll' = poll
    BY DEF OpenSynced, Finish
  <2>3. QED
    BY <2>1, <2>2, Finishes DEF TypeInv
<1>3. World'
  BY DEF OpenSynced, TypeInv, World
<1>4. QED
  BY <1>1, <1>2, <1>3 DEF TypeInv, World

LEMMA OpenFailedTyped ==
    ASSUME TypeInv, NEW t \in tasks, OpenFailed(t)
    PROVE  TypeInv'
<1> DEFINE yes == TRUE
           no  == FALSE
<1>0. yes \in BOOLEAN /\ no \in BOOLEAN
  OBVIOUS
<1>1. ManagerOk(m')
  <2>1. m' = [m EXCEPT !.env_exists = yes]
    BY DEF OpenFailed
  <2>3. QED
    BY <2>1, <1>0, ManagerChanged, ConstantsTyped DEF TypeInv
<1>2. Fits(comm', tasks', poll') /\ poll' \in {"sleep", "asks"}
  <2>1. Resting(t)
    BY RestsAt DEF OpenFailed, At
  <2>2. "confirm" \in Places[t.kind] /\ t \in Task /\ "confirm" \in Methods
    BY PlacesAre DEF OpenFailed, At, TypeInv, Fits, TaskSet, Methods
  <2>3. PICK u : u = [t EXCEPT !.at = "confirm"]
    OBVIOUS
  <2>4. u \in Task /\ u.id = t.id /\ u.kind = t.kind /\ u.at = "confirm"
    BY <2>2, <2>3, TaskGoes
  <2>5. Waits(u, "confirm")
    BY <2>4 DEF Waits, OpenFailed, At
  <2>6. Fits(Call(comm, t.id, "confirm", NoPlan), (tasks \ {t}) \cup {u}, poll)
    BY <2>1, <2>2, <2>4, <2>5, BecomesCalling DEF TypeInv
  <2>7. QED
    BY <2>3, <2>6 DEF OpenFailed, Goto, Finish, TypeInv
<1>3. World'
  BY DEF OpenFailed, TypeInv, World
<1>4. QED
  BY <1>1, <1>2, <1>3 DEF TypeInv, World

LEMMA OpenAbandonedTyped ==
    ASSUME TypeInv, NEW t \in tasks, OpenAbandoned(t)
    PROVE  TypeInv'
<1> DEFINE yes == TRUE
           no  == FALSE
<1>0. yes \in BOOLEAN /\ no \in BOOLEAN
  OBVIOUS
<1>1. ManagerOk(m')
  <2>1. m' = [m EXCEPT !.env_exists = no, !.known = no, !.pause_pending = no, !.state = "idle"]
    BY DEF OpenAbandoned
  <2>2. "idle" \in MState
    BY DEF MState
  <2>3. QED
    BY <2>1, <2>2, <1>0, ManagerChanged, ConstantsTyped DEF TypeInv
<1>2. Fits(comm', tasks', poll') /\ poll' \in {"sleep", "asks"}
  <2>1. Resting(t)
    BY RestsAt DEF OpenAbandoned, At
  <2>2. tasks' = tasks \ {t} /\ comm' = comm /\ poll' = poll
    BY DEF OpenAbandoned, Finish
  <2>3. QED
    BY <2>1, <2>2, Finishes DEF TypeInv
<1>3. World'
  BY DEF OpenAbandoned, TypeInv, World
<1>4. QED
  BY <1>1, <1>2, <1>3 DEF TypeInv, World

LEMMA ExitConfirmedTyped ==
    ASSUME TypeInv, NEW t \in tasks, ExitConfirmed(t)
    PROVE  TypeInv'
<1> DEFINE yes == TRUE
           no  == FALSE
<1>0. yes \in BOOLEAN /\ no \in BOOLEAN
  OBVIOUS
<1>1. ManagerOk(m')
  <2>1. m' = [m EXCEPT !.env_exists = no, !.known = no]
    BY DEF ExitConfirmed
  <2>3. QED
    BY <2>1, <1>0, ManagerChanged, ConstantsTyped DEF TypeInv
<1>2. Fits(comm', tasks', poll') /\ poll' \in {"sleep", "asks"}
  <2>1. Calling(t.id)
    BY DEF ExitConfirmed, Accepted, Refused, Answered, TimedOut
  <2>2. PICK at \in {"join", "exited"} : tasks' = Goto(t, at) /\ comm' = HangUp(comm) /\ poll' = poll
    BY DEF ExitConfirmed
  <2>3. t.at = "confirm" /\ t \in Task
    BY DEF ExitConfirmed, TypeInv, Fits, TaskSet
  <2>4. t.kind \in {"open", "close", "unexp"}
    BY <2>3, TaskOpened, KindsAre, PlacesAre
  <2>5. at \in Places[t.kind]
    BY <2>2, <2>4, PlacesAre
  <2>6. QED
    BY <2>1, <2>2, <2>3, <2>5, TaskGoes, HangsUpBecomes DEF TypeInv, Goto, Finish
<1>3. World'
  BY DEF ExitConfirmed, TypeInv, World
<1>4. QED
  BY <1>1, <1>2, <1>3 DEF TypeInv, World

LEMMA JoinedTyped ==
    ASSUME TypeInv, NEW t \in tasks, Joined(t)
    PROVE  TypeInv'
<1>1. ManagerOk(m')
  BY DEF Joined, TypeInv
<1>2. Fits(comm', tasks', poll') /\ poll' \in {"sleep", "asks"}
  <2>1. Resting(t)
    <3>1. t.at = "join" /\ t \in Task
      BY DEF Joined, TypeInv, Fits, TaskSet
    <3>2. t.kind # "client"
      BY <3>1, TaskOpened, KindsAre, PlacesAre
    <3>3. QED
      BY <3>1, <3>2, RestsAt
  <2>2. tasks' = Goto(t, "exited") /\ comm' = comm /\ poll' = poll
    BY DEF Joined
  <2>3. t.at = "join" /\ t \in Task
    BY DEF Joined, TypeInv, Fits, TaskSet
  <2>4. "exited" \in Places[t.kind]
    BY <2>3, TaskOpened, KindsAre, PlacesAre
  <2>5. QED
    BY <2>1, <2>2, <2>3, <2>4, TaskGoes, Becomes DEF TypeInv, Goto, Finish
<1>3. World'
  BY DEF Joined, TypeInv, World
<1>4. QED
  BY <1>1, <1>2, <1>3 DEF TypeInv, World

LEMMA CloseAnsweredTyped ==
    ASSUME TypeInv, NEW t \in tasks, CloseAnswered(t)
    PROVE  TypeInv'
<1>1. ManagerOk(m')
  <2>1. m' = [m EXCEPT !.state = "closing_environment"] \/ m' = [m EXCEPT !.state = "idle"]
    BY DEF CloseAnswered
  <2>2. "closing_environment" \in MState /\ "idle" \in MState
    BY DEF MState
  <2>3. CASE m' = [m EXCEPT !.state = "closing_environment"]
    BY <2>3, <2>2, ManagerChanged, ConstantsTyped DEF TypeInv
  <2>4. CASE m' = [m EXCEPT !.state = "idle"]
    BY <2>4, <2>2, ManagerChanged, ConstantsTyped DEF TypeInv
  <2>5. QED
    BY <2>1, <2>3, <2>4
<1>2. Fits(comm', tasks', poll') /\ poll' \in {"sleep", "asks"}
  <2>1. Calling(t.id)
    BY DEF CloseAnswered, Accepted, Refused, Answered, TimedOut
  <2>2. (tasks' = Finish(t) \/ tasks' = Goto(t, "wait")) /\ comm' = HangUp(comm) /\ poll' = poll
    BY DEF CloseAnswered
  <2>3. "wait" \in Places[t.kind] /\ t \in Task
    BY PlacesAre DEF CloseAnswered, At, TypeInv, Fits, TaskSet
  <2>4. CASE tasks' = Finish(t)
    BY <2>1, <2>2, <2>4, HangsUp DEF TypeInv, Finish
  <2>5. CASE tasks' = Goto(t, "wait")
    BY <2>1, <2>2, <2>3, <2>5, TaskGoes, HangsUpBecomes DEF TypeInv, Goto, Finish
  <2>6. QED
    BY <2>2, <2>4, <2>5
<1>3. World'
  BY DEF CloseAnswered, TypeInv, World
<1>4. QED
  BY <1>1, <1>2, <1>3 DEF TypeInv, World

LEMMA CloseReadyTyped ==
    ASSUME TypeInv, NEW t \in tasks, CloseReady(t)
    PROVE  TypeInv'
<1>1. ManagerOk(m')
  BY DEF CloseReady, TypeInv
<1>2. Fits(comm', tasks', poll') /\ poll' \in {"sleep", "asks"}
  <2>1. Resting(t)
    BY RestsAt DEF CloseReady, At
  <2>2. "confirm" \in Places[t.kind] /\ t \in Task /\ "confirm" \in Methods
    BY PlacesAre DEF CloseReady, At, TypeInv, Fits, TaskSet, Methods
  <2>3. PICK u : u = [t EXCEPT !.at = "confirm"]
    OBVIOUS
  <2>4. u \in Task /\ u.id = t.id /\ u.kind = t.kind /\ u.at = "confirm"
    BY <2>2, <2>3, TaskGoes
  <2>5. Waits(u, "confirm")
    BY <2>4 DEF Waits, CloseReady, At
  <2>6. Fits(Call(comm, t.id, "confirm", NoPlan), (tasks \ {t}) \cup {u}, poll)
    BY <2>1, <2>2, <2>4, <2>5, BecomesCalling DEF TypeInv
  <2>7. "exited" \in Places[t.kind]
    BY PlacesAre DEF CloseReady, At
  <2>8. CASE comm' = Call(comm, t.id, "confirm", NoPlan) /\ tasks' = Goto(t, "confirm")
    BY <2>3, <2>6, <2>8 DEF CloseReady, Goto, Finish, TypeInv
  <2>9. CASE tasks' = Goto(t, "exited") /\ comm' = comm
    BY <2>1, <2>2, <2>7, <2>9, TaskGoes, Becomes DEF CloseReady, Goto, Finish, TypeInv
  <2>10. QED
    BY <2>8, <2>9 DEF CloseReady
<1>3. World'
  BY DEF CloseReady, TypeInv, World
<1>4. QED
  BY <1>1, <1>2, <1>3 DEF TypeInv, World

LEMMA ClosedTyped ==
    ASSUME TypeInv, NEW t \in tasks, Closed(t)
    PROVE  TypeInv'
<1>1. ManagerOk(m')
  <2>1. m' = [m EXCEPT !.state = "idle"]
    BY DEF Closed
  <2>2. "idle" \in MState
    BY DEF MState
  <2>3. QED
    BY <2>1, <2>2, ManagerChanged, ConstantsTyped DEF TypeInv
<1>2. Fits(comm', tasks', poll') /\ poll' \in {"sleep", "asks"}
  <2>1. Resting(t)
    BY RestsAt DEF Closed, At
  <2>2. tasks' = tasks \ {t} /\ comm' = comm /\ poll' = poll
    BY DEF Closed, Finish
  <2>3. QED
    BY <2>1, <2>2, Finishes DEF TypeInv
<1>3. World'
  BY DEF Closed, MayUnlock, TypeInv, World
<1>4. QED
  BY <1>1, <1>2, <1>3 DEF TypeInv, World

LEMMA KillSentTyped ==
    ASSUME TypeInv, NEW t \in tasks, KillSent(t)
    PROVE  TypeInv'
<1>1. ManagerOk(m')
  <2>1. m' = [m EXCEPT !.state = "destroying_environment"]
    BY DEF KillSent
  <2>2. "destroying_environment" \in MState
    BY DEF MState
  <2>3. QED
    BY <2>1, <2>2, ManagerChanged, ConstantsTyped DEF TypeInv
<1>2. Fits(comm', tasks', poll') /\ poll' \in {"sleep", "asks"}
  <2>1. Resting(t)
    BY RestsAt DEF KillSent, At
  <2>2. (tasks' = Finish(t) \/ tasks' = Goto(t, "check")) /\ comm' = comm /\ poll' = poll
    BY DEF KillSent
  <2>3. "check" \in Places[t.kind] /\ t \in Task
    BY PlacesAre DEF KillSent, At, TypeInv, Fits, TaskSet
  <2>4. CASE tasks' = Finish(t)
    BY <2>1, <2>2, <2>4, Finishes DEF TypeInv, Finish
  <2>5. CASE tasks' = Goto(t, "check")
    <3>1. PICK u : u = [t EXCEPT !.at = "check"]
      OBVIOUS
    <3>2. u \in Task /\ u.id = t.id
      BY <2>3, <3>1, TaskGoes
    <3>3. Fits(comm, (tasks \ {t}) \cup {u}, poll)
      BY <2>1, <3>2, Becomes DEF TypeInv
    <3>4. QED
      BY <2>2, <2>5, <3>1, <3>3 DEF TypeInv, Goto, Finish
  <2>6. QED
    BY <2>2, <2>4, <2>5
<1>3. store' \in Store
  BY DEF KillSent, TypeInv
<1>4. worker' \in [Processes -> Worker] /\ watched' \in Processes \cup {0}
  BY WorkersTyped DEF KillSent, TypeInv
<1>5. locked' \in Plan \cup {NoPlan}
  BY DEF KillSent, TypeInv
<1>6. QED
  BY <1>1, <1>2, <1>3, <1>4, <1>5 DEF TypeInv

LEMMA KillCheckedTyped ==
    ASSUME TypeInv, NEW t \in tasks, KillChecked(t)
    PROVE  TypeInv'
<1> DEFINE yes == TRUE
           no  == FALSE
<1>0. yes \in BOOLEAN /\ no \in BOOLEAN
  OBVIOUS
<1>1. ManagerOk(m')
  <2>1. m' = [m EXCEPT !.state = "idle", !.env_exists = no, !.known = no]
    BY DEF KillChecked
  <2>2. "idle" \in MState
    BY DEF MState
  <2>3. QED
    BY <2>1, <2>2, <1>0, ManagerChanged, ConstantsTyped DEF TypeInv
<1>2. Fits(comm', tasks', poll') /\ poll' \in {"sleep", "asks"}
  <2>1. Resting(t)
    BY RestsAt DEF KillChecked, At
  <2>2. (tasks' = Goto(t, "unlock")) /\ comm' = comm /\ poll' = poll
    BY DEF KillChecked
  <2>3. "unlock" \in Places[t.kind] /\ t \in Task
    BY PlacesAre DEF KillChecked, At, TypeInv, Fits, TaskSet
  <2>4. CASE tasks' = Goto(t, "unlock")
    <3>1. PICK u : u = [t EXCEPT !.at = "unlock"]
      OBVIOUS
    <3>2. u \in Task /\ u.id = t.id
      BY <2>3, <3>1, TaskGoes
    <3>3. Fits(comm, (tasks \ {t}) \cup {u}, poll)
      BY <2>1, <3>2, Becomes DEF TypeInv
    <3>4. QED
      BY <2>2, <2>4, <3>1, <3>3 DEF TypeInv, Goto, Finish
  <2>5. QED
    BY <2>2, <2>4
<1>3. World'
  BY DEF KillChecked, TypeInv, World
<1>4. QED
  BY <1>1, <1>2, <1>3 DEF TypeInv, World

LEMMA KillEndsTyped ==
    ASSUME TypeInv, NEW t \in tasks, KillEnds(t)
    PROVE  TypeInv'
<1>1. ManagerOk(m')
  BY DEF KillEnds, TypeInv
<1>2. Fits(comm', tasks', poll') /\ poll' \in {"sleep", "asks"}
  <2>1. Resting(t)
    BY RestsAt DEF KillEnds, At
  <2>2. tasks' = tasks \ {t} /\ comm' = comm /\ poll' = poll
    BY DEF KillEnds, Finish
  <2>3. QED
    BY <2>1, <2>2, Finishes DEF TypeInv
<1>3. store' \in Store
  <2>1. store' = SetStopped(store, "failed") /\ "failed" \in Outcome
    BY DEF KillEnds, Outcome
  <2>2. QED
    BY <2>1, SetTyped DEF TypeInv
<1>4. worker' \in [Processes -> Worker] /\ watched' \in Processes \cup {0}
  BY DEF KillEnds, TypeInv
<1>5. locked' \in Plan \cup {NoPlan}
  BY DEF KillEnds, MayUnlock, TypeInv
<1>6. QED
  BY <1>1, <1>2, <1>3, <1>4, <1>5 DEF TypeInv

LEMMA ExitNoticedTyped ==
    ASSUME TypeInv, NEW t \in tasks, ExitNoticed(t)
    PROVE  TypeInv'
<1>1. ManagerOk(m')
  BY DEF ExitNoticed, TypeInv
<1>2. Fits(comm', tasks', poll') /\ poll' \in {"sleep", "asks"}
  <2>1. Resting(t)
    BY RestsAt DEF ExitNoticed, At
  <2>2. "confirm" \in Places[t.kind] /\ t \in Task /\ "confirm" \in Methods
    BY PlacesAre DEF ExitNoticed, At, TypeInv, Fits, TaskSet, Methods
  <2>3. PICK u : u = [t EXCEPT !.at = "confirm"]
    OBVIOUS
  <2>4. u \in Task /\ u.id = t.id /\ u.kind = t.kind /\ u.at = "confirm"
    BY <2>2, <2>3, TaskGoes
  <2>5. Waits(u, "confirm")
    BY <2>4 DEF Waits, ExitNoticed, At
  <2>6. Fits(Call(comm, t.id, "confirm", NoPlan), (tasks \ {t}) \cup {u}, poll)
    BY <2>1, <2>2, <2>4, <2>5, BecomesCalling DEF TypeInv
  <2>7. "exited" \in Places[t.kind]
    BY PlacesAre DEF ExitNoticed, At
  <2>8. CASE comm' = Call(comm, t.id, "confirm", NoPlan) /\ tasks' = Goto(t, "confirm")
    BY <2>3, <2>6, <2>8 DEF ExitNoticed, Goto, Finish, TypeInv
  <2>9. CASE tasks' = Goto(t, "exited") /\ comm' = comm
    BY <2>1, <2>2, <2>7, <2>9, TaskGoes, Becomes DEF ExitNoticed, Goto, Finish, TypeInv
  <2>10. QED
    BY <2>8, <2>9 DEF ExitNoticed
<1>3. World'
  BY DEF ExitNoticed, TypeInv, World
<1>4. QED
  BY <1>1, <1>2, <1>3 DEF TypeInv, World

LEMMA ExitUnlockedTyped ==
    ASSUME TypeInv, NEW t \in tasks, ExitUnlocked(t)
    PROVE  TypeInv'
<1>1. ManagerOk(m')
  BY DEF ExitUnlocked, TypeInv
<1>2. Fits(comm', tasks', poll') /\ poll' \in {"sleep", "asks"}
  <2>1. Resting(t)
    BY RestsAt DEF ExitUnlocked, At
  <2>2. tasks' = tasks \ {t} /\ comm' = comm /\ poll' = poll
    BY DEF ExitUnlocked, Finish
  <2>3. QED
    BY <2>1, <2>2, Finishes DEF TypeInv
<1>3. World'
  BY DEF ExitUnlocked, MayUnlock, TypeInv, World
<1>4. QED
  BY <1>1, <1>2, <1>3 DEF TypeInv, World

LEMMA StateSetTyped ==
    ASSUME TypeInv, NEW t \in tasks, StateSet(t)
    PROVE  TypeInv'
<1> DEFINE yes == TRUE
           no  == FALSE
<1>0. yes \in BOOLEAN /\ no \in BOOLEAN
  OBVIOUS
<1>1. ManagerOk(m')
  <2>1. m' = [m EXCEPT !.state = IF t.at = "paused" THEN "paused" ELSE "idle", !.pause_pending = no]
    BY DEF StateSet
  <2>2. PICK s : s = IF t.at = "paused" THEN "paused" ELSE "idle"
    OBVIOUS
  <2>3. s \in MState
    BY <2>2 DEF MState
  <2>4. QED
    BY <2>1, <2>2, <2>3, <1>0, ManagerChanged, ConstantsTyped DEF TypeInv
<1>2. Fits(comm', tasks', poll') /\ poll' \in {"sleep", "asks"}
  <2>1. Resting(t)
    BY RestsAt DEF StateSet, At
  <2>2. tasks' = tasks \ {t} /\ comm' = comm /\ poll' = poll
    BY DEF StateSet, Finish
  <2>3. QED
    BY <2>1, <2>2, Finishes DEF TypeInv
<1>3. store' \in Store
  <2>1. CASE t.at = "paused"
    BY <2>1 DEF StateSet, TypeInv
  <2>2. CASE t.at # "paused"
    <3>1. PICK b \in BOOLEAN : b = FALSE
      OBVIOUS
    <3>2. (store.auto /\ t.at # "idle_auto") \in BOOLEAN
      OBVIOUS
    <3>3. PICK d \in BOOLEAN : d = (store.auto /\ t.at # "idle_auto")
      BY <3>2
    <3>4. store' = [store EXCEPT !.stop = b, !.auto = d]
      BY <2>2, <3>1, <3>3 DEF StateSet
    <3>5. QED
      BY <3>4, StoreChanged DEF TypeInv
  <2>3. QED
    BY <2>1, <2>2
<1>4. worker' \in [Processes -> Worker] /\ watched' \in Processes \cup {0}
  BY DEF StateSet, TypeInv
<1>5. locked' \in Plan \cup {NoPlan}
  BY DEF StateSet, TypeInv
<1>6. QED
  BY <1>1, <1>2, <1>3, <1>4, <1>5 DEF TypeInv

-----------------------------------------------------------------------------
(* The poll. *)

LEMMA PollAsksTyped ==
    ASSUME TypeInv, PollAsks
    PROVE  TypeInv'
<1>1. ManagerOk(m')
  BY DEF PollAsks, TypeInv
<1>2. Fits(comm', tasks', poll') /\ poll' \in {"sleep", "asks"}
  <2>1. poll = "sleep" /\ poll' = "asks" /\ tasks' = tasks /\ comm' = Call(comm, 0, "state", NoPlan)
    BY DEF PollAsks
  <2>2. QED
    BY <2>1, PollJoins DEF TypeInv
<1>3. World'
  BY DEF PollAsks, TypeInv, World
<1>4. QED
  BY <1>1, <1>2, <1>3 DEF TypeInv, World

LEMMA AfterPollTyped ==
    ASSUME NEW x, ManagerOk(x), NEW s, TimeoutLimit \in Nat
    PROVE  ManagerOk(AfterPoll(x, s))
<1>1. ManagerOk(Complete(x, "true")) /\ ManagerOk(Complete(x, "false"))
  BY CompleteTyped
<1>2. QED
  BY <1>1 DEF AfterPoll

LEMMA SpawnLeavesRoom ==
    ASSUME NEW ts, NEW k, NEW at, Cardinality(Free(ts)) > 1, MaxTasks \in Nat
    PROVE  Free(ts) # {} /\ Free(Spawn(ts, k, at)) # {}
<1>1. IsFiniteSet(Free(ts))
  <2>1. IsFiniteSet(1..MaxTasks)
    BY FS_Interval
  <2>2. Free(ts) \subseteq 1..MaxTasks
    BY DEF Free
  <2>3. QED
    BY <2>1, <2>2, FS_Subset
<1>2. Free(ts) # {}
  BY FS_EmptySet
<1>3. NewId(ts) \in Free(ts)
  BY <1>2 DEF NewId
<1>4. SUFFICES ASSUME Free(Spawn(ts, k, at)) = {} PROVE FALSE
  BY <1>2
<1>5. Free(ts) \subseteq {NewId(ts)}
  <2>1. SUFFICES ASSUME NEW i \in Free(ts), i # NewId(ts) PROVE FALSE
    OBVIOUS
  <2>2. i \in Free(Spawn(ts, k, at))
    BY <2>1 DEF Free, Spawn
  <2>3. QED
    BY <2>2, <1>4
<1>6. Free(ts) = {NewId(ts)}
  BY <1>3, <1>5
<1>7. Cardinality({NewId(ts)}) = 1
  BY FS_Singleton
<1>8. QED
  BY <1>6, <1>7

LEMMA AnswerIsState ==
    ASSUME TypeInv, Answered(0)
    PROVE  Answer \in StateReplies
<1>1. Expected(Head(comm.line), tasks, poll)
  BY SeqHead DEF TypeInv, Fits, Calls, Lined, Answered, Calling
<1>2. \A u \in tasks : u.id \in 1..MaxTasks
  BY TaskOpened DEF TypeInv, Fits, TaskSet
<1>3. Head(comm.line).method = "state"
  BY <1>1, <1>2, ConstantsTyped DEF Expected, Answered, Calling
<1>4. QED
  BY <1>3 DEF TypeInv, Fits, Calls, AnswerFits, AnswersTo, Answered, Answer

LEMMA PollAnsweredTyped ==
    ASSUME TypeInv, PollAnswered
    PROVE  TypeInv'
<1> DEFINE yes == TRUE
           no  == FALSE
<1>0. yes \in BOOLEAN /\ no \in BOOLEAN
  OBVIOUS
<1>1. ManagerOk(m')
  <2>1. PICK b \in BOOLEAN : b = (m.pause_pending /\ Answer.re # "paused")
    OBVIOUS
  <2>2. PICK x : x = [m EXCEPT !.count = 0, !.known = yes, !.pause_pending = b]
    OBVIOUS
  <2>3. ManagerOk(x)
    BY <2>2, <1>0, ManagerChanged, ConstantsTyped DEF TypeInv
  <2>4. m' = AfterPoll(x, Answer)
    BY <2>1, <2>2 DEF PollAnswered
  <2>5. QED
    BY <2>3, <2>4, AfterPollTyped, ConstantsTyped
<1>2. Fits(comm', tasks', poll') /\ poll' \in {"sleep", "asks"}
  <2>1. Calling(0)
    BY DEF PollAnswered, Answered
  <2>2. Fits(HangUp(comm), tasks, "sleep")
    BY <2>1, PollLeaves DEF TypeInv
  <2>3. Free(tasks) # {} /\ Free(Spawn(tasks, "unexp", "begin")) # {}
    BY SpawnLeavesRoom, ConstantsTyped DEF PollAnswered
  <2>4. /\ "unexp" \in Kinds /\ "report" \in Kinds
        /\ "begin" \in Places["unexp"] /\ "begin" \in Places["report"]
    BY KindsAre, PlacesAre
  <2>5. PICK exits : exits = IF Answer.unexpected THEN Spawn(tasks, "unexp", "begin") ELSE tasks
    OBVIOUS
  <2>6. Fits(HangUp(comm), exits, "sleep") /\ Free(exits) # {}
    <3>1. CASE Answer.unexpected
      BY <3>1, <2>2, <2>3, <2>4, <2>5, Spawns
    <3>2. CASE ~ Answer.unexpected
      BY <3>2, <2>2, <2>3, <2>5
    <3>3. QED
      BY <3>1, <3>2
  <2>7. Fits(HangUp(comm), Spawn(exits, "report", "begin"), "sleep")
    BY <2>4, <2>6, Spawns
  <2>8. /\ tasks' = exits \/ tasks' = Spawn(exits, "report", "begin")
        /\ comm' = HangUp(comm) /\ poll' = "sleep"
    BY <2>5 DEF PollAnswered
  <2>9. QED
    BY <2>6, <2>7, <2>8
<1>3. World'
  BY DEF PollAnswered, TypeInv, World
<1>4. QED
  BY <1>1, <1>2, <1>3 DEF TypeInv, World

LEMMA PollTimesOutTyped ==
    ASSUME TypeInv, PollTimesOut
    PROVE  TypeInv'
<1> DEFINE yes == TRUE
           no  == FALSE
<1>0. yes \in BOOLEAN /\ no \in BOOLEAN
  OBVIOUS
<1>1. ManagerOk(m')
  <2>1. m.count \in 0..TimeoutLimit
    BY DEF TypeInv, ManagerOk
  <2>2. PICK n \in 0..TimeoutLimit : n = IF m.count < TimeoutLimit THEN m.count + 1 ELSE m.count
    BY <2>1, ConstantsTyped
  <2>3. PICK x : x = [m EXCEPT !.count = 0, !.handled = yes]
    OBVIOUS
  <2>4. ManagerOk(x) /\ ManagerOk([m EXCEPT !.count = n])
    BY <2>3, <1>0, ManagerChanged, ConstantsTyped DEF TypeInv
  <2>5. ManagerOk(Complete(x, "true")) /\ ManagerOk(Complete(x, "false"))
    BY <2>4, CompleteTyped, ConstantsTyped
  <2>6. m' \in {m, [m EXCEPT !.count = n], x, Complete(x, "true"), Complete(x, "false")}
    BY <2>2, <2>3 DEF PollTimesOut
  <2>7. QED
    BY <2>4, <2>5, <2>6 DEF TypeInv
<1>2. Fits(comm', tasks', poll') /\ poll' \in {"sleep", "asks"}
  <2>1. Calling(0)
    BY DEF PollTimesOut, TimedOut
  <2>2. Fits(HangUp(comm), tasks, "sleep")
    BY <2>1, PollLeaves DEF TypeInv
  <2>3. Free(tasks) # {} /\ "kill" \in Kinds /\ "kill" \in Places["kill"]
    BY KindsAre, PlacesAre DEF PollTimesOut, Room
  <2>4. Fits(HangUp(comm), Spawn(tasks, "kill", "kill"), "sleep")
    BY <2>2, <2>3, Spawns
  <2>5. /\ tasks' = tasks \/ tasks' = Spawn(tasks, "kill", "kill")
        /\ comm' = HangUp(comm) /\ poll' = "sleep"
    BY DEF PollTimesOut
  <2>6. QED
    BY <2>2, <2>4, <2>5
<1>3. World'
  BY DEF PollTimesOut, TypeInv, World
<1>4. QED
  BY <1>1, <1>2, <1>3 DEF TypeInv, World

-----------------------------------------------------------------------------
(* Plans and their reports. *)

LEMMA SetSpawns ==
    ASSUME NEW c, NEW ts, NEW p, Fits(c, ts, p), Free(ts) # {}, NEW at \in {"idle", "idle_auto", "paused"}
    PROVE  Fits(c, Spawn(ts, "set", at), p)
<1>1. "set" \in Kinds /\ at \in Places["set"]
  BY KindsAre, PlacesAre
<1>2. QED
  BY <1>1, Spawns

LEMMA PlanBeginsTyped ==
    ASSUME TypeInv, NEW t \in tasks, PlanBegins(t)
    PROVE  TypeInv'
<1> DEFINE yes == TRUE
           no  == FALSE
<1>0. yes \in BOOLEAN /\ no \in BOOLEAN
  OBVIOUS
<1>1. ManagerOk(m')
  <2>1. m' = m \/ m' = [m EXCEPT !.pause_pending = no]
    BY DEF PlanBegins, BeginsUnless
  <2>3. CASE m' = m
    BY <2>3, <1>0, ManagerChanged, ConstantsTyped DEF TypeInv
  <2>4. CASE m' = [m EXCEPT !.pause_pending = no]
    BY <2>4, <1>0, ManagerChanged, ConstantsTyped DEF TypeInv
  <2>5. QED
    BY <2>1, <2>3, <2>4
<1>2. Fits(comm', tasks', poll') /\ poll' \in {"sleep", "asks"}
  <2>1. Resting(t)
    BY RestsAt DEF PlanBegins, BeginsUnless, At
  <2>2. /\ "prepare" \in Places[t.kind] /\ "reset" \in Places[t.kind] /\ t \in Task
        /\ t.kind = "plan" /\ "reset" \in Methods
    BY PlacesAre DEF PlanBegins, BeginsUnless, At, TypeInv, Fits, TaskSet, Methods
  <2>3. \/ /\ \E at \in {"idle", "idle_auto", "paused"} : tasks' = Spawn(tasks \ {t}, "set", at)
           /\ comm' = comm
        \/ /\ store.queue # <<>> /\ comm' = comm
           /\ tasks' = (tasks \ {t}) \cup {[t EXCEPT !.at = "prepare", !.plan = Head(store.queue)]}
        \/ /\ tasks' = (tasks \ {t}) \cup {[t EXCEPT !.at = "reset"]}
           /\ comm' = Call(comm, t.id, "reset", NoPlan)
    BY DEF PlanBegins, BeginsUnless, Goto, Finish
  <2>4. poll' = poll
    BY DEF PlanBegins, BeginsUnless
  <2>5. CASE /\ \E at \in {"idle", "idle_auto", "paused"} : tasks' = Spawn(tasks \ {t}, "set", at)
             /\ comm' = comm
    BY <2>1, <2>4, <2>5, Finishes, SetSpawns DEF TypeInv
  <2>6. CASE /\ store.queue # <<>> /\ comm' = comm
             /\ tasks' = (tasks \ {t}) \cup {[t EXCEPT !.at = "prepare", !.plan = Head(store.queue)]}
    <3>1. Head(store.queue) \in Plan
      BY <2>6, SeqHead DEF TypeInv, Store
    <3>2. PICK u : u = [t EXCEPT !.at = "prepare", !.plan = Head(store.queue)]
      OBVIOUS
    <3>3. u \in Task /\ u.id = t.id
      BY <2>2, <3>1, <3>2, TaskTakes
    <3>4. Fits(comm, (tasks \ {t}) \cup {u}, poll)
      BY <2>1, <3>3, Becomes DEF TypeInv
    <3>5. QED
      BY <2>4, <2>6, <3>2, <3>4 DEF TypeInv
  <2>7. CASE /\ tasks' = (tasks \ {t}) \cup {[t EXCEPT !.at = "reset"]}
             /\ comm' = Call(comm, t.id, "reset", NoPlan)
    <3>1. PICK u : u = [t EXCEPT !.at = "reset"]
      OBVIOUS
    <3>2. u \in Task /\ u.id = t.id /\ u.kind = t.kind /\ u.at = "reset"
      BY <2>2, <3>1, TaskGoes
    <3>3. Waits(u, "reset")
      BY <2>2, <3>2 DEF Waits
    <3>4. Fits(Call(comm, t.id, "reset", NoPlan), (tasks \ {t}) \cup {u}, poll)
      BY <2>1, <2>2, <3>2, <3>3, BecomesCalling DEF TypeInv
    <3>5. QED
      BY <2>4, <2>7, <3>1, <3>4 DEF TypeInv
  <2>8. QED
    BY <2>3, <2>5, <2>6, <2>7
<1>3. World'
  BY DEF PlanBegins, BeginsUnless, TypeInv, World
<1>4. QED
  BY <1>1, <1>2, <1>3 DEF TypeInv, World

LEMMA PlanPreparedTyped ==
    ASSUME TypeInv, NEW t \in tasks, PlanPrepared(t)
    PROVE  TypeInv'
<1>1. ManagerOk(m')
  <2>1. m' = m \/ m' = [m EXCEPT !.state = "idle"]
    BY DEF PlanPrepared, Prepared
  <2>2. "idle" \in MState
    BY DEF MState
  <2>3. CASE m' = m
    BY <2>3, <2>2, ManagerChanged, ConstantsTyped DEF TypeInv
  <2>4. CASE m' = [m EXCEPT !.state = "idle"]
    BY <2>4, <2>2, ManagerChanged, ConstantsTyped DEF TypeInv
  <2>5. QED
    BY <2>1, <2>3, <2>4
<1>2. Fits(comm', tasks', poll') /\ poll' \in {"sleep", "asks"}
  <2>1. Resting(t)
    BY RestsAt DEF PlanPrepared, Prepared, At
  <2>2. /\ "reset" \in Places[t.kind] /\ t \in Task
        /\ t.kind = "plan" /\ "reset" \in Methods
    BY PlacesAre DEF PlanPrepared, Prepared, At, TypeInv, Fits, TaskSet, Methods
  <2>3. \/ tasks' = tasks \ {t} /\ comm' = comm
        \/ /\ tasks' = (tasks \ {t}) \cup {[t EXCEPT !.at = "reset"]}
           /\ comm' = Call(comm, t.id, "reset", NoPlan)
    BY DEF PlanPrepared, Prepared, Goto, Finish
  <2>4. poll' = poll
    BY DEF PlanPrepared, Prepared
  <2>5. CASE tasks' = tasks \ {t} /\ comm' = comm
    BY <2>1, <2>4, <2>5, Finishes DEF TypeInv
  <2>6. CASE /\ tasks' = (tasks \ {t}) \cup {[t EXCEPT !.at = "reset"]}
             /\ comm' = Call(comm, t.id, "reset", NoPlan)
    <3>1. PICK u : u = [t EXCEPT !.at = "reset"]
      OBVIOUS
    <3>2. u \in Task /\ u.id = t.id /\ u.kind = t.kind /\ u.at = "reset"
      BY <2>2, <3>1, TaskGoes
    <3>3. Waits(u, "reset")
      BY <2>2, <3>2 DEF Waits
    <3>4. Fits(Call(comm, t.id, "reset", NoPlan), (tasks \ {t}) \cup {u}, poll)
      BY <2>1, <2>2, <3>2, <3>3, BecomesCalling DEF TypeInv
    <3>5. QED
      BY <2>4, <2>6, <3>1, <3>4 DEF TypeInv
  <2>7. QED
    BY <2>3, <2>5, <2>6
<1>3. store' \in Store
  BY DEF PlanPrepared, Prepared, TypeInv
<1>4. worker' \in [Processes -> Worker] /\ watched' \in Processes \cup {0}
  BY DEF PlanPrepared, Prepared, TypeInv
<1>5. locked' \in Plan \cup {NoPlan}
  <2>1. t.plan \in Plan \cup {NoPlan}
    BY TaskOpened DEF TypeInv, Fits, TaskSet
  <2>2. QED
    BY <2>1 DEF PlanPrepared, Prepared, TypeInv
<1>6. QED
  BY <1>1, <1>2, <1>3, <1>4, <1>5 DEF TypeInv

LEMMA PlanResetTyped ==
    ASSUME TypeInv, NEW t \in tasks, PlanReset(t)
    PROVE  TypeInv'
<1>1. ManagerOk(m')
  <2>1. m' = m \/ m' = [m EXCEPT !.state = "idle"]
    BY DEF PlanReset
  <2>2. "idle" \in MState
    BY DEF MState
  <2>3. CASE m' = m
    BY <2>3, <2>2, ManagerChanged, ConstantsTyped DEF TypeInv
  <2>4. CASE m' = [m EXCEPT !.state = "idle"]
    BY <2>4, <2>2, ManagerChanged, ConstantsTyped DEF TypeInv
  <2>5. QED
    BY <2>1, <2>3, <2>4
<1>2. Fits(comm', tasks', poll') /\ poll' \in {"sleep", "asks"}
  <2>1. Calling(t.id)
    BY DEF PlanReset, Accepted, Refused, Answered, TimedOut
  <2>2. "run" \in Places[t.kind] /\ t \in Task /\ t.kind = "plan" /\ "run" \in Methods
    BY PlacesAre DEF PlanReset, At, TypeInv, Fits, TaskSet, Methods
  <2>3. \/ tasks' = tasks \ {t} /\ comm' = HangUp(comm)
        \/ /\ store.queue # <<>>
           /\ tasks' = (tasks \ {t}) \cup {[t EXCEPT !.at = "run"]}
           /\ comm' = Call(HangUp(comm), t.id, "run", Head(store.queue))
    BY DEF PlanReset, Goto, Finish
  <2>4. poll' = poll
    BY DEF PlanReset
  <2>5. CASE tasks' = tasks \ {t} /\ comm' = HangUp(comm)
    BY <2>1, <2>4, <2>5, HangsUp DEF TypeInv
  <2>6. CASE /\ store.queue # <<>>
             /\ tasks' = (tasks \ {t}) \cup {[t EXCEPT !.at = "run"]}
             /\ comm' = Call(HangUp(comm), t.id, "run", Head(store.queue))
    <3>1. PICK u : u = [t EXCEPT !.at = "run"]
      OBVIOUS
    <3>2. u \in Task /\ u.id = t.id /\ u.kind = t.kind /\ u.at = "run"
      BY <2>2, <3>1, TaskGoes
    <3>3. Waits(u, "run")
      BY <2>2, <3>2 DEF Waits
    <3>4. Head(store.queue) \in Plan
      BY <2>6, SeqHead DEF TypeInv, Store
    <3>5. Fits(Call(HangUp(comm), t.id, "run", Head(store.queue)), (tasks \ {t}) \cup {u}, poll)
      BY <2>1, <2>2, <3>2, <3>3, <3>4, HangsUpCalling DEF TypeInv
    <3>6. QED
      BY <2>4, <2>6, <3>1, <3>5 DEF TypeInv
  <2>7. QED
    BY <2>3, <2>5, <2>6
<1>3. store' \in Store
  <2>1. \/ store' = store
        \/ /\ store.queue # <<>>
           /\ store' = [store EXCEPT !.running = Head(store.queue), !.queue = Tail(store.queue)]
    BY DEF PlanReset
  <2>2. CASE store' = store
    BY <2>2 DEF TypeInv
  <2>3. CASE /\ store.queue # <<>>
             /\ store' = [store EXCEPT !.running = Head(store.queue), !.queue = Tail(store.queue)]
    <3>1. store \in Store /\ store.queue \in Seq(Plan)
      BY DEF TypeInv, Store
    <3>2. Head(store.queue) \in Plan \cup {NoPlan} /\ Tail(store.queue) \in Seq(Plan)
      BY <2>3, <3>1, SeqHead
    <3>3. QED
      BY <2>3, <3>1, <3>2, StoreChanged
  <2>4. QED
    BY <2>1, <2>2, <2>3
<1>4. worker' \in [Processes -> Worker] /\ watched' \in Processes \cup {0}
  BY DEF PlanReset, TypeInv
<1>5. locked' \in Plan \cup {NoPlan}
  BY DEF PlanReset, MayUnlock, TypeInv
<1>6. QED
  BY <1>1, <1>2, <1>3, <1>4, <1>5 DEF TypeInv

LEMMA PlanStartedTyped ==
    ASSUME TypeInv, NEW t \in tasks, PlanStarted(t)
    PROVE  TypeInv'
<1>1. ManagerOk(m')
  <2>1. m' = [m EXCEPT !.state = "executing_queue"] \/ m' = [m EXCEPT !.state = "idle"]
    BY DEF PlanStarted
  <2>2. "executing_queue" \in MState /\ "idle" \in MState
    BY DEF MState
  <2>3. CASE m' = [m EXCEPT !.state = "executing_queue"]
    BY <2>3, <2>2, ManagerChanged, ConstantsTyped DEF TypeInv
  <2>4. CASE m' = [m EXCEPT !.state = "idle"]
    BY <2>4, <2>2, ManagerChanged, ConstantsTyped DEF TypeInv
  <2>5. QED
    BY <2>1, <2>3, <2>4
<1>2. Fits(comm', tasks', poll') /\ poll' \in {"sleep", "asks"}
  <2>1. Calling(t.id)
    BY DEF PlanStarted, Accepted, Refused, Answered, TimedOut
  <2>2. tasks' = tasks \ {t} /\ comm' = HangUp(comm) /\ poll' = poll
    BY DEF PlanStarted, Finish
  <2>3. QED
    BY <2>1, <2>2, HangsUp DEF TypeInv
<1>3. store' \in Store
  <2>1. store' = store \/ store' = SetStopped(store, "failed")
    BY DEF PlanStarted
  <2>2. "failed" \in Outcome
    BY DEF Outcome
  <2>3. QED
    BY <2>1, <2>2, SetTyped DEF TypeInv
<1>4. worker' \in [Processes -> Worker] /\ watched' \in Processes \cup {0}
  BY DEF PlanStarted, TypeInv
<1>5. locked' \in Plan \cup {NoPlan}
  BY DEF PlanStarted, MayUnlock, TypeInv
<1>6. QED
  BY <1>1, <1>2, <1>3, <1>4, <1>5 DEF TypeInv

LEMMA PlanReleasedTyped ==
    ASSUME TypeInv, NEW t \in tasks, PlanReleased(t)
    PROVE  TypeInv'
<1>1. ManagerOk(m')
  BY DEF PlanReleased, TypeInv
<1>2. Fits(comm', tasks', poll') /\ poll' \in {"sleep", "asks"}
  <2>1. Resting(t)
    BY RestsAt DEF PlanReleased, At
  <2>2. "begin" \in Places[t.kind] /\ t \in Task
    BY PlacesAre DEF PlanReleased, At, TypeInv, Fits, TaskSet
  <2>3. /\ tasks' = (tasks \ {t}) \cup {[t EXCEPT !.at = "begin"]} \/ tasks' = Spawn(tasks \ {t}, "set", "idle_auto")
        /\ comm' = comm /\ poll' = poll
    BY DEF PlanReleased, Goto, Finish
  <2>4. CASE tasks' = (tasks \ {t}) \cup {[t EXCEPT !.at = "begin"]}
    <3>1. PICK u : u = [t EXCEPT !.at = "begin"]
      OBVIOUS
    <3>2. u \in Task /\ u.id = t.id
      BY <2>2, <3>1, TaskGoes
    <3>3. Fits(comm, (tasks \ {t}) \cup {u}, poll)
      BY <2>1, <3>2, Becomes DEF TypeInv
    <3>4. QED
      BY <2>3, <2>4, <3>1, <3>3 DEF TypeInv
  <2>5. CASE tasks' = Spawn(tasks \ {t}, "set", "idle_auto")
    <3>1. Fits(comm, tasks \ {t}, poll) /\ Free(tasks \ {t}) # {}
      BY <2>1, Finishes DEF TypeInv
    <3>2. Fits(comm, Spawn(tasks \ {t}, "set", "idle_auto"), poll)
      BY <3>1, SetSpawns
    <3>3. QED
      BY <2>3, <2>5, <3>2 DEF TypeInv
  <2>6. QED
    BY <2>3, <2>4, <2>5
<1>3. World'
  BY DEF PlanReleased, TypeInv, World
<1>4. QED
  BY <1>1, <1>2, <1>3 DEF TypeInv, World

LEMMA ReportUnlockedTyped ==
    ASSUME TypeInv, NEW t \in tasks, ReportUnlocked(t)
    PROVE  TypeInv'
<1>1. ManagerOk(m')
  BY DEF ReportUnlocked, TypeInv
<1>2. Fits(comm', tasks', poll') /\ poll' \in {"sleep", "asks"}
  <2>1. Resting(t)
    BY RestsAt DEF ReportUnlocked, At
  <2>2. tasks' = Spawn(tasks \ {t}, "set", "idle_auto") /\ comm' = comm /\ poll' = poll
    BY DEF ReportUnlocked, Finish
  <2>3. Fits(comm, tasks \ {t}, poll) /\ Free(tasks \ {t}) # {}
    BY <2>1, Finishes DEF TypeInv
  <2>4. Fits(comm, Spawn(tasks \ {t}, "set", "idle_auto"), poll)
    BY <2>3, SetSpawns
  <2>5. QED
    BY <2>2, <2>4 DEF TypeInv
<1>3. World'
  BY DEF ReportUnlocked, MayUnlock, TypeInv, World
<1>4. QED
  BY <1>1, <1>2, <1>3 DEF TypeInv, World

LEMMA ReportAskedTyped ==
    ASSUME TypeInv, NEW t \in tasks, ReportAsked(t)
    PROVE  TypeInv'
<1>1. ManagerOk(m')
  BY DEF ReportAsked, TypeInv
<1>2. Fits(comm', tasks', poll') /\ poll' \in {"sleep", "asks"}
  <2>1. Resting(t)
    BY RestsAt DEF ReportAsked, At
  <2>2. "fetch" \in Places[t.kind] /\ t \in Task /\ t.kind = "report" /\ "report" \in Methods
    BY PlacesAre DEF ReportAsked, At, TypeInv, Fits, TaskSet, Methods
  <2>3. PICK u : u = [t EXCEPT !.at = "fetch"]
    OBVIOUS
  <2>4. u \in Task /\ u.id = t.id /\ u.kind = t.kind /\ u.at = "fetch"
    BY <2>2, <2>3, TaskGoes
  <2>5. Waits(u, "report")
    BY <2>2, <2>4 DEF Waits
  <2>6. Fits(Call(comm, t.id, "report", NoPlan), (tasks \ {t}) \cup {u}, poll)
    BY <2>1, <2>2, <2>4, <2>5, BecomesCalling DEF TypeInv
  <2>7. QED
    BY <2>3, <2>6 DEF ReportAsked, Goto, Finish, TypeInv
<1>3. World'
  BY DEF ReportAsked, TypeInv, World
<1>4. QED
  BY <1>1, <1>2, <1>3 DEF TypeInv, World

LEMMA ReportRetriedTyped ==
    ASSUME TypeInv, NEW t \in tasks, ReportRetried(t)
    PROVE  TypeInv'
<1>1. ManagerOk(m')
  BY DEF ReportRetried, TypeInv
<1>2. Fits(comm', tasks', poll') /\ poll' \in {"sleep", "asks"}
  <2>1. Calling(t.id)
    BY DEF ReportRetried, Accepted, Refused, Answered, TimedOut
  <2>2. "again" \in Places[t.kind] /\ t \in Task /\ t.kind = "report" /\ "report" \in Methods
    BY PlacesAre DEF ReportRetried, At, TypeInv, Fits, TaskSet, Methods
  <2>3. PICK u : u = [t EXCEPT !.at = "again"]
    OBVIOUS
  <2>4. u \in Task /\ u.id = t.id /\ u.kind = t.kind /\ u.at = "again"
    BY <2>2, <2>3, TaskGoes
  <2>5. Waits(u, "report")
    BY <2>2, <2>4 DEF Waits
  <2>6. Fits(Call(HangUp(comm), t.id, "report", NoPlan), (tasks \ {t}) \cup {u}, poll)
    BY <2>1, <2>2, <2>4, <2>5, HangsUpCalling DEF TypeInv
  <2>7. QED
    BY <2>3, <2>6 DEF ReportRetried, Goto, Finish, TypeInv
<1>3. World'
  BY DEF ReportRetried, TypeInv, World
<1>4. QED
  BY <1>1, <1>2, <1>3 DEF TypeInv, World

LEMMA ReportLostTyped ==
    ASSUME TypeInv, NEW t \in tasks, ReportLost(t)
    PROVE  TypeInv'
<1> DEFINE yes == TRUE
           no  == FALSE
<1>0. yes \in BOOLEAN /\ no \in BOOLEAN
  OBVIOUS
<1>1. ManagerOk(m')
  <2>1. m' = [m EXCEPT !.state = "idle", !.pause_pending = no]
    BY DEF ReportLost
  <2>2. "idle" \in MState
    BY DEF MState
  <2>3. QED
    BY <2>1, <2>2, <1>0, ManagerChanged, ConstantsTyped DEF TypeInv
<1>2. Fits(comm', tasks', poll') /\ poll' \in {"sleep", "asks"}
  <2>1. Calling(t.id)
    BY DEF ReportLost, Accepted, Refused, Answered, TimedOut
  <2>2. tasks' = tasks \ {t} /\ comm' = HangUp(comm) /\ poll' = poll
    BY DEF ReportLost, Finish
  <2>3. QED
    BY <2>1, <2>2, HangsUp DEF TypeInv
<1>3. store' \in Store
  <2>1. store' = SetStopped(store, "failed") /\ "failed" \in Outcome
    BY DEF ReportLost, Outcome
  <2>2. QED
    BY <2>1, SetTyped DEF TypeInv
<1>4. worker' \in [Processes -> Worker] /\ watched' \in Processes \cup {0}
  BY DEF ReportLost, TypeInv
<1>5. locked' \in Plan \cup {NoPlan}
  BY DEF ReportLost, MayUnlock, TypeInv
<1>6. QED
  BY <1>1, <1>2, <1>3, <1>4, <1>5 DEF TypeInv

LEMMA ReportIs ==
    ASSUME TypeInv, NEW t \in tasks, t.kind = "report", Answered(t.id)
    PROVE  Answer \in Outcome \cup {"none"}
<1>1. Waits(t, Head(comm.line).method) /\ Answer \in AnswersTo(Head(comm.line).method)
  BY AnswerTyped DEF TypeInv, Fits
<1>2. Head(comm.line).method = "report"
  BY <1>1 DEF Waits
<1>3. QED
  BY <1>1, <1>2 DEF AnswersTo

LEMMA ReportProcessedTyped ==
    ASSUME TypeInv, NEW t \in tasks, ReportProcessed(t)
    PROVE  TypeInv'
<1>1. ManagerOk(m')
  BY DEF ReportProcessed, TypeInv
<1>2. Fits(comm', tasks', poll') /\ poll' \in {"sleep", "asks"}
  <2>1. Calling(t.id) /\ t \in Task
    BY DEF ReportProcessed, Answered, TypeInv, Fits, TaskSet
  <2>2. comm' = HangUp(comm) /\ poll' = poll
    BY DEF ReportProcessed
  <2>3. Answer \in {"completed", "failed", "stopped", "aborted", "paused"}
    BY ReportIs DEF ReportProcessed, Outcome
  <2>4. Fits(HangUp(comm), tasks \ {t}, poll) /\ Free(tasks \ {t}) # {}
    BY <2>1, HangsUp DEF TypeInv
  <2>5. CASE Answer = "completed"
    <3>1. PICK u : u = [t EXCEPT !.kind = "plan", !.at = "release"]
      OBVIOUS
    <3>2. "plan" \in Kinds /\ "release" \in Places["plan"]
      BY KindsAre, PlacesAre
    <3>3. u \in Task /\ u.id = t.id
      <4>1. PICK k \in Kinds : k = "plan"
        BY <3>2
      <4>2. PICK at \in Places[k] : at = "release"
        BY <3>2, <4>1
      <4>3. u = [t EXCEPT !.kind = k, !.at = at]
        BY <3>1, <4>1, <4>2
      <4>4. u \in OfKind(k) /\ u.id = t.id
        BY <2>1, <4>3, TaskOfKind DEF OfKind
      <4>5. QED
        BY <4>4, TaskOfKind
    <3>4. Fits(HangUp(comm), (tasks \ {t}) \cup {u}, poll)
      BY <2>1, <3>3, HangsUpBecomes DEF TypeInv
    <3>5. tasks' = (tasks \ {t}) \cup {u}
      BY <2>5, <3>1 DEF ReportProcessed, Finish
    <3>6. QED
      BY <2>2, <3>4, <3>5 DEF TypeInv
  <2>6. CASE Answer \in {"failed", "stopped", "aborted"}
    <3>1. PICK u : u = [t EXCEPT !.at = "unlock"]
      OBVIOUS
    <3>2. "unlock" \in Places[t.kind]
      BY PlacesAre DEF ReportProcessed
    <3>3. u \in Task /\ u.id = t.id
      BY <2>1, <3>1, <3>2, TaskGoes
    <3>4. Fits(HangUp(comm), (tasks \ {t}) \cup {u}, poll)
      BY <2>1, <3>3, HangsUpBecomes DEF TypeInv
    <3>5. tasks' = (tasks \ {t}) \cup {u}
      BY <2>6, <3>1 DEF ReportProcessed, Finish
    <3>6. QED
      BY <2>2, <3>4, <3>5 DEF TypeInv
  <2>7. CASE Answer = "paused"
    <3>1. tasks' = Spawn(tasks \ {t}, "set", "paused")
      BY <2>7 DEF ReportProcessed, Finish
    <3>2. QED
      BY <2>2, <2>4, <3>1, SetSpawns DEF TypeInv
  <2>8. QED
    BY <2>3, <2>5, <2>6, <2>7
<1>3. store' \in Store
  <2>1. Answer \in {"completed", "failed", "stopped", "aborted", "paused"}
    BY ReportIs DEF ReportProcessed, Outcome
  <2>2. store' = store \/ store' = SetCompleted(store, "completed") \/ store' = SetStopped(store, Answer)
    BY <2>1 DEF ReportProcessed
  <2>3. "completed" \in Outcome /\ Answer \in Outcome
    BY <2>1 DEF Outcome
  <2>4. QED
    BY <2>2, <2>3, SetTyped DEF TypeInv
<1>4. worker' \in [Processes -> Worker] /\ watched' \in Processes \cup {0}
  BY DEF ReportProcessed, TypeInv
<1>5. locked' \in Plan \cup {NoPlan}
  BY DEF ReportProcessed, TypeInv
<1>6. QED
  BY <1>1, <1>2, <1>3, <1>4, <1>5 DEF TypeInv

-----------------------------------------------------------------------------
(* A manager that starts, and the worker. *)

LEMMA ManagerRestartsTyped ==
    ASSUME TypeInv, ManagerRestarts
    PROVE  TypeInv'
<1> DEFINE yes == TRUE
           no  == FALSE
<1>0. yes \in BOOLEAN /\ no \in BOOLEAN
  OBVIOUS
<1>1. ManagerOk(m')
  <2>1. m' = [state |-> "initializing", env_exists |-> no, fut |-> "none", pause_pending |-> no,
              count |-> 0, handled |-> no, known |-> no]
    BY DEF ManagerRestarts, Restarted
  <2>2. QED
    BY <2>1, <1>0, ConstantsTyped DEF ManagerOk, Manager, MState
<1>2. Fits(comm', tasks', poll') /\ poll' \in {"sleep", "asks"}
  <2>1. PICK pipe : pipe = [i \in DOMAIN comm.pipe |-> [comm.pipe[i] EXCEPT !.from = Nobody]]
    OBVIOUS
  <2>2. comm.pipe \in Seq(Request) /\ \A i \in 1..Len(comm.pipe) : ArgGiven(comm.pipe[i])
    BY DEF TypeInv, Fits, Calls, Piped
  <2>3. \A i \in 1..Len(comm.pipe) : /\ [comm.pipe[i] EXCEPT !.from = Nobody] \in Request
                                    /\ [comm.pipe[i] EXCEPT !.from = Nobody].from = Nobody
                                    /\ ArgGiven([comm.pipe[i] EXCEPT !.from = Nobody])
    <3>1. SUFFICES ASSUME NEW i \in 1..Len(comm.pipe)
                   PROVE  /\ [comm.pipe[i] EXCEPT !.from = Nobody] \in Request
                          /\ [comm.pipe[i] EXCEPT !.from = Nobody].from = Nobody
                          /\ ArgGiven([comm.pipe[i] EXCEPT !.from = Nobody])
      OBVIOUS
    <3>2. PICK e : e = comm.pipe[i]
      OBVIOUS
    <3>3. e \in Request /\ ArgGiven(e) /\ Nobody \in 0..(MaxTasks + 1)
      BY <2>2, <3>2, ConstantsTyped, ElementOfSeq DEF Nobody
    <3>4. [e EXCEPT !.from = Nobody] \in Request /\ [e EXCEPT !.from = Nobody].from = Nobody
          /\ ArgGiven([e EXCEPT !.from = Nobody])
      BY <3>3 DEF Request, ArgGiven
    <3>5. QED
      BY <3>2, <3>4
  <2>4. DOMAIN comm.pipe = 1..Len(comm.pipe) /\ Len(comm.pipe) \in Nat
    BY <2>2
  <2>5. pipe \in Seq(Request) /\ Len(pipe) = Len(comm.pipe)
    BY <2>1, <2>3, <2>4
  <2>6. \A i \in 1..Len(pipe) : ArgGiven(pipe[i]) /\ pipe[i].from = Nobody
    BY <2>1, <2>3, <2>4, <2>5
  <2>7. /\ comm' = [line |-> <<>>, pipe |-> pipe, answer |-> <<>>]
        /\ poll' = "sleep" /\ tasks' = Spawn({}, "boot", "alive")
    BY <2>1 DEF ManagerRestarts
  <2>8. Calls(comm', {}, "sleep")
    <3>1. comm'.line = <<>> /\ comm'.pipe = pipe /\ comm'.answer = <<>> /\ CommForm(comm')
      BY <2>7 DEF CommForm
    <3>2. QED
      BY <3>1, <2>5, <2>6 DEF Calls, Lined, Piped, AnswerFits
  <2>9. Fits(comm', {}, "sleep")
    BY <2>8, ConstantsTyped DEF Fits, TaskSet
  <2>10. Free({}) # {} /\ "boot" \in Kinds /\ "alive" \in Places["boot"]
    <3>1. 1 \in 1..MaxTasks
      BY ConstantsTyped
    <3>2. 1 \in Free({})
      BY <3>1 DEF Free
    <3>3. QED
      BY <3>2, KindsAre, PlacesAre
  <2>11. QED
    BY <2>7, <2>9, <2>10, Spawns
<1>3. World'
  BY DEF ManagerRestarts, TypeInv, World
<1>4. QED
  BY <1>1, <1>2, <1>3 DEF TypeInv, World

LEMMA BootLooksTyped ==
    ASSUME TypeInv, NEW t \in tasks, BootLooks(t)
    PROVE  TypeInv'
<1> DEFINE yes == TRUE
           no  == FALSE
<1>0. yes \in BOOLEAN /\ no \in BOOLEAN
  OBVIOUS
<1>1. ManagerOk(m')
  <2>1. m' = [m EXCEPT !.env_exists = yes] \/ m' = [m EXCEPT !.state = "idle", !.pause_pending = no, !.known = no]
    BY DEF BootLooks, Boots
  <2>2. "idle" \in MState
    BY DEF MState
  <2>3. CASE m' = [m EXCEPT !.env_exists = yes]
    BY <2>3, <2>2, <1>0, ManagerChanged, ConstantsTyped DEF TypeInv
  <2>4. CASE m' = [m EXCEPT !.state = "idle", !.pause_pending = no, !.known = no]
    BY <2>4, <2>2, <1>0, ManagerChanged, ConstantsTyped DEF TypeInv
  <2>5. QED
    BY <2>1, <2>3, <2>4
<1>2. Fits(comm', tasks', poll') /\ poll' \in {"sleep", "asks"}
  <2>1. Resting(t)
    BY RestsAt DEF BootLooks, At
  <2>2. "state" \in Places[t.kind] /\ t \in Task /\ t.kind = "boot" /\ "state" \in Methods
    BY PlacesAre DEF BootLooks, At, TypeInv, Fits, TaskSet, Methods
  <2>3. PICK u : u = [t EXCEPT !.at = "state"]
    OBVIOUS
  <2>4. u \in Task /\ u.id = t.id /\ u.kind = t.kind /\ u.at = "state"
    BY <2>2, <2>3, TaskGoes
  <2>5. Waits(u, "state")
    BY <2>2, <2>4 DEF Waits
  <2>6. Fits(Call(comm, t.id, "state", NoPlan), (tasks \ {t}) \cup {u}, poll)
    BY <2>1, <2>2, <2>4, <2>5, BecomesCalling DEF TypeInv
  <2>7. Fits(comm, tasks \ {t}, poll)
    BY <2>1, Finishes DEF TypeInv
  <2>8. /\ \/ comm' = Call(comm, t.id, "state", NoPlan) /\ tasks' = (tasks \ {t}) \cup {u}
           \/ comm' = comm /\ tasks' = tasks \ {t}
        /\ poll' = poll
    BY <2>3 DEF BootLooks, Boots, Goto, Finish
  <2>9. QED
    BY <2>6, <2>7, <2>8 DEF TypeInv
<1>3. store' \in Store
  <2>1. store' = store \/ store' = SetCompleted(store, "unknown")
    BY DEF BootLooks, Boots
  <2>2. QED
    BY <2>1, SetTyped DEF TypeInv
<1>4. worker' \in [Processes -> Worker] /\ watched' \in Processes \cup {0}
  BY DEF BootLooks, TypeInv
<1>5. locked' \in Plan \cup {NoPlan}
  BY DEF BootLooks, TypeInv
<1>6. QED
  BY <1>1, <1>2, <1>3, <1>4, <1>5 DEF TypeInv

LEMMA BootAnswer ==
    ASSUME TypeInv, NEW t \in tasks, t.kind = "boot", Answered(t.id)
    PROVE  Answer \in StateReplies
<1>1. Waits(t, Head(comm.line).method) /\ Answer \in AnswersTo(Head(comm.line).method)
  BY AnswerTyped DEF TypeInv, Fits
<1>2. Head(comm.line).method = "state"
  BY <1>1 DEF Waits
<1>3. QED
  BY <1>1, <1>2 DEF AnswersTo

LEMMA BootSeesTyped ==
    ASSUME TypeInv, NEW t \in tasks, BootSees(t)
    PROVE  TypeInv'
<1> DEFINE yes == TRUE
           no  == FALSE
<1>0. yes \in BOOLEAN /\ no \in BOOLEAN
  OBVIOUS
<1>1. ManagerOk(m')
  <2>1. \E s \in MState, b \in BOOLEAN, d \in BOOLEAN : m' = [m EXCEPT !.state = s, !.pause_pending = b, !.known = d]
    <3>1. CASE TimedOut(t.id) /\ Boots(t, "idle", FALSE, FALSE)
      <4>1. m' = [m EXCEPT !.state = "idle", !.pause_pending = no, !.known = no]
        BY <3>1 DEF Boots
      <4>2. "idle" \in MState
        BY DEF MState
      <4>3. QED
        BY <4>1, <4>2, <1>0
    <3>2. CASE ~ (TimedOut(t.id) /\ Boots(t, "idle", FALSE, FALSE))
      <4>1. Answered(t.id)
        BY <3>2 DEF BootSees, BootSeesPlan
      <4>2. Answer.pausing \in BOOLEAN
        BY <4>1, BootAnswer DEF BootSees, BootSeesPlan, At, StateReplies
      <4>3. PICK r \in BOOLEAN : r = (RunningPlan(Answer) /\ store.running # NoPlan)
        OBVIOUS
      <4>4. PICK b \in BOOLEAN : b = (r /\ Answer.pausing)
        OBVIOUS
      <4>5. PICK s : s = IF ~ r THEN "idle" ELSE IF Answer.re = "paused" THEN "paused" ELSE "executing_queue"
        OBVIOUS
      <4>6. s \in MState
        BY <4>5 DEF MState
      <4>7. Boots(t, s, b, yes)
        BY <3>2, <4>3, <4>4, <4>5 DEF BootSees, BootSeesPlan
      <4>8. m' = [m EXCEPT !.state = s, !.pause_pending = b, !.known = yes]
        BY <4>7 DEF Boots
      <4>9. QED
        BY <4>6, <4>8, <1>0
    <3>3. QED
      BY <3>1, <3>2
  <2>2. PICK s \in MState, b \in BOOLEAN, d \in BOOLEAN :
              m' = [m EXCEPT !.state = s, !.pause_pending = b, !.known = d]
    BY <2>1
  <2>3. ManagerOk([m EXCEPT !.state = s, !.pause_pending = b, !.known = d])
    BY ManagerChanged, ConstantsTyped DEF TypeInv
  <2>4. QED
    BY <2>2, <2>3
<1>2. Fits(comm', tasks', poll') /\ poll' \in {"sleep", "asks"}
  <2>1. Calling(t.id)
    BY DEF BootSees, BootSeesPlan, Answered, TimedOut
  <2>2. tasks' = tasks \ {t} /\ comm' = HangUp(comm) /\ poll' = poll
    BY DEF BootSees, BootSeesPlan, Boots, Finish
  <2>3. QED
    BY <2>1, <2>2, HangsUp DEF TypeInv
<1>3. store' \in Store
  <2>1. store' = store \/ store' = SetCompleted(store, "unknown")
    BY DEF BootSees, BootSeesPlan, Boots
  <2>2. QED
    BY <2>1, SetTyped DEF TypeInv
<1>4. worker' \in [Processes -> Worker] /\ watched' \in Processes \cup {0}
  BY DEF BootSees, BootSeesPlan, TypeInv
<1>5. locked' \in Plan \cup {NoPlan}
  BY DEF BootSees, BootSeesPlan, TypeInv
<1>6. QED
  BY <1>1, <1>2, <1>3, <1>4, <1>5 DEF TypeInv

LEMMA ReplyTyped ==
    ASSUME NEW w \in Worker, NEW r \in Request
    PROVE  ReplyOf(w, r) \in AnswersTo(r.method)
<1>1. CASE r.method = "state"
  <2>1. (w.report # "none" /\ ~ w.told) \in BOOLEAN /\ Unexpected(w) \in BOOLEAN
    BY DEF Unexpected
  <2>2. PICK a \in BOOLEAN, x \in BOOLEAN : a = (w.report # "none" /\ ~ w.told) /\ x = Unexpected(w)
    BY <2>1
  <2>3. StateReply(w) = [item |-> w.item, re |-> w.re, env |-> w.env, available |-> a, pausing |-> w.pause,
                         unexpected |-> x]
    BY <2>2 DEF StateReply
  <2>4. StateReply(w) \in StateReplies
    BY <2>3 DEF StateReplies, Worker
  <2>5. QED
    BY <1>1, <2>4 DEF ReplyOf, AnswersTo
<1>2. CASE r.method = "report"
  BY <1>2 DEF ReplyOf, AnswersTo, Worker
<1>3. CASE r.method \notin {"state", "report"}
  <2>1. r.method \in Methods
    BY DEF Request
  <2>2. ReplyOf(w, r) \in BOOLEAN
    BY <1>3, <2>1 DEF ReplyOf, Methods, RunRefused, ResetRefused, PauseRefused, ContinueRefused,
       CloseRefused, ConfirmRefused
  <2>3. QED
    BY <1>3, <2>2 DEF AnswersTo
<1>4. QED
  BY <1>1, <1>2, <1>3

LEMMA ServedTyped ==
    ASSUME NEW w \in Worker, NEW r \in Request, ArgGiven(r)
    PROVE  Served(w, r) \in Worker
<1>1. r.method \in Methods
  BY DEF Request
<1>2. QED
  BY <1>1, HandlersTyped DEF Served, Methods, ArgGiven

LEMMA WorkerServesTyped ==
    ASSUME TypeInv, NEW p \in Processes, WorkerServes(p)
    PROVE  TypeInv'
<1> DEFINE r == Head(comm.pipe)
<1>1. comm.pipe \in Seq(Request) /\ comm.pipe # <<>>
  BY DEF WorkerServes, TypeInv, Fits, Calls, Piped
<1>2. r \in Request /\ r = comm.pipe[1] /\ 1 \in 1..Len(comm.pipe) /\ ArgGiven(r)
  BY <1>1, SeqHead DEF TypeInv, Fits, Calls, Piped
<1>3. worker[p] \in Worker
  BY DEF TypeInv
<1>4. PICK a : a = IF r.from = Nobody THEN comm.answer ELSE <<ReplyOf(worker[p], r)>>
  OBVIOUS
<1>5. /\ worker' = [worker EXCEPT ![p] = Served(worker[p], r)]
      /\ comm' = [line |-> comm.line, pipe |-> Tail(comm.pipe), answer |-> a]
  BY <1>4 DEF WorkerServes
<1>6. comm'.line = comm.line /\ comm'.pipe = Tail(comm.pipe) /\ comm'.answer = a /\ CommForm(comm')
  BY <1>5 DEF CommForm
<1>7. Calls(comm', tasks, poll)
  <2>1. Lined(comm', tasks, poll)
    BY <1>6 DEF TypeInv, Fits, Calls, Lined
  <2>2. Piped(comm')
    <3>1. \A i \in 1..Len(Tail(comm.pipe)) :
             /\ ArgGiven(Tail(comm.pipe)[i])
             /\ Tail(comm.pipe)[i].from # Nobody =>
                   i = Len(Tail(comm.pipe)) /\ comm.line # <<>> /\ Tail(comm.pipe)[i] = Head(comm.line)
      <4>1. TAKE i \in 1..Len(Tail(comm.pipe))
      <4>2. /\ Tail(comm.pipe)[i] = comm.pipe[i + 1] /\ i + 1 \in 1..Len(comm.pipe)
            /\ Len(Tail(comm.pipe)) = Len(comm.pipe) - 1 /\ Len(comm.pipe) \in Nat \ {0}
        BY <1>1, SeqHead
      <4>3. ArgGiven(comm.pipe[i + 1])
        BY <4>2 DEF TypeInv, Fits, Calls, Piped
      <4>4. comm.pipe[i + 1].from # Nobody =>
               i + 1 = Len(comm.pipe) /\ comm.line # <<>> /\ comm.pipe[i + 1] = Head(comm.line)
        BY <4>2 DEF TypeInv, Fits, Calls, Piped
      <4>5. QED
        BY <4>2, <4>3, <4>4
    <3>2. Tail(comm.pipe) \in Seq(Request)
      BY <1>1, SeqHead
    <3>3. QED
      BY <3>1, <3>2, <1>6 DEF Piped
  <2>3. AnswerFits(comm')
    <3>1. CASE r.from = Nobody
      BY <3>1, <1>4, <1>6 DEF TypeInv, Fits, Calls, AnswerFits
    <3>2. CASE r.from # Nobody
      <4>1. comm.line # <<>> /\ r = Head(comm.line)
        BY <3>2, <1>2 DEF TypeInv, Fits, Calls, Piped
      <4>2. ReplyOf(worker[p], r) \in AnswersTo(r.method)
        BY <1>2, <1>3, ReplyTyped
      <4>3. QED
        BY <3>2, <4>1, <4>2, <1>4, <1>6 DEF AnswerFits
    <3>3. QED
      BY <3>1, <3>2
  <2>4. QED
    BY <2>1, <2>2, <2>3, <1>6 DEF Calls
<1>8. Served(worker[p], r) \in Worker
  BY <1>2, <1>3, ServedTyped
<1>9. UNCHANGED <<m, tasks, poll, store, watched, locked>>
  BY DEF WorkerServes
<1>10. worker' \in [Processes -> Worker]
  BY <1>5, <1>8 DEF TypeInv
<1> HIDE DEF r
<1>11. QED
  BY <1>7, <1>9, <1>10 DEF TypeInv, Fits

LEMMA WorkerListensTyped ==
    ASSUME TypeInv, NEW p \in Processes, WorkerListens(p)
    PROVE  TypeInv'
<1>1. worker' \in [Processes -> Worker]
  BY MainThreadTyped DEF TypeInv, WorkerListens
<1>2. CommForm(comm) /\ comm' = [comm EXCEPT !.pipe = <<>>]
  BY DEF WorkerListens, TypeInv, Fits, Calls
<1>3. comm'.line = comm.line /\ comm'.pipe = <<>> /\ comm'.answer = comm.answer /\ CommForm(comm')
  BY <1>2 DEF CommForm
<1>4. Calls(comm', tasks, poll)
  <2>1. Lined(comm', tasks, poll) /\ AnswerFits(comm')
    BY <1>3 DEF TypeInv, Fits, Calls, Lined, AnswerFits
  <2>2. Piped(comm')
    BY <1>3 DEF Piped
  <2>3. QED
    BY <2>1, <2>2, <1>3 DEF Calls
<1>5. UNCHANGED <<m, tasks, poll, store, watched, locked>>
  BY DEF WorkerListens
<1>6. QED
  BY <1>1, <1>4, <1>5 DEF TypeInv, Fits

LEMMA WorkerRunsTyped ==
    ASSUME TypeInv, NEW p \in Processes, WorkerRuns(p) \/ WorkerDies(p)
    PROVE  TypeInv'
<1>1. worker' \in [Processes -> Worker]
  BY MainThreadTyped, WorkersTyped DEF TypeInv, WorkerRuns, WorkerDies
<1>2. UNCHANGED <<m, tasks, poll, comm, store, watched, locked>>
  BY DEF WorkerRuns, WorkerDies
<1>3. QED
  BY <1>1, <1>2 DEF TypeInv

-----------------------------------------------------------------------------
(* The theorem. *)

LEMMA TypesKept == TypeInv /\ [Next]_vars => TypeInv'
<1> SUFFICES ASSUME TypeInv, [Next]_vars PROVE TypeInv'
  OBVIOUS
<1>1. CASE UNCHANGED vars
  BY <1>1 DEF vars, TypeInv
<1>2. CASE ClientAsks
  BY <1>2, OpenAskedTyped, CloseAskedTyped, DestroyAskedTyped, StartAskedTyped, StopAskedTyped,
     StopCancelledTyped, AutostartAskedTyped, PauseAskedTyped, ContinueAskedTyped, QueueEditedTyped
     DEF ClientAsks
<1>3. CASE ManagerRestarts
  BY <1>3, ManagerRestartsTyped
<1>4. CASE \E p \in Processes : WorkerSteps(p) \/ WorkerDies(p)
  BY <1>4, WorkerServesTyped, WorkerListensTyped, WorkerRunsTyped DEF WorkerSteps
<1>5. CASE Poll \/ (Idle /\ Autostarts)
  BY <1>5, PollAsksTyped, PollAnsweredTyped, PollTimesOutTyped, AutostartsTyped DEF Poll
<1>6. CASE \E t \in tasks : Turn(t)
  <2>1. PICK t \in tasks : TaskSteps(t)
    BY <1>6 DEF Turn
  <2>2. QED
    BY <2>1, PauseAnsweredTyped, ContinueAnsweredTyped, OpenPrefetchedTyped, OpenStartsTyped,
       OpenReadyTyped, OpenSyncedTyped, OpenFailedTyped, OpenAbandonedTyped, ExitConfirmedTyped,
       JoinedTyped, CloseAnsweredTyped, CloseReadyTyped, ClosedTyped, KillSentTyped, KillCheckedTyped,
       KillEndsTyped, ExitNoticedTyped, ExitUnlockedTyped, StateSetTyped, PlanBeginsTyped,
       PlanPreparedTyped, PlanResetTyped, PlanStartedTyped, PlanReleasedTyped, ReportAskedTyped,
       ReportRetriedTyped, ReportLostTyped, ReportProcessedTyped, ReportUnlockedTyped, BootLooksTyped,
       BootSeesTyped DEF TaskSteps
<1>7. QED
  BY <1>1, <1>2, <1>3, <1>4, <1>5, <1>6 DEF Next, ManagerSteps

(* The state of the manager, the store and the workers keeps its types,      *)
(* whatever times out, is served late, dies or restarts (run ReManager).     *)
THEOREM ManagerTyped == Spec => []TypeOK
<1>1. Spec => []TypeInv
  BY TypesBegin, TypesKept, PTL DEF Spec
<1>2. QED
  BY <1>1, TypesTold, PTL


-----------------------------------------------------------------------------
(* Never two workers.  The argument is about the calm world: clients ask     *)
(* what they like, environments are opened, closed and destroyed, the queue *)
(* is started, stopped and edited, the manager is restarted, all without    *)
(* bound; but calls are answered in time, no worker dies by itself, no      *)
(* service is slow, and nobody destroys an environment, or edits the queue  *)
(* while a plan is being started.  (A worker that dies while a plan starts   *)
(* makes the property false.)                                              *)
Failures == {"late", "lost", "stray", "slow", "dies", "rash"}
Calm     == \A x \in Budgets : \A f \in Failures : x[f] = 0
CalmNow  == budget \in [External -> Nat] /\ \A f \in Failures : budget[f] = 0

(* Only the worker that the watchdog watches lives: Alone, which is stronger *)
(* than OneWorker, rests on what the parts of Safe say together.            *)
Alone == \A p \in Processes : Alive(worker[p]) => p = watched

(* A worker is busy with a plan until its report has been fetched; it is     *)
(* still when it is not, nor going to be; parting, when it is still and its *)
(* loop is over.                                                           *)
Busy(w)    == w.doing # "none" \/ w.re # "idle" \/ (w.report # "none" /\ ~ w.told)
Still(w)   == ~ Busy(w) /\ (w.todo = "none" \/ w.env = "closing")
Blank(w)   == w.item = NoPlan /\ w.exec = "reset" /\ w.report = "none"
Parting(w) == Alive(w) => w.env = "closing" /\ Still(w)

(* What holds of a worker at any time. *)
Sound(w) ==
    /\ w.life = "none" => w = NoWorker
    /\ w.life = "booting" => w = Fresh
    /\ w.life = "gone" => w = Gone
    /\ w.doing # "none" => w.env = "executing_plan" /\ w.todo = "none" /\ w.item # NoPlan
    /\ w.todo # "none" => w.env = "closing" \/ (w.env = "executing_plan" /\ w.item # NoPlan)
    /\ w.todo = "new" => w.re # "paused"
    /\ w.re = "running" => w.doing # "none"
    /\ w.re = "paused" \/ w.report # "none" => w.item # NoPlan
    /\ w.doing = "none" /\ w.todo = "none" => (w.report = "paused" <=> w.re = "paused")
    /\ w.doing # "none" \/ w.todo # "none" => w.report \in {"none", "paused"}
    /\ w.exit /\ ~ w.asked => Still(w) /\ w.env \in {"failed", "closing"}
    /\ w.env \in {"closing", "failed"} => w.exit
    /\ w.env = "initializing" => Blank(w)
    /\ w.sure => w.env = "closing" /\ Still(w)

(* A call: it is at the head of the line; it has its answer; its request is  *)
(* in the pipe; it comes before the poll.                                  *)
Heads(c, id)   == c.line # <<>> /\ Head(c.line).from = id
Replied(c, id) == Heads(c, id) /\ c.answer # <<>>
Unread(c)      == c.pipe # <<>> /\ c.pipe[Len(c.pipe)].from # Nobody
First(c, id) ==
    \E j \in 1..Len(c.line) : c.line[j].from = id /\ \A i \in 1..Len(c.line) : c.line[i].from = 0 => j < i

(* Coroutines of these kinds exclude each other, each has its state of the   *)
(* manager, and a restarted manager looks around before it does anything.   *)
MainKinds == {"boot", "open", "close", "kill", "plan", "report", "set"}

Roles ==
    /\ \A t, u \in tasks : t.kind \in MainKinds /\ u.kind \in MainKinds => t = u
    /\ \A t \in tasks :
          /\ t.kind = "boot" => tasks = {t} /\ m.state = "initializing" /\ ~ m.known
          /\ t.kind = "open" => m.state = "creating_environment"
          /\ t.kind = "close" => m.state = "closing_environment"
          /\ t.kind = "kill" /\ t.at = "kill" => tasks = {t} \/ ~ Alive(Watched)
          /\ t.kind = "kill" /\ t.at = "check" => m.state = "destroying_environment" /\ ~ Alive(Watched)
          /\ t.kind = "kill" /\ t.at = "unlock" => m.state = "idle" /\ ~ m.env_exists /\ ~ Alive(Watched)
          /\ t.kind \in {"plan", "report"} => m.known \/ ~ m.env_exists
          /\ t.kind \in {"plan", "set"} => m.state \in {"starting_queue", "executing_queue", "paused"}
          /\ t.kind = "report" => m.state \in {"executing_queue", "paused"} /\ t.at # "again"
          /\ t.kind = "set" /\ t.at = "paused" => m.state \in {"executing_queue", "paused"}

(* The environment exists for the manager as long as its worker may live,    *)
(* and a worker leaves only when the manager is taking leave of it.         *)
Confirming == \E t \in tasks : t.at = "confirm" /\ Heads(comm, t.id)

Environment ==
    /\ m.env_exists => Watched.life # "none"
    /\ ~ m.env_exists /\ Alive(Watched) =>
          \E t \in tasks : (t.kind = "boot" /\ t.at = "alive") \/ (t.kind = "open" /\ t.at = "wait") \/ t.at = "join"
    /\ Watched.life = "gone" /\ m.env_exists /\ m.known =>
          Confirming \/ \E t \in tasks : t.kind = "kill" /\ t.at = "check"
    /\ Watched.life = "gone" /\ m.env_exists /\ Replied(comm, 0) => \E t \in tasks : t.kind = "kill" /\ t.at = "check"
    /\ Watched.sure => Confirming \/ ~ m.env_exists \/ Running("boot")
    /\ \A t \in tasks :
          /\ t.kind = "boot" /\ t.at = "alive" => ~ m.env_exists
          /\ t.kind = "open" /\ t.at \in {"prefetch", "start"} =>
                /\ ~ Alive(Watched) /\ ~ m.env_exists /\ ~ Replied(comm, 0) /\ ~ Running("unexp")
                /\ m.fut = "pending" /\ (m.count = 0 \/ (m.count = 1 /\ poll = "sleep"))
          /\ t.kind = "open" /\ t.at = "wait" =>
                /\ Alive(Watched) /\ ~ Watched.sure /\ ~ m.env_exists
                /\ \A u \in tasks : u.at # "confirm"
                /\ m.fut = "false" => Parting(Watched)
          /\ t.at \in {"confirm", "join"} \/ t.kind = "unexp" => Parting(Watched)
          /\ t.kind = "open" /\ t.at \in {"join", "exited"} => ~ m.env_exists
          /\ t.kind = "close" /\ t.at \in {"close", "wait"} /\ m.fut \in {"true", "false"} => Parting(Watched)

(* A worker is still unless the manager knows of a plan, or is about to. *)
Executing == m.state \in {"executing_queue", "paused"}
Began  == \E t \in tasks : t.kind = "plan" /\ t.at = "run" /\ Replied(comm, t.id) /\ Answer

Phases ==
    /\ ~ Still(Watched) => Running("boot") \/ Executing \/ Began
    /\ Executing \/ Began =>
          /\ Watched.life = "up" /\ ~ Watched.sure /\ (Watched.exit => Watched.asked)
          /\ Watched.env # "initializing" /\ ~ Running("unexp")
    /\ \A t \in tasks :
          /\ t.kind = "plan" /\ ~ Began => Still(Watched)
          /\ t.kind = "report" /\ t.at = "unlock" => Still(Watched)
          /\ t.kind = "set" /\ t.at # "paused" => Still(Watched)
          /\ t.kind = "report" /\ t.at \in {"begin", "fetch"} => Watched.report # "none"
          /\ t.kind = "report" /\ t.at = "begin" => poll = "sleep"
          /\ t.kind = "report" /\ t.at = "fetch" => First(comm, t.id)

(* The plan of a worker that is not still is the running item. *)
Booked ==
    /\ ~ Still(Watched) => Watched.item = store.running
    /\ \A i \in 1..Len(comm.line) : comm.line[i].method = "run" => comm.line[i].arg = store.running

(* A request that was given up can do no harm. *)
Apt(r, w, s) ==
    /\ r.method \in {"run", "reset"} => Still(w)
    /\ r.method = "run" => r.arg = s.running
    /\ r.method = "confirm" => Parting(w)

(* An answer leaves the pipe empty, and what must be answered is still in    *)
(* the pipe.                                                               *)
InTime(c) ==
    /\ c.answer # <<>> => c.pipe = <<>>
    /\ c.line # <<>> /\ c.answer = <<>> /\ Head(c.line).method \in {"confirm", "report"} => Unread(c)

(* Requests that were given up are there only while a manager starts. *)
Pipe ==
    /\ InTime(comm)
    /\ Watched.life = "up" =>
          \A i \in 1..Len(comm.pipe) : comm.pipe[i].from = Nobody =>
                i = 1 /\ Running("boot") /\ Apt(comm.pipe[i], Watched, store)
    /\ \A t \in tasks :
          /\ t.kind = "boot" /\ t.at = "alive" => comm.line = <<>> /\ poll = "sleep"
          /\ t.kind = "boot" /\ t.at = "state" =>
                /\ Heads(comm, t.id)
                /\ Watched.life = "up" /\ comm.answer = <<>> /\ ~ Unread(comm) =>
                      comm.pipe = <<>> /\ ~ Watched.sure /\ Still(Watched)

(* An answer on its way is still true of the worker, as far as it matters. *)
Answers ==
    /\ Replied(comm, 0) /\ Alive(Watched) =>
          /\ Watched.life = "up"
          /\ Answer.available => Watched.report # "none" /\ ~ Watched.told
          /\ Answer.env = "closing" => Watched.env = "closing"
          /\ Answer.unexpected => Watched.env = "closing" /\ Watched.exit /\ ~ Watched.asked
    /\ \A t \in tasks : Replied(comm, t.id) =>
          /\ t.kind = "boot" =>
                /\ Watched.life = "up" /\ ~ Watched.sure
                /\ IF RunningPlan(Answer) THEN Busy(Watched) ELSE Still(Watched)
          /\ t.kind = "report" => Answer = "paused" \/ (Still(Watched) /\ Answer # "none" /\ Answer = Watched.report)
          /\ t.at = "confirm" /\ ~ Answer => ~ Alive(Watched)
          /\ t.kind = "client" /\ Answer =>
                /\ Executing
                /\ \A u \in tasks : u.kind \in MainKinds =>
                      (u.kind = "set" /\ u.at = "paused") \/ (u.kind = "report" /\ u.at \in {"begin", "fetch"})

Safe ==
    /\ CalmNow /\ Alone /\ Sound(Watched) /\ Roles /\ Environment
    /\ Phases /\ Booked /\ Pipe /\ Answers

-----------------------------------------------------------------------------
(* What becomes of the set of coroutines: one of them moves, *)
LEMMA GoesTo ==
    ASSUME TypeInv, NEW t \in tasks, NEW at \in Places[t.kind]
    PROVE  \E u : /\ u.id = t.id /\ u.kind = t.kind /\ u.at = at /\ u.plan = t.plan
                  /\ \A v : v \in Goto(t, at) <=> (v \in tasks /\ v # t) \/ v = u
<1> DEFINE u == [t EXCEPT !.at = at]
<1>1. t \in Task
  BY DEF TypeInv, Fits, TaskSet
<1>2. u.id = t.id /\ u.kind = t.kind /\ u.at = at
  BY <1>1, TaskGoes
<1>3. u.plan = t.plan
  BY <1>1, TaskOfKind DEF OfKind
<1>4. \A v : v \in Goto(t, at) <=> (v \in tasks /\ v # t) \/ v = u
  BY DEF Goto, Finish
<1> HIDE DEF u
<1>5. QED
  BY <1>2, <1>3, <1>4

(* one is added, *)
LEMMA Begins ==
    ASSUME NEW ts, Free(ts) # {}, NEW k, NEW at
    PROVE  \E u : /\ u.id = NewId(ts) /\ u.kind = k /\ u.at = at /\ u.plan = NoPlan
                  /\ u.id \in 1..MaxTasks /\ u \notin ts /\ \A v \in ts : v.id # u.id
                  /\ \A v : v \in Spawn(ts, k, at) <=> v \in ts \/ v = u
<1> DEFINE u == [id |-> NewId(ts), kind |-> k, at |-> at, plan |-> NoPlan]
<1>1. u.id = NewId(ts) /\ u.kind = k /\ u.at = at /\ u.plan = NoPlan
  OBVIOUS
<1>2. \A v : v \in Spawn(ts, k, at) <=> v \in ts \/ v = u
  BY DEF Spawn
<1>3. NewId(ts) \in 1..MaxTasks /\ \A v \in ts : v.id # NewId(ts)
  BY NewIdTyped
<1> HIDE DEF u
<1>4. QED
  BY <1>1, <1>2, <1>3

(* or one is replaced by another. *)
LEMMA GivesWay ==
    ASSUME TypeInv, NEW t \in tasks, NEW k, NEW at
    PROVE  \E u : /\ u.id \in 1..MaxTasks /\ u.kind = k /\ u.at = at /\ u.plan = NoPlan
                  /\ \A v \in tasks : v # t => v.id # u.id
                  /\ \A v : v \in Spawn(Finish(t), k, at) <=> (v \in tasks /\ v # t) \/ v = u
<1> DEFINE ts == Finish(t)
<1>1. Free(ts) # {}
  BY FinishTyped DEF Finish, TypeInv, Fits
<1>2. \A v : v \in ts <=> v \in tasks /\ v # t
  BY DEF Finish
<1> HIDE DEF ts
<1>3. PICK u : /\ u.id \in 1..MaxTasks /\ u.kind = k /\ u.at = at /\ u.plan = NoPlan
               /\ \A v \in ts : v.id # u.id
               /\ \A v : v \in Spawn(ts, k, at) <=> v \in ts \/ v = u
  BY <1>1, Begins
<1>4. QED
  BY <1>2, <1>3 DEF ts

(* Requests given up earlier. *)
NoNews(c, b) == \A i \in 1..Len(c.pipe) : c.pipe[i].from = Nobody => i \in 1..Len(b.pipe) /\ c.pipe[i] = b.pipe[i]

(* What a call leaves of the calls before it, b. *)
Adds(b, c, id, method, arg) ==
    /\ c.answer = b.answer
    /\ \A j : Heads(b, j) => Heads(c, j)
    /\ \A j : Heads(c, j) => Heads(b, j) \/ (j = id /\ b.line = <<>>)
    /\ \A j : Replied(c, j) <=> Replied(b, j)
    /\ \A j : First(b, j) => First(c, j)
    /\ id # 0 /\ (\A i \in 1..Len(b.line) : b.line[i].from # 0) => First(c, id)
    /\ b.line # <<>> => c.pipe = b.pipe /\ (Unread(c) <=> Unread(b))
    /\ b.line = <<>> => Heads(c, id) /\ Unread(c)
    /\ InTime(b) => InTime(c)
    /\ NoNews(c, b)
    /\ \A i \in 1..Len(c.line) :
          \/ i \in 1..Len(b.line) /\ c.line[i] = b.line[i]
          \/ c.line[i] = [from |-> id, method |-> method, arg |-> arg]

(* A call joins the line behind those that wait. *)
LEMMA CallJoins ==
    ASSUME NEW c, NEW ts, NEW p, Calls(c, ts, p), MaxTasks \in Nat,
           NEW id \in 0..MaxTasks, NEW method \in Methods, NEW arg \in Plan \cup {NoPlan} \cup Options
    PROVE  Adds(c, Call(c, id, method, arg), id, method, arg)
<1> DEFINE r == [from |-> id, method |-> method, arg |-> arg]
           n == Call(c, id, method, arg)
           line == Append(c.line, r)
           pipe == IF c.line = <<>> THEN Append(c.pipe, r) ELSE c.pipe
<1>1. r \in Request /\ r.from = id /\ r.method = method /\ id # Nobody
  BY DEF Request, Nobody
<1>2. n.line = line /\ n.pipe = pipe /\ n.answer = c.answer
  BY DEF Call
<1>3. /\ c.line \in Seq(Request) /\ c.pipe \in Seq(Request) /\ (c.line = <<>> => c.answer = <<>>)
      /\ \A i \in 1..Len(c.pipe) : c.pipe[i].from # Nobody => c.line # <<>>
  BY DEF Calls, Lined, Piped, AnswerFits
<1> HIDE DEF n, r
<1>4. line # <<>> /\ Head(line) = (IF c.line = <<>> THEN r ELSE Head(c.line))
  BY <1>1, <1>3, SeqAppended
<1>5. \A j : Heads(c, j) => Heads(n, j)
  BY <1>2, <1>4 DEF Heads
<1>6. \A j : Heads(n, j) => Heads(c, j) \/ (j = id /\ c.line = <<>>)
  BY <1>1, <1>2, <1>4 DEF Heads
<1>7. \A j : Replied(n, j) <=> Replied(c, j)
  BY <1>2, <1>3, <1>4 DEF Heads, Replied
<1>8. /\ Len(c.line) \in Nat /\ Len(line) = Len(c.line) + 1
      /\ \A i \in 1..Len(line) : line[i] = IF i = Len(c.line) + 1 THEN r ELSE c.line[i]
  BY <1>1, <1>3, SeqAppended
<1>9. \A j : First(c, j) => First(n, j)
  <2>1. SUFFICES ASSUME NEW j, First(c, j) PROVE First(n, j)
    OBVIOUS
  <2>2. PICK k \in 1..Len(c.line) : c.line[k].from = j /\ \A i \in 1..Len(c.line) : c.line[i].from = 0 => k < i
    BY <2>1 DEF First
  <2>3. k \in 1..Len(line) /\ line[k].from = j /\ \A i \in 1..Len(line) : line[i].from = 0 => k < i
    BY <2>2, <1>8
  <2>4. QED
    BY <2>3, <1>2 DEF First
<1>10. id # 0 /\ (\A i \in 1..Len(c.line) : c.line[i].from # 0) => First(n, id)
  BY <1>1, <1>2, <1>8 DEF First
<1>11. c.line = <<>> => Len(pipe) \in Nat \ {0} /\ pipe[Len(pipe)] = r /\ pipe # <<>>
  BY <1>1, <1>3, SeqAppended
<1>12. c.line # <<>> => n.pipe = c.pipe /\ (Unread(n) <=> Unread(c))
  BY <1>2 DEF Unread
<1>13. InTime(c) => InTime(n)
  BY <1>1, <1>2, <1>3, <1>4, <1>11 DEF InTime, Unread
<1>14. NoNews(n, c)
  <2>1. CASE c.line = <<>>
    BY <2>1, <1>1, <1>2, <1>3, SeqAppended DEF NoNews
  <2>2. CASE c.line # <<>>
    BY <2>2, <1>2 DEF NoNews
  <2>3. QED
    BY <2>1, <2>2
<1>15. \A i \in 1..Len(n.line) : (i \in 1..Len(c.line) /\ n.line[i] = c.line[i]) \/ n.line[i] = r
  BY <1>2, <1>8
<1>16. c.line = <<>> => Heads(n, id) /\ Unread(n)
  BY <1>1, <1>2, <1>4, <1>11 DEF Heads, Unread
<1>17. QED
  BY <1>2, <1>5, <1>6, <1>7, <1>9, <1>10, <1>12, <1>13, <1>14, <1>15, <1>16 DEF Adds, n, r

(* A call ends with its answer, or in a timeout when nobody reads the pipe. *)
(* What the end of a call leaves of the calls before it.                    *)
Drops(b, c, id) ==
    /\ c.answer = <<>>
    /\ \A j : ~ Replied(c, j)
    /\ \A j : First(b, j) /\ j # id => First(c, j)
    /\ InTime(c)
    /\ NoNews(c, b)
    /\ \A i \in 1..Len(c.line) : \E k \in 1..Len(b.line) : c.line[i] = b.line[k] /\ b.line[k].from # id

(* A call leaves the line, and its request the pipe. *)
LEMMA CallEnds ==
    ASSUME NEW c, NEW ts, NEW p, Calls(c, ts, p), NEW id, Heads(c, id), ~ (Read /\ Unread(c)), MaxTasks \in Nat,
           \A t \in ts : t.id \in 1..MaxTasks
    PROVE  Drops(c, HangUp(c), id)
<1> DEFINE caller == Head(c.line).from
           last   == Len(c.pipe)
           unread == last # 0 /\ c.pipe[last].from = caller
           stays  == Head(c.line).method # "state" /\ Read
           left   == IF ~ unread THEN c.pipe
                     ELSE IF stays THEN [c.pipe EXCEPT ![last].from = Nobody] ELSE SubSeq(c.pipe, 1, last - 1)
           rest   == Tail(c.line)
           pipe   == IF rest = <<>> THEN left ELSE Append(left, Head(rest))
           n      == HangUp(c)
<1>1. c.line \in Seq(Request) /\ c.pipe \in Seq(Request) /\ last \in Nat /\ c.line # <<>> /\ caller = id
  BY DEF Calls, Lined, Piped, Heads
<1>2. n.line = rest /\ n.answer = <<>> /\ n.pipe = pipe
  BY DEF HangUp
<1> HIDE DEF n
<1>3. /\ rest \in Seq(Request) /\ Len(rest) = Len(c.line) - 1 /\ Len(c.line) \in Nat \ {0}
      /\ \A i \in 1..Len(rest) : rest[i] = c.line[i + 1] /\ i + 1 \in 1..Len(c.line)
      /\ caller = c.line[1].from /\ 1 \in 1..Len(c.line)
  BY <1>1, SeqHead
<1>4. \A i \in 1..Len(rest) : rest[i] = c.line[i + 1] /\ c.line[i + 1].from # id
  BY <1>1, <1>3 DEF Calls, Lined
<1>5. \A j : First(c, j) /\ j # id => First(n, j)
  <2>1. SUFFICES ASSUME NEW j, First(c, j), j # id PROVE First(n, j)
    OBVIOUS
  <2>2. PICK k \in 1..Len(c.line) : c.line[k].from = j /\ \A i \in 1..Len(c.line) : c.line[i].from = 0 => k < i
    BY <2>1 DEF First
  <2>3. k # 1
    BY <2>1, <2>2, <1>1, <1>3
  <2>4. k - 1 \in 1..Len(rest) /\ rest[k - 1].from = j
    BY <2>2, <2>3, <1>3
  <2>5. \A i \in 1..Len(rest) : rest[i].from = 0 => k - 1 < i
    BY <2>2, <1>3
  <2>6. QED
    BY <2>4, <2>5, <1>2 DEF First
<1>6. /\ left \in Seq(Request)
      /\ \A i \in 1..Len(left) : i \in 1..Len(c.pipe) /\ left[i] = c.pipe[i]
  <2>1. CASE ~ unread
    BY <2>1, <1>1
  <2>2. CASE unread
    <3>1. c.pipe # <<>> /\ id # Nobody
      BY <2>2, <1>1, SeqHead DEF Calls, Lined, Expected, Nobody
    <3>2. ~ Read
      BY <3>1, <2>2, <1>1 DEF Unread
    <3>3. left = SubSeq(c.pipe, 1, last - 1)
      BY <3>2, <2>2
    <3>4. QED
      BY <3>3, <2>2, <1>1
  <2>3. QED
    BY <2>1, <2>2
<1> HIDE DEF left
<1>7. rest # <<>> => Head(rest) \in Request /\ Head(rest).from # Nobody /\ rest[1] = Head(rest)
  <2>1. SUFFICES ASSUME rest # <<>> PROVE Head(rest) \in Request /\ Head(rest).from # Nobody /\ rest[1] = Head(rest)
    OBVIOUS
  <2>2. Head(rest) = rest[1] /\ 1 \in 1..Len(rest) /\ Head(rest) \in Request
    BY <2>1, <1>3, SeqHead
  <2>3. Expected(rest[1], ts, p)
    BY <2>2, <1>3 DEF Calls, Lined
  <2>4. QED
    BY <2>2, <2>3 DEF Expected, Nobody
<1>8. NoNews(n, c)
  <2>1. CASE rest = <<>>
    BY <2>1, <1>2, <1>6 DEF NoNews
  <2>2. CASE rest # <<>>
    <3>1. pipe = Append(left, Head(rest))
      BY <2>2
    <3>2. /\ Len(pipe) = Len(left) + 1 /\ Len(left) \in Nat
          /\ \A i \in 1..Len(pipe) : pipe[i] = IF i = Len(left) + 1 THEN Head(rest) ELSE left[i]
      BY <3>1, <2>2, <1>6, <1>7, SeqAppended
    <3>3. \A i \in 1..Len(pipe) : pipe[i].from = Nobody => i \in 1..Len(left) /\ pipe[i] = left[i]
      BY <3>2, <2>2, <1>7
    <3>4. QED
      BY <3>3, <1>2, <1>6 DEF NoNews
  <2>3. QED
    BY <2>1, <2>2
<1>9. InTime(n)
  <2>1. rest # <<>> => Len(pipe) \in Nat \ {0} /\ pipe[Len(pipe)] = Head(rest) /\ pipe # <<>>
    BY <1>6, <1>7, SeqAppended
  <2>2. QED
    BY <2>1, <1>2, <1>7 DEF InTime, Unread
<1>10. \A j : ~ Replied(n, j)
  BY <1>2 DEF Replied
<1>11. \A i \in 1..Len(n.line) : \E k \in 1..Len(c.line) : n.line[i] = c.line[k] /\ c.line[k].from # id
  BY <1>2, <1>3, <1>4
<1>12. QED
  BY <1>2, <1>5, <1>8, <1>9, <1>10, <1>11 DEF Drops, n


-----------------------------------------------------------------------------
(* What the main thread may do to a worker. *)
Drifts(w, v) ==
    /\ v.life \in {"up", "gone"} /\ (v.life = "gone" => w.sure /\ w.env = "closing")
    /\ Still(w) => Still(v)
    /\ v.life = "up" =>
          /\ Busy(w) => Busy(v)
          /\ v.item = w.item /\ v.sure = w.sure /\ v.asked = w.asked
          /\ w.exit => v.exit
          /\ v.exit => w.exit \/ w.env = "initializing"
          /\ w.env = "closing" => v.env = "closing"
          /\ v.env = "initializing" => w.env = "initializing"
          /\ w.report # "none" => v.report # "none"
          /\ w.report # "none" /\ ~ w.told => ~ v.told
          /\ Still(w) /\ w.report # "none" => v.report = w.report

(* So it does. *)
LEMMA MainThreadDrifts ==
    ASSUME NEW w \in Worker, Sound(w), NEW v \in MainThread(w)
    PROVE  w.life = "up" /\ Sound(v) /\ Drifts(w, v)
<1>1. CASE v \in Started(w)
  BY <1>1 DEF Started, When, Worker, Sound, Drifts, Still, Busy, Blank
<1>2. CASE v \in TakesPlan(w)
  <2>1. CASE /\ w.life = "up" /\ w.env # "closing" /\ w.doing = "none" /\ w.todo # "none"
             /\ v = [w EXCEPT !.todo = "none", !.doing = w.todo, !.re = "running"]
    <3>1. /\ v.life = "up" /\ v.report = w.report /\ v.told = w.told /\ v.doing # "none" /\ v.env = w.env
          /\ v.re = "running" /\ v.item = w.item /\ v.todo = "none" /\ v.exit = w.exit /\ v.asked = w.asked
          /\ v.sure = w.sure
      BY <2>1 DEF Worker
    <3>2. Sound(v) /\ Drifts(w, v)
      BY <2>1, <3>1 DEF Worker, Sound, Drifts, Still, Busy
    <3>3. QED
      BY <2>1, <3>2
  <2>2. CASE /\ w.life = "up" /\ w.env # "closing" /\ w.doing = "none" /\ w.todo = "new"
             /\ v = [w EXCEPT !.todo = "none", !.report = "failed", !.told = FALSE,
                              !.exec = "completed", !.env = "idle"]
    <3>1. /\ v.life = "up" /\ v.report = "failed" /\ ~ v.told /\ v.doing = "none" /\ v.env = "idle"
          /\ v.re = w.re /\ v.item = w.item /\ v.todo = "none" /\ v.exit = w.exit /\ v.asked = w.asked
          /\ v.sure = w.sure
      BY <2>2 DEF Worker
    <3>2. Sound(v) /\ Drifts(w, v)
      BY <2>2, <3>1 DEF Worker, Sound, Drifts, Still, Busy
    <3>3. QED
      BY <2>2, <3>2
  <2>3. QED
    BY <1>2, <2>1, <2>2 DEF TakesPlan, When
<1>3. CASE v \in EngineReturns(w)
  <2>1. PICK e \in {"idle", "paused"} : v = [w EXCEPT !.re = e, !.pause = FALSE]
    BY <1>3 DEF EngineReturns, When
  <2>2. w.life = "up" /\ w.re = "running"
    BY <1>3 DEF EngineReturns, When
  <2>3. /\ v.life = "up" /\ v.report = w.report /\ v.told = w.told /\ v.doing = w.doing /\ v.env = w.env
        /\ v.re \in {"idle", "paused"} /\ v.item = w.item /\ v.todo = w.todo /\ v.exit = w.exit
        /\ v.asked = w.asked /\ v.sure = w.sure
    BY <2>1, <2>2 DEF Worker
  <2>4. Sound(v) /\ Drifts(w, v)
    BY <2>2, <2>3 DEF Worker, Sound, Drifts, Still, Busy
  <2>5. QED
    BY <2>2, <2>4
<1>4. CASE v \in WritesReport(w)
  <2>1. w.life = "up" /\ w.doing # "none" /\ w.re # "running"
    BY <1>4 DEF WritesReport, When
  <2>2. PICK o \in Outcomes(w) :
           v = [w EXCEPT !.report = o, !.told = FALSE, !.doing = "none", !.env = "idle",
                         !.exec = IF o = "paused" THEN @ ELSE "completed"]
    BY <1>4, <2>1 DEF WritesReport, When
  <2>3. o # "none" /\ (o = "paused" <=> w.re = "paused")
    BY <2>1, <2>2 DEF Outcomes, OutcomeOf, Worker
  <2>4. /\ v.life = "up" /\ v.report = o /\ ~ v.told /\ v.doing = "none" /\ v.env = "idle"
        /\ v.re = w.re /\ v.item = w.item /\ v.todo = w.todo /\ v.exit = w.exit /\ v.asked = w.asked
        /\ v.sure = w.sure
    BY <2>1, <2>2 DEF Worker
  <2>5. Sound(v)
    BY <2>1, <2>3, <2>4 DEF Worker, Sound, Still, Busy
  <2>6. Drifts(w, v)
    BY <2>1, <2>3, <2>4 DEF Sound, Drifts, Still, Busy
  <2>7. QED
    BY <2>1, <2>5, <2>6
<1>5. CASE v \in ShutsDown(w)
  <2>1. CASE w.life = "up" /\ w.env = "closing" /\ w.sure /\ v = Gone
    BY <2>1 DEF Sound, Drifts, Still, Busy, Blank, Gone, NoWorker
  <2>2. CASE /\ w.life = "up" /\ w.exit /\ w.doing = "none" /\ w.env \notin {"initializing", "closing"}
             /\ v = [w EXCEPT !.env = "closing"]
    <3>1. /\ v.life = "up" /\ v.report = w.report /\ v.told = w.told /\ v.doing = "none" /\ v.env = "closing"
          /\ v.re = w.re /\ v.item = w.item /\ v.todo = w.todo /\ v.exit = w.exit /\ v.asked = w.asked
          /\ v.sure = w.sure
      BY <2>2 DEF Worker
    <3>2. Sound(v)
      BY <2>2, <3>1 DEF Worker, Sound, Still, Busy
    <3>3. Drifts(w, v)
      BY <2>2, <3>1 DEF Drifts, Still, Busy
    <3>4. QED
      BY <2>2, <3>2, <3>3
  <2>3. QED
    BY <1>5, <2>1, <2>2 DEF ShutsDown, When
<1>6. QED
  BY <1>1, <1>2, <1>3, <1>4, <1>5 DEF MainThread


(* What a handler may do to a worker, if starting a plan, resetting and     *)
(* leaving come when they should.                                          *)
Handles(w, v, r) ==
    /\ v.life = "up"
    /\ w.env = "closing" => v.env = "closing"
    /\ v.env = "initializing" => w.env = "initializing"
    /\ v.sure => w.sure \/ (r.method = "confirm" /\ Parting(w))
    /\ w.asked => v.asked
    /\ v.exit => w.exit \/ v.asked
    /\ Still(w) => Still(v) \/ (r.method = "run" /\ ~ RunRefused(w) /\ v.item = r.arg /\ w.env = "idle")
    /\ Busy(w) => v.item = w.item
    /\ Busy(w) /\ r.method # "report" => Busy(v)
    /\ ~ Still(w) => Still(v) \/ v.item = w.item
    /\ r.method # "reset" => v.report = w.report

(* ... which is when the worker is still, or parting. *)
Proper(w, r) ==
    /\ r.method \in {"run", "reset"} => Still(w)
    /\ r.method = "confirm" => Parting(w)

(* So they do. *)
LEMMA HandlersHandle ==
    ASSUME NEW w \in Worker, Sound(w), w.life = "up", NEW r \in Request, ArgGiven(r), Proper(w, r)
    PROVE  Sound(Served(w, r)) /\ Handles(w, Served(w, r), r)
<1> DEFINE v == Served(w, r)
<1>1. CASE r.method = "state"
  <2>1. v = w
    BY <1>1 DEF Served
  <2> HIDE DEF v
  <2>2. QED
    BY <1>1, <2>1 DEF Handles, v
<1>2. CASE r.method = "report"
  <2>1. v = FetchReport(w)
    BY <1>2 DEF Served
  <2> HIDE DEF v
  <2>2. /\ v.life = "up" /\ v.report = w.report /\ v.told /\ v.doing = w.doing /\ v.env = w.env
        /\ v.re = w.re /\ v.item = w.item /\ v.todo = w.todo /\ v.exit = w.exit /\ v.asked = w.asked
        /\ v.sure = w.sure /\ v.exec = w.exec
    BY <2>1 DEF Worker, FetchReport
  <2>3. Sound(v) /\ Handles(w, v, r)
    BY <1>2, <2>2 DEF Worker, Sound, Handles, Still, Busy, Blank
  <2>4. QED
    BY <2>3 DEF v
<1>3. CASE r.method = "run"
  <2>1. v = RunPlan(w, r.arg) /\ r.arg \in Plan
    BY <1>3 DEF Served, ArgGiven
  <2> HIDE DEF v
  <2>2. CASE RunRefused(w)
    <3>1. v = w
      BY <2>1, <2>2 DEF RunPlan
    <3>2. QED
      BY <1>3, <3>1 DEF Handles, v
  <2>3. CASE ~ RunRefused(w)
    <3>1. /\ v.life = "up" /\ v.report = w.report /\ v.told = w.told /\ v.doing = w.doing
          /\ v.env = "executing_plan" /\ v.re = w.re /\ v.item = r.arg /\ v.todo = "new" /\ v.exit = w.exit
          /\ v.asked = w.asked /\ v.sure = w.sure
      BY <2>1, <2>3 DEF Worker, RunPlan
    <3>2. w.todo = "none" /\ w.re # "running" /\ w.item = NoPlan /\ w.env = "idle"
      BY <2>3 DEF RunRefused
    <3>3. r.arg # NoPlan
      BY <2>1, ManagerAssumption
    <3>4. Sound(v)
      BY <3>1, <3>2, <3>3 DEF Worker, Sound, Still, Busy
    <3>5. Still(w)
      BY <1>3 DEF Proper
    <3>6. Handles(w, v, r)
      BY <1>3, <2>3, <3>1, <3>2, <3>5 DEF Sound, Handles, Still, Busy
    <3>7. QED
      BY <3>4, <3>6 DEF v
  <2>4. QED
    BY <2>2, <2>3
<1>4. CASE r.method = "reset"
  <2>1. v = Reset(w) /\ Still(w)
    BY <1>4 DEF Served, Proper
  <2> HIDE DEF v
  <2>2. CASE ResetRefused(w)
    <3>1. v = w
      BY <2>1, <2>2 DEF Reset
    <3>2. QED
      BY <1>4, <3>1 DEF Handles, v
  <2>3. CASE ~ ResetRefused(w)
    <3>1. /\ v.life = "up" /\ v.report = "none" /\ ~ v.told /\ v.doing = w.doing /\ v.env = w.env
          /\ v.re = w.re /\ v.item = NoPlan /\ v.todo = w.todo /\ v.exit = w.exit
          /\ v.asked = w.asked /\ v.sure = w.sure /\ v.exec = "reset"
      BY <2>1, <2>3 DEF Worker, Reset
    <3>2. Sound(v) /\ Handles(w, v, r)
      BY <1>4, <2>1, <3>1 DEF Worker, Sound, Handles, Still, Busy, Blank
    <3>3. QED
      BY <3>2 DEF v
  <2>4. QED
    BY <2>2, <2>3
<1>5. CASE r.method = "pause"
  <2>1. v = Pause(w)
    BY <1>5 DEF Served
  <2> HIDE DEF v
  <2>2. CASE PauseRefused(w)
    <3>1. v = w
      BY <2>1, <2>2 DEF Pause
    <3>2. QED
      BY <1>5, <3>1 DEF Handles, v
  <2>3. CASE ~ PauseRefused(w)
    <3>1. /\ v.life = "up" /\ v.report = w.report /\ v.told = w.told /\ v.doing = w.doing /\ v.env = w.env
          /\ v.re = w.re /\ v.item = w.item /\ v.todo = w.todo /\ v.exit = w.exit
          /\ v.asked = w.asked /\ v.sure = w.sure /\ v.exec = w.exec
      BY <2>1, <2>3 DEF Worker, Pause
    <3>2. Sound(v) /\ Handles(w, v, r)
      BY <1>5, <3>1 DEF Worker, Sound, Handles, Still, Busy, Blank
    <3>3. QED
      BY <3>2 DEF v
  <2>4. QED
    BY <2>2, <2>3
<1>6. CASE r.method = "continue"
  <2>1. v = Continue(w, r.arg) /\ r.arg \in Options
    BY <1>6 DEF Served, ArgGiven
  <2> HIDE DEF v
  <2>2. CASE ContinueRefused(w)
    <3>1. v = w
      BY <2>1, <2>2 DEF Continue
    <3>2. QED
      BY <1>6, <3>1 DEF Handles, v
  <2>3. CASE ~ ContinueRefused(w)
    <3>1. /\ v.life = "up" /\ v.report = w.report /\ v.told = w.told /\ v.doing = w.doing
          /\ v.env = "executing_plan" /\ v.re = w.re /\ v.item = w.item /\ v.todo \in Options /\ v.exit = w.exit
          /\ v.asked = w.asked /\ v.sure = w.sure
      BY <2>1, <2>3 DEF Worker, Continue
    <3>2. w.re = "paused" /\ w.env = "idle"
      BY <2>3 DEF ContinueRefused
    <3>3. Sound(v)
      BY <3>1, <3>2 DEF Worker, Sound, Still, Busy, Options
    <3>4. Handles(w, v, r)
      BY <1>6, <3>1, <3>2 DEF Sound, Handles, Still, Busy
    <3>5. QED
      BY <3>3, <3>4 DEF v
  <2>4. QED
    BY <2>2, <2>3
<1>7. CASE r.method = "close"
  <2>1. v = CloseEnv(w)
    BY <1>7 DEF Served
  <2> HIDE DEF v
  <2>2. CASE CloseRefused(w)
    <3>1. v = w
      BY <2>1, <2>2 DEF CloseEnv
    <3>2. QED
      BY <1>7, <3>1 DEF Handles, v
  <2>3. CASE ~ CloseRefused(w)
    <3>1. /\ v.life = "up" /\ v.report = w.report /\ v.told = w.told /\ v.doing = w.doing /\ v.env = w.env
          /\ v.re = w.re /\ v.item = w.item /\ v.todo = w.todo /\ v.exit
          /\ v.asked /\ v.sure = w.sure /\ v.exec = w.exec
      BY <2>1, <2>3 DEF Worker, CloseEnv
    <3>2. Sound(v) /\ Handles(w, v, r)
      BY <1>7, <3>1 DEF Worker, Sound, Handles, Still, Busy, Blank
    <3>3. QED
      BY <3>2 DEF v
  <2>4. QED
    BY <2>2, <2>3
<1>8. CASE r.method = "confirm"
  <2>1. v = ConfirmExit(w) /\ Parting(w)
    BY <1>8 DEF Served, Proper
  <2> HIDE DEF v
  <2>2. CASE ConfirmRefused(w)
    <3>1. v = w
      BY <2>1, <2>2 DEF ConfirmExit
    <3>2. QED
      BY <1>8, <3>1 DEF Handles, v
  <2>3. CASE ~ ConfirmRefused(w)
    <3>1. /\ v.life = "up" /\ v.report = w.report /\ v.told = w.told /\ v.doing = w.doing /\ v.env = w.env
          /\ v.re = w.re /\ v.item = w.item /\ v.todo = w.todo /\ v.exit = w.exit
          /\ v.asked = w.asked /\ v.sure /\ v.exec = w.exec
      BY <2>1, <2>3 DEF Worker, ConfirmExit
    <3>2. Still(w) /\ w.env = "closing"
      BY <2>1 DEF Parting, Alive
    <3>3. Sound(v) /\ Handles(w, v, r)
      BY <1>8, <2>1, <3>1, <3>2 DEF Worker, Sound, Handles, Still, Busy, Blank
    <3>4. QED
      BY <3>3 DEF v
  <2>4. QED
    BY <2>2, <2>3
<1>9. QED
  BY <1>1, <1>2, <1>3, <1>4, <1>5, <1>6, <1>7, <1>8 DEF Request, Methods


-----------------------------------------------------------------------------
(* Facts that the steps share. *)
LEMMA TasksAre ==
    ASSUME TypeInv
    PROVE  /\ MaxTasks \in Nat /\ TimeoutLimit \in Nat /\ Calls(comm, tasks, poll)
           /\ \A t \in tasks : /\ t \in Task /\ t.id \in 1..MaxTasks /\ t.id \in 0..MaxTasks /\ t.id # 0
                               /\ t.kind \in Kinds /\ t.at \in Places[t.kind]
           /\ \A t, u \in tasks : t.id = u.id => t = u
<1>1. TaskSet(tasks) /\ Calls(comm, tasks, poll)
  BY DEF TypeInv, Fits
<1>2. \A t \in tasks : t \in Task /\ t.id \in 1..MaxTasks /\ t.kind \in Kinds /\ t.at \in Places[t.kind]
  BY <1>1, TaskOpened DEF TaskSet
<1>3. QED
  BY <1>1, <1>2, ManagerAssumption DEF TaskSet

(* 0 stands for no process. *)
LEMMA ProcessesFrom1 == 0 \notin Processes
<1>1. Cardinality(Processes) \in Nat /\ Processes = 1..Cardinality(Processes)
  BY ManagerAssumption, FS_CardinalityType
<1>2. QED
  BY <1>1

(* The worker that is watched is one of the processes, *)
LEMMA WatchedIs ==
    ASSUME TypeInv
    PROVE  /\ Watched \in Worker
           /\ Watched.life # "none" => watched \in Processes /\ Watched = worker[watched]
BY WorkersTyped DEF TypeInv, Watched, NoWorker

(* the only one that lives, *)
LEMMA AliveIsWatched ==
    ASSUME TypeInv, Safe, NEW p \in Processes, Alive(worker[p])
    PROVE  p = watched /\ Watched = worker[p]
<1>1. p = watched
  BY DEF Safe, Alone
<1>2. watched # 0
  BY <1>1, ProcessesFrom1
<1>3. QED
  BY <1>1, <1>2 DEF Watched

(* and the only one that reads the pipe. *)
LEMMA ReadsIfUp ==
    ASSUME TypeInv, Safe
    PROVE  Read <=> Watched.life = "up"
<1>1. ASSUME Read PROVE Watched.life = "up"
  BY <1>1, AliveIsWatched DEF Read, Listening, Alive
<1>2. ASSUME Watched.life = "up" PROVE Read
  BY <1>2, WatchedIs DEF Read, Listening
<1>3. QED
  BY <1>1, <1>2

(* Nothing of what disturbs the calm happens. *)
LEMMA Calmly ==
    ASSUME Safe
    PROVE  /\ \A f \in Failures : ~ May(f)
           /\ \A f \in {"restart", "destroy", "edit", "request"} : Spend(f) => CalmNow'
           /\ budget' = budget => CalmNow'
<1>1. \A f \in Failures : ~ May(f)
  BY DEF Safe, CalmNow, May
<1>2. ASSUME NEW f \in {"restart", "destroy", "edit", "request"}, Spend(f) PROVE CalmNow'
  <2>1. budget \in [External -> Nat] /\ f \in External /\ f \notin Failures /\ budget[f] > 0
    BY <1>2 DEF Safe, CalmNow, External, Failures, Spend, May
  <2>2. budget' = [budget EXCEPT ![f] = @ - 1]
    BY <1>2 DEF Spend
  <2>3. budget[f] - 1 \in Nat
    BY <2>1
  <2>4. QED
    BY <2>1, <2>2, <2>3 DEF Safe, CalmNow
<1>3. budget' = budget => CalmNow'
  BY DEF Safe, CalmNow
<1>4. QED
  BY <1>1, <1>2, <1>3

(* When the world is calm a call ends with its answer, or because nobody    *)
(* reads the pipe.                                                         *)
LEMMA CallOver ==
    ASSUME TypeInv, Safe, NEW id, TimedOut(id) \/ Answered(id)
    PROVE  /\ Heads(comm, id) /\ ~ (Read /\ Unread(comm))
           /\ TimedOut(id) => comm.answer = <<>> /\ budget' = budget
           /\ Answered(id) => comm.answer # <<>> /\ comm.pipe = <<>> /\ Replied(comm, id)
<1>1. Heads(comm, id)
  BY DEF TimedOut, Answered, Calling, Heads
<1>2. CASE Answered(id)
  <2>1. comm.answer # <<>> /\ comm.pipe = <<>>
    BY <1>2 DEF Answered, Safe, Pipe, InTime
  <2>2. QED
    BY <1>1, <1>2, <2>1 DEF TimedOut, Unread, Replied
<1>3. CASE TimedOut(id)
  <2>1. comm.answer = <<>>
    BY <1>3 DEF TimedOut
  <2>2. ~ (Read /\ \E i \in DOMAIN comm.pipe : comm.pipe[i].from = id)
    <3>1. LateBy(Head(comm.line).method) \in Failures
      BY DEF LateBy, Failures
    <3>2. ~ Spend(LateBy(Head(comm.line).method))
      BY <3>1, Calmly DEF Spend
    <3>3. QED
      BY <1>3, <3>2 DEF TimedOut
  <2>3. budget' = budget
    BY <1>3, <2>2 DEF TimedOut
  <2>4. Unread(comm) => \E i \in DOMAIN comm.pipe : comm.pipe[i].from = id
    <3>1. SUFFICES ASSUME Unread(comm) PROVE \E i \in DOMAIN comm.pipe : comm.pipe[i].from = id
      OBVIOUS
    <3>2. comm.pipe \in Seq(Request) /\ Len(comm.pipe) \in 1..Len(comm.pipe)
      BY <3>1, TasksAre DEF Unread, Calls, Piped
    <3>3. comm.pipe[Len(comm.pipe)] = Head(comm.line)
      BY <3>1, <3>2, TasksAre DEF Unread, Calls, Piped
    <3>4. QED
      BY <3>2, <3>3, <1>1 DEF Heads
  <2>5. QED
    BY <1>1, <2>1, <2>2, <2>3, <2>4 DEF Answered
<1>4. QED
  BY <1>2, <1>3

(* Every call in line has somebody who waits for it at the right place. *)
LEMMA Callers ==
    ASSUME TypeInv, NEW i \in 1..Len(comm.line)
    PROVE  \/ comm.line[i].from = 0 /\ comm.line[i].method = "state" /\ poll = "asks"
           \/ \E t \in tasks :
                 /\ t.id = comm.line[i].from /\ Waits(t, comm.line[i].method)
                 /\ comm.line[i].method \in {"run", "reset"} => t.kind = "plan" /\ t.at = comm.line[i].method
                 /\ comm.line[i].method = "confirm" => t.at = "confirm"
                 /\ comm.line[i].method = "report" => t.kind = "report" /\ t.at \in {"fetch", "again"}
                 /\ comm.line[i].method \in {"pause", "continue"} => t.kind = "client" /\ t.at = comm.line[i].method
                 /\ comm.line[i].method = "close" => t.kind = "close" /\ t.at = "close"
                 /\ comm.line[i].method = "state" => t.kind = "boot" /\ t.at = "state"
<1>1. Expected(comm.line[i], tasks, poll)
  BY TasksAre DEF Calls, Lined
<1>2. CASE \E t \in tasks : t.id = comm.line[i].from /\ Waits(t, comm.line[i].method)
  <2>1. PICK t \in tasks : t.id = comm.line[i].from /\ Waits(t, comm.line[i].method)
    BY <1>2
  <2>2. t.kind = "client" => t.at \in {"pause", "continue"}
    BY TasksAre, PlacesAre
  <2>3. QED
    BY <2>1, <2>2 DEF Waits
<1>3. QED
  BY <1>1, <1>2 DEF Expected

(* A coroutine that waits for no reply has no call in line, and a new one    *)
(* has none either.                                                        *)
LEMMA Quiet ==
    ASSUME TypeInv, NEW id, id # 0, \A v \in tasks : v.id = id => Resting(v)
    PROVE  /\ \A i \in 1..Len(comm.line) : comm.line[i].from # id
           /\ ~ Heads(comm, id) /\ ~ Replied(comm, id) /\ ~ First(comm, id)
<1>1. \A i \in 1..Len(comm.line) : comm.line[i].from # id
  BY NotInLine DEF TypeInv
<1>2. comm.line # <<>> => 1 \in 1..Len(comm.line) /\ Head(comm.line) = comm.line[1]
  BY TasksAre, SeqHead DEF Calls, Lined
<1>3. QED
  BY <1>1, <1>2 DEF Heads, Replied, First

(* ... which is the case of a coroutine at such a place. *)
LEMMA RestingQuiet ==
    ASSUME TypeInv, NEW t \in tasks, Resting(t)
    PROVE  /\ \A i \in 1..Len(comm.line) : comm.line[i].from # t.id
           /\ ~ Heads(comm, t.id) /\ ~ Replied(comm, t.id) /\ ~ First(comm, t.id)
<1>1. t.id # 0 /\ \A v \in tasks : v.id = t.id => Resting(v)
  BY TasksAre
<1>2. QED
  BY <1>1, Quiet

(* The two lemmas on calls, for the steps of the manager. *)
LEMMA CallAdds ==
    ASSUME TypeInv, NEW id \in 0..MaxTasks, NEW method \in Methods, NEW arg \in Plan \cup {NoPlan} \cup Options,
           comm' = Call(comm, id, method, arg)
    PROVE  Adds(comm, comm', id, method, arg)
BY TasksAre, CallJoins

LEMMA HangUpDrops ==
    ASSUME TypeInv, Safe, NEW id, TimedOut(id) \/ Answered(id), comm' = HangUp(comm)
    PROVE  Drops(comm, comm', id)
BY TasksAre, CallOver, CallEnds

(* The poll. *)
LEMMA PollOver ==
    ASSUME TypeInv, Safe, TimedOut(0) \/ Answered(0), comm' = HangUp(comm)
    PROVE  /\ Heads(comm, 0) /\ Drops(comm, comm', 0) /\ poll = "asks"
           /\ \A v \in tasks : v.id # 0 /\ ~ Heads(comm, v.id) /\ v.kind # "boot" /\ ~ First(comm, v.id)
           /\ ~ Began /\ ~ Confirming
<1>1. Heads(comm, 0) /\ Drops(comm, comm', 0)
  BY CallOver, HangUpDrops
<1>2. 1 \in 1..Len(comm.line) /\ Head(comm.line) = comm.line[1] /\ comm.line[1].from = 0
  BY <1>1, TasksAre, SeqHead DEF Heads, Calls, Lined
<1>3. poll = "asks"
  BY <1>2, Callers, TasksAre
<1>4. \A v \in tasks : v.id # 0 /\ ~ Heads(comm, v.id) /\ ~ First(comm, v.id)
  BY <1>1, <1>2, TasksAre DEF Heads, First
<1>5. \A v \in tasks : v.kind # "boot"
  BY <1>1, <1>4, TasksAre, PlacesAre DEF Safe, Pipe, Heads
<1>6. QED
  BY <1>1, <1>3, <1>4, <1>5 DEF Began, Confirming, Replied

(* No request to start a plan is in line but that of the plan's coroutine. *)
LEMMA RunsOnlyAt ==
    ASSUME TypeInv, Safe, NEW t \in tasks, t.kind \in MainKinds, NEW i \in 1..Len(comm.line), comm.line[i].method = "run"
    PROVE  t.kind = "plan" /\ t.at = "run" /\ comm.line[i].from = t.id
BY Callers DEF Safe, Roles, MainKinds

(* While a plan executes its report comes in time, and there is one. *)
LEMMA ReportComes ==
    ASSUME TypeInv, Safe, NEW t \in tasks, t.kind = "report"
    PROVE  /\ ~ TimedOut(t.id)
           /\ Answered(t.id) => Answer \in Outcome /\ (Answer # "paused" => Still(Watched) /\ Answer = Watched.report)
<1>1. ASSUME TimedOut(t.id) PROVE FALSE
  <2>1. Heads(comm, t.id) /\ comm.answer = <<>> /\ ~ (Read /\ Unread(comm))
    BY <1>1, CallOver
  <2>2. comm.line # <<>> /\ Head(comm.line).from = t.id /\ 1 \in 1..Len(comm.line) /\ Head(comm.line) = comm.line[1]
    BY <2>1, TasksAre, SeqHead DEF Heads, Calls, Lined
  <2>3. PICK v \in tasks : v.id = t.id /\ Waits(v, comm.line[1].method)
    BY <2>2, TasksAre, Callers
  <2>4. Head(comm.line).method = "report"
    BY <2>2, <2>3, TasksAre DEF Waits
  <2>5. Unread(comm)
    BY <2>1, <2>2, <2>4 DEF Safe, Pipe, InTime
  <2>6. Watched.life = "up"
    BY DEF Safe, Roles, Phases, Executing
  <2>7. QED
    BY <2>1, <2>5, <2>6, ReadsIfUp
<1>2. ASSUME Answered(t.id) PROVE Answer \in Outcome /\ (Answer # "paused" => Still(Watched) /\ Answer = Watched.report)
  <2>1. Answer \in Outcome \cup {"none"}
    BY <1>2, ReportIs
  <2>2. Answer = "paused" \/ (Still(Watched) /\ Answer # "none" /\ Answer = Watched.report)
    BY <1>2, CallOver DEF Safe, Answers
  <2>3. QED
    BY <2>1, <2>2 DEF Outcome
<1>3. QED
  BY <1>1, <1>2

(* A request is served. *)
Serves(r) ==
    /\ m' = m /\ tasks' = tasks /\ watched' = watched /\ store' = store /\ poll' = poll /\ budget' = budget
    /\ locked' = locked /\ seen' = seen
    /\ \A q \in Processes : (Alive(worker'[q]) => q = watched) /\ (worker'[q] = worker[q] \/ Alive(worker[q]))
    /\ 1 \in 1..Len(comm.pipe) /\ r = comm.pipe[1]
    /\ r \in Request /\ ArgGiven(r) /\ Watched.life = "up" /\ Watched' = Served(Watched, r)
    /\ comm.answer = <<>> /\ comm'.line = comm.line
    /\ Running("boot") => ~ Unsettled(Watched)
    /\ r.from = Nobody =>
          /\ comm'.answer = <<>> /\ Running("boot") /\ Apt(r, Watched, store) /\ comm.pipe # <<>>
          /\ \A i \in 1..Len(comm'.pipe) : comm'.pipe[i].from # Nobody
          /\ Unread(comm) => Unread(comm')
    /\ r.from # Nobody =>
          /\ comm'.pipe = <<>> /\ comm'.answer = <<ReplyOf(Watched, r)>>
          /\ 1 \in 1..Len(comm.line) /\ r = comm.line[1]
          /\ \A j : /\ Heads(comm', j) <=> j = r.from
                    /\ Heads(comm, j) <=> j = r.from
                    /\ Replied(comm', j) <=> j = r.from

(* Every request that a worker reads is served so. *)
LEMMA ServesIt ==
    ASSUME TypeInv, Safe, NEW p \in Processes, WorkerServes(p)
    PROVE  \E r : Serves(r)
<1> DEFINE r == Head(comm.pipe)
<1>1. comm.pipe \in Seq(Request) /\ comm.pipe # <<>> /\ worker[p].life = "up"
  BY TasksAre DEF WorkerServes, Listening, Calls, Piped
<1>2. r \in Request /\ r = comm.pipe[1] /\ 1 \in 1..Len(comm.pipe) /\ ArgGiven(r)
  BY <1>1, SeqHead, TasksAre DEF Calls, Piped
<1>3. p = watched /\ Watched = worker[p] /\ watched # 0
  BY <1>1, AliveIsWatched, ProcessesFrom1 DEF Alive
<1>4. worker' = [worker EXCEPT ![p] = Served(worker[p], r)]
  BY DEF WorkerServes
<1>5. /\ comm'.line = comm.line /\ comm'.pipe = Tail(comm.pipe)
      /\ comm'.answer = IF r.from = Nobody THEN comm.answer ELSE <<ReplyOf(Watched, r)>>
  BY <1>3 DEF WorkerServes
<1>6. /\ m' = m /\ tasks' = tasks /\ watched' = watched /\ store' = store /\ poll' = poll /\ budget' = budget
      /\ locked' = locked /\ seen' = seen
  BY DEF WorkerServes
<1>7. Running("boot") => ~ Unsettled(Watched)
  BY <1>3, Calmly DEF WorkerServes, Failures
<1> HIDE DEF r
<1>8. Watched' = Served(Watched, r) /\ \A q \in Processes : Alive(worker'[q]) => q = watched
  BY <1>3, <1>4, <1>6 DEF Watched, TypeInv, Safe, Alone
<1>9. comm.answer = <<>>
  BY <1>1 DEF Safe, Pipe, InTime
<1>10. /\ Len(Tail(comm.pipe)) = Len(comm.pipe) - 1 /\ Len(comm.pipe) \in Nat \ {0}
       /\ \A i \in 1..Len(Tail(comm.pipe)) : Tail(comm.pipe)[i] = comm.pipe[i + 1] /\ i + 1 \in 1..Len(comm.pipe) /\ i + 1 # 1
       /\ Tail(comm.pipe) \in Seq(Request)
  BY <1>1, SeqHead
<1>11. ASSUME r.from = Nobody
       PROVE  /\ comm'.answer = <<>> /\ Running("boot") /\ Apt(r, Watched, store) /\ comm.pipe # <<>>
              /\ \A i \in 1..Len(comm'.pipe) : comm'.pipe[i].from # Nobody
              /\ Unread(comm) => Unread(comm')
  <2>1. comm'.answer = <<>> /\ Watched.life = "up"
    BY <1>11, <1>1, <1>3, <1>5, <1>9
  <2>2. Running("boot") /\ Apt(r, Watched, store)
    BY <1>11, <1>2, <2>1 DEF Safe, Pipe
  <2>3. \A i \in 1..Len(comm'.pipe) : comm'.pipe[i].from # Nobody
    BY <1>5, <1>10, <2>1 DEF Safe, Pipe
  <2>4. ASSUME Unread(comm) PROVE Unread(comm')
    <3>1. comm.pipe[Len(comm.pipe)].from # Nobody
      BY <2>4 DEF Unread
    <3>2. Len(comm.pipe) # 1
      BY <3>1, <1>2, <1>11
    <3>3. Len(comm'.pipe) \in 1..Len(comm'.pipe) /\ Len(comm'.pipe) = Len(comm.pipe) - 1 /\ comm'.pipe # <<>>
      BY <3>2, <1>5, <1>10
    <3>4. comm'.pipe[Len(comm'.pipe)] = comm.pipe[Len(comm.pipe)]
      BY <3>3, <1>5, <1>10
    <3>5. QED
      BY <3>1, <3>3, <3>4 DEF Unread
  <2>5. QED
    BY <2>1, <2>2, <2>3, <2>4, <1>1
<1>12. ASSUME r.from # Nobody
       PROVE  /\ comm'.pipe = <<>> /\ comm'.answer = <<ReplyOf(Watched, r)>>
              /\ 1 \in 1..Len(comm.line) /\ r = comm.line[1]
              /\ \A j : /\ Heads(comm', j) <=> j = r.from
                        /\ Heads(comm, j) <=> j = r.from
                        /\ Replied(comm', j) <=> j = r.from
  <2>1. Len(comm.pipe) = 1 /\ comm.line # <<>> /\ r = Head(comm.line)
    BY <1>12, <1>2, TasksAre DEF Calls, Piped
  <2>2. comm'.pipe = <<>> /\ comm'.answer = <<ReplyOf(Watched, r)>> /\ comm'.answer # <<>>
    <3>1. Len(Tail(comm.pipe)) = 0
      BY <2>1, <1>10
    <3>2. Tail(comm.pipe) = <<>>
      BY <3>1, <1>10, EmptySeq
    <3>3. comm'.answer = <<ReplyOf(Watched, r)>>
      BY <1>12, <1>5
    <3>4. comm'.answer # <<>>
      BY <3>3
    <3>5. QED
      BY <1>5, <3>2, <3>3, <3>4
  <2>3. 1 \in 1..Len(comm.line) /\ r = comm.line[1]
    BY <2>1, TasksAre, SeqHead DEF Calls, Lined
  <2>4. QED
    BY <2>1, <2>2, <2>3, <1>5 DEF Heads, Replied
<1>13. \A q \in Processes : worker'[q] = worker[q] \/ Alive(worker[q])
  BY <1>1, <1>4 DEF TypeInv, Alive
<1>14. QED
  BY <1>1, <1>2, <1>3, <1>5, <1>6, <1>7, <1>8, <1>9, <1>11, <1>12, <1>13 DEF Serves

(* Requests to start a plan, to reset, and to leave come when they should. *)
LEMMA ServesProperly ==
    ASSUME TypeInv, Safe, NEW r, Serves(r)
    PROVE  Sound(Watched') /\ Handles(Watched, Watched', r)
<1>1. ~ Began
  BY DEF Serves, Began, Replied
<1>2. Proper(Watched, r)
  <2>1. CASE r.from = Nobody
    BY <2>1 DEF Serves, Apt, Proper
  <2>2. CASE r.from # Nobody
    <3>1. 1 \in 1..Len(comm.line) /\ r = comm.line[1]
      BY <2>2 DEF Serves
    <3>2. QED
      BY <3>1, <1>1, Callers DEF Proper, Safe, Phases, Environment
  <2>3. QED
    BY <2>1, <2>2
<1>3. QED
  BY <1>2, WatchedIs, HandlersHandle DEF Serves, Safe

-----------------------------------------------------------------------------
(* Opening an environment, and closing it. *)

(* The devices are known, or the configuration service does not answer. *)
LEMMA OpenPrefetchedSafe ==
    ASSUME TypeInv, Safe, NEW t \in tasks, OpenPrefetched(t)
    PROVE  Safe'
<1>1. /\ Watched' = Watched /\ comm' = comm /\ poll' = poll /\ store' = store /\ worker' = worker
      /\ watched' = watched /\ budget' = budget /\ t.kind = "open" /\ t.at = "prefetch"
  BY DEF OpenPrefetched, At, Watched
<1>2. /\ m'.state \in {m.state, "idle"} /\ m'.env_exists = m.env_exists /\ m'.known = m.known
      /\ m'.fut = m.fut /\ m'.count = m.count
      /\ m'.state = "idle" => tasks' = Finish(t)
  BY DEF OpenPrefetched, TypeInv, ManagerOk, Manager, Safe, Roles, At
<1>3. PICK u : /\ u.id = t.id /\ u.kind = t.kind /\ u.at = "start"
               /\ \A v : v \in tasks' => (v \in tasks /\ v # t) \/ v = u
               /\ \A v : v \in tasks /\ v # t => v \in tasks'
  BY GoesTo, PlacesAre DEF OpenPrefetched, At, Finish
<1>4. CalmNow' /\ Alone' /\ Sound(Watched')
  BY <1>1 DEF Safe, CalmNow, Alone
<1>6. Roles'
  BY <1>1, <1>2, <1>3 DEF Safe, Roles, MainKinds, Finish
<1>7. Environment'
  BY <1>1, <1>2, <1>3 DEF Safe, Roles, MainKinds, Environment, Confirming, Running
<1>8. Phases'
  BY <1>1, <1>2, <1>3 DEF Safe, Roles, MainKinds, Phases, Began, Executing, Running, Answer
<1>9. Booked'
  BY <1>1 DEF Safe, Booked
<1>10. Pipe'
  BY <1>1, <1>2, <1>3 DEF Safe, Roles, MainKinds, Pipe, Running
<1>11. Answers'
  BY <1>1, <1>2, <1>3 DEF Safe, Roles, MainKinds, Answers, Executing, Answer
<1>12. QED
  BY <1>4, <1>6, <1>7, <1>8, <1>9, <1>10, <1>11 DEF Safe

(* A new worker process: the one before it is gone. *)
LEMMA OpenStartsSafe ==
    ASSUME TypeInv, Safe, NEW t \in tasks, OpenStarts(t)
    PROVE  Safe'
<1>1. /\ m' = m /\ comm' = comm /\ poll' = poll /\ store' = store /\ budget' = budget
      /\ t.kind = "open" /\ t.at = "start"
  BY DEF OpenStarts, At
<1>2. PICK p \in Processes : watched' = p /\ worker' = [worker EXCEPT ![p] = Fresh]
  BY DEF OpenStarts, Unused
<1>3. Watched' = Fresh
  BY <1>2, ProcessesFrom1 DEF TypeInv, Watched
<1>4. Fresh.life = "booting" /\ ~ Fresh.sure /\ Still(Fresh) /\ Alive(Fresh) /\ Sound(Fresh)
  BY DEF Fresh, NoWorker, Still, Busy, Alive, Sound, Blank
<1>5. PICK u : /\ u.id = t.id /\ u.kind = t.kind /\ u.at = "wait"
               /\ \A v : v \in tasks' <=> (v \in tasks /\ v # t) \/ v = u
  BY GoesTo, PlacesAre DEF OpenStarts, At
<1>6. \A v \in tasks : v.kind = "unexp" \/ v.at \in {"confirm", "join"} => v = t
  BY <1>1, TasksAre, KindsAre, PlacesAre DEF Safe, Roles, MainKinds, Environment, Running
<1>7. CalmNow' /\ Alone'
  <2>1. \A q \in Processes : Alive(worker[q]) => FALSE
    BY <1>1, AliveIsWatched DEF Safe, Environment
  <2>2. Alone'
    BY <2>1, <1>2 DEF TypeInv, Alone
  <2>3. QED
    BY <2>2, <1>1, Calmly
<1>8. Sound(Watched')
  BY <1>3, <1>4 DEF Safe
<1>9. Roles'
  BY <1>1, <1>2, <1>3, <1>4, <1>5, <1>6 DEF Safe, Roles, MainKinds
<1>10. Environment'
  BY <1>1, <1>2, <1>3, <1>4, <1>5, <1>6 DEF Safe, Roles, MainKinds, Environment, Confirming, Running
<1>11. Phases'
  BY <1>1, <1>2, <1>3, <1>4, <1>5, <1>6
     DEF Safe, Roles, MainKinds, Phases, Began, Executing, Running, Answer
<1>12. Booked'
  BY <1>1, <1>2, <1>3, <1>4, <1>5, <1>6 DEF Safe, Booked
<1>13. Pipe'
  BY <1>1, <1>2, <1>3, <1>4, <1>5, <1>6 DEF Safe, Roles, MainKinds, Pipe, Running
<1>14. Answers'
  BY <1>1, <1>2, <1>3, <1>4, <1>5, <1>6
     DEF Safe, Roles, MainKinds, Answers, Executing, Answer, Environment
<1>15. QED
  BY <1>7, <1>8, <1>9, <1>10, <1>11, <1>12, <1>13, <1>14 DEF Safe

(* The environment is there, or was destroyed while it was opened. *)
LEMMA OpenReadySafe ==
    ASSUME TypeInv, Safe, NEW t \in tasks, OpenReady(t)
    PROVE  Safe'
<1>1. /\ Watched' = Watched /\ worker' = worker /\ watched' = watched
      /\ comm' = comm /\ poll' = poll /\ store' = store /\ budget' = budget
      /\ t.kind = "open" /\ t.at = "wait"
  BY DEF OpenReady, At, Watched
<1>2. /\ m'.state \in {m.state, "idle"} /\ m'.env_exists /\ m'.known = m.known
      /\ m'.fut = m.fut /\ m'.count = m.count
      /\ m'.state = m.state \/ tasks' = Finish(t)
  BY DEF OpenReady, TypeInv, ManagerOk, Manager
<1>3. PICK u : /\ u.id = t.id /\ u.kind = t.kind /\ u.at = "sync"
               /\ \A v : v \in tasks' => (v \in tasks /\ v # t) \/ v = u
               /\ \A v : v \in tasks /\ v # t => v \in tasks'
  BY GoesTo, PlacesAre DEF OpenReady, At, Finish
<1>4. CalmNow' /\ Alone' /\ Sound(Watched')
  BY <1>1, <1>2, <1>3 DEF Safe, CalmNow, Alone
<1>6. Roles'
  BY <1>1, <1>2, <1>3 DEF Safe, Roles, MainKinds, Finish
<1>7. Environment'
  BY <1>1, <1>2, <1>3 DEF Safe, Roles, MainKinds, Environment, Confirming, Running, Finish, Alive
<1>8. Phases'
  BY <1>1, <1>2, <1>3 DEF Safe, Roles, MainKinds, Phases, Began, Executing, Running, Answer
<1>9. Booked'
  BY <1>1, <1>2, <1>3 DEF Safe, Booked
<1>10. Pipe'
  BY <1>1, <1>2, <1>3 DEF Safe, Roles, MainKinds, Pipe, Running
<1>11. Answers'
  BY <1>1, <1>2, <1>3 DEF Safe, Roles, MainKinds, Answers, Executing, Answer
<1>12. QED
  BY <1>4, <1>6, <1>7, <1>8, <1>9, <1>10, <1>11 DEF Safe

(* The registry has been told; the environment is open. *)
LEMMA OpenSyncedSafe ==
    ASSUME TypeInv, Safe, NEW t \in tasks, OpenSynced(t)
    PROVE  Safe'
<1>1. /\ Watched' = Watched /\ worker' = worker /\ watched' = watched
      /\ comm' = comm /\ poll' = poll /\ store' = store /\ budget' = budget
      /\ t.kind = "open" /\ t.at = "sync"
  BY DEF OpenSynced, At, Watched
<1>2. /\ m'.state = "idle" /\ m'.env_exists = m.env_exists /\ m'.known = m.known
      /\ m'.fut = m.fut /\ m'.count = m.count
  BY DEF OpenSynced, TypeInv, ManagerOk, Manager
<1>3. \A v : v \in tasks' <=> v \in tasks /\ v # t
  BY DEF OpenSynced, Finish
<1>4. CalmNow' /\ Alone' /\ Sound(Watched')
  BY <1>1, <1>2, <1>3 DEF Safe, CalmNow, Alone
<1>6. Roles'
  BY <1>1, <1>2, <1>3 DEF Safe, Roles, MainKinds
<1>7. Environment'
  BY <1>1, <1>2, <1>3 DEF Safe, Roles, MainKinds, Environment, Confirming, Running
<1>8. Phases'
  BY <1>1, <1>2, <1>3 DEF Safe, Roles, MainKinds, Phases, Began, Executing, Running, Answer
<1>9. Booked'
  BY <1>1, <1>2, <1>3 DEF Safe, Booked
<1>10. Pipe'
  BY <1>1, <1>2, <1>3 DEF Safe, Roles, MainKinds, Pipe, Running
<1>11. Answers'
  BY <1>1, <1>2, <1>3 DEF Safe, Roles, MainKinds, Answers, Executing, Answer
<1>12. QED
  BY <1>4, <1>6, <1>7, <1>8, <1>9, <1>10, <1>11 DEF Safe

(* The worker that could not open the environment has left. *)
LEMMA OpenAbandonedSafe ==
    ASSUME TypeInv, Safe, NEW t \in tasks, OpenAbandoned(t)
    PROVE  Safe'
<1>1. /\ Watched' = Watched /\ worker' = worker /\ watched' = watched
      /\ comm' = comm /\ poll' = poll /\ store' = store /\ budget' = budget
      /\ t.kind = "open" /\ t.at = "exited"
  BY DEF OpenAbandoned, At, Watched
<1>2. /\ m'.state = "idle" /\ ~ m'.env_exists /\ ~ m'.known
      /\ m'.fut = m.fut /\ m'.count = m.count
  BY DEF OpenAbandoned, TypeInv, ManagerOk, Manager
<1>3. \A v : v \in tasks' <=> v \in tasks /\ v # t
  BY DEF OpenAbandoned, Finish
<1>4. CalmNow' /\ Alone' /\ Sound(Watched')
  BY <1>1, <1>2, <1>3 DEF Safe, CalmNow, Alone
<1>6. Roles'
  BY <1>1, <1>2, <1>3 DEF Safe, Roles, MainKinds
<1>7. Environment'
  BY <1>1, <1>2, <1>3 DEF Safe, Roles, MainKinds, Environment, Confirming, Running
<1>8. Phases'
  BY <1>1, <1>2, <1>3 DEF Safe, Roles, MainKinds, Phases, Began, Executing, Running, Answer
<1>9. Booked'
  BY <1>1, <1>2, <1>3 DEF Safe, Booked
<1>10. Pipe'
  BY <1>1, <1>2, <1>3 DEF Safe, Roles, MainKinds, Pipe, Running
<1>11. Answers'
  BY <1>1, <1>2, <1>3 DEF Safe, Roles, MainKinds, Answers, Executing, Answer
<1>12. QED
  BY <1>4, <1>6, <1>7, <1>8, <1>9, <1>10, <1>11 DEF Safe

(* The opening failed: the worker is closing and is told to leave. *)
LEMMA OpenFailedSafe ==
    ASSUME TypeInv, Safe, NEW t \in tasks, OpenFailed(t)
    PROVE  Safe'
<1>1. /\ Watched' = Watched /\ worker' = worker /\ watched' = watched
      /\ poll' = poll /\ store' = store /\ budget' = budget
      /\ t.kind = "open" /\ t.at = "wait"
  BY DEF OpenFailed, At, Watched
<1>2. /\ m'.state = m.state /\ m'.env_exists /\ m'.known = m.known
      /\ m'.fut = "false" /\ m.fut = "false" /\ m'.count = m.count
  BY DEF OpenFailed, TypeInv, ManagerOk, Manager
<1>3. PICK u : /\ u.id = t.id /\ u.kind = t.kind /\ u.at = "confirm"
               /\ \A v : v \in tasks' <=> (v \in tasks /\ v # t) \/ v = u
  BY GoesTo, PlacesAre DEF OpenFailed, At
<1>4. t.id \in 0..MaxTasks /\ "confirm" \in Methods
  BY TasksAre DEF Methods
<1>5. Adds(comm, comm', t.id, "confirm", NoPlan)
  BY <1>4, CallAdds DEF OpenFailed
<1>6. ~ Heads(comm, t.id) /\ ~ Replied(comm, t.id)
  BY <1>1, RestsAt, RestingQuiet
<1>7. CalmNow' /\ Alone' /\ Sound(Watched')
  BY <1>1, <1>2, <1>3, <1>4, <1>5, <1>6 DEF Safe, CalmNow, Alone
<1>9. Roles'
  BY <1>1, <1>2, <1>3, <1>4, <1>5, <1>6 DEF Safe, Roles, MainKinds
<1>10. Environment'
  BY <1>1, <1>2, <1>3, <1>4, <1>5, <1>6
     DEF Safe, Roles, MainKinds, Environment, Confirming, Running, Adds, Alive
<1>11. Phases'
  BY <1>1, <1>2, <1>3, <1>4, <1>5, <1>6
     DEF Safe, Roles, MainKinds, Phases, Began, Executing, Running, Answer, Adds
<1>12. Booked'
  BY <1>1, <1>2, <1>3, <1>4, <1>5, <1>6 DEF Safe, Booked, Adds
<1>13. Pipe'
  BY <1>1, <1>2, <1>3, <1>4, <1>5, <1>6
     DEF Safe, Roles, MainKinds, Pipe, Running, Adds, NoNews, Heads
<1>14. Answers'
  BY <1>1, <1>2, <1>3, <1>4, <1>5, <1>6 DEF Safe, Roles, MainKinds, Answers, Executing, Answer, Adds
<1>15. QED
  BY <1>7, <1>9, <1>10, <1>11, <1>12, <1>13, <1>14 DEF Safe

(* The worker has left its loop: it is told to leave. *)
LEMMA CloseReadySafe ==
    ASSUME TypeInv, Safe, NEW t \in tasks, CloseReady(t)
    PROVE  Safe'
<1>1. /\ Watched' = Watched /\ worker' = worker /\ watched' = watched
      /\ m' = m /\ poll' = poll /\ store' = store /\ budget' = budget
      /\ t.kind = "close" /\ t.at = "wait"
  BY DEF CloseReady, At, Watched
<1>2. "confirm" \in Places[t.kind] /\ "exited" \in Places[t.kind]
  BY <1>1, PlacesAre
<1>3. PICK u : /\ u.id = t.id /\ u.kind = t.kind /\ u.at \in {"confirm", "exited"}
               /\ \A v : v \in tasks' <=> (v \in tasks /\ v # t) \/ v = u
               /\ (u.at = "confirm" => m.env_exists /\ Adds(comm, comm', t.id, "confirm", NoPlan))
               /\ (u.at = "exited" => ~ m.env_exists /\ comm' = comm)
  <2>1. CASE m.env_exists
    <3>1. comm' = Call(comm, t.id, "confirm", NoPlan) /\ tasks' = Goto(t, "confirm")
      BY <2>1 DEF CloseReady
    <3>2. Adds(comm, comm', t.id, "confirm", NoPlan)
      BY <3>1, TasksAre, CallAdds DEF Methods
    <3>3. QED
      BY <2>1, <3>1, <3>2, <1>2, GoesTo
  <2>2. CASE ~ m.env_exists
    <3>1. comm' = comm /\ tasks' = Goto(t, "exited")
      BY <2>2 DEF CloseReady
    <3>2. QED
      BY <2>2, <3>1, <1>2, GoesTo
  <2>3. QED
    BY <2>1, <2>2
<1>4. ~ Heads(comm, t.id) /\ ~ Replied(comm, t.id)
  BY <1>1, RestsAt, RestingQuiet
<1>5. m.fut \in {"true", "false"}
  BY DEF CloseReady
<1>6. CalmNow' /\ Alone' /\ Sound(Watched')
  BY <1>1, <1>2, <1>3, <1>4, <1>5 DEF Safe, CalmNow, Alone
<1>8. Roles'
  BY <1>1, <1>2, <1>3, <1>4, <1>5 DEF Safe, Roles, MainKinds
<1>9. Environment'
  BY <1>1, <1>2, <1>3, <1>4, <1>5 DEF Safe, Roles, MainKinds, Environment, Confirming, Running, Adds
<1>10. Phases'
  BY <1>1, <1>2, <1>3, <1>4, <1>5
     DEF Safe, Roles, MainKinds, Phases, Began, Executing, Running, Answer, Adds
<1>11. Booked'
  BY <1>1, <1>2, <1>3, <1>4, <1>5 DEF Safe, Booked, Adds
<1>12. Pipe'
  BY <1>1, <1>2, <1>3, <1>4, <1>5 DEF Safe, Roles, MainKinds, Pipe, Running, Adds, NoNews, Heads
<1>13. Answers'
  BY <1>1, <1>2, <1>3, <1>4, <1>5 DEF Safe, Roles, MainKinds, Answers, Executing, Answer, Adds
<1>14. QED
  BY <1>6, <1>8, <1>9, <1>10, <1>11, <1>12, <1>13 DEF Safe

(* A worker that shut down unasked executes nothing, and is told to leave. *)
LEMMA ExitNoticedSafe ==
    ASSUME TypeInv, Safe, NEW t \in tasks, ExitNoticed(t)
    PROVE  Safe'
<1>1. /\ Watched' = Watched /\ worker' = worker /\ watched' = watched
      /\ m' = m /\ poll' = poll /\ store' = store /\ budget' = budget
      /\ t.kind = "unexp" /\ t.at = "begin"
  BY DEF ExitNoticed, At, Watched
<1>2. "confirm" \in Places[t.kind] /\ "exited" \in Places[t.kind]
  BY <1>1, PlacesAre
<1>3. PICK u : /\ u.id = t.id /\ u.kind = t.kind /\ u.at \in {"confirm", "exited"}
               /\ \A v : v \in tasks' <=> (v \in tasks /\ v # t) \/ v = u
               /\ (u.at = "confirm" => m.env_exists /\ Adds(comm, comm', t.id, "confirm", NoPlan))
               /\ (u.at = "exited" => ~ m.env_exists /\ comm' = comm)
  <2>1. CASE m.env_exists
    <3>1. comm' = Call(comm, t.id, "confirm", NoPlan) /\ tasks' = Goto(t, "confirm")
      BY <2>1 DEF ExitNoticed
    <3>2. Adds(comm, comm', t.id, "confirm", NoPlan)
      BY <3>1, TasksAre, CallAdds DEF Methods
    <3>3. QED
      BY <2>1, <3>1, <3>2, <1>2, GoesTo
  <2>2. CASE ~ m.env_exists
    <3>1. comm' = comm /\ tasks' = Goto(t, "exited")
      BY <2>2 DEF ExitNoticed
    <3>2. QED
      BY <2>2, <3>1, <1>2, GoesTo
  <2>3. QED
    BY <2>1, <2>2
<1>4. ~ Heads(comm, t.id) /\ ~ Replied(comm, t.id)
  BY <1>1, RestsAt, RestingQuiet
<1>5. CalmNow' /\ Alone' /\ Sound(Watched')
  BY <1>1, <1>2, <1>3, <1>4 DEF Safe, CalmNow, Alone
<1>7. Roles'
  BY <1>1, <1>2, <1>3, <1>4 DEF Safe, Roles, MainKinds
<1>8. Environment'
  BY <1>1, <1>2, <1>3, <1>4 DEF Safe, Roles, MainKinds, Environment, Confirming, Running, Adds
<1>9. Phases'
  BY <1>1, <1>2, <1>3, <1>4
     DEF Safe, Roles, MainKinds, Phases, Began, Executing, Running, Answer, Adds
<1>10. Booked'
  BY <1>1, <1>2, <1>3, <1>4 DEF Safe, Booked, Adds
<1>11. Pipe'
  BY <1>1, <1>2, <1>3, <1>4 DEF Safe, Roles, MainKinds, Pipe, Running, Adds, NoNews, Heads
<1>12. Answers'
  BY <1>1, <1>2, <1>3, <1>4 DEF Safe, Roles, MainKinds, Answers, Executing, Answer, Adds
<1>13. QED
  BY <1>5, <1>7, <1>8, <1>9, <1>10, <1>11, <1>12 DEF Safe

(* ... and its environment is gone. *)
LEMMA ExitUnlockedSafe ==
    ASSUME TypeInv, Safe, NEW t \in tasks, ExitUnlocked(t)
    PROVE  Safe'
<1>1. /\ Watched' = Watched /\ worker' = worker /\ watched' = watched
      /\ m' = m /\ comm' = comm /\ poll' = poll /\ store' = store /\ budget' = budget
      /\ t.kind = "unexp" /\ t.at = "exited"
  BY DEF ExitUnlocked, At, Watched
<1>2. \A v : v \in tasks' <=> v \in tasks /\ v # t
  BY DEF ExitUnlocked, Finish
<1>3. CalmNow' /\ Alone' /\ Sound(Watched')
  BY <1>1, <1>2 DEF Safe, CalmNow, Alone
<1>5. Roles'
  BY <1>1, <1>2 DEF Safe, Roles, MainKinds
<1>6. Environment'
  BY <1>1, <1>2 DEF Safe, Roles, MainKinds, Environment, Confirming, Running
<1>7. Phases'
  BY <1>1, <1>2 DEF Safe, Roles, MainKinds, Phases, Began, Executing, Running, Answer
<1>8. Booked'
  BY <1>1, <1>2 DEF Safe, Booked
<1>9. Pipe'
  BY <1>1, <1>2 DEF Safe, Roles, MainKinds, Pipe, Running
<1>10. Answers'
  BY <1>1, <1>2 DEF Safe, Roles, MainKinds, Answers, Executing, Answer
<1>11. QED
  BY <1>3, <1>5, <1>6, <1>7, <1>8, <1>9, <1>10 DEF Safe

(* An environment is closed only when its worker has left. *)
LEMMA ClosedSafe ==
    ASSUME TypeInv, Safe, NEW t \in tasks, Closed(t)
    PROVE  Safe'
<1>1. /\ Watched' = Watched /\ worker' = worker /\ watched' = watched
      /\ comm' = comm /\ poll' = poll /\ store' = store /\ budget' = budget
      /\ t.kind = "close" /\ t.at = "exited"
  BY DEF Closed, At, Watched
<1>2. /\ m'.state = "idle" /\ m'.env_exists = m.env_exists /\ m'.known = m.known
      /\ m'.fut = m.fut /\ m'.count = m.count
  BY DEF Closed, TypeInv, ManagerOk, Manager
<1>3. \A v : v \in tasks' <=> v \in tasks /\ v # t
  BY DEF Closed, Finish
<1>4. CalmNow' /\ Alone' /\ Sound(Watched')
  BY <1>1, <1>2, <1>3 DEF Safe, CalmNow, Alone
<1>6. Roles'
  BY <1>1, <1>2, <1>3 DEF Safe, Roles, MainKinds
<1>7. Environment'
  BY <1>1, <1>2, <1>3 DEF Safe, Roles, MainKinds, Environment, Confirming, Running
<1>8. Phases'
  BY <1>1, <1>2, <1>3 DEF Safe, Roles, MainKinds, Phases, Began, Executing, Running, Answer
<1>9. Booked'
  BY <1>1, <1>2, <1>3 DEF Safe, Booked
<1>10. Pipe'
  BY <1>1, <1>2, <1>3 DEF Safe, Roles, MainKinds, Pipe, Running
<1>11. Answers'
  BY <1>1, <1>2, <1>3 DEF Safe, Roles, MainKinds, Answers, Executing, Answer
<1>12. QED
  BY <1>4, <1>6, <1>7, <1>8, <1>9, <1>10, <1>11 DEF Safe

(* Joining a worker ends when it has left: it was told to. *)
LEMMA JoinedSafe ==
    ASSUME TypeInv, Safe, NEW t \in tasks, Joined(t)
    PROVE  Safe'
<1>1. /\ Watched' = Watched /\ worker' = worker /\ watched' = watched
      /\ m' = m /\ comm' = comm /\ poll' = poll /\ store' = store /\ t.at = "join"
  BY DEF Joined, Watched
<1>2. ~ Alive(Watched) /\ budget' = budget
  BY Calmly DEF Joined, Spend, Failures
<1>3. t.kind \in {"open", "close", "unexp"} /\ "exited" \in Places[t.kind]
  BY <1>1, TasksAre, KindsAre, PlacesAre
<1>4. PICK u : /\ u.id = t.id /\ u.kind = t.kind /\ u.at = "exited"
               /\ \A v : v \in tasks' <=> (v \in tasks /\ v # t) \/ v = u
  BY <1>3, GoesTo DEF Joined
<1>5. CalmNow' /\ Alone' /\ Sound(Watched')
  BY <1>1, <1>2, <1>3, <1>4 DEF Safe, CalmNow, Alone
<1>7. Roles'
  BY <1>1, <1>2, <1>3, <1>4 DEF Safe, Roles, MainKinds
<1>8. Environment'
  BY <1>1, <1>2, <1>3, <1>4 DEF Safe, Roles, MainKinds, Environment, Confirming, Running
<1>9. Phases'
  BY <1>1, <1>2, <1>3, <1>4 DEF Safe, Roles, MainKinds, Phases, Began, Executing, Running, Answer
<1>10. Booked'
  BY <1>1, <1>2, <1>3, <1>4 DEF Safe, Booked
<1>11. Pipe'
  BY <1>1, <1>2, <1>3, <1>4 DEF Safe, Roles, MainKinds, Pipe, Running
<1>12. Answers'
  BY <1>1, <1>2, <1>3, <1>4 DEF Safe, Roles, MainKinds, Answers, Executing, Answer
<1>13. QED
  BY <1>5, <1>7, <1>8, <1>9, <1>10, <1>11, <1>12 DEF Safe

(* A killed worker is gone. *)
LEMMA KillCheckedSafe ==
    ASSUME TypeInv, Safe, NEW t \in tasks, KillChecked(t)
    PROVE  Safe'
<1>1. /\ Watched' = Watched /\ worker' = worker /\ watched' = watched
      /\ comm' = comm /\ poll' = poll /\ store' = store /\ budget' = budget
      /\ t.kind = "kill" /\ t.at = "check"
  BY DEF KillChecked, At, Watched
<1>2. /\ m'.state = "idle" /\ ~ m'.env_exists /\ ~ m'.known
      /\ m'.fut = m.fut /\ m'.count = m.count
  BY DEF KillChecked, TypeInv, ManagerOk, Manager
<1>3. PICK u : /\ u.id = t.id /\ u.kind = t.kind /\ u.at = "unlock"
               /\ \A v : v \in tasks' <=> (v \in tasks /\ v # t) \/ v = u
  BY GoesTo, PlacesAre DEF KillChecked, At
<1>4. CalmNow' /\ Alone' /\ Sound(Watched')
  BY <1>1, <1>2, <1>3 DEF Safe, CalmNow, Alone
<1>6. Roles'
  BY <1>1, <1>2, <1>3 DEF Safe, Roles, MainKinds
<1>7. Environment'
  BY <1>1, <1>2, <1>3 DEF Safe, Roles, MainKinds, Environment, Confirming, Running
<1>8. Phases'
  BY <1>1, <1>2, <1>3 DEF Safe, Roles, MainKinds, Phases, Began, Executing, Running, Answer
<1>9. Booked'
  BY <1>1, <1>2, <1>3 DEF Safe, Booked
<1>10. Pipe'
  BY <1>1, <1>2, <1>3 DEF Safe, Roles, MainKinds, Pipe, Running
<1>11. Answers'
  BY <1>1, <1>2, <1>3 DEF Safe, Roles, MainKinds, Answers, Executing, Answer
<1>12. QED
  BY <1>4, <1>6, <1>7, <1>8, <1>9, <1>10, <1>11 DEF Safe

(* ... and what it locked is released. *)
LEMMA KillEndsSafe ==
    ASSUME TypeInv, Safe, NEW t \in tasks, KillEnds(t)
    PROVE  Safe'
<1>1. /\ Watched' = Watched /\ worker' = worker /\ watched' = watched
      /\ m' = m /\ comm' = comm /\ poll' = poll /\ budget' = budget
      /\ t.kind = "kill" /\ t.at = "unlock"
  BY DEF KillEnds, At, Watched
<1>2. \A v : v \in tasks' <=> v \in tasks /\ v # t
  BY DEF KillEnds, Finish
<1>3. Still(Watched)
  BY <1>1, WatchedIs DEF Safe, Roles, Sound, Still, Busy, Alive, Gone, NoWorker, Worker
<1>4. \A i \in 1..Len(comm.line) : comm.line[i].method # "run"
  BY <1>1, Callers DEF Safe, Roles, MainKinds
<1>5. CalmNow' /\ Alone' /\ Sound(Watched')
  BY <1>1, <1>2, <1>3, <1>4 DEF Safe, CalmNow, Alone
<1>7. Roles'
  BY <1>1, <1>2, <1>3, <1>4 DEF Safe, Roles, MainKinds
<1>8. Environment'
  BY <1>1, <1>2, <1>3, <1>4 DEF Safe, Roles, MainKinds, Environment, Confirming, Running
<1>9. Phases'
  BY <1>1, <1>2, <1>3, <1>4 DEF Safe, Roles, MainKinds, Phases, Began, Executing, Running, Answer
<1>10. Booked'
  BY <1>1, <1>2, <1>3, <1>4 DEF Safe, Booked
<1>11. Pipe'
  BY <1>1, <1>2, <1>3, <1>4 DEF Safe, Roles, MainKinds, Pipe, Running, Apt
<1>12. Answers'
  BY <1>1, <1>2, <1>3, <1>4 DEF Safe, Roles, MainKinds, Answers, Executing, Answer
<1>13. QED
  BY <1>5, <1>7, <1>8, <1>9, <1>10, <1>11, <1>12 DEF Safe

-----------------------------------------------------------------------------
(* Clients' requests. *)

(* A queue is started when nothing else is done with the environment. *)
LEMMA StartAskedSafe ==
    ASSUME TypeInv, Safe, Idle, StartAsked
    PROVE  Safe'
<1>1. /\ Watched' = Watched /\ worker' = worker /\ watched' = watched
      /\ comm' = comm /\ poll' = poll
      /\ m.state # "initializing" /\ ~ Running("boot") /\ ~ Running("client") /\ Free(tasks) # {}
  BY DEF StartAsked, Start, Serving, Watched, Room
<1>2. CalmNow'
  BY Calmly DEF StartAsked
<1>3. /\ m.state = "idle" /\ m.env_exists /\ m.known
      /\ m'.state = "starting_queue" /\ m'.env_exists = m.env_exists /\ m'.known = m.known
      /\ m'.fut = m.fut /\ m'.count = m.count
  BY DEF StartAsked, Start, CanStart, TypeInv, ManagerOk, Manager
<1>4. store'.running = store.running
  BY DEF StartAsked, Start, TypeInv, Store
<1>5. PICK u : /\ u.id \in 1..MaxTasks /\ u.kind = "plan" /\ u.at = "begin" /\ \A v \in tasks : v.id # u.id
               /\ \A v : v \in tasks' <=> v \in tasks \/ v = u
  BY Begins DEF StartAsked, Serving, Room, Start
<1>6. u.id # 0 /\ ~ Heads(comm, u.id) /\ ~ Replied(comm, u.id) /\ ~ First(comm, u.id)
  BY <1>5, TasksAre, Quiet
<1>7. \A v \in tasks : v.kind \notin MainKinds
  BY <1>1, <1>3, TasksAre, PlacesAre DEF Idle, Ready, Safe, Roles, MainKinds, Running
<1>8. Still(Watched)
  BY <1>1, <1>3, <1>7 DEF Safe, Phases, Executing, Began, MainKinds
<1>9. CalmNow' /\ Alone' /\ Sound(Watched')
  BY <1>1, <1>2, <1>3, <1>4, <1>5, <1>6, <1>7, <1>8 DEF Safe, CalmNow, Alone
<1>11. Roles'
  BY <1>1, <1>2, <1>3, <1>4, <1>5, <1>6, <1>7, <1>8 DEF Safe, Roles, MainKinds
<1>12. Environment'
  BY <1>1, <1>2, <1>3, <1>4, <1>5, <1>6, <1>7, <1>8
     DEF Safe, Roles, MainKinds, Environment, Confirming, Running
<1>13. Phases'
  BY <1>1, <1>2, <1>3, <1>4, <1>5, <1>6, <1>7, <1>8
     DEF Safe, Roles, MainKinds, Phases, Began, Executing, Running, Answer
<1>14. Booked'
  BY <1>1, <1>2, <1>3, <1>4, <1>5, <1>6, <1>7, <1>8 DEF Safe, Booked
<1>15. Pipe'
  BY <1>1, <1>2, <1>3, <1>4, <1>5, <1>6, <1>7, <1>8 DEF Safe, Roles, MainKinds, Pipe, Running, Apt
<1>16. Answers'
  BY <1>1, <1>2, <1>3, <1>4, <1>5, <1>6, <1>7, <1>8
     DEF Safe, Roles, MainKinds, Answers, Executing, Answer
<1>17. QED
  BY <1>9, <1>11, <1>12, <1>13, <1>14, <1>15, <1>16 DEF Safe

(* So it is when the queue starts by itself. *)
LEMMA AutostartsSafe ==
    ASSUME TypeInv, Safe, Idle, Autostarts
    PROVE  Safe'
<1>1. /\ Watched' = Watched /\ worker' = worker /\ watched' = watched
      /\ comm' = comm /\ poll' = poll
      /\ m.state # "initializing" /\ ~ Running("boot") /\ ~ Running("client") /\ Free(tasks) # {}
  BY DEF Autostarts, Start, Serving, Watched, Room
<1>2. CalmNow'
  BY Calmly DEF Autostarts
<1>3. /\ m.state = "idle" /\ m.env_exists /\ m.known
      /\ m'.state = "starting_queue" /\ m'.env_exists = m.env_exists /\ m'.known = m.known
      /\ m'.fut = m.fut /\ m'.count = m.count
  BY DEF Autostarts, Start, CanStart, TypeInv, ManagerOk, Manager
<1>4. store'.running = store.running
  BY DEF Autostarts, Start, TypeInv, Store
<1>5. PICK u : /\ u.id \in 1..MaxTasks /\ u.kind = "plan" /\ u.at = "begin" /\ \A v \in tasks : v.id # u.id
               /\ \A v : v \in tasks' <=> v \in tasks \/ v = u
  BY Begins DEF Autostarts, Serving, Room, Start
<1>6. u.id # 0 /\ ~ Heads(comm, u.id) /\ ~ Replied(comm, u.id) /\ ~ First(comm, u.id)
  BY <1>5, TasksAre, Quiet
<1>7. \A v \in tasks : v.kind \notin MainKinds
  BY <1>1, <1>3, TasksAre, PlacesAre DEF Idle, Ready, Safe, Roles, MainKinds, Running
<1>8. Still(Watched)
  BY <1>1, <1>3, <1>7 DEF Safe, Phases, Executing, Began, MainKinds
<1>9. CalmNow' /\ Alone' /\ Sound(Watched')
  BY <1>1, <1>2, <1>3, <1>4, <1>5, <1>6, <1>7, <1>8 DEF Safe, CalmNow, Alone
<1>11. Roles'
  BY <1>1, <1>2, <1>3, <1>4, <1>5, <1>6, <1>7, <1>8 DEF Safe, Roles, MainKinds
<1>12. Environment'
  BY <1>1, <1>2, <1>3, <1>4, <1>5, <1>6, <1>7, <1>8
     DEF Safe, Roles, MainKinds, Environment, Confirming, Running
<1>13. Phases'
  BY <1>1, <1>2, <1>3, <1>4, <1>5, <1>6, <1>7, <1>8
     DEF Safe, Roles, MainKinds, Phases, Began, Executing, Running, Answer
<1>14. Booked'
  BY <1>1, <1>2, <1>3, <1>4, <1>5, <1>6, <1>7, <1>8 DEF Safe, Booked
<1>15. Pipe'
  BY <1>1, <1>2, <1>3, <1>4, <1>5, <1>6, <1>7, <1>8 DEF Safe, Roles, MainKinds, Pipe, Running, Apt
<1>16. Answers'
  BY <1>1, <1>2, <1>3, <1>4, <1>5, <1>6, <1>7, <1>8
     DEF Safe, Roles, MainKinds, Answers, Executing, Answer
<1>17. QED
  BY <1>9, <1>11, <1>12, <1>13, <1>14, <1>15, <1>16 DEF Safe

(* Requests that only set a flag of the store. *)
LEMMA AutostartAskedSafe ==
    ASSUME TypeInv, Safe, AutostartAsked
    PROVE  Safe'
<1>1. /\ Watched' = Watched /\ worker' = worker /\ watched' = watched
      /\ m' = m /\ tasks' = tasks /\ comm' = comm /\ poll' = poll
      /\ m.state # "initializing" /\ ~ Running("boot") /\ ~ Running("client") /\ Free(tasks) # {}
  BY DEF AutostartAsked, Serving, Watched, Room
<1>2. CalmNow'
  BY Calmly DEF AutostartAsked
<1>3. store'.running = store.running
  BY DEF AutostartAsked, TypeInv, Store
<1>4. CalmNow' /\ Alone' /\ Sound(Watched')
  BY <1>1, <1>2, <1>3 DEF Safe, CalmNow, Alone
<1>6. Roles'
  BY <1>1, <1>2, <1>3 DEF Safe, Roles, MainKinds
<1>7. Environment'
  BY <1>1, <1>2, <1>3 DEF Safe, Roles, MainKinds, Environment, Confirming, Running
<1>8. Phases'
  BY <1>1, <1>2, <1>3 DEF Safe, Roles, MainKinds, Phases, Began, Executing, Running, Answer
<1>9. Booked'
  BY <1>1, <1>2, <1>3 DEF Safe, Booked
<1>10. Pipe'
  BY <1>1, <1>2, <1>3 DEF Safe, Roles, MainKinds, Pipe, Running, Apt
<1>11. Answers'
  BY <1>1, <1>2, <1>3 DEF Safe, Roles, MainKinds, Answers, Executing, Answer
<1>12. QED
  BY <1>4, <1>6, <1>7, <1>8, <1>9, <1>10, <1>11 DEF Safe

(* A request to stop the queue sets a flag. *)
LEMMA StopAskedSafe ==
    ASSUME TypeInv, Safe, StopAsked
    PROVE  Safe'
<1>1. /\ Watched' = Watched /\ worker' = worker /\ watched' = watched
      /\ m' = m /\ tasks' = tasks /\ comm' = comm /\ poll' = poll
      /\ m.state # "initializing" /\ ~ Running("boot") /\ ~ Running("client") /\ Free(tasks) # {}
  BY DEF StopAsked, Serving, Watched, Room
<1>2. CalmNow'
  BY Calmly DEF StopAsked
<1>3. store'.running = store.running
  BY DEF StopAsked, TypeInv, Store
<1>4. CalmNow' /\ Alone' /\ Sound(Watched')
  BY <1>1, <1>2, <1>3 DEF Safe, CalmNow, Alone
<1>6. Roles'
  BY <1>1, <1>2, <1>3 DEF Safe, Roles, MainKinds
<1>7. Environment'
  BY <1>1, <1>2, <1>3 DEF Safe, Roles, MainKinds, Environment, Confirming, Running
<1>8. Phases'
  BY <1>1, <1>2, <1>3 DEF Safe, Roles, MainKinds, Phases, Began, Executing, Running, Answer
<1>9. Booked'
  BY <1>1, <1>2, <1>3 DEF Safe, Booked
<1>10. Pipe'
  BY <1>1, <1>2, <1>3 DEF Safe, Roles, MainKinds, Pipe, Running, Apt
<1>11. Answers'
  BY <1>1, <1>2, <1>3 DEF Safe, Roles, MainKinds, Answers, Executing, Answer
<1>12. QED
  BY <1>4, <1>6, <1>7, <1>8, <1>9, <1>10, <1>11 DEF Safe

(* ... and clears it. *)
LEMMA StopCancelledSafe ==
    ASSUME TypeInv, Safe, StopCancelled
    PROVE  Safe'
<1>1. /\ Watched' = Watched /\ worker' = worker /\ watched' = watched
      /\ m' = m /\ tasks' = tasks /\ comm' = comm /\ poll' = poll
      /\ m.state # "initializing" /\ ~ Running("boot") /\ ~ Running("client") /\ Free(tasks) # {}
  BY DEF StopCancelled, Serving, Watched, Room
<1>2. CalmNow'
  BY Calmly DEF StopCancelled
<1>3. store'.running = store.running
  BY DEF StopCancelled, TypeInv, Store
<1>4. CalmNow' /\ Alone' /\ Sound(Watched')
  BY <1>1, <1>2, <1>3 DEF Safe, CalmNow, Alone
<1>6. Roles'
  BY <1>1, <1>2, <1>3 DEF Safe, Roles, MainKinds
<1>7. Environment'
  BY <1>1, <1>2, <1>3 DEF Safe, Roles, MainKinds, Environment, Confirming, Running
<1>8. Phases'
  BY <1>1, <1>2, <1>3 DEF Safe, Roles, MainKinds, Phases, Began, Executing, Running, Answer
<1>9. Booked'
  BY <1>1, <1>2, <1>3 DEF Safe, Booked
<1>10. Pipe'
  BY <1>1, <1>2, <1>3 DEF Safe, Roles, MainKinds, Pipe, Running, Apt
<1>11. Answers'
  BY <1>1, <1>2, <1>3 DEF Safe, Roles, MainKinds, Answers, Executing, Answer
<1>12. QED
  BY <1>4, <1>6, <1>7, <1>8, <1>9, <1>10, <1>11 DEF Safe

(* The queue is edited while no plan is being started. *)
LEMMA QueueEditedSafe ==
    ASSUME TypeInv, Safe, QueueEdited
    PROVE  Safe'
<1>1. /\ Watched' = Watched /\ worker' = worker /\ watched' = watched
      /\ m' = m /\ tasks' = tasks /\ comm' = comm /\ poll' = poll
      /\ m.state # "initializing" /\ ~ Running("boot") /\ ~ Running("client") /\ Free(tasks) # {}
  BY DEF QueueEdited, Serving, Watched, Room
<1>2. CalmNow'
  BY Calmly DEF QueueEdited
<1>3. store'.running = store.running
  BY DEF QueueEdited, TypeInv, Store
<1>4. CalmNow' /\ Alone' /\ Sound(Watched')
  BY <1>1, <1>2, <1>3 DEF Safe, CalmNow, Alone
<1>6. Roles'
  BY <1>1, <1>2, <1>3 DEF Safe, Roles, MainKinds
<1>7. Environment'
  BY <1>1, <1>2, <1>3 DEF Safe, Roles, MainKinds, Environment, Confirming, Running
<1>8. Phases'
  BY <1>1, <1>2, <1>3 DEF Safe, Roles, MainKinds, Phases, Began, Executing, Running, Answer
<1>9. Booked'
  BY <1>1, <1>2, <1>3 DEF Safe, Booked
<1>10. Pipe'
  BY <1>1, <1>2, <1>3 DEF Safe, Roles, MainKinds, Pipe, Running, Apt
<1>11. Answers'
  BY <1>1, <1>2, <1>3 DEF Safe, Roles, MainKinds, Answers, Executing, Answer
<1>12. QED
  BY <1>4, <1>6, <1>7, <1>8, <1>9, <1>10, <1>11 DEF Safe

(* What set_processed_item leaves to a coroutine of its own. *)
LEMMA StateSetSafe ==
    ASSUME TypeInv, Safe, NEW t \in tasks, StateSet(t)
    PROVE  Safe'
<1>1. /\ Watched' = Watched /\ worker' = worker /\ watched' = watched
      /\ comm' = comm /\ poll' = poll /\ budget' = budget /\ t.kind = "set"
  BY DEF StateSet, Watched
<1>2. /\ m'.env_exists = m.env_exists /\ m'.known = m.known /\ m'.fut = m.fut /\ m'.count = m.count
      /\ m'.state = (IF t.at = "paused" THEN "paused" ELSE "idle")
  BY DEF StateSet, TypeInv, ManagerOk, Manager
<1>3. store'.running = store.running
  BY DEF StateSet, TypeInv, Store
<1>4. t.at \in {"idle", "idle_auto", "paused"}
  BY <1>1, TasksAre, PlacesAre
<1>5. \A v : v \in tasks' <=> v \in tasks /\ v # t
  BY DEF StateSet, Finish
<1>6. CalmNow' /\ Alone' /\ Sound(Watched')
  BY <1>1, <1>2, <1>3, <1>4, <1>5 DEF Safe, CalmNow, Alone
<1>8. Roles'
  BY <1>1, <1>2, <1>3, <1>4, <1>5 DEF Safe, Roles, MainKinds
<1>9. Environment'
  BY <1>1, <1>2, <1>3, <1>4, <1>5 DEF Safe, Roles, MainKinds, Environment, Confirming, Running
<1>10. Phases'
  BY <1>1, <1>2, <1>3, <1>4, <1>5
     DEF Safe, Roles, MainKinds, Phases, Began, Executing, Running, Answer
<1>11. Booked'
  BY <1>1, <1>2, <1>3, <1>4, <1>5 DEF Safe, Booked
<1>12. Pipe'
  BY <1>1, <1>2, <1>3, <1>4, <1>5 DEF Safe, Roles, MainKinds, Pipe, Running, Apt
<1>13. Answers'
  BY <1>1, <1>2, <1>3, <1>4, <1>5 DEF Safe, Roles, MainKinds, Answers, Executing, Answer
<1>14. QED
  BY <1>6, <1>8, <1>9, <1>10, <1>11, <1>12, <1>13 DEF Safe

(* The devices of a plan are released. *)
LEMMA ReportUnlockedSafe ==
    ASSUME TypeInv, Safe, NEW t \in tasks, ReportUnlocked(t)
    PROVE  Safe'
<1>1. /\ Watched' = Watched /\ worker' = worker /\ watched' = watched
      /\ m' = m /\ comm' = comm /\ poll' = poll /\ store' = store /\ budget' = budget
      /\ t.kind = "report" /\ t.at = "unlock"
  BY DEF ReportUnlocked, At, Watched
<1>2. PICK u : /\ u.id \in 1..MaxTasks /\ u.kind = "set" /\ u.at = "idle_auto" /\ \A v \in tasks : v # t => v.id # u.id
               /\ \A v : v \in tasks' <=> (v \in tasks /\ v # t) \/ v = u
  BY GivesWay DEF ReportUnlocked
<1>3. ~ Heads(comm, t.id) /\ ~ Replied(comm, t.id)
  BY <1>1, RestsAt, RestingQuiet
<1>4. CalmNow' /\ Alone' /\ Sound(Watched')
  BY <1>1, <1>2, <1>3 DEF Safe, CalmNow, Alone
<1>6. Roles'
  BY <1>1, <1>2, <1>3 DEF Safe, Roles, MainKinds
<1>7. Environment'
  BY <1>1, <1>2, <1>3 DEF Safe, Roles, MainKinds, Environment, Confirming, Running
<1>8. Phases'
  BY <1>1, <1>2, <1>3 DEF Safe, Roles, MainKinds, Phases, Began, Executing, Running, Answer
<1>9. Booked'
  BY <1>1, <1>2, <1>3 DEF Safe, Booked
<1>10. Pipe'
  BY <1>1, <1>2, <1>3 DEF Safe, Roles, MainKinds, Pipe, Running
<1>11. Answers'
  BY <1>1, <1>2, <1>3 DEF Safe, Roles, MainKinds, Answers, Executing, Answer
<1>12. QED
  BY <1>4, <1>6, <1>7, <1>8, <1>9, <1>10, <1>11 DEF Safe

(* ... before the next plan starts. *)
LEMMA PlanReleasedSafe ==
    ASSUME TypeInv, Safe, NEW t \in tasks, PlanReleased(t)
    PROVE  Safe'
<1>1. /\ Watched' = Watched /\ worker' = worker /\ watched' = watched
      /\ m' = m /\ comm' = comm /\ poll' = poll /\ store' = store /\ budget' = budget
      /\ t.kind = "plan" /\ t.at = "release"
  BY DEF PlanReleased, At, Watched
<1>2. "begin" \in Places[t.kind]
  BY <1>1, PlacesAre
<1>3. PICK u : /\ (u.kind = "set" /\ u.at = "idle_auto") \/ (u.kind = "plan" /\ u.at = "begin")
               /\ \A v : v \in tasks' <=> (v \in tasks /\ v # t) \/ v = u
  <2>1. CASE tasks' = Goto(t, "begin")
    BY <2>1, <1>1, <1>2, GoesTo
  <2>2. CASE tasks' = Spawn(Finish(t), "set", "idle_auto")
    BY <2>2, GivesWay
  <2>3. QED
    BY <2>1, <2>2 DEF PlanReleased
<1>4. CalmNow' /\ Alone' /\ Sound(Watched')
  BY <1>1, <1>2, <1>3 DEF Safe, CalmNow, Alone
<1>6. Roles'
  BY <1>1, <1>2, <1>3 DEF Safe, Roles, MainKinds
<1>7. Environment'
  BY <1>1, <1>2, <1>3 DEF Safe, Roles, MainKinds, Environment, Confirming, Running
<1>8. Phases'
  BY <1>1, <1>2, <1>3 DEF Safe, Roles, MainKinds, Phases, Began, Executing, Running, Answer
<1>9. Booked'
  BY <1>1, <1>2, <1>3 DEF Safe, Booked
<1>10. Pipe'
  BY <1>1, <1>2, <1>3 DEF Safe, Roles, MainKinds, Pipe, Running
<1>11. Answers'
  BY <1>1, <1>2, <1>3 DEF Safe, Roles, MainKinds, Answers, Executing, Answer
<1>12. QED
  BY <1>4, <1>6, <1>7, <1>8, <1>9, <1>10, <1>11 DEF Safe

-----------------------------------------------------------------------------
(* Replies to the requests that call the worker. *)

(* The watchdog kills the worker at once. *)
LEMMA KillSentSafe ==
    ASSUME TypeInv, Safe, NEW t \in tasks, KillSent(t)
    PROVE  Safe'
<1>1. /\ watched' = watched /\ comm' = comm /\ poll' = poll /\ store' = store /\ budget' = budget
      /\ t.kind = "kill" /\ t.at = "kill"
  BY DEF KillSent, At
<1>2. /\ m'.state = "destroying_environment" /\ m'.env_exists = m.env_exists /\ m'.known = m.known
      /\ m'.fut = m.fut /\ m'.count = m.count
  BY DEF KillSent, TypeInv, ManagerOk, Manager
<1>3. Sound(Gone) /\ Still(Gone) /\ ~ Alive(Gone) /\ Gone.life = "gone" /\ ~ Gone.sure
  BY DEF Sound, Gone, NoWorker, Still, Busy, Blank, Alive
<1>4. PICK u : /\ u.id = t.id /\ u.kind = t.kind /\ u.at = "check"
               /\ \A v : v \in tasks' => (v \in tasks /\ v # t) \/ v = u
               /\ \A v : v \in tasks /\ v # t => v \in tasks'
               /\ watched # 0 => u \in tasks'
  BY <1>1, GoesTo, PlacesAre DEF KillSent, Finish
<1>5. \/ Watched' = Watched /\ worker' = worker /\ ~ Alive(Watched)
      \/ Watched' = Gone /\ tasks = {t} /\ watched # 0 /\ \A p \in Processes : ~ Alive(worker'[p])
  <2>1. CASE watched = 0
    BY <2>1, <1>1 DEF KillSent, Watched, NoWorker, Alive
  <2>2. CASE watched # 0 /\ ~ Alive(Watched)
    <3>1. worker' = [worker EXCEPT ![watched] = worker[watched]] /\ worker \in [Processes -> Worker]
      BY <2>2, <1>1 DEF KillSent, Watched, TypeInv
    <3>2. worker' = worker
      BY <3>1
    <3>3. QED
      BY <2>2, <3>2, <1>1 DEF Watched
  <2>3. CASE watched # 0 /\ Alive(Watched)
    <3>1. worker' = [worker EXCEPT ![watched] = Gone] /\ watched \in Processes /\ worker \in [Processes -> Worker]
      BY <2>3, <1>1 DEF KillSent, Watched, TypeInv
    <3>2. Watched' = Gone /\ \A p \in Processes : ~ Alive(worker'[p])
      BY <3>1, <2>3, <1>1, <1>3 DEF Watched, Safe, Alone
    <3>3. tasks = {t}
      BY <2>3, <1>1 DEF Safe, Roles
    <3>4. QED
      BY <2>3, <3>2, <3>3
  <2>4. QED
    BY <2>1, <2>2, <2>3
<1>6. CalmNow' /\ Alone' /\ Sound(Watched')
  BY <1>1, <1>2, <1>3, <1>4, <1>5 DEF Safe, CalmNow, Alone
<1>8. Roles'
  BY <1>1, <1>2, <1>3, <1>4, <1>5 DEF Safe, Roles, MainKinds
<1>9. Environment'
  BY <1>1, <1>2, <1>3, <1>4, <1>5
     DEF Safe, Roles, MainKinds, Environment, Confirming, Running, Alive, NoWorker, Watched, Parting
<1>10. Phases'
  BY <1>1, <1>2, <1>3, <1>4, <1>5
     DEF Safe, Roles, MainKinds, Phases, Began, Executing, Running, Answer, Alive
<1>11. Booked'
  BY <1>1, <1>2, <1>3, <1>4, <1>5 DEF Safe, Booked
<1>12. Pipe'
  BY <1>1, <1>2, <1>3, <1>4, <1>5 DEF Safe, Roles, MainKinds, Pipe, Running
<1>13. Answers'
  BY <1>1, <1>2, <1>3, <1>4, <1>5 DEF Safe, Roles, MainKinds, Answers, Executing, Answer
<1>14. QED
  BY <1>6, <1>8, <1>9, <1>10, <1>11, <1>12, <1>13 DEF Safe

(* The worker is told to leave: it was parting, and now it is sure to. *)
LEMMA ExitConfirmedSafe ==
    ASSUME TypeInv, Safe, NEW t \in tasks, ExitConfirmed(t)
    PROVE  Safe'
<1>1. /\ Watched' = Watched /\ worker' = worker /\ watched' = watched
      /\ poll' = poll /\ store' = store /\ t.at = "confirm"
  BY DEF ExitConfirmed, Watched
<1>2. /\ m'.state = m.state /\ ~ m'.env_exists /\ ~ m'.known
      /\ m'.fut = m.fut /\ m'.count = m.count
  BY DEF ExitConfirmed, TypeInv, ManagerOk, Manager
<1>3. TimedOut(t.id) \/ Answered(t.id)
  BY DEF ExitConfirmed, Accepted, Refused
<1>4. /\ Heads(comm, t.id) /\ Drops(comm, comm', t.id) /\ budget' = budget
      /\ \A v \in tasks : v # t => v.id # t.id /\ ~ Heads(comm, v.id)
  <2>1. Heads(comm, t.id) /\ Drops(comm, comm', t.id)
    BY <1>3, CallOver, HangUpDrops DEF ExitConfirmed
  <2>2. budget' = budget
    BY CallOver DEF ExitConfirmed, Accepted, Refused
  <2>3. \A v \in tasks : v # t => v.id # t.id /\ ~ Heads(comm, v.id)
    BY <2>1, TasksAre DEF Heads
  <2>4. QED
    BY <2>1, <2>2, <2>3
<1>5. t.kind \in {"open", "close", "unexp"} /\ "join" \in Places[t.kind] /\ "exited" \in Places[t.kind]
  BY <1>1, TasksAre, KindsAre, PlacesAre
<1>6. Head(comm.line).method = "confirm"
  <2>1. comm.line # <<>> /\ Head(comm.line).from = t.id /\ 1 \in 1..Len(comm.line) /\ Head(comm.line) = comm.line[1]
    BY <1>4, TasksAre, SeqHead DEF Heads, Calls, Lined
  <2>2. PICK v \in tasks : v.id = t.id /\ Waits(v, comm.line[1].method)
    BY <2>1, TasksAre, Callers
  <2>3. v = t
    BY <2>2, TasksAre
  <2>4. QED
    BY <2>1, <2>2, <2>3, <1>1 DEF Waits
<1>7. Refused(t.id) => ~ Alive(Watched)
  <2>1. Parting(Watched)
    BY <1>1 DEF Safe, Environment
  <2>2. CASE TimedOut(t.id)
    <3>1. Unread(comm)
      BY <2>2, <1>4, <1>6, CallOver DEF Safe, Pipe, InTime, Heads
    <3>2. Watched.life # "up"
      BY <3>1, <2>2, CallOver, ReadsIfUp
    <3>3. Watched.life # "booting"
      BY <2>1 DEF Safe, Sound, Parting, Alive, Fresh, NoWorker
    <3>4. QED
      BY <3>2, <3>3 DEF Alive
  <2>3. CASE Answered(t.id) /\ ~ Answer
    BY <2>3, <1>1, CallOver DEF Safe, Answers
  <2>4. QED
    BY <2>2, <2>3 DEF Refused
<1>8. PICK u : /\ u.id = t.id /\ u.kind = t.kind /\ u.at \in {"join", "exited"} /\ (u.at = "exited" => ~ Alive(Watched))
               /\ \A v : v \in tasks' <=> (v \in tasks /\ v # t) \/ v = u
  <2>1. CASE tasks' = Goto(t, "join")
    BY <2>1, <1>5, GoesTo
  <2>2. CASE tasks' = Goto(t, "exited") /\ Refused(t.id)
    BY <2>2, <1>5, <1>7, GoesTo
  <2>3. QED
    BY <2>1, <2>2 DEF ExitConfirmed
<1>9. CalmNow' /\ Alone' /\ Sound(Watched')
  BY <1>1, <1>2, <1>3, <1>4, <1>5, <1>6, <1>7, <1>8 DEF Safe, CalmNow, Alone
<1>11. Roles'
  BY <1>1, <1>2, <1>3, <1>4, <1>5, <1>6, <1>7, <1>8 DEF Safe, Roles, MainKinds
<1>12. Environment'
  BY <1>1, <1>2, <1>3, <1>4, <1>5, <1>6, <1>7, <1>8
     DEF Safe, Roles, MainKinds, Environment, Confirming, Running, Drops, Replied
<1>13. Phases'
  BY <1>1, <1>2, <1>3, <1>4, <1>5, <1>6, <1>7, <1>8
     DEF Safe, Roles, MainKinds, Phases, Began, Executing, Running, Answer, Drops, Replied
<1>14. Booked'
  BY <1>1, <1>2, <1>3, <1>4, <1>5, <1>6, <1>7, <1>8 DEF Safe, Booked, Drops
<1>15. Pipe'
  BY <1>1, <1>2, <1>3, <1>4, <1>5, <1>6, <1>7, <1>8
     DEF Safe, Roles, MainKinds, Pipe, Running, Drops, NoNews
<1>16. Answers'
  BY <1>1, <1>2, <1>3, <1>4, <1>5, <1>6, <1>7, <1>8
     DEF Safe, Roles, MainKinds, Answers, Executing, Answer, Drops
<1>17. QED
  BY <1>9, <1>11, <1>12, <1>13, <1>14, <1>15, <1>16 DEF Safe

(* A worker that accepts to be closed executes nothing; one that refuses   *)
(* goes on.                                                                *)
LEMMA CloseAnsweredSafe ==
    ASSUME TypeInv, Safe, NEW t \in tasks, CloseAnswered(t)
    PROVE  Safe'
<1>1. /\ Watched' = Watched /\ worker' = worker /\ watched' = watched
      /\ poll' = poll /\ store' = store
      /\ t.kind = "close" /\ t.at = "close"
  BY DEF CloseAnswered, At, Watched
<1>2. /\ m'.state \in {"closing_environment", "idle"} /\ m'.env_exists = m.env_exists /\ m'.known = m.known
      /\ m'.fut = m.fut /\ m'.count = m.count
      /\ (tasks' = Goto(t, "wait") /\ m'.state = "closing_environment") \/ tasks' = Finish(t)
  BY DEF CloseAnswered, TypeInv, ManagerOk, Manager
<1>3. TimedOut(t.id) \/ Answered(t.id)
  BY DEF CloseAnswered, Accepted, Refused
<1>4. /\ Heads(comm, t.id) /\ Drops(comm, comm', t.id) /\ budget' = budget
      /\ \A v \in tasks : v # t => v.id # t.id /\ ~ Heads(comm, v.id)
  <2>1. Heads(comm, t.id) /\ Drops(comm, comm', t.id)
    BY <1>3, CallOver, HangUpDrops DEF CloseAnswered
  <2>2. budget' = budget
    BY CallOver DEF CloseAnswered, Accepted, Refused
  <2>3. \A v \in tasks : v # t => v.id # t.id /\ ~ Heads(comm, v.id)
    BY <2>1, TasksAre DEF Heads
  <2>4. QED
    BY <2>1, <2>2, <2>3
<1>5. PICK u : /\ u.id = t.id /\ u.kind = t.kind /\ u.at = "wait"
               /\ \A v : v \in tasks' => (v \in tasks /\ v # t) \/ (v = u /\ m'.state = "closing_environment")
               /\ \A v : v \in tasks /\ v # t => v \in tasks'
  BY <1>1, <1>2, GoesTo, PlacesAre DEF Finish
<1>6. CalmNow' /\ Alone' /\ Sound(Watched')
  BY <1>1, <1>2, <1>3, <1>4, <1>5 DEF Safe, CalmNow, Alone
<1>8. Roles'
  BY <1>1, <1>2, <1>3, <1>4, <1>5 DEF Safe, Roles, MainKinds
<1>9. Environment'
  BY <1>1, <1>2, <1>3, <1>4, <1>5
     DEF Safe, Roles, MainKinds, Environment, Confirming, Running, Drops, Replied
<1>10. Phases'
  BY <1>1, <1>2, <1>3, <1>4, <1>5
     DEF Safe, Roles, MainKinds, Phases, Began, Executing, Running, Answer, Drops, Replied
<1>11. Booked'
  BY <1>1, <1>2, <1>3, <1>4, <1>5 DEF Safe, Booked, Drops
<1>12. Pipe'
  BY <1>1, <1>2, <1>3, <1>4, <1>5 DEF Safe, Roles, MainKinds, Pipe, Running, Drops, NoNews
<1>13. Answers'
  BY <1>1, <1>2, <1>3, <1>4, <1>5 DEF Safe, Roles, MainKinds, Answers, Executing, Answer, Drops
<1>14. QED
  BY <1>6, <1>8, <1>9, <1>10, <1>11, <1>12, <1>13 DEF Safe

(* A pause comes while a plan executes. *)
LEMMA PauseAnsweredSafe ==
    ASSUME TypeInv, Safe, NEW t \in tasks, PauseAnswered(t)
    PROVE  Safe'
<1>1. /\ Watched' = Watched /\ worker' = worker /\ watched' = watched
      /\ poll' = poll /\ store' = store
      /\ t.kind = "client" /\ t.at = "pause"
  BY DEF PauseAnswered, At, Watched
<1>2. /\ m'.env_exists = m.env_exists /\ m'.known = m.known /\ m'.fut = m.fut /\ m'.count = m.count /\ m'.state = m.state
  BY DEF PauseAnswered, Accepted, TypeInv, ManagerOk, Manager
<1>3. TimedOut(t.id) \/ Answered(t.id)
  BY DEF PauseAnswered, Accepted, Refused
<1>4. /\ Heads(comm, t.id) /\ Drops(comm, comm', t.id) /\ budget' = budget
      /\ \A v \in tasks : v # t => v.id # t.id /\ ~ Heads(comm, v.id)
  <2>1. Heads(comm, t.id) /\ Drops(comm, comm', t.id)
    BY <1>3, CallOver, HangUpDrops DEF PauseAnswered
  <2>2. budget' = budget
    BY CallOver DEF PauseAnswered, Accepted, Refused
  <2>3. \A v \in tasks : v # t => v.id # t.id /\ ~ Heads(comm, v.id)
    BY <2>1, TasksAre DEF Heads
  <2>4. QED
    BY <2>1, <2>2, <2>3
<1>5. \A v : v \in tasks' <=> v \in tasks /\ v # t
  BY DEF PauseAnswered, Finish
<1>6. ~ Began /\ ~ Confirming
  BY <1>1, <1>4, PlacesAre DEF Began, Confirming, Replied
<1>7. CalmNow' /\ Alone' /\ Sound(Watched')
  BY <1>1, <1>2, <1>3, <1>4, <1>5, <1>6 DEF Safe, CalmNow, Alone
<1>9. Roles'
  BY <1>1, <1>2, <1>3, <1>4, <1>5, <1>6 DEF Safe, Roles, MainKinds
<1>10. Environment'
  BY <1>1, <1>2, <1>3, <1>4, <1>5, <1>6
     DEF Safe, Roles, MainKinds, Environment, Confirming, Running, Drops, Replied
<1>11. Phases'
  BY <1>1, <1>2, <1>3, <1>4, <1>5, <1>6
     DEF Safe, Roles, MainKinds, Phases, Began, Executing, Running, Answer, Drops, Replied
<1>12. Booked'
  BY <1>1, <1>2, <1>3, <1>4, <1>5, <1>6 DEF Safe, Booked, Drops
<1>13. Pipe'
  BY <1>1, <1>2, <1>3, <1>4, <1>5, <1>6 DEF Safe, Roles, MainKinds, Pipe, Running, Drops, NoNews
<1>14. Answers'
  BY <1>1, <1>2, <1>3, <1>4, <1>5, <1>6
     DEF Safe, Roles, MainKinds, Answers, Executing, Answer, Drops
<1>15. QED
  BY <1>7, <1>9, <1>10, <1>11, <1>12, <1>13, <1>14 DEF Safe

(* So does the order to go on. *)
LEMMA ContinueAnsweredSafe ==
    ASSUME TypeInv, Safe, NEW t \in tasks, ContinueAnswered(t)
    PROVE  Safe'
<1>1. /\ Watched' = Watched /\ worker' = worker /\ watched' = watched
      /\ poll' = poll /\ store' = store
      /\ t.kind = "client" /\ t.at = "continue"
  BY DEF ContinueAnswered, At, Watched
<1>2. /\ m'.env_exists = m.env_exists /\ m'.known = m.known /\ m'.fut = m.fut /\ m'.count = m.count
      /\ m'.state = m.state \/ (m'.state = "executing_queue" /\ Answered(t.id) /\ Answer)
  BY DEF ContinueAnswered, Accepted, TypeInv, ManagerOk, Manager
<1>3. TimedOut(t.id) \/ Answered(t.id)
  BY DEF ContinueAnswered, Accepted, Refused
<1>4. /\ Heads(comm, t.id) /\ Drops(comm, comm', t.id) /\ budget' = budget
      /\ \A v \in tasks : v # t => v.id # t.id /\ ~ Heads(comm, v.id)
  <2>1. Heads(comm, t.id) /\ Drops(comm, comm', t.id)
    BY <1>3, CallOver, HangUpDrops DEF ContinueAnswered
  <2>2. budget' = budget
    BY CallOver DEF ContinueAnswered, Accepted, Refused
  <2>3. \A v \in tasks : v # t => v.id # t.id /\ ~ Heads(comm, v.id)
    BY <2>1, TasksAre DEF Heads
  <2>4. QED
    BY <2>1, <2>2, <2>3
<1>5. \A v : v \in tasks' <=> v \in tasks /\ v # t
  BY DEF ContinueAnswered, Finish
<1>6. ~ Began /\ ~ Confirming
  BY <1>1, <1>4, PlacesAre DEF Began, Confirming, Replied
<1>7. m'.state # m.state => /\ Executing /\ m'.state = "executing_queue"
                            /\ \A v \in tasks : v.kind \in MainKinds =>
                                  (v.kind = "set" /\ v.at = "paused") \/ (v.kind = "report" /\ v.at \in {"begin", "fetch"})
  BY <1>1, <1>2, CallOver DEF Safe, Answers
<1>8. CalmNow' /\ Alone' /\ Sound(Watched')
  BY <1>1, <1>2, <1>3, <1>4, <1>5, <1>6, <1>7 DEF Safe, CalmNow, Alone
<1>10. Roles'
  BY <1>1, <1>2, <1>3, <1>4, <1>5, <1>6, <1>7 DEF Safe, Roles, MainKinds
<1>11. Environment'
  BY <1>1, <1>2, <1>3, <1>4, <1>5, <1>6, <1>7
     DEF Safe, Roles, MainKinds, Environment, Confirming, Running, Drops, Replied
<1>12. Phases'
  BY <1>1, <1>2, <1>3, <1>4, <1>5, <1>6, <1>7
     DEF Safe, Roles, MainKinds, Phases, Began, Executing, Running, Answer, Drops, Replied
<1>13. Booked'
  BY <1>1, <1>2, <1>3, <1>4, <1>5, <1>6, <1>7 DEF Safe, Booked, Drops
<1>14. Pipe'
  BY <1>1, <1>2, <1>3, <1>4, <1>5, <1>6, <1>7
     DEF Safe, Roles, MainKinds, Pipe, Running, Drops, NoNews
<1>15. Answers'
  BY <1>1, <1>2, <1>3, <1>4, <1>5, <1>6, <1>7
     DEF Safe, Roles, MainKinds, Answers, Executing, Answer, Drops
<1>16. QED
  BY <1>8, <1>10, <1>11, <1>12, <1>13, <1>14, <1>15 DEF Safe

(* Without rashness an environment is destroyed only while nothing else is *)
(* done.                                                                   *)
LEMMA DestroyAskedSafe ==
    ASSUME TypeInv, Safe, DestroyAsked
    PROVE  Safe'
<1>1. /\ Watched' = Watched /\ worker' = worker /\ watched' = watched
      /\ comm' = comm /\ poll' = poll /\ store' = store
      /\ m.state # "initializing" /\ ~ Running("boot") /\ ~ Running("client") /\ Free(tasks) # {}
  BY DEF DestroyAsked, Serving, Watched, Room
<1>2. CalmNow' /\ tasks = {}
  BY Calmly DEF DestroyAsked, Failures
<1>3. /\ m'.state = m.state /\ m'.env_exists = m.env_exists /\ m'.known = m.known /\ m'.count = m.count
  BY DEF DestroyAsked, Complete, TypeInv, ManagerOk, Manager
<1>4. PICK u : /\ u.id \in 1..MaxTasks /\ u.kind = "kill" /\ u.at = "kill" /\ \A v \in tasks : v.id # u.id
               /\ \A v : v \in tasks' <=> v \in tasks \/ v = u
  BY Begins DEF DestroyAsked, Serving, Room
<1>5. u.id # 0 /\ ~ Heads(comm, u.id) /\ ~ Replied(comm, u.id) /\ ~ First(comm, u.id)
  BY <1>4, TasksAre, Quiet
<1>6. CalmNow' /\ Alone' /\ Sound(Watched')
  BY <1>1, <1>2, <1>3, <1>4, <1>5 DEF Safe, CalmNow, Alone
<1>8. Roles'
  BY <1>1, <1>2, <1>3, <1>4, <1>5 DEF Safe, Roles, MainKinds
<1>9. Environment'
  BY <1>1, <1>2, <1>3, <1>4, <1>5 DEF Safe, Roles, MainKinds, Environment, Confirming, Running
<1>10. Phases'
  BY <1>1, <1>2, <1>3, <1>4, <1>5
     DEF Safe, Roles, MainKinds, Phases, Began, Executing, Running, Answer
<1>11. Booked'
  BY <1>1, <1>2, <1>3, <1>4, <1>5 DEF Safe, Booked
<1>12. Pipe'
  BY <1>1, <1>2, <1>3, <1>4, <1>5 DEF Safe, Roles, MainKinds, Pipe, Running
<1>13. Answers'
  BY <1>1, <1>2, <1>3, <1>4, <1>5 DEF Safe, Roles, MainKinds, Answers, Executing, Answer
<1>14. QED
  BY <1>6, <1>8, <1>9, <1>10, <1>11, <1>12, <1>13 DEF Safe

(* An environment is opened when there is none and no worker lives. *)
LEMMA OpenAskedSafe ==
    ASSUME TypeInv, Safe, Idle, OpenAsked
    PROVE  Safe'
<1>1. /\ Watched' = Watched /\ worker' = worker /\ watched' = watched
      /\ comm' = comm /\ poll' = poll /\ store' = store
      /\ m.state # "initializing" /\ ~ Running("boot") /\ ~ Running("client") /\ Free(tasks) # {}
  BY DEF OpenAsked, Serving, Watched, Room
<1>2. CalmNow'
  BY Calmly DEF OpenAsked
<1>3. /\ m.state = "idle" /\ ~ m.env_exists /\ ~ Lingering /\ ~ Replied(comm, 0)
  BY Calmly DEF OpenAsked, Failures, Answered, Calling, Replied, Heads
<1>4. /\ m'.state = "creating_environment" /\ ~ m'.env_exists /\ m'.known = m.known
      /\ m'.count = 0 /\ m'.fut = "pending"
  BY DEF OpenAsked, TypeInv, ManagerOk, Manager
<1>5. \A v \in tasks : FALSE
  BY <1>1, <1>3, TasksAre, KindsAre DEF Idle, Ready, Lingering, Running, Safe, Roles, MainKinds
<1>6. PICK u : /\ u.id \in 1..MaxTasks /\ u.kind = "open" /\ u.at \in {"prefetch", "start"}
               /\ \A v : v \in tasks' <=> v \in tasks \/ v = u
  BY Begins DEF OpenAsked, Serving, Room
<1>7. ~ Alive(Watched)
  BY <1>3, <1>5 DEF Safe, Environment
<1>8. CalmNow' /\ Alone' /\ Sound(Watched')
  BY <1>1, <1>2, <1>3, <1>4, <1>5, <1>6, <1>7 DEF Safe, CalmNow, Alone
<1>10. Roles'
  BY <1>1, <1>2, <1>3, <1>4, <1>5, <1>6, <1>7 DEF Safe, Roles, MainKinds
<1>11. Environment'
  BY <1>1, <1>2, <1>3, <1>4, <1>5, <1>6, <1>7
     DEF Safe, Roles, MainKinds, Environment, Confirming, Running
<1>12. Phases'
  BY <1>1, <1>2, <1>3, <1>4, <1>5, <1>6, <1>7
     DEF Safe, Roles, MainKinds, Phases, Began, Executing, Running, Answer
<1>13. Booked'
  BY <1>1, <1>2, <1>3, <1>4, <1>5, <1>6, <1>7 DEF Safe, Booked
<1>14. Pipe'
  BY <1>1, <1>2, <1>3, <1>4, <1>5, <1>6, <1>7 DEF Safe, Roles, MainKinds, Pipe, Running
<1>15. Answers'
  BY <1>1, <1>2, <1>3, <1>4, <1>5, <1>6, <1>7 DEF Safe, Roles, MainKinds, Answers, Executing, Answer
<1>16. QED
  BY <1>8, <1>10, <1>11, <1>12, <1>13, <1>14, <1>15 DEF Safe

(* An environment is closed when nothing executes. *)
LEMMA CloseAskedSafe ==
    ASSUME TypeInv, Safe, Idle, CloseAsked
    PROVE  Safe'
<1>1. /\ Watched' = Watched /\ worker' = worker /\ watched' = watched
      /\ poll' = poll /\ store' = store
      /\ m.state # "initializing" /\ ~ Running("boot") /\ ~ Running("client") /\ Free(tasks) # {}
  BY DEF CloseAsked, Serving, Watched, Room
<1>2. CalmNow'
  BY Calmly DEF CloseAsked
<1>3. /\ m.state = "idle" /\ m.env_exists
      /\ m'.state = "closing_environment" /\ m'.env_exists /\ m'.known = m.known
      /\ m'.count = m.count /\ m'.fut = "pending"
  BY DEF CloseAsked, TypeInv, ManagerOk, Manager
<1>4. PICK u : /\ u.id = NewId(tasks) /\ u.id \in 1..MaxTasks /\ u.kind = "close" /\ u.at = "close" /\ \A v \in tasks : v.id # u.id
               /\ \A v : v \in tasks' <=> v \in tasks \/ v = u
  BY Begins DEF CloseAsked, Serving, Room
<1>5. Adds(comm, comm', u.id, "close", NoPlan)
  BY <1>4, TasksAre, CallAdds DEF CloseAsked, Methods
<1>6. u.id # 0 /\ ~ Heads(comm, u.id) /\ ~ Replied(comm, u.id)
  BY <1>4, TasksAre, Quiet
<1>7. \A v \in tasks : v.kind \notin MainKinds
  BY <1>1, <1>3, TasksAre, PlacesAre DEF Idle, Ready, Safe, Roles, MainKinds, Running
<1>8. Still(Watched)
  BY <1>1, <1>3, <1>7 DEF Safe, Phases, Executing, Began, MainKinds
<1>9. CalmNow' /\ Alone' /\ Sound(Watched')
  BY <1>1, <1>2, <1>3, <1>4, <1>5, <1>6, <1>7, <1>8 DEF Safe, CalmNow, Alone
<1>11. Roles'
  BY <1>1, <1>2, <1>3, <1>4, <1>5, <1>6, <1>7, <1>8 DEF Safe, Roles, MainKinds
<1>12. Environment'
  BY <1>1, <1>2, <1>3, <1>4, <1>5, <1>6, <1>7, <1>8
     DEF Safe, Roles, MainKinds, Environment, Confirming, Running, Adds
<1>13. Phases'
  BY <1>1, <1>2, <1>3, <1>4, <1>5, <1>6, <1>7, <1>8
     DEF Safe, Roles, MainKinds, Phases, Began, Executing, Running, Answer, Adds
<1>14. Booked'
  BY <1>1, <1>2, <1>3, <1>4, <1>5, <1>6, <1>7, <1>8 DEF Safe, Booked, Adds
<1>15. Pipe'
  BY <1>1, <1>2, <1>3, <1>4, <1>5, <1>6, <1>7, <1>8
     DEF Safe, Roles, MainKinds, Pipe, Running, Adds, NoNews, Heads
<1>16. Answers'
  BY <1>1, <1>2, <1>3, <1>4, <1>5, <1>6, <1>7, <1>8
     DEF Safe, Roles, MainKinds, Answers, Executing, Answer, Adds
<1>17. QED
  BY <1>9, <1>11, <1>12, <1>13, <1>14, <1>15, <1>16 DEF Safe

(* A pause is passed on to the worker. *)
LEMMA PauseAskedSafe ==
    ASSUME TypeInv, Safe, Idle, PauseAsked
    PROVE  Safe'
<1>1. /\ Watched' = Watched /\ worker' = worker /\ watched' = watched
      /\ m' = m /\ poll' = poll /\ store' = store
      /\ m.state # "initializing" /\ ~ Running("boot") /\ ~ Running("client") /\ Free(tasks) # {}
  BY DEF PauseAsked, Serving, Watched, Room
<1>2. CalmNow'
  BY Calmly DEF PauseAsked
<1>3. PICK u : /\ u.id = NewId(tasks) /\ u.id \in 1..MaxTasks /\ u.kind = "client" /\ u.at = "pause" /\ \A v \in tasks : v.id # u.id
               /\ \A v : v \in tasks' <=> v \in tasks \/ v = u
  BY Begins DEF PauseAsked, Serving, Room
<1>4. Adds(comm, comm', u.id, "pause", NoPlan)
  BY <1>3, TasksAre, CallAdds DEF PauseAsked, Methods
<1>5. u.id # 0 /\ ~ Heads(comm, u.id) /\ ~ Replied(comm, u.id)
  BY <1>3, TasksAre, Quiet
<1>6. \A v \in tasks : v.at # "kill"
  BY DEF Idle, Ready
<1>7. CalmNow' /\ Alone' /\ Sound(Watched')
  BY <1>1, <1>2, <1>3, <1>4, <1>5, <1>6 DEF Safe, CalmNow, Alone
<1>9. Roles'
  BY <1>1, <1>2, <1>3, <1>4, <1>5, <1>6 DEF Safe, Roles, MainKinds
<1>10. Environment'
  BY <1>1, <1>2, <1>3, <1>4, <1>5, <1>6
     DEF Safe, Roles, MainKinds, Environment, Confirming, Running, Adds
<1>11. Phases'
  BY <1>1, <1>2, <1>3, <1>4, <1>5, <1>6
     DEF Safe, Roles, MainKinds, Phases, Began, Executing, Running, Answer, Adds
<1>12. Booked'
  BY <1>1, <1>2, <1>3, <1>4, <1>5, <1>6 DEF Safe, Booked, Adds
<1>13. Pipe'
  BY <1>1, <1>2, <1>3, <1>4, <1>5, <1>6
     DEF Safe, Roles, MainKinds, Pipe, Running, Adds, NoNews, Heads
<1>14. Answers'
  BY <1>1, <1>2, <1>3, <1>4, <1>5, <1>6 DEF Safe, Roles, MainKinds, Answers, Executing, Answer, Adds
<1>15. QED
  BY <1>7, <1>9, <1>10, <1>11, <1>12, <1>13, <1>14 DEF Safe

(* A plan that is paused goes on. *)
LEMMA ContinueAskedSafe ==
    ASSUME TypeInv, Safe, Idle, ContinueAsked
    PROVE  Safe'
<1>1. /\ Watched' = Watched /\ worker' = worker /\ watched' = watched
      /\ m' = m /\ poll' = poll /\ store' = store
      /\ m.state # "initializing" /\ ~ Running("boot") /\ ~ Running("client") /\ Free(tasks) # {}
  BY DEF ContinueAsked, Serving, Watched, Room
<1>2. CalmNow'
  BY Calmly DEF ContinueAsked
<1>3. PICK u : /\ u.id = NewId(tasks) /\ u.id \in 1..MaxTasks /\ u.kind = "client" /\ u.at = "continue" /\ \A v \in tasks : v.id # u.id
               /\ \A v : v \in tasks' <=> v \in tasks \/ v = u
  BY Begins DEF ContinueAsked, Serving, Room
<1>4. PICK option \in Options : comm' = Call(comm, NewId(tasks), "continue", option)
  BY DEF ContinueAsked
<1>5. Adds(comm, comm', u.id, "continue", option)
  BY <1>3, <1>4, TasksAre, CallAdds DEF Methods
<1>6. u.id # 0 /\ ~ Heads(comm, u.id) /\ ~ Replied(comm, u.id)
  BY <1>3, TasksAre, Quiet
<1>7. \A v \in tasks : v.at # "kill"
  BY DEF Idle, Ready
<1>8. CalmNow' /\ Alone' /\ Sound(Watched')
  BY <1>1, <1>2, <1>3, <1>4, <1>5, <1>6, <1>7 DEF Safe, CalmNow, Alone
<1>10. Roles'
  BY <1>1, <1>2, <1>3, <1>4, <1>5, <1>6, <1>7 DEF Safe, Roles, MainKinds
<1>11. Environment'
  BY <1>1, <1>2, <1>3, <1>4, <1>5, <1>6, <1>7
     DEF Safe, Roles, MainKinds, Environment, Confirming, Running, Adds
<1>12. Phases'
  BY <1>1, <1>2, <1>3, <1>4, <1>5, <1>6, <1>7
     DEF Safe, Roles, MainKinds, Phases, Began, Executing, Running, Answer, Adds
<1>13. Booked'
  BY <1>1, <1>2, <1>3, <1>4, <1>5, <1>6, <1>7 DEF Safe, Booked, Adds
<1>14. Pipe'
  BY <1>1, <1>2, <1>3, <1>4, <1>5, <1>6, <1>7
     DEF Safe, Roles, MainKinds, Pipe, Running, Adds, NoNews, Heads
<1>15. Answers'
  BY <1>1, <1>2, <1>3, <1>4, <1>5, <1>6, <1>7
     DEF Safe, Roles, MainKinds, Answers, Executing, Answer, Adds
<1>16. QED
  BY <1>8, <1>10, <1>11, <1>12, <1>13, <1>14, <1>15 DEF Safe

-----------------------------------------------------------------------------
(* The poll, and the plans. *)

(* The poll joins the line. *)
LEMMA PollAsksSafe ==
    ASSUME TypeInv, Safe, Idle, PollAsks
    PROVE  Safe'
<1>1. /\ Watched' = Watched /\ worker' = worker /\ watched' = watched
      /\ m' = m /\ tasks' = tasks /\ store' = store /\ budget' = budget /\ poll' = "asks" /\ poll = "sleep"
      /\ (m.env_exists \/ m.state = "creating_environment")
  BY DEF PollAsks, Watched
<1>2. \A t \in tasks : t.kind = "open" /\ t.at \in {"prefetch", "start"} => m.count = 0
  BY Calmly DEF PollAsks, BeforeWorker, Failures
<1>3. Adds(comm, comm', 0, "state", NoPlan)
  BY TasksAre, CallAdds DEF PollAsks, Methods
<1>4. \A t \in tasks : t.id # 0 /\ t.at # "begin" /\ ~ (t.kind = "boot" /\ t.at = "alive")
  BY <1>1, TasksAre, KindsAre, PlacesAre DEF Idle, Ready, Safe, Roles, Environment
<1>5. CalmNow' /\ Alone' /\ Sound(Watched')
  BY <1>1, <1>2, <1>3, <1>4 DEF Safe, CalmNow, Alone
<1>7. Roles'
  BY <1>1, <1>2, <1>3, <1>4 DEF Safe, Roles, MainKinds
<1>8. Environment'
  BY <1>1, <1>2, <1>3, <1>4 DEF Safe, Roles, MainKinds, Environment, Confirming, Running, Adds
<1>9. Phases'
  BY <1>1, <1>2, <1>3, <1>4
     DEF Safe, Roles, MainKinds, Phases, Began, Executing, Running, Answer, Adds
<1>10. Booked'
  BY <1>1, <1>2, <1>3, <1>4 DEF Safe, Booked, Adds
<1>11. Pipe'
  BY <1>1, <1>2, <1>3, <1>4 DEF Safe, Roles, MainKinds, Pipe, Running, Adds, NoNews, Heads
<1>12. Answers'
  BY <1>1, <1>2, <1>3, <1>4 DEF Safe, Roles, MainKinds, Answers, Executing, Answer, Adds
<1>13. QED
  BY <1>5, <1>7, <1>8, <1>9, <1>10, <1>11, <1>12 DEF Safe

(* Polls time out only when no worker reads the pipe: it has left, or      *)
(* starts.                                                                 *)
LEMMA PollTimesOutSafe ==
    ASSUME TypeInv, Safe, Idle, PollTimesOut
    PROVE  Safe'
<1>1. /\ Watched' = Watched /\ worker' = worker /\ watched' = watched
      /\ store' = store /\ poll' = "sleep"
  BY DEF PollTimesOut, Watched
<1>2. /\ budget' = budget /\ Heads(comm, 0) /\ Drops(comm, comm', 0) /\ poll = "asks"
      /\ \A v \in tasks : v.id # 0 /\ ~ Heads(comm, v.id) /\ v.kind # "boot" /\ ~ First(comm, v.id)
      /\ ~ Began /\ ~ Confirming
  BY CallOver, PollOver DEF PollTimesOut
<1>3. /\ m'.state = m.state /\ m'.env_exists = m.env_exists /\ m'.known = m.known
      /\ m'.fut # m.fut => m'.fut \in {"true", "false"} /\ ~ Alive(Watched) /\ ~ (m.count = 0)
      /\ m.count = 0 => m'.count \in {0, 1}
      /\ tasks' # tasks => /\ tasks' = Spawn(tasks, "kill", "kill") /\ ~ Alive(Watched) /\ Attended
                           /\ m.state \notin {"creating_environment", "closing_environment"}
  <2>1. TimeoutLimit \in Nat \ {0, 1} /\ m.count \in Nat
    BY ManagerAssumption DEF TypeInv, ManagerOk, Manager
  <2>2. CASE m' = m /\ tasks' = tasks
    BY <2>2
  <2>3. CASE m' = [m EXCEPT !.count = IF m.count < TimeoutLimit THEN m.count + 1 ELSE m.count] /\ tasks' = tasks
    BY <2>1, <2>3 DEF TypeInv, ManagerOk, Manager
  <2> DEFINE given == [m EXCEPT !.count = 0, !.handled = TRUE]
  <2>4. CASE ~ Alive(Watched) /\ m.count # 0 /\ tasks' = tasks /\ \E f \in {"true", "false"} : m' = Complete(given, f)
    BY <2>1, <2>4 DEF Complete, TypeInv, ManagerOk, Manager
  <2>5. CASE /\ ~ Alive(Watched) /\ m' = given /\ tasks' = Spawn(tasks, "kill", "kill") /\ Attended
             /\ m.state \notin {"creating_environment", "closing_environment"}
    BY <2>1, <2>5 DEF TypeInv, ManagerOk, Manager
  <2> HIDE DEF given
  <2>6. m.count = 0 => (IF m.count < TimeoutLimit THEN m.count + 1 ELSE m.count) < TimeoutLimit
    BY <2>1
  <2>7. QED
    BY <2>2, <2>3, <2>4, <2>5, <2>6 DEF PollTimesOut, given
<1>4. tasks' # tasks => \A v \in tasks : v.kind \notin MainKinds
  <2>1. SUFFICES ASSUME tasks' # tasks PROVE \A v \in tasks : v.kind \notin MainKinds
    OBVIOUS
  <2>2. m.env_exists /\ m.state # "destroying_environment" /\ Watched.life = "gone"
    BY <2>1, <1>3, WatchedIs DEF Attended, Safe, Environment, Alive, Worker
  <2>3. ~ m.known /\ ~ Executing
    BY <2>2, <1>2 DEF Safe, Environment, Roles, Phases
  <2>4. QED
    BY <2>2, <2>3, <1>2, <1>3, <2>1, TasksAre, PlacesAre DEF Safe, Roles, MainKinds, Idle, Ready
<1>5. PICK u : /\ u.kind = "kill" /\ u.at = "kill"
               /\ \A v : v \in tasks' => v \in tasks \/ (v = u /\ tasks' # tasks)
               /\ \A v : v \in tasks => v \in tasks'
  <2>1. Free(tasks) # {}
    BY DEF PollTimesOut, Room
  <2>2. CASE tasks' = tasks
    <3>1. PICK u : u.kind = "kill" /\ u.at = "kill"
      BY <2>1, Begins
    <3>2. QED
      BY <2>2, <3>1
  <2>3. CASE tasks' # tasks
    BY <2>1, <2>3, <1>3, Begins
  <2>4. QED
    BY <2>2, <2>3
<1>6. CalmNow'
  BY <1>2, Calmly
<1>7. CalmNow' /\ Alone' /\ Sound(Watched')
  BY <1>1, <1>2, <1>3, <1>4, <1>5, <1>6 DEF Safe, CalmNow, Alone
<1>9. Roles'
  BY <1>1, <1>2, <1>3, <1>4, <1>5, <1>6 DEF Safe, Roles, MainKinds
<1>10. Environment'
  BY <1>1, <1>2, <1>3, <1>4, <1>5, <1>6
     DEF Safe, Roles, MainKinds, Environment, Confirming, Running, Drops, Replied, Parting
<1>11. Phases'
  BY <1>1, <1>2, <1>3, <1>4, <1>5, <1>6
     DEF Safe, Roles, MainKinds, Phases, Began, Executing, Running, Answer, Drops, Replied
<1>12. Booked'
  BY <1>1, <1>2, <1>3, <1>4, <1>5, <1>6 DEF Safe, Booked, Drops
<1>13. Pipe'
  BY <1>1, <1>2, <1>3, <1>4, <1>5, <1>6 DEF Safe, Roles, MainKinds, Pipe, Running, Drops, NoNews
<1>14. Answers'
  BY <1>1, <1>2, <1>3, <1>4, <1>5, <1>6
     DEF Safe, Roles, MainKinds, Answers, Executing, Answer, Drops
<1>15. QED
  BY <1>7, <1>9, <1>10, <1>11, <1>12, <1>13, <1>14 DEF Safe

(* What the poll sees begins the report of a plan or the end of a worker. *)
LEMMA PollAnsweredSafe ==
    ASSUME TypeInv, Safe, Idle, PollAnswered
    PROVE  Safe'
<1>1. /\ Watched' = Watched /\ worker' = worker /\ watched' = watched
      /\ store' = store /\ poll' = "sleep" /\ budget' = budget
  BY DEF PollAnswered, Watched
<1>2. /\ Heads(comm, 0) /\ Drops(comm, comm', 0) /\ poll = "asks"
      /\ \A v \in tasks : v.id # 0 /\ ~ Heads(comm, v.id) /\ v.kind # "boot" /\ ~ First(comm, v.id)
      /\ ~ Began /\ ~ Confirming
  BY PollOver DEF PollAnswered
<1>3. Replied(comm, 0) /\ Answer \in StateReplies
  BY CallOver, AnswerIsState DEF PollAnswered
<1>4. /\ m'.state = m.state /\ m'.env_exists = m.env_exists /\ m'.known /\ m'.count = 0
      /\ \/ m'.fut = m.fut
         \/ m'.fut \in {"true", "false"} /\ m.state = "closing_environment" /\ Answer.env = "closing"
         \/ m'.fut = "true" /\ m.state = "creating_environment"
         \/ m'.fut = "false" /\ m.state = "creating_environment" /\ Answer.env = "closing"
  BY DEF PollAnswered, AfterPoll, Complete, TypeInv, ManagerOk, Manager
<1>5. /\ Still(Watched) \/ Executing
      /\ Executing => Watched.life = "up" /\ Alive(Watched) /\ ~ Watched.sure /\ (Watched.exit => Watched.asked)
  BY <1>2 DEF Safe, Phases, Running, Alive
<1>6. Executing /\ Answer.available => ~ Still(Watched) /\ Watched.report # "none"
  BY <1>3, <1>5 DEF Safe, Answers, Still, Busy
<1>7. Executing /\ Answer.available => \A v \in tasks : v.kind \notin MainKinds
  BY <1>2, <1>5, <1>6, TasksAre, PlacesAre
     DEF Safe, Roles, Phases, Executing, MainKinds, Idle, Ready
<1>8. Answer.unexpected => Parting(Watched) /\ ~ Executing
  BY <1>3, <1>5 DEF Safe, Answers, Parting
<1>9. Answer.env = "closing" /\ ~ Executing => Parting(Watched)
  BY <1>3, <1>5 DEF Safe, Answers, Parting
<1>10. PICK u, w : /\ u.kind = "unexp" /\ u.at = "begin" /\ w.kind = "report" /\ w.at = "begin"
                   /\ \A v : v \in tasks' => \/ v \in tasks
                                             \/ v = u /\ Answer.unexpected
                                             \/ v = w /\ Executing /\ Answer.available
                   /\ \A v : v \in tasks => v \in tasks'
  <2>1. Free(tasks) # {} /\ Free(Spawn(tasks, "unexp", "begin")) # {}
    BY TasksAre, SpawnLeavesRoom DEF PollAnswered
  <2> DEFINE exits == IF Answer.unexpected THEN Spawn(tasks, "unexp", "begin") ELSE tasks
  <2>2. PICK u : u.kind = "unexp" /\ u.at = "begin" /\ \A v : v \in Spawn(tasks, "unexp", "begin") <=> v \in tasks \/ v = u
    BY <2>1, Begins
  <2>3. \A v : v \in exits <=> v \in tasks \/ (v = u /\ Answer.unexpected)
    BY <2>2
  <2>4. Free(exits) # {}
    BY <2>1
  <2>5. tasks' = IF Executing /\ Answer.available THEN Spawn(exits, "report", "begin") ELSE exits
    BY DEF PollAnswered, Executing
  <2> HIDE DEF exits
  <2>6. PICK w : w.kind = "report" /\ w.at = "begin" /\ \A v : v \in Spawn(exits, "report", "begin") <=> v \in exits \/ v = w
    BY <2>4, Begins
  <2>7. QED
    BY <2>2, <2>3, <2>5, <2>6
<1>11. CalmNow'
  BY <1>1, Calmly
<1>12. \A v \in tasks : v.at # "kill"
  BY DEF Idle, Ready
<1>13. CalmNow' /\ Alone'
  BY <1>1, <1>2, <1>3, <1>4, <1>5, <1>6, <1>7, <1>8, <1>9, <1>10, <1>11, <1>12
     DEF Safe, CalmNow, Alone
<1>14. Sound(Watched')
  BY <1>1, <1>2, <1>3, <1>4, <1>5, <1>6, <1>7, <1>8, <1>9, <1>10, <1>11, <1>12 DEF Safe
<1>15. Roles'
  BY <1>1, <1>2, <1>3, <1>4, <1>5, <1>6, <1>7, <1>8, <1>9, <1>10, <1>11, <1>12
     DEF Safe, Roles, MainKinds, Executing
<1>16. Environment'
  <2>9. \A v : v \in tasks => v \in tasks'
    BY <1>10
  <2>10. Watched' = Watched
    BY <1>1
  <2>11. m'.env_exists = m.env_exists
    BY <1>4
  <2>0. /\ \A v : v \in tasks => v \in tasks'
        /\ Watched' = Watched /\ m'.env_exists = m.env_exists
    BY <2>9, <2>10, <2>11
  <2>1. /\ m'.env_exists => Watched'.life # "none"
        /\ ~ m'.env_exists /\ Alive(Watched') =>
              \E t \in tasks' : (t.kind = "boot" /\ t.at = "alive") \/ (t.kind = "open" /\ t.at = "wait") \/ t.at = "join"
    BY <2>0 DEF Safe, Environment, Alive
  <2>2. /\ Watched'.life = "gone" /\ m'.env_exists => \E t \in tasks' : t.kind = "kill" /\ t.at = "check"
        /\ Watched'.sure => ~ m'.env_exists
    BY <2>0, <1>2, <1>3 DEF Safe, Environment, Running
  <2>3. \A t \in tasks : t.kind = "open" => t.at \notin {"prefetch", "start"}
    BY <1>3 DEF Safe, Environment
  <2>4. ~ Replied(comm', 0)
    BY <1>2 DEF Drops
  <2>5. \A t \in tasks' : t.at \in {"confirm", "join"} \/ t.kind = "unexp" => Parting(Watched)
    BY <1>8, <1>10 DEF Safe, Environment
  <2>6. \A t \in tasks' : t.kind = "open" /\ t.at = "wait" =>
              /\ Alive(Watched) /\ ~ Watched.sure /\ ~ m.env_exists
              /\ \A v \in tasks' : v.at # "confirm"
              /\ m'.fut = "false" => Parting(Watched)
    BY <1>4, <1>9, <1>10 DEF Safe, Environment, Roles, Executing
  <2>7. \A t \in tasks' : t.kind = "close" /\ t.at \in {"close", "wait"} /\ m'.fut \in {"true", "false"} => Parting(Watched)
    BY <1>4, <1>9, <1>10 DEF Safe, Environment, Roles, Executing
  <2>8. QED
    BY <1>1, <1>4, <1>10, <2>1, <2>2, <2>3, <2>4, <2>5, <2>6, <2>7
       DEF Safe, Environment, Confirming, Running
<1>17. Phases'
  BY <1>1, <1>2, <1>3, <1>4, <1>5, <1>6, <1>7, <1>8, <1>9, <1>10, <1>11, <1>12
     DEF Safe, Roles, MainKinds, Phases, Began, Executing, Running, Answer, Drops, Replied
<1>18. Booked'
  BY <1>1, <1>2 DEF Safe, Booked, Drops
<1>19. Pipe'
  BY <1>1, <1>2, <1>3, <1>4, <1>5, <1>6, <1>7, <1>8, <1>9, <1>10, <1>11, <1>12
     DEF Safe, Roles, MainKinds, Pipe, Running, Drops, NoNews
<1>20. Answers'
  BY <1>1, <1>2, <1>3, <1>4, <1>5, <1>6, <1>7, <1>8, <1>9, <1>10, <1>11, <1>12
     DEF Safe, Roles, MainKinds, Answers, Executing, Answer, Drops
<1>21. QED
  BY <1>13, <1>14, <1>15, <1>16, <1>17, <1>18, <1>19, <1>20 DEF Safe

(* The next plan is prepared, or the queue stops. *)
LEMMA PlanBeginsSafe ==
    ASSUME TypeInv, Safe, NEW t \in tasks, PlanBegins(t)
    PROVE  Safe'
<1>1. /\ Watched' = Watched /\ worker' = worker /\ watched' = watched
      /\ store' = store /\ poll' = poll /\ budget' = budget /\ t.kind = "plan" /\ t.at = "begin"
  BY DEF PlanBegins, BeginsUnless, At, Watched
<1>2. /\ m'.state = m.state /\ m'.env_exists = m.env_exists /\ m'.known = m.known
      /\ m'.fut = m.fut /\ m'.count = m.count
  BY DEF PlanBegins, BeginsUnless, TypeInv, ManagerOk, Manager
<1>3. ~ Heads(comm, t.id) /\ ~ Replied(comm, t.id)
  BY <1>1, RestsAt, RestingQuiet
<1>4. PICK u : /\ u.kind = "set" \/ (u.id = t.id /\ u.kind = "plan")
               /\ u.kind = "set" => u.at \in {"idle", "idle_auto"}
               /\ u.kind = "plan" => u.at \in {"prepare", "reset"}
               /\ comm' = comm \/ (Adds(comm, comm', t.id, "reset", NoPlan) /\ u.kind = "plan")
               /\ \A v : v \in tasks' <=> (v \in tasks /\ v # t) \/ v = u
  <2>1. CASE \E at \in {"idle", "idle_auto"} : tasks' = Spawn(Finish(t), "set", at) /\ comm' = comm
    BY <2>1, GivesWay
  <2>2. CASE store.queue # <<>> /\ comm' = comm /\ tasks' = Finish(t) \cup {[t EXCEPT !.at = "prepare", !.plan = Head(store.queue)]}
    <3>1. Head(store.queue) \in Plan \cup {NoPlan}
      BY <2>2 DEF TypeInv, Store
    <3>2. PICK u : /\ u.id = t.id /\ u.kind = "plan" /\ u.at = "prepare"
                   /\ \A v : v \in tasks' <=> (v \in tasks /\ v # t) \/ v = u
      <4> DEFINE h == Head(store.queue)
      <4>1. tasks' = Finish(t) \cup {[t EXCEPT !.at = "prepare", !.plan = h]} /\ h \in Plan \cup {NoPlan}
        BY <2>2, <3>1
      <4> DEFINE u == [t EXCEPT !.at = "prepare", !.plan = h]
      <4>2. t \in Task /\ "prepare" \in Places[t.kind]
        BY <1>1, PlacesAre DEF TypeInv, Fits, TaskSet
      <4> HIDE DEF h
      <4>3. u.id = t.id /\ u.kind = "plan" /\ u.at = "prepare"
        BY <4>1, <4>2, <1>1, TaskTakes
      <4>4. \A v : v \in tasks' <=> (v \in tasks /\ v # t) \/ v = u
        BY <4>1 DEF Finish
      <4> HIDE DEF u
      <4>5. QED
        BY <4>3, <4>4
    <3>3. QED
      BY <2>2, <3>2
  <2>3. CASE comm' = Call(comm, t.id, "reset", NoPlan) /\ tasks' = Goto(t, "reset")
    <3>1. Adds(comm, comm', t.id, "reset", NoPlan)
      BY <2>3, TasksAre, CallAdds DEF Methods
    <3>2. "reset" \in Places[t.kind]
      BY <1>1, PlacesAre
    <3>3. QED
      BY <2>3, <3>1, <3>2, <1>1, GoesTo
  <2>4. QED
    BY <2>1, <2>2, <2>3 DEF PlanBegins, BeginsUnless
<1>5. CalmNow' /\ Alone' /\ Sound(Watched')
  BY <1>1, <1>2, <1>3, <1>4 DEF Safe, CalmNow, Alone
<1>7. Roles'
  BY <1>1, <1>2, <1>3, <1>4 DEF Safe, Roles, MainKinds
<1>8. Environment'
  BY <1>1, <1>2, <1>3, <1>4 DEF Safe, Roles, MainKinds, Environment, Confirming, Running, Adds
<1>9. Phases'
  BY <1>1, <1>2, <1>3, <1>4
     DEF Safe, Roles, MainKinds, Phases, Began, Executing, Running, Answer, Adds
<1>10. Booked'
  BY <1>1, <1>2, <1>3, <1>4 DEF Safe, Booked, Adds
<1>11. Pipe'
  BY <1>1, <1>2, <1>3, <1>4 DEF Safe, Roles, MainKinds, Pipe, Running, Adds, NoNews, Heads
<1>12. Answers'
  BY <1>1, <1>2, <1>3, <1>4 DEF Safe, Roles, MainKinds, Answers, Executing, Answer, Adds
<1>13. QED
  BY <1>5, <1>7, <1>8, <1>9, <1>10, <1>11, <1>12 DEF Safe

(* The devices of the plan are locked; the worker is asked to forget the   *)
(* one before.                                                             *)
LEMMA PlanPreparedSafe ==
    ASSUME TypeInv, Safe, NEW t \in tasks, PlanPrepared(t)
    PROVE  Safe'
<1>1. /\ Watched' = Watched /\ worker' = worker /\ watched' = watched
      /\ store' = store /\ poll' = poll /\ budget' = budget /\ t.kind = "plan" /\ t.at = "prepare"
  BY DEF PlanPrepared, Prepared, At, Watched
<1>2. /\ m'.state \in {m.state, "idle"} /\ m'.env_exists = m.env_exists /\ m'.known = m.known
      /\ m'.fut = m.fut /\ m'.count = m.count
  BY DEF PlanPrepared, Prepared, TypeInv, ManagerOk, Manager
<1>3. ~ Heads(comm, t.id) /\ ~ Replied(comm, t.id)
  BY <1>1, RestsAt, RestingQuiet
<1>4. PICK u : /\ u.id = t.id /\ u.kind = "plan" /\ u.at = "reset"
               /\ \A v : v \in tasks' => (v \in tasks /\ v # t) \/ (v = u /\ m'.state = m.state)
               /\ \A v : v \in tasks /\ v # t => v \in tasks'
               /\ comm' = comm \/ (Adds(comm, comm', t.id, "reset", NoPlan) /\ u \in tasks')
  <2>1. "reset" \in Places[t.kind]
    BY <1>1, PlacesAre
  <2>2. PICK u : /\ u.id = t.id /\ u.kind = "plan" /\ u.at = "reset"
                 /\ \A v : v \in Goto(t, "reset") <=> (v \in tasks /\ v # t) \/ v = u
    BY <2>1, <1>1, GoesTo
  <2>3. CASE comm' = Call(comm, t.id, "reset", NoPlan) /\ tasks' = Goto(t, "reset") /\ m' = m
    <3>1. Adds(comm, comm', t.id, "reset", NoPlan)
      BY <2>3, TasksAre, CallAdds DEF Methods
    <3>2. QED
      BY <2>2, <2>3, <3>1
  <2>4. CASE comm' = comm /\ tasks' = Finish(t)
    BY <2>2, <2>4 DEF Finish
  <2>5. QED
    BY <2>3, <2>4 DEF PlanPrepared, Prepared
<1>5. CalmNow' /\ Alone' /\ Sound(Watched')
  BY <1>1, <1>2, <1>3, <1>4 DEF Safe, CalmNow, Alone
<1>7. Roles'
  BY <1>1, <1>2, <1>3, <1>4 DEF Safe, Roles, MainKinds
<1>8. Environment'
  BY <1>1, <1>2, <1>3, <1>4 DEF Safe, Roles, MainKinds, Environment, Confirming, Running, Adds
<1>9. Phases'
  BY <1>1, <1>2, <1>3, <1>4
     DEF Safe, Roles, MainKinds, Phases, Began, Executing, Running, Answer, Adds
<1>10. Booked'
  BY <1>1, <1>2, <1>3, <1>4 DEF Safe, Booked, Adds
<1>11. Pipe'
  BY <1>1, <1>2, <1>3, <1>4 DEF Safe, Roles, MainKinds, Pipe, Running, Adds, NoNews, Heads
<1>12. Answers'
  BY <1>1, <1>2, <1>3, <1>4 DEF Safe, Roles, MainKinds, Answers, Executing, Answer, Adds
<1>13. QED
  BY <1>5, <1>7, <1>8, <1>9, <1>10, <1>11, <1>12 DEF Safe

(* The worker has accepted the plan, or refused it. *)
LEMMA PlanStartedSafe ==
    ASSUME TypeInv, Safe, NEW t \in tasks, PlanStarted(t)
    PROVE  Safe'
<1>1. /\ Watched' = Watched /\ worker' = worker /\ watched' = watched
      /\ poll' = poll
      /\ t.kind = "plan" /\ t.at = "run"
  BY DEF PlanStarted, At, Watched
<1>2. /\ m'.state \in {"executing_queue", "idle"} /\ m'.env_exists = m.env_exists /\ m'.known = m.known
      /\ m'.fut = m.fut /\ m'.count = m.count
      /\ \/ Accepted(t.id) /\ m'.state = "executing_queue" /\ store' = store
         \/ Refused(t.id) /\ m'.state = "idle"
  BY DEF PlanStarted, TypeInv, ManagerOk, Manager
<1>3. TimedOut(t.id) \/ Answered(t.id)
  BY DEF PlanStarted, Accepted, Refused
<1>4. /\ Heads(comm, t.id) /\ Drops(comm, comm', t.id) /\ budget' = budget
      /\ \A v \in tasks : v # t => v.id # t.id /\ ~ Heads(comm, v.id)
  <2>1. Heads(comm, t.id) /\ Drops(comm, comm', t.id)
    BY <1>3, CallOver, HangUpDrops DEF PlanStarted
  <2>2. budget' = budget
    BY CallOver DEF PlanStarted, Accepted, Refused
  <2>3. \A v \in tasks : v # t => v.id # t.id /\ ~ Heads(comm, v.id)
    BY <2>1, TasksAre DEF Heads
  <2>4. QED
    BY <2>1, <2>2, <2>3
<1>5. \A v : v \in tasks' <=> v \in tasks /\ v # t
  BY DEF PlanStarted, Finish
<1>6. \A i \in 1..Len(comm.line) : comm.line[i].method = "run" => comm.line[i].from = t.id
  BY <1>1, RunsOnlyAt DEF MainKinds
<1>7. m'.state = "executing_queue" => Began
  BY <1>1, <1>2, CallOver DEF Accepted, Began
<1>8. m'.state = "idle" => ~ Began /\ Still(Watched)
  <2>1. m'.state = "idle" => Refused(t.id)
    BY <1>2
  <2>2. Refused(t.id) => ~ (Replied(comm, t.id) /\ Answer)
    BY CallOver DEF Refused, Replied
  <2>3. Refused(t.id) => ~ Began
    BY <2>2, <1>4 DEF Began, Replied
  <2>4. QED
    BY <2>1, <2>3, <1>1 DEF Safe, Phases
<1>9. CalmNow' /\ Alone' /\ Sound(Watched')
  BY <1>1, <1>2, <1>3, <1>4, <1>5, <1>6, <1>7, <1>8 DEF Safe, CalmNow, Alone
<1>11. Roles'
  BY <1>1, <1>2, <1>3, <1>4, <1>5, <1>6, <1>7, <1>8 DEF Safe, Roles, MainKinds
<1>12. Environment'
  BY <1>1, <1>2, <1>3, <1>4, <1>5, <1>6, <1>7, <1>8
     DEF Safe, Roles, MainKinds, Environment, Confirming, Running, Drops, Replied
<1>13. Phases'
  BY <1>1, <1>2, <1>3, <1>4, <1>5, <1>6, <1>7, <1>8
     DEF Safe, Roles, MainKinds, Phases, Began, Executing, Running, Answer, Drops, Replied
<1>14. Booked'
  BY <1>1, <1>2, <1>3, <1>4, <1>5, <1>6, <1>7, <1>8 DEF Safe, Booked, Drops
<1>15. Pipe'
  BY <1>1, <1>2, <1>3, <1>4, <1>5, <1>6, <1>7, <1>8
     DEF Safe, Roles, MainKinds, Pipe, Running, Drops, NoNews
<1>16. Answers'
  BY <1>1, <1>2, <1>3, <1>4, <1>5, <1>6, <1>7, <1>8
     DEF Safe, Roles, MainKinds, Answers, Executing, Answer, Drops
<1>17. QED
  BY <1>9, <1>11, <1>12, <1>13, <1>14, <1>15, <1>16 DEF Safe

(* The worker has forgotten the plan before; the next one is the running   *)
(* item.                                                                   *)
LEMMA PlanResetSafe ==
    ASSUME TypeInv, Safe, NEW t \in tasks, PlanReset(t)
    PROVE  Safe'
<1>1. /\ Watched' = Watched /\ worker' = worker /\ watched' = watched
      /\ poll' = poll
      /\ t.kind = "plan" /\ t.at = "reset"
  BY DEF PlanReset, At, Watched
<1>2. /\ m'.state \in {m.state, "idle"} /\ m'.env_exists = m.env_exists /\ m'.known = m.known
      /\ m'.fut = m.fut /\ m'.count = m.count
  BY DEF PlanReset, TypeInv, ManagerOk, Manager
<1>3. TimedOut(t.id) \/ Answered(t.id)
  BY DEF PlanReset, Accepted, Refused
<1>4. PICK c : /\ c = HangUp(comm) /\ Heads(comm, t.id) /\ Drops(comm, c, t.id) /\ budget' = budget
               /\ Fits(c, tasks \ {t}, poll)
  <2>1. Heads(comm, t.id) /\ ~ (Read /\ Unread(comm))
    BY <1>3, CallOver
  <2>2. Drops(comm, HangUp(comm), t.id)
    BY <2>1, TasksAre, CallEnds
  <2>3. Fits(HangUp(comm), tasks \ {t}, poll)
    BY <2>1, HangsUp DEF Heads, Calling, TypeInv
  <2>4. budget' = budget
    BY CallOver DEF PlanReset, Accepted, Refused
  <2>5. QED
    BY <2>1, <2>2, <2>3, <2>4
<1>5. \A v \in tasks : v # t => v.id # t.id /\ ~ Heads(comm, v.id)
  BY <1>4, TasksAre DEF Heads
<1>6. \A i \in 1..Len(comm.line) : comm.line[i].method = "run" => comm.line[i].from = t.id
  BY <1>1, RunsOnlyAt DEF MainKinds
<1>7. ~ Began /\ Still(Watched)
  BY <1>1, <1>4, <1>5 DEF Began, Replied, Safe, Phases, Roles, MainKinds
<1>8. PICK u : /\ u.id = t.id /\ u.kind = "plan" /\ u.at = "run"
               /\ \A v : v \in tasks /\ v # t => v \in tasks'
               /\ \/ /\ comm' = c /\ \A v : v \in tasks' => v \in tasks /\ v # t
                     /\ m'.state = m.state \/ m'.state = "idle"
                  \/ /\ Adds(c, comm', t.id, "run", store'.running) /\ m'.state = m.state
                     /\ \A v : v \in tasks' <=> (v \in tasks /\ v # t) \/ v = u
  <2>1. PICK u : /\ u.id = t.id /\ u.kind = "plan" /\ u.at = "run"
                 /\ \A v : v \in Goto(t, "run") <=> (v \in tasks /\ v # t) \/ v = u
    BY <1>1, GoesTo, PlacesAre
  <2>2. CASE tasks' = Finish(t) /\ comm' = HangUp(comm)
    BY <2>1, <2>2, <1>2, <1>4 DEF Finish
  <2>3. CASE /\ m' = m /\ store' = [store EXCEPT !.running = Head(store.queue), !.queue = Tail(@)] /\ store.queue # <<>>
             /\ comm' = Call(HangUp(comm), t.id, "run", Head(store.queue)) /\ tasks' = Goto(t, "run")
    <3>1. store'.running = Head(store.queue) /\ store'.running \in Plan
      BY <2>3 DEF TypeInv, Store
    <3>2. comm' = Call(c, t.id, "run", store'.running) /\ Calls(c, tasks \ {t}, poll) /\ MaxTasks \in Nat
      BY <2>3, <3>1, <1>4 DEF Fits
    <3>3. Adds(c, comm', t.id, "run", store'.running)
      BY <3>1, <3>2, TasksAre, CallJoins DEF Methods
    <3>4. QED
      BY <2>1, <2>3, <3>3
  <2>4. QED
    BY <2>2, <2>3 DEF PlanReset
<1>9. CalmNow' /\ Alone' /\ Sound(Watched')
  BY <1>1, <1>2, <1>3, <1>4, <1>5, <1>6, <1>7, <1>8 DEF Safe, CalmNow, Alone
<1>11. Roles'
  BY <1>1, <1>2, <1>3, <1>4, <1>5, <1>6, <1>7, <1>8 DEF Safe, Roles, MainKinds
<1>12. Environment'
  BY <1>1, <1>2, <1>3, <1>4, <1>5, <1>6, <1>7, <1>8
     DEF Safe, Roles, MainKinds, Environment, Confirming, Running, Drops, Replied, Adds
<1>13. Phases'
  BY <1>1, <1>2, <1>3, <1>4, <1>5, <1>6, <1>7, <1>8
     DEF Safe, Roles, MainKinds, Phases, Began, Executing, Running, Answer, Drops, Replied, Adds
<1>14. Booked'
  BY <1>1, <1>2, <1>3, <1>4, <1>5, <1>6, <1>7, <1>8 DEF Safe, Booked, Drops, Adds
<1>15. Pipe'
  BY <1>1, <1>2, <1>3, <1>4, <1>5, <1>6, <1>7, <1>8
     DEF Safe, Roles, MainKinds, Pipe, Running, Drops, NoNews, Adds
<1>16. Answers'
  BY <1>1, <1>2, <1>3, <1>4, <1>5, <1>6, <1>7, <1>8
     DEF Safe, Roles, MainKinds, Answers, Executing, Answer, Drops, Adds
<1>17. QED
  BY <1>9, <1>11, <1>12, <1>13, <1>14, <1>15, <1>16 DEF Safe

(* The report is fetched, since the worker has one. *)
LEMMA ReportAskedSafe ==
    ASSUME TypeInv, Safe, NEW t \in tasks, ReportAsked(t)
    PROVE  Safe'
<1>1. /\ Watched' = Watched /\ worker' = worker /\ watched' = watched
      /\ m' = m /\ poll' = poll /\ store' = store /\ budget' = budget
      /\ t.kind = "report" /\ t.at = "begin"
  BY DEF ReportAsked, At, Watched
<1>2. PICK u : /\ u.id = t.id /\ u.kind = t.kind /\ u.at = "fetch"
               /\ \A v : v \in tasks' <=> (v \in tasks /\ v # t) \/ v = u
  BY GoesTo, PlacesAre DEF ReportAsked, At
<1>3. ~ Heads(comm, t.id) /\ ~ Replied(comm, t.id)
  BY <1>1, RestsAt, RestingQuiet
<1>4. Adds(comm, comm', t.id, "report", NoPlan)
  BY TasksAre, CallAdds DEF ReportAsked, Methods
<1>5. poll = "sleep" /\ t.id # 0
  BY <1>1, TasksAre DEF Safe, Phases
<1>6. \A i \in 1..Len(comm.line) : comm.line[i].from # 0
  BY <1>5, Callers, TasksAre
<1>7. First(comm', t.id)
  BY <1>4, <1>5, <1>6 DEF Adds
<1>8. CalmNow' /\ Alone' /\ Sound(Watched')
  BY <1>1, <1>2, <1>3, <1>4, <1>5, <1>6, <1>7 DEF Safe, CalmNow, Alone
<1>10. Roles'
  BY <1>1, <1>2, <1>3, <1>4, <1>5, <1>6, <1>7 DEF Safe, Roles, MainKinds
<1>11. Environment'
  BY <1>1, <1>2, <1>3, <1>4, <1>5, <1>6, <1>7
     DEF Safe, Roles, MainKinds, Environment, Confirming, Running, Adds
<1>12. Phases'
  BY <1>1, <1>2, <1>3, <1>4, <1>5, <1>6, <1>7
     DEF Safe, Roles, MainKinds, Phases, Began, Executing, Running, Answer, Adds
<1>13. Booked'
  BY <1>1, <1>2, <1>3, <1>4, <1>5, <1>6, <1>7 DEF Safe, Booked, Adds
<1>14. Pipe'
  BY <1>1, <1>2, <1>3, <1>4, <1>5, <1>6, <1>7
     DEF Safe, Roles, MainKinds, Pipe, Running, Adds, NoNews, Heads
<1>15. Answers'
  BY <1>1, <1>2, <1>3, <1>4, <1>5, <1>6, <1>7
     DEF Safe, Roles, MainKinds, Answers, Executing, Answer, Adds
<1>16. QED
  BY <1>8, <1>10, <1>11, <1>12, <1>13, <1>14, <1>15 DEF Safe

(* A plan whose report is not "paused" is over, and the worker is still. *)
LEMMA ReportProcessedSafe ==
    ASSUME TypeInv, Safe, NEW t \in tasks, ReportProcessed(t)
    PROVE  Safe'
<1>1. /\ Watched' = Watched /\ worker' = worker /\ watched' = watched
      /\ m' = m /\ poll' = poll /\ budget' = budget /\ t.kind = "report"
  BY DEF ReportProcessed, Watched
<1>2. TimedOut(t.id) \/ Answered(t.id)
  BY DEF ReportProcessed
<1>3. /\ Heads(comm, t.id) /\ Drops(comm, comm', t.id)
      /\ \A v \in tasks : v # t => v.id # t.id /\ ~ Heads(comm, v.id)
  <2>1. Heads(comm, t.id) /\ Drops(comm, comm', t.id)
    BY <1>2, CallOver, HangUpDrops DEF ReportProcessed
  <2>3. \A v \in tasks : v # t => v.id # t.id /\ ~ Heads(comm, v.id)
    BY <2>1, TasksAre DEF Heads
  <2>4. QED
    BY <2>1, <2>3
<1>4. t.at \notin {"confirm", "join"} /\ ~ Confirming
  BY <1>1, <1>3, TasksAre, PlacesAre DEF Confirming
<1>5. Watched.life = "up" /\ ~ Watched.sure
  BY <1>1 DEF Safe, Roles, Phases, Executing
<1>6. \A i \in 1..Len(comm.line) : comm.line[i].method # "run"
  BY <1>1, RunsOnlyAt DEF MainKinds
<1>7. PICK u : /\ \/ u.kind = "plan" /\ u.at = "release" /\ Still(Watched)
                  \/ u.kind = "report" /\ u.at = "unlock" /\ Still(Watched)
                  \/ u.kind = "set" /\ u.at = "paused" /\ store' = store
               /\ \A v : v \in tasks' <=> (v \in tasks /\ v # t) \/ v = u
  <2>1. Answer \in Outcome /\ (Answer # "paused" => Still(Watched))
    BY ReportComes DEF ReportProcessed
  <2>2. CASE Answer = "completed"
    <3>1. tasks' = Finish(t) \cup {[t EXCEPT !.kind = "plan", !.at = "release"]}
      BY <2>2 DEF ReportProcessed
    <3> DEFINE u == [t EXCEPT !.kind = "plan", !.at = "release"]
    <3>2. t \in Task /\ "plan" \in Kinds /\ "release" \in Places["plan"]
      BY TasksAre, KindsAre, PlacesAre
    <3>3. t \in OfKind(t.kind)
      BY <3>2, TaskOfKind
    <3>4. u.kind = "plan" /\ u.at = "release"
      BY <3>3 DEF OfKind
    <3>5. \A v : v \in tasks' <=> (v \in tasks /\ v # t) \/ v = u
      BY <3>1 DEF Finish
    <3> HIDE DEF u
    <3>6. QED
      BY <3>4, <3>5, <2>1, <2>2
  <2>3. CASE Answer \in {"failed", "stopped", "aborted"}
    <3>1. tasks' = Goto(t, "unlock")
      BY <2>3 DEF ReportProcessed, Goto
    <3>2. "unlock" \in Places[t.kind]
      BY <1>1, PlacesAre
    <3>3. QED
      BY <3>1, <3>2, <1>1, <2>1, <2>3, GoesTo
  <2>4. CASE Answer = "paused"
    <3>1. tasks' = Spawn(Finish(t), "set", "paused") /\ store' = store
      BY <2>4 DEF ReportProcessed
    <3>2. QED
      BY <3>1, GivesWay
  <2>5. QED
    BY <2>1, <2>2, <2>3, <2>4 DEF Outcome
<1>8. CalmNow' /\ Alone' /\ Sound(Watched')
  BY <1>1, <1>2, <1>3, <1>4, <1>5, <1>6, <1>7 DEF Safe, CalmNow, Alone
<1>10. Roles'
  BY <1>1, <1>2, <1>3, <1>4, <1>5, <1>6, <1>7 DEF Safe, Roles, MainKinds
<1>11. Environment'
  BY <1>1, <1>2, <1>3, <1>4, <1>5, <1>6, <1>7
     DEF Safe, Roles, MainKinds, Environment, Confirming, Running, Drops, Replied
<1>12. Phases'
  BY <1>1, <1>2, <1>3, <1>4, <1>5, <1>6, <1>7
     DEF Safe, Roles, MainKinds, Phases, Began, Executing, Running, Answer, Drops, Replied
<1>13. Booked'
  BY <1>1, <1>2, <1>3, <1>4, <1>5, <1>6, <1>7 DEF Safe, Booked, Drops
<1>14. Pipe'
  BY <1>1, <1>2, <1>3, <1>4, <1>5, <1>6, <1>7
     DEF Safe, Roles, MainKinds, Pipe, Running, Drops, NoNews
<1>15. Answers'
  BY <1>1, <1>2, <1>3, <1>4, <1>5, <1>6, <1>7
     DEF Safe, Roles, MainKinds, Answers, Executing, Answer, Drops
<1>16. QED
  BY <1>8, <1>10, <1>11, <1>12, <1>13, <1>14, <1>15 DEF Safe

-----------------------------------------------------------------------------
(* The manager's restart, and the worker. *)

(* A new manager finds the worker alive, or there is none. *)
LEMMA BootLooksSafe ==
    ASSUME TypeInv, Safe, NEW t \in tasks, BootLooks(t)
    PROVE  Safe'
<1>1. /\ Watched' = Watched /\ worker' = worker /\ watched' = watched
      /\ poll' = poll /\ budget' = budget /\ t.kind = "boot" /\ t.at = "alive"
  BY DEF BootLooks, At, Watched
<1>2. comm.line = <<>> /\ poll = "sleep" /\ ~ m.env_exists /\ ~ m.known /\ tasks = {t}
  BY <1>1 DEF Safe, Pipe, Roles, Environment
<1>3. comm.answer = <<>> /\ ~ Heads(comm, t.id)
  BY <1>2, TasksAre DEF Calls, AnswerFits, Heads
<1>4. /\ m'.fut = m.fut /\ m'.count = m.count /\ ~ m'.known
      /\ \/ Alive(Watched) /\ m'.state = m.state /\ m'.env_exists /\ store' = store
         \/ ~ Alive(Watched) /\ m'.state = "idle" /\ ~ m'.env_exists /\ comm' = comm
  BY <1>2 DEF BootLooks, Boots, TypeInv, ManagerOk, Manager
<1>5. PICK u : /\ u.id = t.id /\ u.kind = "boot" /\ u.at = "state"
               /\ \A v : v \in tasks' => v = u /\ Alive(Watched)
               /\ Alive(Watched) => u \in tasks' /\ Adds(comm, comm', t.id, "state", NoPlan)
  <2>1. "state" \in Places[t.kind]
    BY <1>1, PlacesAre
  <2>2. PICK u : /\ u.id = t.id /\ u.kind = "boot" /\ u.at = "state"
                 /\ \A v : v \in Goto(t, "state") <=> (v \in tasks /\ v # t) \/ v = u
    BY <2>1, <1>1, GoesTo
  <2>3. CASE Alive(Watched)
    <3>1. comm' = Call(comm, t.id, "state", NoPlan) /\ tasks' = Goto(t, "state")
      BY <2>3 DEF BootLooks
    <3>2. Adds(comm, comm', t.id, "state", NoPlan)
      BY <3>1, TasksAre, CallAdds DEF Methods
    <3>3. QED
      BY <2>2, <2>3, <3>1, <3>2, <1>2
  <2>4. CASE ~ Alive(Watched)
    <3>1. tasks' = Finish(t)
      BY <2>4 DEF BootLooks, Boots
    <3>2. QED
      BY <2>2, <2>4, <3>1, <1>2 DEF Finish
  <2>5. QED
    BY <2>3, <2>4
<1>6. ~ Alive(Watched) => Still(Watched) /\ ~ Watched.sure
  BY WatchedIs DEF Safe, Sound, Still, Busy, Alive, Gone, NoWorker, Worker
<1>7. comm'.answer = <<>>
  BY <1>3, <1>4, <1>5 DEF Adds
<1>8. \A j : ~ Replied(comm', j)
  BY <1>7 DEF Replied
<1>9. CalmNow' /\ Alone' /\ Sound(Watched')
  BY <1>1, <1>2, <1>3, <1>4, <1>5, <1>6, <1>7, <1>8 DEF Safe, CalmNow, Alone
<1>11. Roles'
  BY <1>1, <1>2, <1>3, <1>4, <1>5, <1>6, <1>7, <1>8 DEF Safe, Roles, MainKinds
<1>12. Environment'
  BY <1>1, <1>2, <1>3, <1>4, <1>5, <1>6, <1>7, <1>8
     DEF Safe, Roles, MainKinds, Environment, Confirming, Running, Adds, Alive
<1>13. Phases'
  BY <1>1, <1>2, <1>3, <1>4, <1>5, <1>6, <1>7, <1>8
     DEF Safe, Roles, MainKinds, Phases, Began, Executing, Running, Answer, Adds
<1>14. Booked'
  BY <1>1, <1>2, <1>3, <1>4, <1>5, <1>6, <1>7, <1>8 DEF Safe, Booked, Adds
<1>15. Pipe'
  BY <1>1, <1>2, <1>3, <1>4, <1>5, <1>6, <1>7, <1>8
     DEF Safe, Roles, MainKinds, Pipe, Running, Adds, NoNews, Heads, Alive, Unread
<1>16. Answers'
  BY <1>1, <1>2, <1>3, <1>4, <1>5, <1>6, <1>7, <1>8
     DEF Safe, Roles, MainKinds, Answers, Executing, Answer, Adds
<1>17. QED
  BY <1>9, <1>11, <1>12, <1>13, <1>14, <1>15, <1>16 DEF Safe

(* A new manager takes over the plan that the worker executes. *)
LEMMA BootSeesSafe ==
    ASSUME TypeInv, Safe, NEW t \in tasks, BootSees(t)
    PROVE  Safe'
<1>1. /\ Watched' = Watched /\ worker' = worker /\ watched' = watched
      /\ poll' = poll /\ t.kind = "boot" /\ t.at = "state"
  BY DEF BootSees, BootSeesPlan, At, Watched
<1>2. TimedOut(t.id) \/ Answered(t.id)
  BY DEF BootSees, BootSeesPlan, Accepted, Refused
<1>3. /\ Heads(comm, t.id) /\ Drops(comm, comm', t.id) /\ budget' = budget
      /\ \A v \in tasks : v # t => v.id # t.id /\ ~ Heads(comm, v.id)
  <2>1. Heads(comm, t.id) /\ Drops(comm, comm', t.id)
    BY <1>2, CallOver, HangUpDrops DEF BootSees, BootSeesPlan
  <2>2. budget' = budget
    BY CallOver DEF BootSees, BootSeesPlan, Accepted, Refused
  <2>3. \A v \in tasks : v # t => v.id # t.id /\ ~ Heads(comm, v.id)
    BY <2>1, TasksAre DEF Heads
  <2>4. QED
    BY <2>1, <2>2, <2>3
<1>4. tasks = {t} /\ \A v : v \notin tasks'
  BY <1>1 DEF BootSees, BootSeesPlan, Boots, Finish, Safe, Roles
<1>5. /\ m'.env_exists = m.env_exists /\ m'.fut = m.fut /\ m'.count = m.count
      /\ m'.state \in {"idle", "paused", "executing_queue"}
  BY DEF BootSees, BootSeesPlan, Boots, TypeInv, ManagerOk, Manager
<1>6. /\ Alive(Watched) => m.env_exists
      /\ m.env_exists => Watched.life # "none"
      /\ comm'.answer = <<>> /\ \A j : ~ Replied(comm', j)
  BY <1>1, <1>3, <1>4 DEF Safe, Environment, Drops
<1>7. Busy(Watched) => /\ Watched.item # NoPlan /\ Watched.env # "initializing"
                       /\ Watched.exit => Watched.asked
  BY WatchedIs, ManagerAssumption DEF Safe, Sound, Busy, Still, Blank, Worker, Fresh, Gone, NoWorker
<1>8. TimedOut(t.id) => /\ m'.state = "idle" /\ ~ m'.known /\ Still(Watched) /\ ~ Watched.sure
                        /\ Watched.life = "up" => comm.pipe = <<>>
  <2>1. SUFFICES ASSUME TimedOut(t.id)
                 PROVE  /\ m'.state = "idle" /\ ~ m'.known /\ Still(Watched) /\ ~ Watched.sure
                        /\ Watched.life = "up" => comm.pipe = <<>>
    OBVIOUS
  <2>2. comm.answer = <<>> /\ ~ (Read /\ Unread(comm)) /\ ~ Answered(t.id)
    BY <2>1, CallOver
  <2>3. m'.state = "idle" /\ ~ m'.known
    BY <2>2 DEF BootSees, BootSeesPlan, Boots, TypeInv, ManagerOk, Manager
  <2>4. Watched.life = "up" => comm.pipe = <<>> /\ ~ Watched.sure /\ Still(Watched)
    BY <2>2, <1>1, ReadsIfUp DEF Safe, Pipe
  <2>5. Watched.life # "up" => Still(Watched) /\ ~ Watched.sure
    BY WatchedIs DEF Safe, Sound, Still, Busy, Fresh, Gone, NoWorker, Worker
  <2>6. QED
    BY <2>3, <2>4, <2>5
<1>9. Answered(t.id) => /\ Watched.life = "up" /\ ~ Watched.sure /\ comm.pipe = <<>>
                        /\ m'.state = "idle" => Still(Watched)
                        /\ m'.state # "idle" => ~ Still(Watched) /\ Busy(Watched) /\ store' = store
  <2>1. SUFFICES ASSUME Answered(t.id)
                 PROVE  /\ Watched.life = "up" /\ ~ Watched.sure /\ comm.pipe = <<>>
                        /\ m'.state = "idle" => Still(Watched)
                        /\ m'.state # "idle" => ~ Still(Watched) /\ Busy(Watched) /\ store' = store
    OBVIOUS
  <2>2. comm.pipe = <<>> /\ Replied(comm, t.id) /\ ~ TimedOut(t.id)
    BY <2>1, CallOver DEF TimedOut
  <2>3. Watched.life = "up" /\ ~ Watched.sure /\ IF RunningPlan(Answer) THEN Busy(Watched) ELSE Still(Watched)
    BY <2>2, <1>1 DEF Safe, Answers
  <2>4. Busy(Watched) => ~ Still(Watched) /\ store.running # NoPlan
    BY <1>7 DEF Still, Safe, Booked
  <2>5. CASE RunningPlan(Answer) /\ store.running # NoPlan
    <3>1. PICK e \in {"paused", "executing_queue"} :
             \E q : m' = [m EXCEPT !.state = e, !.pause_pending = q, !.known = TRUE] /\ store' = store
      BY <2>2, <2>5 DEF BootSees, BootSeesPlan, Boots
    <3>2. m'.state # "idle"
      BY <3>1 DEF TypeInv, ManagerOk, Manager
    <3>3. QED
      BY <2>2, <2>3, <2>4, <2>5, <3>1, <3>2
  <2>6. CASE ~ (RunningPlan(Answer) /\ store.running # NoPlan)
    <3>1. m'.state = "idle"
      BY <2>2, <2>6 DEF BootSees, BootSeesPlan, Boots, TypeInv, ManagerOk, Manager
    <3>2. QED
      BY <2>2, <2>3, <2>4, <2>6, <3>1
  <2>7. QED
    BY <2>5, <2>6
<1>10. \A i \in 1..Len(comm.line) : comm.line[i].method # "run"
  BY <1>1, RunsOnlyAt DEF MainKinds
<1>11. CalmNow' /\ Alone' /\ Sound(Watched')
  BY <1>1, <1>2, <1>3, <1>4, <1>5, <1>6, <1>7, <1>8, <1>9, <1>10 DEF Safe, CalmNow, Alone
<1>13. Roles'
  BY <1>1, <1>2, <1>3, <1>4, <1>5, <1>6, <1>7, <1>8, <1>9, <1>10 DEF Safe, Roles, MainKinds
<1>14. Environment'
  BY <1>1, <1>2, <1>3, <1>4, <1>5, <1>6, <1>7, <1>8, <1>9, <1>10
     DEF Safe, Roles, MainKinds, Environment, Confirming, Running, Drops, Replied
<1>15. Phases'
  BY <1>1, <1>2, <1>3, <1>4, <1>5, <1>6, <1>7, <1>8, <1>9, <1>10
     DEF Safe, Roles, MainKinds, Phases, Began, Executing, Running, Answer, Drops, Replied
<1>16. Booked'
  BY <1>1, <1>2, <1>3, <1>4, <1>5, <1>6, <1>7, <1>8, <1>9, <1>10 DEF Safe, Booked, Drops
<1>17. Pipe'
  BY <1>1, <1>2, <1>3, <1>4, <1>5, <1>6, <1>7, <1>8, <1>9, <1>10
     DEF Safe, Roles, MainKinds, Pipe, Running, Drops, NoNews
<1>18. Answers'
  BY <1>1, <1>2, <1>3, <1>4, <1>5, <1>6, <1>7, <1>8, <1>9, <1>10
     DEF Safe, Roles, MainKinds, Answers, Executing, Answer, Drops
<1>19. QED
  BY <1>11, <1>13, <1>14, <1>15, <1>16, <1>17, <1>18 DEF Safe

(* Whatever the manager was doing is given up; the worker goes on. *)
LEMMA ManagerRestartsSafe ==
    ASSUME TypeInv, Safe, ManagerRestarts
    PROVE  Safe'
<1>1. /\ Watched' = Watched /\ worker' = worker /\ watched' = watched
      /\ store' = store /\ poll' = "sleep" /\ ~ Running("boot")
  BY DEF ManagerRestarts, Watched
<1>2. CalmNow'
  BY Calmly DEF ManagerRestarts
<1>3. m'.state = "initializing" /\ ~ m'.env_exists /\ ~ m'.known
  BY DEF ManagerRestarts, Restarted
<1>4. PICK u : u.kind = "boot" /\ u.at = "alive" /\ \A v : v \in tasks' <=> v = u
  <2>1. 1 \in 1..MaxTasks
    BY ConstantsTyped
  <2>2. Free({}) # {}
    BY <2>1 DEF Free
  <2>3. PICK u : u.kind = "boot" /\ u.at = "alive" /\ \A v : v \in Spawn({}, "boot", "alive") <=> v \in {} \/ v = u
    BY <2>2, Begins
  <2>4. QED
    BY <2>3 DEF ManagerRestarts
<1>5. /\ comm'.line = <<>> /\ comm'.answer = <<>>
      /\ \A i \in 1..Len(comm'.pipe) : /\ i \in 1..Len(comm.pipe) /\ comm'.pipe[i].method = comm.pipe[i].method
                                       /\ comm'.pipe[i].arg = comm.pipe[i].arg
  <2>1. comm.pipe \in Seq(Request)
    BY TasksAre DEF Calls, Piped
  <2>2. DOMAIN comm.pipe = 1..Len(comm.pipe) /\ Len(comm.pipe) \in Nat
    BY <2>1
  <2>3. PICK pipe : pipe = [i \in DOMAIN comm.pipe |-> [comm.pipe[i] EXCEPT !.from = Nobody]]
    OBVIOUS
  <2>4. comm'.line = <<>> /\ comm'.answer = <<>> /\ comm'.pipe = pipe
    BY <2>3 DEF ManagerRestarts
  <2>5. Len(pipe) = Len(comm.pipe)
    BY <2>2, <2>3
  <2>6. \A i \in 1..Len(comm.pipe) : pipe[i].method = comm.pipe[i].method /\ pipe[i].arg = comm.pipe[i].arg
    <3>1. TAKE i \in 1..Len(comm.pipe)
    <3>2. PICK e : e = comm.pipe[i]
      OBVIOUS
    <3>3. e \in Request
      BY <2>1, <3>2, ElementOfSeq
    <3>4. [e EXCEPT !.from = Nobody].method = e.method /\ [e EXCEPT !.from = Nobody].arg = e.arg
      BY <3>3 DEF Request
    <3>5. pipe[i] = [e EXCEPT !.from = Nobody]
      BY <2>2, <2>3, <3>2
    <3>6. QED
      BY <3>2, <3>4, <3>5
  <2>7. QED
    BY <2>4, <2>5, <2>6
<1>6. Watched.life = "up" => \A i \in 1..Len(comm.pipe) : i = 1 /\ Apt(comm.pipe[i], Watched, store)
  <2>1. SUFFICES ASSUME Watched.life = "up", NEW i \in 1..Len(comm.pipe) PROVE i = 1 /\ Apt(comm.pipe[i], Watched, store)
    OBVIOUS
  <2>2. comm.pipe \in Seq(Request) /\ Len(comm.pipe) \in Nat /\ comm.pipe # <<>> /\ 1 \in 1..Len(comm.pipe)
    BY <2>1, TasksAre DEF Calls, Piped
  <2>3. \A j \in 1..Len(comm.pipe) : comm.pipe[j].from # Nobody
    BY <2>1, <1>1 DEF Safe, Pipe
  <2>4. \A j \in 1..Len(comm.pipe) : j = Len(comm.pipe) /\ comm.line # <<>> /\ comm.pipe[j] = Head(comm.line)
    BY <2>3, TasksAre DEF Calls, Piped
  <2>5. i = 1 /\ comm.pipe[i] = comm.line[1] /\ 1 \in 1..Len(comm.line)
    BY <2>2, <2>4, TasksAre, SeqHead DEF Calls, Lined
  <2>6. comm.answer = <<>>
    BY <2>2 DEF Safe, Pipe, InTime
  <2>7. ~ Began
    BY <2>6 DEF Began, Replied
  <2>8. QED
    BY <2>5, <2>7, Callers DEF Apt, Safe, Phases, Booked, Environment
<1>7. \A j : ~ Replied(comm', j)
  BY <1>5 DEF Replied
<1>8. InTime(comm')
  BY <1>5 DEF InTime
<1>9. CalmNow' /\ Alone' /\ Sound(Watched')
  BY <1>1, <1>2, <1>3, <1>4, <1>5, <1>6, <1>7, <1>8 DEF Safe, CalmNow, Alone
<1>11. Roles'
  BY <1>1, <1>2, <1>3, <1>4, <1>5, <1>6, <1>7, <1>8 DEF Safe, Roles, MainKinds
<1>12. Environment'
  BY <1>1, <1>2, <1>3, <1>4, <1>5, <1>6, <1>7, <1>8
     DEF Safe, Roles, MainKinds, Environment, Confirming, Running
<1>13. Phases'
  BY <1>1, <1>2, <1>3, <1>4, <1>5, <1>6, <1>7, <1>8
     DEF Safe, Roles, MainKinds, Phases, Began, Executing, Running, Answer
<1>14. Booked'
  BY <1>1, <1>2, <1>3, <1>4, <1>5, <1>6, <1>7, <1>8 DEF Safe, Booked
<1>15. Pipe'
  BY <1>1, <1>2, <1>3, <1>4, <1>5, <1>6, <1>7, <1>8
     DEF Safe, Roles, MainKinds, Pipe, Running, Apt, Parting
<1>16. Answers'
  BY <1>1, <1>2, <1>3, <1>4, <1>5, <1>6, <1>7, <1>8
     DEF Safe, Roles, MainKinds, Answers, Executing, Answer
<1>17. QED
  BY <1>9, <1>11, <1>12, <1>13, <1>14, <1>15, <1>16 DEF Safe

(* A worker reads the pipe. *)
LEMMA WorkerListensSafe ==
    ASSUME TypeInv, Safe, NEW p \in Processes, WorkerListens(p)
    PROVE  Safe'
<1>1. /\ m' = m /\ tasks' = tasks /\ watched' = watched /\ store' = store /\ poll' = poll /\ budget' = budget
  BY DEF WorkerListens
<1>2. worker[p].life = "booting" /\ worker' = [worker EXCEPT ![p] = [worker[p] EXCEPT !.life = "up"]]
  BY DEF WorkerListens, Listens, When
<1>3. p = watched /\ Watched = worker[p] /\ Watched = Fresh /\ watched # 0
  BY <1>2, AliveIsWatched, ProcessesFrom1 DEF Alive, Safe, Sound
<1>4. Watched' = [Fresh EXCEPT !.life = "up"]
  BY <1>1, <1>2, <1>3 DEF Watched, TypeInv
<1>5. /\ Watched'.life = "up" /\ Alive(Watched') /\ Still(Watched') /\ ~ Watched'.sure /\ Watched'.env = "initializing"
      /\ Sound(Watched')
  BY <1>4 DEF Fresh, NoWorker, Alive, Still, Busy, Sound, Blank
<1>6. Watched.life = "booting" /\ Alive(Watched) /\ ~ Watched.sure /\ Watched.env = "initializing" /\ ~ Parting(Watched)
  BY <1>3 DEF Fresh, NoWorker, Alive, Parting
<1>7. comm'.line = comm.line /\ comm'.pipe = <<>> /\ comm'.answer = comm.answer
  BY DEF WorkerListens, TypeInv, Fits, Calls, CommForm
<1>8. ~ Lingering
  BY Calmly DEF WorkerListens, Failures
<1>9. ~ Executing /\ ~ Began
  BY <1>6 DEF Safe, Phases
<1>10. \A t \in tasks : t.at \notin {"confirm", "join"} /\ t.kind \notin {"unexp", "report", "plan", "kill"}
  BY <1>6, <1>8 DEF Safe, Environment, Lingering
<1>11. InTime(comm')
  <2>1. comm.line # <<>> => Head(comm.line).method \notin {"confirm", "report"}
    <3>1. comm.line # <<>> => 1 \in 1..Len(comm.line) /\ Head(comm.line) = comm.line[1]
      BY TasksAre, SeqHead DEF Calls, Lined
    <3>2. QED
      BY <3>1, <1>10, Callers
  <2>2. QED
    BY <2>1, <1>7 DEF InTime
<1>12. \A j : /\ Replied(comm', j) <=> Replied(comm, j)
              /\ Heads(comm', j) <=> Heads(comm, j)
              /\ First(comm', j) <=> First(comm, j)
  BY <1>7 DEF Replied, Heads, First
<1>13. CalmNow' /\ Alone'
  <2>1. CalmNow'
    BY <1>1, Calmly
  <2>2. Alone'
    BY <1>1, <1>2, <1>3 DEF Safe, Alone, TypeInv
  <2>3. QED
    BY <2>1, <2>2
<1>14. Sound(Watched')
  BY <1>1, <1>2, <1>3, <1>4, <1>5, <1>6, <1>7, <1>8, <1>9, <1>10, <1>11, <1>12 DEF Safe
<1>15. Roles'
  BY <1>1, <1>2, <1>3, <1>4, <1>5, <1>6, <1>7, <1>8, <1>9, <1>10, <1>11, <1>12
     DEF Safe, Roles, MainKinds
<1>16. Environment'
  BY <1>1, <1>2, <1>3, <1>4, <1>5, <1>6, <1>7, <1>8, <1>9, <1>10, <1>11, <1>12
     DEF Safe, Roles, MainKinds, Environment, Confirming, Running
<1>17. Phases'
  BY <1>1, <1>2, <1>3, <1>4, <1>5, <1>6, <1>7, <1>8, <1>9, <1>10, <1>11, <1>12
     DEF Safe, Roles, MainKinds, Phases, Began, Executing, Running, Answer
<1>18. Booked'
  BY <1>1, <1>2, <1>3, <1>4, <1>5, <1>6, <1>7, <1>8, <1>9, <1>10, <1>11, <1>12 DEF Safe, Booked
<1>19. Pipe'
  BY <1>1, <1>2, <1>3, <1>4, <1>5, <1>6, <1>7, <1>8, <1>9, <1>10, <1>11, <1>12
     DEF Safe, Roles, MainKinds, Pipe, Running
<1>20. Answers'
  BY <1>1, <1>2, <1>3, <1>4, <1>5, <1>6, <1>7, <1>8, <1>9, <1>10, <1>11, <1>12
     DEF Safe, Roles, MainKinds, Answers, Executing, Answer
<1>21. QED
  BY <1>13, <1>14, <1>15, <1>16, <1>17, <1>18, <1>19, <1>20 DEF Safe

(* The main thread goes on: the poll learns of it later. *)
LEMMA WorkerRunsSafe ==
    ASSUME TypeInv, Safe, NEW p \in Processes, WorkerRuns(p)
    PROVE  Safe'
<1>1. /\ m' = m /\ tasks' = tasks /\ watched' = watched /\ store' = store /\ poll' = poll /\ budget' = budget
      /\ comm' = comm
  BY DEF WorkerRuns
<1>2. PICK v \in MainThread(worker[p]) : worker' = [worker EXCEPT ![p] = v]
  BY DEF WorkerRuns
<1>3. worker[p].life = "up"
  BY <1>2 DEF MainThread, Started, TakesPlan, EngineReturns, WritesReport, ShutsDown, When
<1>4. p = watched /\ Watched = worker[p] /\ watched # 0
  BY <1>3, AliveIsWatched, ProcessesFrom1 DEF Alive
<1>5. Watched' = v
  BY <1>1, <1>2, <1>4 DEF Watched, TypeInv
<1>6. Sound(Watched') /\ Drifts(Watched, Watched') /\ Watched.life = "up"
  BY <1>2, <1>3, <1>4, <1>5, WatchedIs, MainThreadDrifts DEF Safe
<1>7. Watched'.life # "up" => Watched'.life = "gone" /\ Watched.sure /\ Still(Watched') /\ ~ Watched'.sure /\ ~ Alive(Watched')
  BY <1>6 DEF Drifts, Sound, Still, Busy, Gone, NoWorker, Alive
<1>8. Alive(Watched) /\ (Parting(Watched) => Parting(Watched')) /\ (Still(Watched) => Still(Watched'))
  BY <1>6, <1>7 DEF Drifts, Parting, Alive
<1>9. Watched'.life = "up" =>
         /\ Alive(Watched')
         /\ Busy(Watched) => Busy(Watched')
         /\ Watched'.item = Watched.item /\ Watched'.sure = Watched.sure /\ Watched'.asked = Watched.asked
         /\ Watched.exit => Watched'.exit
         /\ Watched'.exit => Watched.exit \/ Watched.env = "initializing"
         /\ Watched.env = "closing" => Watched'.env = "closing"
         /\ Watched'.env = "initializing" => Watched.env = "initializing"
         /\ Watched.report # "none" => Watched'.report # "none"
         /\ Watched.report # "none" /\ ~ Watched.told => ~ Watched'.told
         /\ Still(Watched) /\ Watched.report # "none" => Watched'.report = Watched.report
  BY <1>6 DEF Drifts, Alive
<1>10. Replied(comm, 0) => ~ Confirming /\ \A t \in tasks : t.kind # "boot"
  BY TasksAre, PlacesAre DEF Confirming, Replied, Heads, Safe, Pipe
<1>11. Executing \/ Began => Watched'.life = "up" /\ ~ Watched.sure
  BY <1>7 DEF Safe, Phases
<1>12. CalmNow' /\ Alone'
  <2>1. CalmNow'
    BY <1>1, Calmly
  <2>2. Alone'
    BY <1>1, <1>2, <1>3, <1>4 DEF Safe, Alone, TypeInv
  <2>3. QED
    BY <2>1, <2>2
<1>13. Sound(Watched')
  BY <1>1, <1>2, <1>3, <1>4, <1>5, <1>6, <1>7, <1>8, <1>9, <1>10, <1>11 DEF Safe
<1>14. Roles'
  BY <1>1, <1>2, <1>3, <1>4, <1>5, <1>6, <1>7, <1>8, <1>9, <1>10, <1>11 DEF Safe, Roles, MainKinds
<1>15. Environment'
  BY <1>1, <1>2, <1>3, <1>4, <1>5, <1>6, <1>7, <1>8, <1>9, <1>10, <1>11
     DEF Safe, Roles, MainKinds, Environment, Confirming, Running
<1>16. Phases'
  BY <1>1, <1>2, <1>3, <1>4, <1>5, <1>6, <1>7, <1>8, <1>9, <1>10, <1>11
     DEF Safe, Roles, MainKinds, Phases, Began, Executing, Running, Answer
<1>17. Booked'
  BY <1>1, <1>2, <1>3, <1>4, <1>5, <1>6, <1>7, <1>8, <1>9, <1>10, <1>11 DEF Safe, Booked
<1>18. Pipe'
  BY <1>1, <1>2, <1>3, <1>4, <1>5, <1>6, <1>7, <1>8, <1>9, <1>10, <1>11
     DEF Safe, Roles, MainKinds, Pipe, Running, Apt
<1>19. Answers'
  BY <1>1, <1>2, <1>3, <1>4, <1>5, <1>6, <1>7, <1>8, <1>9, <1>10, <1>11
     DEF Safe, Roles, MainKinds, Answers, Executing, Answer
<1>20. QED
  BY <1>12, <1>13, <1>14, <1>15, <1>16, <1>17, <1>18, <1>19 DEF Safe

(* A request of the manager before is served while the new one looks       *)
(* around.                                                                 *)
LEMMA ServesNobody ==
    ASSUME TypeInv, Safe, NEW r, Serves(r), r.from = Nobody
    PROVE  Safe'
<1>1. /\ m' = m /\ tasks' = tasks /\ watched' = watched /\ store' = store /\ poll' = poll /\ budget' = budget
      /\ comm'.line = comm.line /\ comm.answer = <<>> /\ (\A q \in Processes : Alive(worker'[q]) => q = watched)
  BY DEF Serves
<1>2. /\ Sound(Watched') /\ Watched'.life = "up" /\ Alive(Watched') /\ Alive(Watched) /\ Watched.life = "up"
      /\ Watched.env = "closing" => Watched'.env = "closing"
      /\ Watched'.env = "initializing" => Watched.env = "initializing"
      /\ Watched'.sure => Watched.sure \/ (r.method = "confirm" /\ Parting(Watched))
      /\ Watched.asked => Watched'.asked
      /\ Watched'.exit => Watched.exit \/ Watched'.asked
      /\ Still(Watched) => Still(Watched') \/ (r.method = "run" /\ ~ RunRefused(Watched) /\ Watched'.item = r.arg /\ Watched.env = "idle")
      /\ ~ Still(Watched) => Still(Watched') \/ Watched'.item = Watched.item
      /\ r.method # "reset" => Watched'.report = Watched.report
  BY ServesProperly DEF Serves, Handles, Alive
<1>3. Parting(Watched) => Parting(Watched')
  BY <1>2 DEF Parting
<1>4. /\ comm'.answer = <<>> /\ Running("boot") /\ Apt(r, Watched, store)
      /\ \A i \in 1..Len(comm'.pipe) : comm'.pipe[i].from # Nobody
      /\ (Unread(comm) => Unread(comm')) /\ comm.pipe # <<>>
  BY DEF Serves
<1>5. PICK t \in tasks : tasks = {t} /\ t.kind = "boot" /\ m.state = "initializing" /\ ~ m.known
  BY <1>4 DEF Running, Safe, Roles
<1>6. \A j : /\ ~ Replied(comm', j) /\ ~ Replied(comm, j)
             /\ Heads(comm', j) <=> Heads(comm, j)
             /\ First(comm', j) <=> First(comm, j)
  BY <1>1, <1>4 DEF Replied, Heads, First
<1>7. InTime(comm')
  <2>1. comm.line # <<>> => Head(comm.line).method \notin {"confirm", "report"}
    <3>1. comm.line # <<>> => 1 \in 1..Len(comm.line) /\ Head(comm.line) = comm.line[1]
      BY TasksAre, SeqHead DEF Calls, Lined
    <3>2. t.at # "confirm"
      BY <1>5, TasksAre, PlacesAre
    <3>3. QED
      BY <3>1, <3>2, <1>5, Callers
  <2>2. QED
    BY <2>1, <1>1, <1>4 DEF InTime
<1>8. CalmNow' /\ Alone'
  <2>1. CalmNow'
    BY <1>1, Calmly
  <2>2. Alone'
    BY <1>1 DEF Safe, Alone, TypeInv
  <2>3. QED
    BY <2>1, <2>2
<1>9. Sound(Watched')
  BY <1>1, <1>2, <1>3, <1>4, <1>5, <1>6, <1>7 DEF Safe
<1>10. Roles'
  BY <1>1, <1>2, <1>3, <1>4, <1>5, <1>6, <1>7 DEF Safe, Roles, MainKinds
<1>11. Environment'
  BY <1>1, <1>2, <1>3, <1>4, <1>5, <1>6, <1>7
     DEF Safe, Roles, MainKinds, Environment, Confirming, Running
<1>12. Phases'
  BY <1>1, <1>2, <1>3, <1>4, <1>5, <1>6, <1>7
     DEF Safe, Roles, MainKinds, Phases, Began, Executing, Running, Answer
<1>13. Booked'
  BY <1>1, <1>2, <1>3, <1>4, <1>5, <1>6, <1>7 DEF Safe, Booked, Apt
<1>14. Pipe'
  BY <1>1, <1>2, <1>3, <1>4, <1>5, <1>6, <1>7 DEF Safe, Roles, MainKinds, Pipe, Running
<1>15. Answers'
  BY <1>1, <1>2, <1>3, <1>4, <1>5, <1>6, <1>7 DEF Safe, Roles, MainKinds, Answers, Executing, Answer
<1>16. QED
  BY <1>8, <1>9, <1>10, <1>11, <1>12, <1>13, <1>14, <1>15 DEF Safe

(* A request is served, and the caller gets its answer. *)
LEMMA ServesAsked ==
    ASSUME TypeInv, Safe, NEW r, Serves(r), r.from # Nobody
    PROVE  Safe'
<1>1. /\ m' = m /\ tasks' = tasks /\ watched' = watched /\ store' = store /\ poll' = poll /\ budget' = budget
      /\ comm'.line = comm.line /\ comm.answer = <<>> /\ (\A q \in Processes : Alive(worker'[q]) => q = watched)
  BY DEF Serves
<1>2. /\ Sound(Watched') /\ Watched'.life = "up" /\ Alive(Watched') /\ Alive(Watched) /\ Watched.life = "up"
      /\ Watched.env = "closing" => Watched'.env = "closing"
      /\ Watched'.env = "initializing" => Watched.env = "initializing"
      /\ Watched'.sure => Watched.sure \/ (r.method = "confirm" /\ Parting(Watched))
      /\ Watched.asked => Watched'.asked
      /\ Watched'.exit => Watched.exit \/ Watched'.asked
      /\ Still(Watched) => Still(Watched') \/ (r.method = "run" /\ ~ RunRefused(Watched) /\ Watched'.item = r.arg /\ Watched.env = "idle")
      /\ ~ Still(Watched) => Still(Watched') \/ Watched'.item = Watched.item
      /\ r.method # "reset" => Watched'.report = Watched.report
  BY ServesProperly DEF Serves, Handles, Alive
<1>3. Parting(Watched) => Parting(Watched')
  BY <1>2 DEF Parting
<1>4. /\ comm'.pipe = <<>> /\ comm'.answer # <<>> /\ Answer' = ReplyOf(Watched, r)
      /\ 1 \in 1..Len(comm.line) /\ r = comm.line[1]
  <2>1. /\ comm'.pipe = <<>> /\ comm'.answer = <<ReplyOf(Watched, r)>>
        /\ 1 \in 1..Len(comm.line) /\ r = comm.line[1]
    BY DEF Serves
  <2>2. comm'.answer # <<>> /\ comm'.answer[1] = ReplyOf(Watched, r)
    BY <2>1
  <2>3. QED
    BY <2>1, <2>2 DEF Answer
<1>5. \A j : /\ Heads(comm', j) <=> j = r.from
             /\ Heads(comm, j) <=> j = r.from
             /\ Replied(comm', j) <=> j = r.from
             /\ ~ Replied(comm, j)
             /\ First(comm', j) <=> First(comm, j)
  BY <1>1 DEF Serves, Replied, First
<1>6. InTime(comm') /\ ~ Began
  BY <1>4, <1>5 DEF InTime, Began
<1>7. \/ r.from = 0 /\ r.method = "state"
      \/ \E t \in tasks : t.id = r.from /\ Waits(t, r.method)
  BY <1>4, Callers
<1>8. \A t \in tasks : /\ t.id = r.from => Waits(t, r.method)
                       /\ t.id # 0
  BY <1>7, TasksAre
<1>9. /\ r.method = "state" => Answer' = StateReply(Watched) /\ Watched' = Watched
      /\ r.method = "run" => Answer' = ~ RunRefused(Watched) /\ r.arg = store.running
      /\ r.method = "confirm" => Answer' = Watched.exit
      /\ r.method = "pause" => Answer' = (Watched.re = "running")
      /\ r.method = "continue" => Answer' = (Watched.re = "paused" /\ Watched.env = "idle")
      /\ r.method = "report" => Answer' = Watched.report /\ Watched' = FetchReport(Watched)
  <2>1. r.method = "state" => Answer' = StateReply(Watched) /\ Watched' = Watched
    BY <1>4 DEF ReplyOf, Serves, Served
  <2>2. r.method = "run" => Answer' = ~ RunRefused(Watched) /\ r.arg = store.running
    BY <1>4 DEF ReplyOf, Safe, Booked
  <2>3. r.method = "confirm" => Answer' = Watched.exit
    BY <1>4, WatchedIs DEF ReplyOf, ConfirmRefused, Worker
  <2>4. r.method = "pause" => Answer' = (Watched.re = "running")
    BY <1>4 DEF ReplyOf, PauseRefused
  <2>5. r.method = "continue" => Answer' = (Watched.re = "paused" /\ Watched.env = "idle")
    BY <1>4 DEF ReplyOf, ContinueRefused
  <2>6. r.method = "report" => Answer' = Watched.report /\ Watched' = FetchReport(Watched)
    BY <1>4 DEF ReplyOf, Serves, Served
  <2>7. QED
    BY <2>1, <2>2, <2>3, <2>4, <2>5, <2>6
<1>10. r.method = "confirm" => /\ Parting(Watched) /\ Answer' /\ Confirming' /\ Watched.env = "closing" /\ Still(Watched)
                               /\ \A t \in tasks : t.id = r.from => t.at = "confirm"
  <2>1. SUFFICES ASSUME r.method = "confirm"
                 PROVE  /\ Parting(Watched) /\ Answer' /\ Confirming' /\ Watched.env = "closing" /\ Still(Watched)
                        /\ \A t \in tasks : t.id = r.from => t.at = "confirm"
    OBVIOUS
  <2>2. PICK v \in tasks : v.id = r.from /\ v.at = "confirm"
    BY <2>1, <1>4, Callers
  <2>3. Parting(Watched)
    BY <2>2 DEF Safe, Environment
  <2>4. Watched.env = "closing" /\ Still(Watched) /\ Watched.exit
    BY <2>3, <1>2 DEF Parting, Safe, Sound
  <2>5. Confirming'
    BY <2>2, <1>1, <1>5 DEF Confirming
  <2>6. QED
    BY <2>1, <2>2, <2>3, <2>4, <2>5, <1>9, TasksAre
<1>11. ~ Executing \/ r.method # "confirm"
  <2>1. SUFFICES ASSUME r.method = "confirm", Executing PROVE FALSE
    OBVIOUS
  <2>2. PICK v \in tasks : v.id = r.from /\ v.at = "confirm"
    BY <2>1, <1>4, Callers
  <2>3. v.kind \in {"open", "close", "unexp"}
    BY <2>1, <2>2, <1>8, TasksAre, PlacesAre DEF Waits
  <2>4. v.kind # "unexp"
    BY <2>1 DEF Safe, Phases, Running
  <2>5. QED
    BY <2>1, <2>2, <2>3, <2>4 DEF Safe, Roles, Executing
<1>12. Began' => r.method = "run" /\ ~ RunRefused(Watched) /\ Running("plan")
  <2>1. SUFFICES ASSUME Began' PROVE r.method = "run" /\ ~ RunRefused(Watched) /\ Running("plan")
    OBVIOUS
  <2>2. PICK t \in tasks : t.kind = "plan" /\ t.at = "run" /\ t.id = r.from /\ Answer'
    BY <2>1, <1>1, <1>5 DEF Began
  <2>3. r.method = "run"
    BY <2>2, <1>8 DEF Waits
  <2>4. QED
    BY <2>2, <2>3, <1>9 DEF Running
<1>13. r.method = "run" => /\ \A u \in tasks : u.kind \in MainKinds => u.kind = "plan" /\ u.at = "run" /\ u.id = r.from
                           /\ ~ Executing \/ ~ Running("unexp")
  <2>1. SUFFICES ASSUME r.method = "run", NEW u \in tasks, u.kind \in MainKinds
                 PROVE  u.kind = "plan" /\ u.at = "run" /\ u.id = r.from
    BY DEF Safe, Phases
  <2>2. QED
    BY <2>1, <1>4, RunsOnlyAt
<1>14. r.method = "run" /\ ~ RunRefused(Watched) =>
                        /\ Began' /\ Still(Watched) /\ Watched.env = "idle" /\ ~ Watched.sure /\ r.arg = store.running
                        /\ (Watched.exit => Watched.asked) /\ ~ Running("unexp")
  <2>1. SUFFICES ASSUME r.method = "run", ~ RunRefused(Watched)
                 PROVE  /\ Began' /\ Still(Watched) /\ Watched.env = "idle" /\ ~ Watched.sure /\ r.arg = store.running
                        /\ (Watched.exit => Watched.asked) /\ ~ Running("unexp")
    OBVIOUS
  <2>2. PICK v \in tasks : v.id = r.from /\ v.kind = "plan" /\ v.at = "run"
    BY <2>1, <1>4, Callers
  <2>3. Began' /\ r.arg = store.running
    BY <2>1, <2>2, <1>1, <1>5, <1>9 DEF Began
  <2>4. Still(Watched)
    BY <2>2, <1>6 DEF Safe, Phases
  <2>5. Watched.env = "idle"
    BY <2>1 DEF RunRefused
  <2>6. ~ Watched.sure /\ (Watched.exit => Watched.asked)
    BY <2>5 DEF Safe, Sound
  <2>7. ~ Running("unexp")
    BY <2>5, <1>2 DEF Safe, Environment, Parting, Running
  <2>8. QED
    BY <2>3, <2>4, <2>5, <2>6, <2>7
<1>15. r.method = "reset" => \A u \in tasks : u.kind \in MainKinds => u.kind = "plan"
  BY <1>4, Callers DEF Safe, Roles, MainKinds
<1>16. CalmNow' /\ Alone'
  <2>1. CalmNow'
    BY <1>1, Calmly
  <2>2. Alone'
    BY <1>1 DEF Safe, Alone, TypeInv
  <2>3. QED
    BY <2>1, <2>2
<1>17. Sound(Watched')
  BY <1>1, <1>2, <1>3, <1>4, <1>5, <1>6, <1>7, <1>8, <1>9, <1>10, <1>11, <1>12, <1>13, <1>14, <1>15
     DEF Safe
<1>18. Roles'
  BY <1>1, <1>2, <1>3, <1>4, <1>5, <1>6, <1>7, <1>8, <1>9, <1>10, <1>11, <1>12, <1>13, <1>14, <1>15
     DEF Safe, Roles, MainKinds
<1>19. Environment'
  BY <1>1, <1>2, <1>3, <1>4, <1>5, <1>6, <1>7, <1>8, <1>9, <1>10, <1>11, <1>12, <1>13, <1>14, <1>15
     DEF Safe, Roles, MainKinds, Environment, Confirming, Running
<1>20. Phases'
  <2>1. Executing' <=> Executing
    BY <1>1 DEF Executing
  <2>2. Still(Watched) => Still(Watched') \/ (Began' /\ r.method = "run")
    BY <1>2, <1>14
  <2>3. ~ Still(Watched') => Running("boot")' \/ Executing' \/ Began'
    BY <1>1, <1>6, <2>1, <2>2 DEF Safe, Phases, Running
  <2>4. Executing \/ Began' => ~ Watched.sure /\ Watched.env # "initializing" /\ ~ Running("unexp") /\ (Watched.exit => Watched.asked)
    BY <1>12, <1>14 DEF Safe, Phases
  <2>5. Executing \/ Began' => ~ Watched'.sure /\ Watched'.env # "initializing" /\ ~ Running("unexp")' /\ (Watched'.exit => Watched'.asked)
    BY <1>1, <1>2, <1>11, <1>12, <2>4 DEF Running
  <2>6. ASSUME NEW u \in tasks
        PROVE  /\ u.kind = "plan" /\ ~ Began' => Still(Watched')
               /\ u.kind = "report" /\ u.at = "unlock" => Still(Watched')
               /\ u.kind = "set" /\ u.at # "paused" => Still(Watched')
               /\ u.kind = "report" /\ u.at \in {"begin", "fetch"} => Watched'.report # "none"
               /\ u.kind = "report" /\ u.at = "begin" => poll' = "sleep"
               /\ u.kind = "report" /\ u.at = "fetch" => First(comm', u.id)
    <3>1. u.kind = "plan" /\ ~ Began' => Still(Watched')
      BY <2>2, <1>6 DEF Safe, Phases
    <3>2. u.kind \in {"report", "set"} => r.method \notin {"run", "reset"}
      BY <1>13, <1>15 DEF MainKinds
    <3>3. /\ u.kind = "report" /\ u.at = "unlock" => Still(Watched')
          /\ u.kind = "set" /\ u.at # "paused" => Still(Watched')
      BY <2>2, <3>2 DEF Safe, Phases
    <3>4. u.kind = "report" /\ u.at \in {"begin", "fetch"} => Watched'.report # "none"
      BY <1>2, <3>2 DEF Safe, Phases
    <3>5. /\ u.kind = "report" /\ u.at = "begin" => poll' = "sleep"
          /\ u.kind = "report" /\ u.at = "fetch" => First(comm', u.id)
      BY <1>1, <1>5 DEF Safe, Phases
    <3>6. QED
      BY <3>1, <3>3, <3>4, <3>5
  <2>7. QED
    BY <1>1, <1>2, <2>1, <2>3, <2>5, <2>6 DEF Phases
<1>21. Booked'
  BY <1>1, <1>2, <1>3, <1>4, <1>5, <1>6, <1>7, <1>8, <1>9, <1>10, <1>11, <1>12, <1>13, <1>14, <1>15
     DEF Safe, Booked
<1>22. Pipe'
  BY <1>1, <1>2, <1>3, <1>4, <1>5, <1>6, <1>7, <1>8, <1>9, <1>10, <1>11, <1>12, <1>13, <1>14, <1>15
     DEF Safe, Roles, MainKinds, Pipe, Running
<1>23. Answers'
  <2>1. ASSUME Replied(comm', 0)
        PROVE  /\ Watched'.life = "up"
               /\ Answer'.available => Watched'.report # "none" /\ ~ Watched'.told
               /\ Answer'.env = "closing" => Watched'.env = "closing"
               /\ Answer'.unexpected => Watched'.env = "closing" /\ Watched'.exit /\ ~ Watched'.asked
    <3>1. r.method = "state"
      BY <2>1, <1>5, <1>7, <1>8
    <3>2. Answer' = StateReply(Watched) /\ Watched' = Watched
      BY <3>1, <1>9
    <3>3. /\ Answer'.available = (Watched.report # "none" /\ ~ Watched.told) /\ Answer'.env = Watched.env
          /\ Answer'.unexpected = (Watched.env = "closing" /\ ~ Watched.asked)
      BY <3>2 DEF StateReply, Unexpected
    <3>4. Watched.env = "closing" => Watched.exit
      BY DEF Safe, Sound
    <3>5. QED
      BY <3>2, <3>3, <3>4, <1>2
  <2>2. ASSUME NEW t \in tasks, t.id = r.from, t.kind = "boot"
        PROVE  /\ Watched'.life = "up" /\ ~ Watched'.sure
               /\ IF RunningPlan(Answer') THEN Busy(Watched') ELSE Still(Watched')
    <3>1. r.method = "state"
      BY <2>2, <1>8 DEF Waits
    <3>2. Answer' = StateReply(Watched) /\ Watched' = Watched
      BY <3>1, <1>9
    <3>3. Answer'.item = Watched.item /\ Answer'.available = (Watched.report # "none" /\ ~ Watched.told) /\ Answer'.re = Watched.re
      BY <3>2 DEF StateReply
    <3>4. ~ Unsettled(Watched) /\ Watched.life = "up"
      BY <2>2, <1>2 DEF Serves, Running
    <3>5. Watched.doing = "none" \/ Watched.re # "idle"
      BY <3>4 DEF Unsettled
    <3>6. Watched.env = "closing" \/ Watched.doing # "none" \/ Watched.todo = "none"
      BY <3>4 DEF Unsettled, TakesPlan, When
    <3>7. ~ Watched.sure
      BY <3>4 DEF Unsettled, ShutsDown, When, Safe, Sound
    <3>8. QED
      BY <3>2, <3>3, <3>4, <3>5, <3>6, <3>7, WatchedIs
         DEF RunningPlan, Busy, Still, Safe, Sound, Worker
  <2>3. ASSUME NEW t \in tasks, t.id = r.from, t.kind = "report"
        PROVE  Answer' = "paused" \/ (Still(Watched') /\ Answer' # "none" /\ Answer' = Watched'.report)
    <3>1. r.method = "report" /\ t.at \in {"fetch", "again"}
      BY <2>3, <1>8 DEF Waits
    <3>2. t.at = "fetch"
      BY <3>1, <2>3 DEF Safe, Roles
    <3>3. Answer' = Watched.report /\ Watched' = FetchReport(Watched) /\ Watched'.report = Watched.report
      BY <3>1, <1>2, <1>9
    <3>4. Watched.report # "none"
      BY <2>3, <3>2 DEF Safe, Phases
    <3>5. /\ Watched'.doing = Watched.doing /\ Watched'.re = Watched.re /\ Watched'.todo = Watched.todo
          /\ Watched'.told
      BY <3>3, WatchedIs DEF FetchReport, Worker
    <3>6. Watched.report # "paused" => Watched.doing = "none" /\ Watched.todo = "none" /\ Watched.re = "idle"
      BY <3>4, WatchedIs DEF Safe, Sound, Worker
    <3>7. QED
      BY <3>3, <3>4, <3>5, <3>6 DEF Still, Busy
  <2>4. ASSUME NEW t \in tasks, t.id = r.from, t.at = "confirm"
        PROVE  Answer'
    <3>1. r.method = "confirm"
      BY <2>4, <1>8, TasksAre, PlacesAre DEF Waits
    <3>2. QED
      BY <3>1, <1>10
  <2>5. ASSUME NEW t \in tasks, t.id = r.from, t.kind = "client", Answer'
        PROVE  /\ Executing
               /\ \A u \in tasks : u.kind \in MainKinds =>
                     (u.kind = "set" /\ u.at = "paused") \/ (u.kind = "report" /\ u.at \in {"begin", "fetch"})
    <3>1. r.method = t.at /\ t.at \in {"pause", "continue"}
      BY <2>5, <1>8, TasksAre, PlacesAre DEF Waits
    <3>2. Watched.re # "idle"
      BY <3>1, <2>5, <1>9
    <3>3. ~ Still(Watched)
      BY <3>2 DEF Still, Busy
    <3>4. ~ Running("boot")
      BY <2>5 DEF Running, Safe, Roles
    <3>5. Executing
      BY <3>3, <3>4, <1>6 DEF Safe, Phases
    <3>6. ASSUME NEW u \in tasks, u.kind \in MainKinds
          PROVE  (u.kind = "set" /\ u.at = "paused") \/ (u.kind = "report" /\ u.at \in {"begin", "fetch"})
      <4>1. u.kind \in {"plan", "report", "set"} \/ (u.kind = "kill" /\ u.at = "kill")
        BY <3>5, <3>6, <3>4, TasksAre, PlacesAre DEF Safe, Roles, Executing, MainKinds, Running
      <4>2. u.kind # "kill"
        BY <2>5, <4>1, <1>2 DEF Safe, Roles
      <4>3. u.kind # "plan"
        BY <3>3, <1>6 DEF Safe, Phases
      <4>4. u.kind = "set" => u.at = "paused"
        BY <3>3 DEF Safe, Phases
      <4>5. u.kind = "report" => u.at \in {"begin", "fetch"}
        BY <3>3, TasksAre, PlacesAre DEF Safe, Phases, Roles
      <4>6. QED
        BY <4>1, <4>2, <4>3, <4>4, <4>5
    <3>7. QED
      BY <3>5, <3>6
  <2>6. QED
    BY <2>1, <2>2, <2>3, <2>4, <2>5, <1>1, <1>2, <1>5 DEF Answers, Executing
<1>24. QED
  BY <1>16, <1>17, <1>18, <1>19, <1>20, <1>21, <1>22, <1>23 DEF Safe

-----------------------------------------------------------------------------
(* A report is never lost, and no worker dies. *)
LEMMA NothingLate ==
    ASSUME TypeInv, Safe
    PROVE  /\ \A t \in tasks : ~ ReportRetried(t) /\ ~ ReportLost(t)
           /\ \A p \in Processes : ~ WorkerDies(p)
<1>1. ASSUME NEW t \in tasks PROVE ~ ReportRetried(t) /\ ~ ReportLost(t)
  <2>1. CASE t.kind = "report"
    <3>1. ~ TimedOut(t.id) /\ ~ (Answered(t.id) /\ Answer = "none")
      BY <2>1, ReportComes DEF Outcome
    <3>2. QED
      BY <3>1 DEF ReportRetried, ReportLost
  <2>2. CASE t.kind # "report"
    BY <2>2 DEF ReportRetried, ReportLost, At
  <2>3. QED
    BY <2>1, <2>2
<1>2. ASSUME NEW p \in Processes PROVE ~ WorkerDies(p)
  BY Calmly DEF WorkerDies, Spend, Failures
<1>3. QED
  BY <1>1, <1>2

(* A worker serves the request that is first in the pipe. *)
LEMMA WorkerServesSafe ==
    ASSUME TypeInv, Safe, NEW p \in Processes, WorkerServes(p)
    PROVE  Safe'
BY ServesIt, ServesNobody, ServesAsked

(* At the start there is no environment, or one that is idle, and nothing   *)
(* is under way.                                                           *)
LEMMA SafeBegins ==
    ASSUME Calm, Init
    PROVE  Safe
<1>1. /\ tasks = {} /\ poll = "sleep" /\ comm.line = <<>> /\ comm.pipe = <<>> /\ comm.answer = <<>>
      /\ m.state = "idle" /\ watched = (IF May("open") THEN 1 ELSE 0)
      /\ m.env_exists = May("open") /\ m.known = May("open")
      /\ worker = [p \in Processes |-> IF p = watched THEN Opened ELSE NoWorker]
  BY DEF Init, Restarted
<1>2. CalmNow
  BY ManagerAssumption DEF Calm, CalmNow, Init
<1>3. Alone
  BY <1>1 DEF Alone, Alive, NoWorker
<1>4. 1 \in Processes /\ 0 \notin Processes
  <2>1. Cardinality(Processes) \in Nat /\ Processes = 1..Cardinality(Processes) /\ Processes # {}
    BY ManagerAssumption, FS_CardinalityType
  <2>2. QED
    BY <2>1
<1>5. Watched = IF May("open") THEN Opened ELSE NoWorker
  BY <1>1, <1>4 DEF Watched
<1>6. /\ Watched.life = (IF May("open") THEN "up" ELSE "none") /\ Watched.env # "closing"
      /\ Watched.doing = "none" /\ Watched.todo = "none" /\ Watched.re = "idle" /\ Watched.item = NoPlan
      /\ Watched.report = "none" /\ ~ Watched.exit /\ ~ Watched.sure
  BY <1>5 DEF Opened, NoWorker
<1>7. Sound(Watched)
  <2>1. Watched.life = "none" => Watched = NoWorker
    BY <1>5, <1>6
  <2>2. Watched.env = "initializing" => Blank(Watched)
    BY <1>5 DEF Opened, NoWorker, Blank
  <2>3. Watched.env \notin {"closing", "failed"}
    BY <1>5 DEF Opened, NoWorker
  <2>4. QED
    BY <1>6, <2>1, <2>2, <2>3 DEF Sound
<1>8. Still(Watched)
  BY <1>6 DEF Still, Busy
<1>9. /\ ~ Confirming /\ ~ Executing /\ ~ Began /\ \A k : ~ Running(k)
      /\ \A j : ~ Heads(comm, j) /\ ~ Replied(comm, j)
  BY <1>1 DEF Confirming, Executing, Began, Running, Heads, Replied
<1>10. Roles
  BY <1>1 DEF Roles
<1>11. Environment
  BY <1>1, <1>6, <1>9 DEF Environment, Alive
<1>12. Phases
  BY <1>1, <1>8, <1>9 DEF Phases
<1>13. Booked
  BY <1>1, <1>8 DEF Booked
<1>14. Pipe
  BY <1>1 DEF Pipe, InTime
<1>15. Answers
  BY <1>1, <1>9 DEF Answers
<1>16. QED
  BY <1>2, <1>3, <1>7, <1>10, <1>11, <1>12, <1>13, <1>14, <1>15 DEF Safe

(* Nothing changes when nothing happens. *)
LEMMA SafeStutters ==
    ASSUME Safe, UNCHANGED vars
    PROVE  Safe'
<1>1. /\ m' = m /\ tasks' = tasks /\ poll' = poll /\ comm' = comm /\ store' = store /\ worker' = worker
      /\ watched' = watched /\ budget' = budget
  BY DEF vars
<1>2. /\ Watched' = Watched /\ (Began' <=> Began) /\ (Executing' <=> Executing)
      /\ (Confirming' <=> Confirming) /\ \A k : Running(k)' <=> Running(k)
  BY <1>1 DEF Watched, Began, Executing, Confirming, Running, Answer
<1>3. CalmNow' /\ Alone' /\ Sound(Watched') /\ Roles'
  BY <1>1, <1>2 DEF Safe, CalmNow, Alone, Roles
<1>4. Environment'
  BY <1>1, <1>2 DEF Safe, Environment
<1>5. Phases'
  BY <1>1, <1>2 DEF Safe, Phases
<1>6. Booked' /\ Pipe'
  BY <1>1, <1>2 DEF Safe, Booked, Pipe
<1>7. Answers'
  BY <1>1, <1>2 DEF Safe, Answers, Answer
<1>8. QED
  BY <1>2, <1>3, <1>4, <1>5, <1>6, <1>7 DEF Safe

(* Every step keeps the invariant. *)
LEMMA SafeKept == TypeInv /\ Safe /\ [Next]_vars => Safe'
<1> SUFFICES ASSUME TypeInv, Safe, [Next]_vars PROVE Safe'
  OBVIOUS
<1>1. CASE UNCHANGED vars
  BY <1>1, SafeStutters
<1>2. CASE ClientAsks
  BY <1>2, OpenAskedSafe, CloseAskedSafe, DestroyAskedSafe, StartAskedSafe, StopAskedSafe,
     StopCancelledSafe, AutostartAskedSafe, PauseAskedSafe, ContinueAskedSafe, QueueEditedSafe
     DEF ClientAsks
<1>3. CASE ManagerRestarts
  BY <1>3, ManagerRestartsSafe
<1>4. CASE \E p \in Processes : WorkerSteps(p) \/ WorkerDies(p)
  BY <1>4, NothingLate, WorkerServesSafe, WorkerListensSafe, WorkerRunsSafe DEF WorkerSteps
<1>5. CASE Poll \/ (Idle /\ Autostarts)
  BY <1>5, PollAsksSafe, PollAnsweredSafe, PollTimesOutSafe, AutostartsSafe DEF Poll
<1>6. CASE \E t \in tasks : Turn(t)
  <2>1. PICK t \in tasks : TaskSteps(t)
    BY <1>6 DEF Turn
  <2>2. QED
    BY <2>1, NothingLate, PauseAnsweredSafe, ContinueAnsweredSafe, OpenPrefetchedSafe,
       OpenStartsSafe,
       OpenReadySafe, OpenSyncedSafe, OpenFailedSafe, OpenAbandonedSafe, ExitConfirmedSafe,
       JoinedSafe, CloseAnsweredSafe, CloseReadySafe, ClosedSafe, KillSentSafe, KillCheckedSafe,
       KillEndsSafe, ExitNoticedSafe, ExitUnlockedSafe, StateSetSafe, PlanBeginsSafe,
       PlanPreparedSafe, PlanResetSafe, PlanStartedSafe, PlanReleasedSafe, ReportAskedSafe,
       ReportProcessedSafe, ReportUnlockedSafe, BootLooksSafe, BootSeesSafe DEF TaskSteps
<1>7. QED
  BY <1>1, <1>2, <1>3, <1>4, <1>5, <1>6 DEF Next, ManagerSteps

(* Never two workers: whatever clients ask, in whatever order, and however   *)
(* often the manager is restarted in between, an environment is opened only *)
(* when the worker of the one before it is gone (run ReManager).            *)
THEOREM OneWorkerHolds ==
    ASSUME Calm
    PROVE  Spec => []OneWorker
<1>1. Init => TypeInv /\ Safe
  BY TypesBegin, SafeBegins
<1>2. TypeInv /\ Safe /\ [Next]_vars => (TypeInv /\ Safe)'
  BY TypesKept, SafeKept
<1>3. Safe => OneWorker
  BY DEF Safe, Alone, OneWorker
<1>4. QED
  BY <1>1, <1>2, <1>3, PTL DEF Spec

-----------------------------------------------------------------------------
(* Records, requests to stop, and locks: what holds of them as long as      *)
(* nothing fails, each on top of Safe and of what follows here.             *)

(* What a run observes. *)
Observed ==
    seen \in [completed : SUBSET (Plan \cup {NoPlan}), stop : BOOLEAN, started : Nat,
              pause : {"none", "pending", "ignored", "autostarted", "overtaken"}]

(* A worker that does not live does nothing. *)
Idlers == \A p \in Processes : ~ Alive(worker[p]) => worker[p] \in {NoWorker, Gone}

(* A plan is in one place: in the queue once, running, or completed, which  *)
(* it then is indeed; and the report that is fetched is the running item's. *)
Reporting(t) == t.kind = "report" /\ t.at \in {"begin", "fetch"}

Books ==
    /\ \A i, j \in 1..Len(store.queue) : store.queue[i] = store.queue[j] => i = j
    /\ \A i \in 1..Len(store.queue) : store.queue[i] # store.running
    /\ \A h \in store.history : h.exit = "completed" =>
          /\ h.plan \in seen.completed /\ h.plan # store.running
          /\ \A i \in 1..Len(store.queue) : store.queue[i] # h.plan
    /\ Watched.report = "completed" => Watched.item \in seen.completed
    /\ \A t \in tasks : Reporting(t) => Watched.item = store.running

(* Between the look at the stop flag and the start of the plan. *)
Starting(t) == t.kind = "plan" /\ t.at \in {"prepare", "reset", "run"}

Stopping ==
    /\ seen.stop => store.stop /\ seen.started <= 1
    /\ seen.stop /\ (\E t \in tasks : Starting(t)) => seen.started = 0

(* A pause that was accepted is known to the manager, or the plan is paused, *)
(* until a client lets it go on.                                           *)
Held(w) == w.re = "paused" => w.todo = "none"
Resumes == \E t \in tasks : t.kind = "client" /\ t.at = "continue" /\ Replied(comm, t.id) /\ Answer

Pausing ==
    /\ Watched.pause => Watched.re = "running"
    /\ seen.pause # "ignored"
    /\ seen.pause = "pending" =>
          /\ m.state # "starting_queue"
          /\ \A t \in tasks : ~ Starting(t)
          /\ Executing => Resumes \/ (Held(Watched) /\ (m.pause_pending \/ Watched.re = "paused"))
          /\ Executing /\ Replied(comm, 0) /\ Answer.re = "paused" =>
                Watched.re = "paused" /\ Watched.todo = "none"
    /\ \A t \in tasks :
          Replied(comm, t.id) /\ (\/ t.kind = "boot" /\ Answer.pausing
                                  \/ t.kind = "client" /\ t.at = "pause" /\ Answer) => Held(Watched)

(* The devices of the plan are locked before the worker is given it, and    *)
(* the plan it is given is the one that was prepared.                      *)
Locking ==
    /\ ~ Still(Watched) => locked = store.running
    /\ \A t \in tasks :
          /\ t.kind = "plan" /\ t.at \in {"prepare", "reset"} => store.queue # <<>> /\ t.plan = Head(store.queue)
          /\ t.kind = "plan" /\ t.at = "reset" => Parting(Watched) \/ locked = t.plan
          /\ t.kind = "plan" /\ t.at = "run" => Parting(Watched) \/ locked = store.running
    /\ Watched.life = "up" =>
          \A i \in 1..Len(comm.pipe) :
             comm.pipe[i].from = Nobody /\ comm.pipe[i].method = "run" => Parting(Watched) \/ locked = store.running

Base == Observed /\ Idlers

Preserved ==
    /\ Base'
    /\ Books => Books'
    /\ Stopping => Stopping'
    /\ Pausing => Pausing'
    /\ ConfigService /\ Locking => Locking'

-----------------------------------------------------------------------------
(* What a step leaves alone. *)

(* The books are not touched: nothing of theirs changes. *)
LEMMA BooksStay ==
    ASSUME store'.queue = store.queue, store'.running = store.running, store'.history = store.history,
           Watched' = Watched, seen'.completed = seen.completed,
           \A v \in tasks' : Reporting(v) => Watched.item = store.running \/ \E u \in tasks : Reporting(u)
    PROVE  Books => Books'
BY DEF Books, Reporting

(* Nothing that concerns a request to stop changes. *)
LEMMA StopsStay ==
    ASSUME seen'.stop = seen.stop, seen'.started = seen.started, store'.stop = store.stop,
           \A v \in tasks' : Starting(v) => \E u \in tasks : Starting(u)
    PROVE  Stopping => Stopping'
BY DEF Stopping, Starting

(* No new answer, and no new request with nobody waiting. *)
Echoes ==
    /\ NoNews(comm', comm)
    /\ \A j : Replied(comm', j) => Replied(comm, j) /\ Answer' = Answer

(* Nothing that concerns a deferred pause changes, or it is over. *)
LEMMA PausesStay ==
    ASSUME Watched' = Watched, Echoes,
           seen'.pause = seen.pause \/ seen'.pause \notin {"pending", "ignored"},
           m'.state = "starting_queue" => m.state = "starting_queue" \/ seen'.pause # "pending",
           \A v \in tasks' : Starting(v) => seen'.pause # "pending" \/ \E u \in tasks : Starting(u),
           Executing' /\ seen'.pause = "pending" =>
              Executing /\ (Resumes => Resumes') /\ (m.pause_pending => m'.pause_pending),
           \A v \in tasks' : v.kind \in {"boot", "client"} /\ Replied(comm', v.id) => v \in tasks
    PROVE  Pausing => Pausing'
<1> SUFFICES ASSUME Pausing PROVE Pausing'
  OBVIOUS
<1>1. (Watched.pause => Watched.re = "running")' /\ seen'.pause # "ignored"
  BY DEF Pausing
<1>2. seen'.pause = "pending" =>
          /\ m'.state # "starting_queue"
          /\ \A t \in tasks' : ~ Starting(t)
          /\ Executing' => Resumes' \/ (Held(Watched') /\ (m'.pause_pending \/ Watched'.re = "paused"))
          /\ Executing' /\ Replied(comm', 0) /\ Answer'.re = "paused" =>
                Watched'.re = "paused" /\ Watched'.todo = "none"
  BY DEF Pausing, Echoes
<1>3. \A t \in tasks' :
          Replied(comm', t.id) /\ (\/ t.kind = "boot" /\ Answer'.pausing
                                   \/ t.kind = "client" /\ t.at = "pause" /\ Answer') => Held(Watched')
  BY DEF Pausing, Echoes
<1>4. QED
  BY <1>1, <1>2, <1>3 DEF Pausing, Starting

(* Nothing that concerns the locks of plans changes. *)
LEMMA LocksStay ==
    ASSUME Watched' = Watched, store'.queue = store.queue, store'.running = store.running, locked' = locked,
           Echoes, \A v \in tasks' : Starting(v) => v \in tasks
    PROVE  Locking => Locking'
BY DEF Locking, Starting, Echoes, NoNews

(* Steps that concern neither plans nor reports. *)
TasksAside ==
    /\ \A v \in tasks' : v.kind \in {"plan", "report", "boot", "client"} => v \in tasks
    /\ \A v \in tasks : v.kind = "client" => v \in tasks'

Aside ==
    /\ store' = store /\ worker' = worker /\ watched' = watched /\ locked' = locked /\ seen' = seen
    /\ \A v \in tasks' : v.kind \in {"plan", "report", "boot"} => v \in tasks
    /\ \A v \in tasks' : v.kind = "client" => v \in tasks \/ ~ Replied(comm', v.id)
    /\ Echoes
    /\ m'.state = m.state \/ m'.state \notin {"starting_queue", "executing_queue", "paused"}
    /\ Executing' => m'.pause_pending = m.pause_pending /\ (Resumes => Resumes')

(* ... and they keep everything. *)
LEMMA AsideKeeps ==
    ASSUME Base, Aside
    PROVE  Preserved
<1>1. Watched' = Watched /\ store' = store /\ seen' = seen /\ locked' = locked /\ Echoes
  BY DEF Aside, Watched
<1>2. Base'
  BY DEF Base, Aside, Observed, Idlers
<1>3. /\ \A v \in tasks' : Starting(v) => v \in tasks
      /\ \A v \in tasks' : Reporting(v) => v \in tasks
      /\ \A v \in tasks' : v.kind \in {"boot", "client"} /\ Replied(comm', v.id) => v \in tasks
  BY DEF Aside, Starting, Reporting
<1>4. Books => Books'
  BY <1>1, <1>3, BooksStay
<1>5. Stopping => Stopping'
  BY <1>1, <1>3, StopsStay
<1>6. /\ m'.state = "starting_queue" => m.state = "starting_queue"
      /\ Executing' => Executing /\ (Resumes => Resumes') /\ (m.pause_pending => m'.pause_pending)
  BY DEF Aside, Executing
<1>7. Pausing => Pausing'
  BY <1>1, <1>3, <1>6, PausesStay
<1>8. Locking => Locking'
  BY <1>1, <1>3, LocksStay
<1>9. QED
  BY <1>2, <1>4, <1>5, <1>7, <1>8 DEF Preserved

(* The calls are as they were; *)
LEMMA EchoesSame ==
    ASSUME comm' = comm
    PROVE  Echoes /\ (TasksAside /\ Resumes => Resumes')
BY DEF Echoes, NoNews, Resumes, TasksAside, Answer

(* a call was made; *)
LEMMA EchoesAdded ==
    ASSUME NEW id, NEW method, NEW arg, Adds(comm, comm', id, method, arg)
    PROVE  Echoes /\ (TasksAside /\ Resumes => Resumes') /\ \A j : Replied(comm', j) => Replied(comm, j)
<1>1. comm'.answer = comm.answer /\ (\A j : Replied(comm', j) <=> Replied(comm, j)) /\ NoNews(comm', comm)
  BY DEF Adds
<1>2. Answer' = Answer
  BY <1>1 DEF Answer
<1>3. QED
  BY <1>1, <1>2 DEF Echoes, Resumes, TasksAside

(* a call is over. *)
LEMMA EchoesDropped ==
    ASSUME TypeInv, NEW id, Heads(comm, id), Drops(comm, comm', id),
           \A v \in tasks : v.kind = "client" => v.id # id
    PROVE  Echoes /\ ~ Resumes /\ \A j : ~ Replied(comm', j)
BY DEF Drops, Echoes, Resumes, Replied, Heads

(* A coroutine of another kind moves on or ends; *)
LEMMA GoesAside ==
    ASSUME TypeInv, NEW t \in tasks, t.kind \notin {"plan", "report", "boot", "client"},
           tasks' = Finish(t) \/ \E at \in Places[t.kind] : tasks' = Goto(t, at)
    PROVE  TasksAside
<1>1. CASE tasks' = Finish(t)
  BY <1>1 DEF Finish, TasksAside
<1>2. ASSUME NEW at \in Places[t.kind], tasks' = Goto(t, at) PROVE TasksAside
  BY <1>2, GoesTo DEF TasksAside
<1>3. QED
  BY <1>1, <1>2

(* a coroutine of another kind begins. *)
LEMMA SpawnsAside ==
    ASSUME TypeInv, Room, NEW k \in {"open", "close", "kill", "set", "unexp"}, NEW at, tasks' = Spawn(tasks, k, at)
    PROVE  TasksAside
BY Begins DEF Room, TasksAside

-----------------------------------------------------------------------------
(* Opening, closing and destroying an environment, asking and the poll are  *)
(* no concern of plans and reports.                                        *)
LEMMA AsideTaken ==
    ASSUME Base, TasksAside, Echoes, TasksAside /\ Resumes => Resumes',
           store' = store, worker' = worker, watched' = watched, locked' = locked, seen' = seen,
           m'.state = m.state \/ m'.state \notin {"starting_queue", "executing_queue", "paused"},
           Executing' => m'.pause_pending = m.pause_pending
    PROVE  Preserved
<1>1. Aside
  BY DEF Aside, TasksAside
<1>2. QED
  BY <1>1, AsideKeeps

(* The coroutines of an environment, between calls. *)
LEMMA OpensKeep ==
    ASSUME TypeInv, Safe, Base, NEW t \in tasks,
           \/ OpenPrefetched(t) \/ OpenReady(t) \/ OpenSynced(t) \/ OpenAbandoned(t) \/ Joined(t) \/ KillChecked(t)
    PROVE  Preserved
<1>1. /\ store' = store /\ worker' = worker /\ watched' = watched /\ locked' = locked /\ seen' = seen
      /\ comm' = comm
  BY DEF OpenPrefetched, OpenReady, OpenSynced, OpenAbandoned, Joined, KillChecked
<1>2. t.kind \notin {"plan", "report", "boot", "client"}
  BY TasksAre, KindsAre, PlacesAre DEF OpenPrefetched, OpenReady, OpenSynced, OpenAbandoned, Joined, KillChecked, At
<1>3. tasks' = Finish(t) \/ \E at \in Places[t.kind] : tasks' = Goto(t, at)
  BY TasksAre, KindsAre, PlacesAre
     DEF OpenPrefetched, OpenReady, OpenSynced, OpenAbandoned, Joined, KillChecked, At
<1>4. TasksAside
  BY <1>2, <1>3, GoesAside
<1>5. /\ m'.state = m.state \/ m'.state \notin {"starting_queue", "executing_queue", "paused"}
      /\ Executing' => m'.pause_pending = m.pause_pending
  <2>1. ASSUME OpenReady(t) PROVE m.state = "creating_environment"
    BY <2>1 DEF OpenReady, At, Safe, Roles
  <2>2. QED
    BY <2>1 DEF OpenPrefetched, OpenReady, OpenSynced, OpenAbandoned, Joined, KillChecked, TypeInv, ManagerOk,
                Manager, Executing
<1>6. QED
  BY <1>1, <1>4, <1>5, EchoesSame, AsideTaken

(* ... those that ask a worker to leave, *)
LEMMA LeavesKeep ==
    ASSUME TypeInv, Safe, Base, NEW t \in tasks, OpenFailed(t) \/ CloseReady(t) \/ ExitNoticed(t)
    PROVE  Preserved
<1>1. /\ store' = store /\ worker' = worker /\ watched' = watched /\ locked' = locked /\ seen' = seen
      /\ comm' = comm \/ comm' = Call(comm, t.id, "confirm", NoPlan)
      /\ t.kind \in {"open", "close", "unexp"}
  BY DEF OpenFailed, CloseReady, ExitNoticed, At
<1>2. tasks' = Finish(t) \/ \E at \in Places[t.kind] : tasks' = Goto(t, at)
  BY PlacesAre DEF OpenFailed, CloseReady, ExitNoticed, At
<1>3. TasksAside
  BY <1>1, <1>2, GoesAside
<1>4. Echoes /\ (TasksAside /\ Resumes => Resumes')
  <2>1. CASE comm' = comm
    BY <2>1, EchoesSame
  <2>2. CASE comm' = Call(comm, t.id, "confirm", NoPlan)
    <3>1. Adds(comm, comm', t.id, "confirm", NoPlan)
      BY <2>2, TasksAre, CallAdds DEF Methods
    <3>2. QED
      BY <3>1, EchoesAdded
  <2>3. QED
    BY <1>1, <2>1, <2>2
<1>5. m'.state = m.state /\ m'.pause_pending = m.pause_pending
  BY DEF OpenFailed, CloseReady, ExitNoticed, TypeInv, ManagerOk, Manager
<1>6. QED
  BY <1>1, <1>3, <1>4, <1>5, AsideTaken

(* and those that have their answer. *)
LEMMA AnsweredKeep ==
    ASSUME TypeInv, Safe, Base, NEW t \in tasks, ExitConfirmed(t) \/ CloseAnswered(t)
    PROVE  Preserved
<1>1. /\ store' = store /\ worker' = worker /\ watched' = watched /\ locked' = locked /\ seen' = seen
      /\ comm' = HangUp(comm) /\ (TimedOut(t.id) \/ Answered(t.id))
  BY DEF ExitConfirmed, CloseAnswered, Accepted, Refused
<1>2. t.kind \notin {"plan", "report", "boot", "client"}
  BY TasksAre, KindsAre, PlacesAre DEF ExitConfirmed, CloseAnswered, At
<1>3. tasks' = Finish(t) \/ \E at \in Places[t.kind] : tasks' = Goto(t, at)
  BY TasksAre, KindsAre, PlacesAre DEF ExitConfirmed, CloseAnswered, At
<1>4. TasksAside
  BY <1>2, <1>3, GoesAside
<1>5. Heads(comm, t.id) /\ Drops(comm, comm', t.id)
  BY <1>1, CallOver, HangUpDrops
<1>6. \A v \in tasks : v.kind = "client" => v.id # t.id
  BY <1>2, TasksAre
<1>7. Echoes /\ (TasksAside /\ Resumes => Resumes')
  BY <1>5, <1>6, EchoesDropped
<1>8. /\ m'.state = m.state \/ m'.state \notin {"starting_queue", "executing_queue", "paused"}
      /\ m'.pause_pending = m.pause_pending
  BY DEF ExitConfirmed, CloseAnswered, TypeInv, ManagerOk, Manager
<1>9. QED
  BY <1>1, <1>4, <1>7, <1>8, AsideTaken

(* Requests that begin such coroutines. *)
LEMMA AsksKeep ==
    ASSUME TypeInv, Safe, Base, OpenAsked \/ CloseAsked \/ DestroyAsked
    PROVE  Preserved
<1>1. /\ store' = store /\ worker' = worker /\ watched' = watched /\ locked' = locked /\ seen' = seen
      /\ Room /\ (comm' = comm \/ comm' = Call(comm, NewId(tasks), "close", NoPlan))
  BY DEF OpenAsked, CloseAsked, DestroyAsked, Serving
<1>2. \E k \in {"open", "close", "kill", "set", "unexp"} : \E at : tasks' = Spawn(tasks, k, at)
  BY DEF OpenAsked, CloseAsked, DestroyAsked
<1>3. TasksAside
  BY <1>1, <1>2, SpawnsAside
<1>4. Echoes /\ (TasksAside /\ Resumes => Resumes')
  <2>1. CASE comm' = comm
    BY <2>1, EchoesSame
  <2>2. CASE comm' = Call(comm, NewId(tasks), "close", NoPlan)
    <3>1. NewId(tasks) \in 0..MaxTasks
      BY <1>1, TasksAre, NewIdTyped DEF Room
    <3>2. Adds(comm, comm', NewId(tasks), "close", NoPlan)
      BY <2>2, <3>1, CallAdds DEF Methods
    <3>3. QED
      BY <3>2, EchoesAdded
  <2>3. QED
    BY <1>1, <2>1, <2>2
<1>5. /\ m'.state = m.state \/ m'.state \notin {"starting_queue", "executing_queue", "paused"}
      /\ m'.pause_pending = m.pause_pending
  BY DEF OpenAsked, CloseAsked, DestroyAsked, TypeInv, ManagerOk, Manager, Complete
<1>6. QED
  BY <1>1, <1>3, <1>4, <1>5, AsideTaken

(* A client that asks for a pause, or for the plan to go on, waits. *)
LEMMA ClientsKeep ==
    ASSUME TypeInv, Safe, Base, PauseAsked \/ ContinueAsked
    PROVE  Preserved
<1>1. /\ store' = store /\ worker' = worker /\ watched' = watched /\ locked' = locked /\ seen' = seen
      /\ m' = m /\ Free(tasks) # {}
  BY DEF PauseAsked, ContinueAsked, Serving, Room
<1>2. \E at : tasks' = Spawn(tasks, "client", at)
  BY DEF PauseAsked, ContinueAsked
<1>3. PICK u : /\ u.id = NewId(tasks) /\ u.kind = "client" /\ u.id \in 1..MaxTasks /\ \A v \in tasks : v.id # u.id
               /\ \A v : v \in tasks' <=> v \in tasks \/ v = u
  BY <1>1, <1>2, Begins
<1>4. \E method, arg : Adds(comm, comm', u.id, method, arg)
  <2>1. u.id \in 0..MaxTasks
    BY <1>3, TasksAre
  <2>2. \E method \in Methods, arg \in Plan \cup {NoPlan} \cup Options : comm' = Call(comm, u.id, method, arg)
    BY <1>3 DEF PauseAsked, ContinueAsked, Methods
  <2>3. QED
    BY <2>1, <2>2, CallAdds
<1>5. Echoes /\ \A j : Replied(comm', j) => Replied(comm, j)
  BY <1>4, EchoesAdded
<1>6. ~ Replied(comm', u.id)
  BY <1>3, <1>5, Quiet, TasksAre
<1>7. Resumes => Resumes'
  <2>1. comm'.answer = comm.answer /\ (\A j : Replied(comm', j) <=> Replied(comm, j))
    BY <1>4 DEF Adds
  <2>2. Answer' = Answer
    BY <2>1 DEF Answer
  <2>3. QED
    BY <2>1, <2>2, <1>3 DEF Resumes
<1>8. Aside
  BY <1>1, <1>3, <1>5, <1>6, <1>7 DEF Aside
<1>9. QED
  BY <1>8, AsideKeeps

(* The poll asks, *)
LEMMA PollAsksKeeps ==
    ASSUME TypeInv, Safe, Base, PollAsks
    PROVE  Preserved
<1>1. /\ store' = store /\ worker' = worker /\ watched' = watched /\ locked' = locked /\ seen' = seen
      /\ m' = m /\ tasks' = tasks
  BY DEF PollAsks
<1>2. Adds(comm, comm', 0, "state", NoPlan)
  BY TasksAre, CallAdds DEF PollAsks, Methods
<1>3. TasksAside
  BY <1>1 DEF TasksAside
<1>4. QED
  BY <1>1, <1>2, <1>3, EchoesAdded, AsideTaken

(* and gives up. *)
LEMMA PollTimesOutKeeps ==
    ASSUME TypeInv, Safe, Base, PollTimesOut
    PROVE  Preserved
<1>1. /\ store' = store /\ worker' = worker /\ watched' = watched /\ locked' = locked /\ seen' = seen
      /\ TimedOut(0) /\ Room /\ comm' = HangUp(comm)
  BY DEF PollTimesOut
<1>2. m'.state = m.state /\ m'.pause_pending = m.pause_pending
  BY DEF PollTimesOut, TypeInv, ManagerOk, Manager, Complete
<1>3. TasksAside
  <2>1. CASE tasks' = tasks
    BY <2>1 DEF TasksAside
  <2>2. CASE tasks' = Spawn(tasks, "kill", "kill")
    BY <2>2, <1>1, SpawnsAside
  <2>3. QED
    BY <2>1, <2>2 DEF PollTimesOut
<1>4. Echoes /\ (TasksAside /\ Resumes => Resumes')
  <2>1. Heads(comm, 0) /\ Drops(comm, comm', 0)
    BY <1>1, PollOver
  <2>2. QED
    BY <2>1, TasksAre, EchoesDropped
<1>5. QED
  BY <1>1, <1>2, <1>3, <1>4, AsideTaken

-----------------------------------------------------------------------------
(* What the records become. *)

(* A worker that is parting is still. *)
LEMMA PartingIsStill ==
    ASSUME TypeInv, Safe, Parting(Watched)
    PROVE  Still(Watched)
<1>1. CASE Alive(Watched)
  BY <1>1 DEF Parting
<1>2. CASE ~ Alive(Watched)
  <2>1. Watched = NoWorker \/ Watched = Gone
    BY <1>2, WatchedIs DEF Safe, Sound, Alive, Worker
  <2>2. QED
    BY <2>1 DEF Gone, NoWorker, Still, Busy
<1>3. QED
  BY <1>1, <1>2

(* Devices may be released when no worker runs a plan or is about to. *)
LEMMA LocksFree ==
    ASSUME Safe', Still(Watched'), \A v \in tasks' : ~ Starting(v) /\ v.kind # "boot"
    PROVE  Locking'
BY DEF Locking, Starting, Safe, Pipe, Running

(* A plan put first in a queue. *)
LEMMA Prepended ==
    ASSUME NEW q \in Seq(Plan), NEW a \in Plan
    PROVE  LET n == <<a>> \o q
           IN  /\ Len(n) = Len(q) + 1 /\ Len(q) \in Nat /\ n[1] = a
               /\ \A i \in 1..Len(n) : i # 1 => i - 1 \in 1..Len(q) /\ n[i] = q[i - 1]
<1>1. <<a>> \in Seq(Plan) /\ Len(<<a>>) = 1
  OBVIOUS
<1>2. /\ Len(<<a>> \o q) = 1 + Len(q) /\ Len(q) \in Nat
      /\ \A i \in 1..Len(<<a>> \o q) : (<<a>> \o q)[i] = IF i <= 1 THEN <<a>>[i] ELSE q[i - 1]
  BY <1>1
<1>3. QED
  BY <1>2

(* The first two of a queue change places. *)
LEMMA Swapped ==
    ASSUME NEW q \in Seq(Plan), Len(q) > 1
    PROVE  LET n == <<q[2], q[1]>> \o SubSeq(q, 3, Len(q))
           IN  /\ Len(n) = Len(q) /\ Len(q) \in Nat
               /\ \A i \in 1..Len(n) : n[i] = q[IF i = 1 THEN 2 ELSE IF i = 2 THEN 1 ELSE i]
<1>1. Len(q) \in Nat /\ \A i \in 1..Len(q) : q[i] \in Plan
  OBVIOUS
<1>2. <<q[2], q[1]>> \in Seq(Plan) /\ Len(<<q[2], q[1]>>) = 2
  BY <1>1
<1>3. /\ SubSeq(q, 3, Len(q)) \in Seq(Plan) /\ Len(SubSeq(q, 3, Len(q))) = Len(q) - 2
      /\ \A i \in 1..(Len(q) - 2) : SubSeq(q, 3, Len(q))[i] = q[i + 2]
  <2>1. CASE Len(q) = 2
    <3>1. SubSeq(q, 3, Len(q)) = <<>>
      BY <2>1
    <3>2. QED
      BY <2>1, <3>1
  <2>2. CASE Len(q) > 2
    <3>1. 3 \in 1..Len(q) + 1 /\ Len(q) \in 3 - 1..Len(q)
      BY <2>2, <1>1
    <3>2. Len(SubSeq(q, 3, Len(q))) = Len(q) - 3 + 1 /\ SubSeq(q, 3, Len(q)) \in Seq(Plan)
      BY <3>1, <2>2, <1>1
    <3>3. \A i \in 1..(Len(q) - 2) : SubSeq(q, 3, Len(q))[i] = q[3 + i - 1]
      BY <3>2, <2>2, <1>1
    <3>4. \A i \in 1..(Len(q) - 2) : 3 + i - 1 = i + 2
      BY <1>1
    <3>5. QED
      BY <3>2, <3>3, <3>4, <1>1
  <2>3. Len(q) = 2 \/ Len(q) > 2
    <3>1. \A n \in Nat : n > 1 => n = 2 \/ n > 2
      OBVIOUS
    <3>2. QED
      BY <1>1, <3>1
  <2>4. QED
    BY <2>1, <2>2, <2>3
<1> DEFINE a == <<q[2], q[1]>>
           b == SubSeq(q, 3, Len(q))
<1>4. a[1] = q[2] /\ a[2] = q[1]
  OBVIOUS
<1> HIDE DEF a, b
<1>5. Len(a \o b) = 2 + Len(b) /\ \A i \in 1..Len(a \o b) : (a \o b)[i] = IF i <= 2 THEN a[i] ELSE b[i - 2]
  BY <1>2, <1>3 DEF a, b
<1>6. Len(a \o b) = Len(q)
  BY <1>1, <1>3, <1>5 DEF b
<1>7. \A i \in 1..Len(a \o b) : (a \o b)[i] = q[IF i = 1 THEN 2 ELSE IF i = 2 THEN 1 ELSE i]
  <2>1. SUFFICES ASSUME NEW i \in 1..Len(a \o b)
                 PROVE  (a \o b)[i] = q[IF i = 1 THEN 2 ELSE IF i = 2 THEN 1 ELSE i]
    OBVIOUS
  <2>2. CASE i \in {1, 2}
    BY <2>2, <1>4, <1>5
  <2>3. CASE i \notin {1, 2}
    <3>1. i - 2 \in 1..(Len(q) - 2) /\ (i - 2) + 2 = i
      BY <2>3, <1>1, <1>6
    <3>2. b[i - 2] = q[i]
      BY <3>1, <1>3 DEF b
    <3>3. QED
      BY <2>3, <3>2, <1>1, <1>5, <1>6
  <2>4. QED
    BY <2>2, <2>3
<1>8. QED
  BY <1>1, <1>6, <1>7 DEF a, b

(* The store as a record. *)
LEMMA StoreIs ==
    ASSUME TypeInv
    PROVE  /\ store \in Store /\ store.queue \in Seq(Plan) /\ store.running \in Plan \cup {NoPlan}
           /\ store.history \subseteq History /\ NoPlan \notin Plan
           /\ \A h \in store.history : h.plan # NoPlan
           /\ \A i \in 1..Len(store.queue) : store.queue[i] # NoPlan /\ store.queue[i] \in Plan
BY ManagerAssumption DEF TypeInv, Store, History

(* What Record and its callers do. *)
LEMMA Recorded ==
    ASSUME TypeInv, NEW exit
    PROVE  /\ Record(store, exit).running = NoPlan /\ Record(store, exit).queue = store.queue
           /\ Record(store, exit).stop = store.stop
           /\ Record(store, exit).history = store.history \cup {[plan |-> store.running, exit |-> exit]}
           /\ Record(store, exit) \in [queue : Seq(Plan), running : Plan \cup {NoPlan}, stop : {store.stop},
                                       auto : {store.auto}, history : {Record(store, exit).history}]
BY StoreIs DEF Record, Store

(* The running item is completed, as anything that is known to be true. *)
LEMMA BooksCompleted ==
    ASSUME TypeInv, NEW exit, store' = SetCompleted(store, exit), Watched' = Watched, seen'.completed = seen.completed,
           exit = "completed" /\ store.running # NoPlan => store.running \in seen.completed,
           \A v \in tasks' : ~ Reporting(v)
    PROVE  (Books => Books') /\ store'.stop = store.stop /\ store'.running = NoPlan
<1>1. CASE store.running = NoPlan
  <2>1. store' = store
    BY <1>1 DEF SetCompleted
  <2>2. QED
    BY <1>1, <2>1, BooksStay
<1>2. CASE store.running # NoPlan
  <2>1. store' = Record(store, exit)
    BY <1>2 DEF SetCompleted
  <2>2. /\ store'.running = NoPlan /\ store'.queue = store.queue /\ store'.stop = store.stop
        /\ store'.history = store.history \cup {[plan |-> store.running, exit |-> exit]}
    BY <2>1, Recorded
  <2>3. ASSUME Books, NEW h \in store'.history, h.exit = "completed"
        PROVE  /\ h.plan \in seen.completed /\ h.plan # NoPlan
               /\ \A i \in 1..Len(store.queue) : store.queue[i] # h.plan
    <3>1. CASE h \in store.history
      BY <2>3, <3>1, StoreIs DEF Books
    <3>2. CASE h = [plan |-> store.running, exit |-> exit]
      BY <2>3, <3>2, <1>2 DEF Books
    <3>3. QED
      BY <2>2, <2>3, <3>1, <3>2
  <2>4. Books => Books'
    BY <2>2, <2>3, StoreIs DEF Books
  <2>5. QED
    BY <2>2, <2>4
<1>3. QED
  BY <1>1, <1>2

(* ... or it is put back. *)
LEMMA BooksReturned ==
    ASSUME TypeInv, NEW exit, exit # "completed", store' = SetStopped(store, exit), Watched' = Watched,
           seen'.completed = seen.completed, \A v \in tasks' : ~ Reporting(v)
    PROVE  (Books => Books') /\ store'.stop = store.stop /\ store'.running = NoPlan
<1>1. CASE store.running = NoPlan \/ exit = "stopped"
  <2>1. store' = SetCompleted(store, exit)
    BY <1>1 DEF SetStopped
  <2>2. QED
    BY <2>1, BooksCompleted
<1>2. CASE store.running # NoPlan /\ exit # "stopped"
  <2>1. store' = [Record(store, exit) EXCEPT !.queue = <<store.running>> \o Record(store, exit).queue]
    BY <1>2 DEF SetStopped
  <2> DEFINE x == Record(store, exit)
  <2>2. /\ x.queue = store.queue /\ x.history = store.history \cup {[plan |-> store.running, exit |-> exit]}
        /\ x.running = NoPlan /\ x.stop = store.stop
        /\ x \in [queue : Seq(Plan), running : Plan \cup {NoPlan}, stop : {store.stop},
                  auto : {store.auto}, history : {x.history}]
    BY Recorded
  <2>3. store' = [x EXCEPT !.queue = <<store.running>> \o store.queue]
    BY <2>1, <2>2
  <2> HIDE DEF x
  <2>4. /\ store'.running = NoPlan /\ store'.queue = <<store.running>> \o store.queue /\ store'.stop = store.stop
        /\ store'.history = store.history \cup {[plan |-> store.running, exit |-> exit]}
    BY <2>2, <2>3
  <2>5. store.running \in Plan /\ store.queue \in Seq(Plan)
    BY <1>2, StoreIs
  <2>6. /\ Len(store'.queue) = Len(store.queue) + 1 /\ Len(store.queue) \in Nat /\ store'.queue[1] = store.running
        /\ \A i \in 1..Len(store'.queue) : i # 1 => i - 1 \in 1..Len(store.queue) /\ store'.queue[i] = store.queue[i - 1]
    BY <2>4, <2>5, Prepended
  <2>7. \A i \in 1..Len(store'.queue) : store'.queue[i] # NoPlan
    BY <2>5, <2>6, StoreIs
  <2>8. ASSUME Books PROVE \A i, j \in 1..Len(store'.queue) : store'.queue[i] = store'.queue[j] => i = j
    <3>1. SUFFICES ASSUME NEW i \in 1..Len(store'.queue), NEW j \in 1..Len(store'.queue),
                          store'.queue[i] = store'.queue[j]
                   PROVE  i = j
      OBVIOUS
    <3>2. CASE i = 1 \/ j = 1
      BY <2>6, <2>8, <3>1, <3>2 DEF Books
    <3>3. CASE i # 1 /\ j # 1
      <4>1. i - 1 \in 1..Len(store.queue) /\ j - 1 \in 1..Len(store.queue) /\ store.queue[i - 1] = store.queue[j - 1]
        BY <2>6, <3>1, <3>3
      <4>2. i - 1 = j - 1
        BY <2>8, <4>1 DEF Books
      <4>3. QED
        BY <4>2, <2>6
    <3>4. QED
      BY <3>2, <3>3
  <2>9. ASSUME Books, NEW h \in store'.history, h.exit = "completed"
        PROVE  /\ h.plan \in seen.completed /\ h.plan # NoPlan
               /\ \A i \in 1..Len(store'.queue) : store'.queue[i] # h.plan
    <3>1. h \in store.history
      BY <2>4, <2>9
    <3>2. QED
      BY <2>6, <2>9, <3>1, StoreIs DEF Books
  <2>10. Books => Books'
    BY <2>4, <2>7, <2>8, <2>9 DEF Books
  <2>11. QED
    BY <2>4, <2>10
<1>3. QED
  BY <1>1, <1>2

-----------------------------------------------------------------------------
(* Steps that start or stop the queue, or edit it, without a call. *)

(* What is observed of them. *)
LEMMA SeenChanged ==
    ASSUME Observed, NEW b \in BOOLEAN, NEW n \in Nat, NEW o \in {"none", "pending", "ignored", "autostarted", "overtaken"},
           \/ seen' = [seen EXCEPT !.stop = b, !.pause = o, !.started = n]
           \/ seen' = [seen EXCEPT !.stop = b, !.started = n, !.pause = o]
           \/ seen' = [seen EXCEPT !.started = n, !.pause = o] /\ b = seen.stop
           \/ seen' = [seen EXCEPT !.stop = b, !.started = n] /\ o = seen.pause
           \/ seen' = [seen EXCEPT !.stop = b, !.pause = o] /\ n = seen.started
           \/ seen' = [seen EXCEPT !.stop = b] /\ n = seen.started /\ o = seen.pause
           \/ seen' = [seen EXCEPT !.pause = o] /\ b = seen.stop /\ n = seen.started
    PROVE  Observed' /\ seen'.completed = seen.completed /\ seen'.stop = b /\ seen'.started = n /\ seen'.pause = o
BY DEF Observed

(* The queue is started, *)
LEMMA StartsKeep ==
    ASSUME TypeInv, Safe, Base, StartAsked \/ Autostarts
    PROVE  Preserved
<1>1. /\ Watched' = Watched /\ worker' = worker /\ locked' = locked /\ comm' = comm /\ Free(tasks) # {}
  BY DEF StartAsked, Autostarts, Start, Serving, Watched, Room
<1>2. /\ store'.queue = store.queue /\ store'.running = store.running /\ store'.history = store.history
  BY DEF StartAsked, Autostarts, Start, TypeInv, Store
<1>3. /\ seen'.completed = seen.completed /\ seen'.stop = FALSE
      /\ seen'.pause = "none" \/ seen'.pause = seen.pause \/ seen'.pause = "autostarted"
      /\ seen'.pause # "pending" /\ Observed'
  <2>1. CASE StartAsked
    <3>1. seen' = [seen EXCEPT !.stop = FALSE, !.pause = "none", !.started = 0]
      BY <2>1 DEF StartAsked
    <3>2. QED
      BY <3>1, SeenChanged DEF Base
  <2>2. CASE Autostarts
    <3>1. PICK o : /\ o = (IF seen.pause = "pending" THEN "autostarted" ELSE seen.pause)
                   /\ seen' = [seen EXCEPT !.stop = FALSE, !.started = 0, !.pause = o]
      BY <2>2 DEF Autostarts
    <3>2. o \in {"none", "pending", "ignored", "autostarted", "overtaken"}
      BY <3>1 DEF Base, Observed
    <3>3. QED
      BY <3>1, <3>2, SeenChanged DEF Base
  <2>3. QED
    BY <2>1, <2>2
<1>4. m'.state = "starting_queue"
  BY DEF StartAsked, Autostarts, Start, TypeInv, ManagerOk, Manager
<1>5. PICK u : /\ u.kind = "plan" /\ u.at = "begin" /\ \A v : v \in tasks' <=> v \in tasks \/ v = u
  BY <1>1, Begins DEF StartAsked, Autostarts, Start
<1>6. Echoes
  BY <1>1, EchoesSame
<1>7. Base'
  BY <1>1, <1>3 DEF Base, Idlers
<1>8. Books => Books'
  BY <1>1, <1>2, <1>3, <1>5, BooksStay DEF Reporting
<1>9. Stopping'
  BY <1>3 DEF Stopping
<1>10. Pausing => Pausing'
  BY <1>1, <1>3, <1>4, <1>5, <1>6, PausesStay
<1>11. Locking => Locking'
  BY <1>1, <1>2, <1>5, <1>6, LocksStay DEF Starting
<1>12. QED
  BY <1>7, <1>8, <1>9, <1>10, <1>11 DEF Preserved

(* flags of the store are set, *)
LEMMA FlagsKeep ==
    ASSUME TypeInv, Safe, Base, AutostartAsked \/ StopAsked \/ StopCancelled
    PROVE  Preserved
<1>1. /\ Watched' = Watched /\ worker' = worker /\ locked' = locked /\ comm' = comm /\ tasks' = tasks /\ m' = m
  BY DEF AutostartAsked, StopAsked, StopCancelled, Watched
<1>2. /\ store'.queue = store.queue /\ store'.running = store.running /\ store'.history = store.history
  BY DEF AutostartAsked, StopAsked, StopCancelled, TypeInv, Store
<1>3. /\ seen'.completed = seen.completed /\ (seen'.pause = "none" \/ seen'.pause = seen.pause) /\ Observed'
      /\ AutostartAsked => seen'.stop = seen.stop /\ seen'.started = seen.started
      /\ StopAsked => seen'.started = 0
      /\ StopCancelled => ~ seen'.stop
  <2>1. seen.stop \in BOOLEAN /\ seen.started \in Nat /\ Observed
        /\ seen.pause \in {"none", "pending", "ignored", "autostarted", "overtaken"}
    BY DEF Base, Observed
  <2>2. CASE AutostartAsked
    <3>1. seen' = [seen EXCEPT !.pause = "none"] /\ store'.stop = store.stop
      BY <2>2 DEF AutostartAsked, TypeInv, Store
    <3>2. seen'.completed = seen.completed /\ Observed' /\ seen'.stop = seen.stop /\ seen'.started = seen.started
          /\ seen'.pause = "none"
      BY <2>1, <3>1, SeenChanged
    <3>3. QED
      BY <2>2, <3>2 DEF AutostartAsked, StopAsked, StopCancelled, Base, Observed
  <2>3. CASE StopAsked
    <3>1. seen' = [seen EXCEPT !.stop = TRUE, !.started = 0]
      BY <2>3 DEF StopAsked
    <3>2. seen'.completed = seen.completed /\ Observed' /\ seen'.started = 0 /\ seen'.pause = seen.pause
      BY <2>1, <3>1, SeenChanged
    <3>3. QED
      BY <2>3, <3>2 DEF AutostartAsked, StopAsked, StopCancelled, Base, Observed
  <2>4. CASE StopCancelled
    <3>1. seen' = [seen EXCEPT !.stop = FALSE]
      BY <2>4 DEF StopCancelled
    <3>2. seen'.completed = seen.completed /\ Observed' /\ ~ seen'.stop /\ seen'.pause = seen.pause
      BY <2>1, <3>1, SeenChanged
    <3>3. QED
      BY <2>4, <3>2 DEF AutostartAsked, StopAsked, StopCancelled, Base, Observed
  <2>5. QED
    BY <2>2, <2>3, <2>4
<1>4. Echoes /\ (Resumes => Resumes')
  BY <1>1, EchoesSame DEF TasksAside
<1>5. Base'
  BY <1>1, <1>3 DEF Base, Idlers
<1>6. Books => Books'
  BY <1>1, <1>2, <1>3, BooksStay
<1>7. Stopping => Stopping'
  <2>1. CASE AutostartAsked
    <3>1. store'.stop = store.stop /\ seen'.stop = seen.stop /\ seen'.started = seen.started
      BY <2>1, <1>3 DEF AutostartAsked, TypeInv, Store
    <3>2. QED
      BY <3>1, <1>1, StopsStay
  <2>2. CASE StopAsked
    <3>1. store'.stop /\ seen'.started = 0
      BY <2>2, <1>3 DEF StopAsked, TypeInv, Store
    <3>2. QED
      BY <3>1 DEF Stopping
  <2>3. CASE StopCancelled
    <3>1. ~ seen'.stop
      BY <2>3, <1>3
    <3>2. QED
      BY <3>1 DEF Stopping
  <2>4. QED
    BY <2>1, <2>2, <2>3
<1>8. Pausing => Pausing'
  <2>1. Executing' => Executing /\ m'.pause_pending = m.pause_pending
    BY <1>1 DEF Executing
  <2>2. QED
    BY <2>1, <1>1, <1>3, <1>4, PausesStay
<1>9. Locking => Locking'
  BY <1>1, <1>2, <1>4, LocksStay
<1>10. QED
  BY <1>5, <1>6, <1>7, <1>8, <1>9 DEF Preserved

(* the queue is edited: no plan is being started. *)
LEMMA QueueEditedKeeps ==
    ASSUME TypeInv, Safe, Base, QueueEdited
    PROVE  Preserved
<1>1. /\ Watched' = Watched /\ worker' = worker /\ locked' = locked /\ comm' = comm /\ tasks' = tasks /\ m' = m
      /\ seen' = seen
  BY DEF QueueEdited, Watched
<1>2. \A v \in tasks : v.kind # "plan"
  BY Calmly DEF QueueEdited, Failures, Running
<1>3. /\ store'.running = store.running /\ store'.history = store.history /\ store'.stop = store.stop
      /\ store'.queue = <<>> \/ (/\ Len(store.queue) > 1
                                 /\ store'.queue = <<store.queue[2], store.queue[1]>>
                                                   \o SubSeq(store.queue, 3, Len(store.queue)))
  BY DEF QueueEdited, TypeInv, Store
<1>4. /\ \A i \in 1..Len(store'.queue) : \E k \in 1..Len(store.queue) : store'.queue[i] = store.queue[k]
      /\ Books => \A i, j \in 1..Len(store'.queue) : store'.queue[i] = store'.queue[j] => i = j
  <2>1. CASE store'.queue = <<>>
    BY <2>1
  <2>2. CASE /\ Len(store.queue) > 1
             /\ store'.queue = <<store.queue[2], store.queue[1]>> \o SubSeq(store.queue, 3, Len(store.queue))
    <3> DEFINE was(i) == IF i = 1 THEN 2 ELSE IF i = 2 THEN 1 ELSE i
    <3>1. /\ Len(store'.queue) = Len(store.queue) /\ Len(store.queue) \in Nat
          /\ \A i \in 1..Len(store'.queue) : store'.queue[i] = store.queue[was(i)]
      BY <2>2, Swapped, StoreIs
    <3>2. \A n \in Nat : n > 1 => \A i \in 1..n : was(i) \in 1..n
      OBVIOUS
    <3>3. \A i \in 1..Len(store'.queue) : was(i) \in 1..Len(store.queue)
      BY <2>2, <3>1, <3>2
    <3>4. \A i, j : was(i) = was(j) => i = j
      OBVIOUS
    <3> HIDE DEF was
    <3>5. QED
      BY <3>1, <3>3, <3>4 DEF Books
  <2>3. QED
    BY <1>3, <2>1, <2>2
<1>5. Echoes /\ (Resumes => Resumes')
  BY <1>1, EchoesSame DEF TasksAside
<1>6. Base'
  BY <1>1 DEF Base, Idlers, Observed
<1>7. Books => Books'
  BY <1>1, <1>3, <1>4 DEF Books
<1>8. Stopping => Stopping'
  BY <1>1, <1>3, StopsStay
<1>9. Pausing => Pausing'
  BY <1>1, <1>5, PausesStay DEF Executing
<1>10. Locking => Locking'
  BY <1>1, <1>2, <1>3 DEF Locking
<1>11. QED
  BY <1>6, <1>7, <1>8, <1>9, <1>10 DEF Preserved

(* _set_manager_state: with the queue no longer asked to stop. *)
LEMMA StateSetKeeps ==
    ASSUME TypeInv, Safe, Base, NEW t \in tasks, StateSet(t)
    PROVE  Preserved
<1>1. /\ Watched' = Watched /\ worker' = worker /\ locked' = locked /\ comm' = comm /\ t.kind = "set"
  BY DEF StateSet, Watched
<1>2. m'.state = (IF t.at = "paused" THEN "paused" ELSE "idle")
  BY DEF StateSet, TypeInv, ManagerOk, Manager
<1>3. /\ store'.queue = store.queue /\ store'.running = store.running /\ store'.history = store.history
      /\ t.at = "paused" => store'.stop = store.stop
  BY DEF StateSet, TypeInv, Store
<1>4. /\ seen'.completed = seen.completed /\ seen'.started = seen.started /\ Observed'
      /\ seen'.stop = (seen.stop /\ t.at = "paused")
      /\ seen'.pause = (IF t.at = "paused" THEN "none" ELSE seen.pause)
  BY DEF StateSet, Base, Observed
<1>5. \A v : v \in tasks' <=> v \in tasks /\ v # t
  BY DEF StateSet, Finish
<1>6. Echoes
  BY <1>1, EchoesSame
<1>7. Base'
  BY <1>1, <1>4 DEF Base, Idlers
<1>8. Books => Books'
  BY <1>1, <1>3, <1>4, <1>5, BooksStay DEF Reporting
<1>9. Stopping => Stopping'
  <2>1. CASE t.at = "paused"
    <3>1. seen'.stop = seen.stop
      BY <2>1, <1>4 DEF Base, Observed
    <3>2. QED
      BY <2>1, <3>1, <1>3, <1>4, <1>5, StopsStay
  <2>2. CASE t.at # "paused"
    BY <2>2, <1>4 DEF Stopping
  <2>3. QED
    BY <2>1, <2>2
<1>10. Pausing => Pausing'
  <2>1. ~ (Executing' /\ seen'.pause = "pending")
    BY <1>2, <1>4 DEF Executing
  <2>2. QED
    BY <2>1, <1>1, <1>2, <1>4, <1>5, <1>6, PausesStay
<1>11. Locking => Locking'
  BY <1>1, <1>3, <1>5, <1>6, LocksStay
<1>12. QED
  BY <1>7, <1>8, <1>9, <1>10, <1>11 DEF Preserved

-----------------------------------------------------------------------------
(* Steps that may release devices. *)

(* Devices are released for a worker that is parting. *)
LEMMA LocksParted ==
    ASSUME TypeInv, Safe, Parting(Watched), Watched' = Watched, store'.queue = store.queue, store'.running = store.running,
           \A v \in tasks' : Starting(v) => v \in tasks
    PROVE  Locking => Locking'
BY PartingIsStill DEF Locking, Starting

(* The worker left by itself, *)
LEMMA ExitUnlockedKeeps ==
    ASSUME TypeInv, Safe, Base, NEW t \in tasks, ExitUnlocked(t)
    PROVE  Preserved
<1>1. /\ Watched' = Watched /\ worker' = worker /\ comm' = comm /\ store' = store /\ seen' = seen /\ m' = m
      /\ t.kind = "unexp"
  BY DEF ExitUnlocked, Watched, At
<1>2. \A v : v \in tasks' <=> v \in tasks /\ v # t
  BY DEF ExitUnlocked, Finish
<1>3. Parting(Watched)
  BY <1>1 DEF Safe, Environment
<1>4. Echoes /\ (Resumes => Resumes')
  BY <1>1, <1>2, EchoesSame DEF TasksAside
<1>5. Base'
  BY <1>1 DEF Base, Idlers, Observed
<1>6. Books => Books'
  BY <1>1, <1>2, BooksStay DEF Reporting
<1>7. Stopping => Stopping'
  BY <1>1, <1>2, StopsStay
<1>8. Pausing => Pausing'
  BY <1>1, <1>2, <1>4, PausesStay DEF Executing
<1>9. Locking => Locking'
  BY <1>1, <1>2, <1>3, LocksParted
<1>10. QED
  BY <1>5, <1>6, <1>7, <1>8, <1>9 DEF Preserved

(* the environment is closed, *)
LEMMA ClosedKeeps ==
    ASSUME TypeInv, Safe, Safe', Base, NEW t \in tasks, Closed(t)
    PROVE  Preserved
<1>1. /\ Watched' = Watched /\ worker' = worker /\ comm' = comm /\ store' = store /\ seen' = seen
      /\ t.kind = "close"
  BY DEF Closed, Watched, At
<1>2. m'.state = "idle"
  BY DEF Closed, TypeInv, ManagerOk, Manager
<1>3. \A v : v \in tasks' <=> v \in tasks /\ v # t
  BY DEF Closed, Finish
<1>4. \A v \in tasks : v.kind \in MainKinds => v = t
  BY <1>1 DEF Safe, Roles, MainKinds
<1>5. Still(Watched)
  BY <1>1, <1>4 DEF Safe, Phases, Roles, Executing, Began, Running, MainKinds
<1>6. Echoes
  BY <1>1, EchoesSame
<1>7. Base'
  BY <1>1 DEF Base, Idlers, Observed
<1>8. Books => Books'
  BY <1>1, <1>3, BooksStay DEF Reporting
<1>9. Stopping => Stopping'
  BY <1>1, <1>3, StopsStay
<1>10. Pausing => Pausing'
  BY <1>1, <1>2, <1>3, <1>6, PausesStay DEF Executing
<1>11. Locking'
  BY <1>1, <1>3, <1>4, <1>5, LocksFree DEF Starting, MainKinds
<1>12. QED
  BY <1>7, <1>8, <1>9, <1>10, <1>11 DEF Preserved

(* ... or destroyed, *)
LEMMA KillEndsKeeps ==
    ASSUME TypeInv, Safe, Safe', Base, NEW t \in tasks, KillEnds(t)
    PROVE  Preserved
<1>1. /\ Watched' = Watched /\ worker' = worker /\ comm' = comm /\ seen' = seen /\ m' = m
      /\ t.kind = "kill" /\ t.at = "unlock" /\ store' = SetStopped(store, "failed")
  BY DEF KillEnds, Watched, At
<1>2. \A v : v \in tasks' <=> v \in tasks /\ v # t
  BY DEF KillEnds, Finish
<1>3. \A v \in tasks : v.kind \in MainKinds => v = t
  BY <1>1 DEF Safe, Roles, MainKinds
<1>4. Still(Watched) /\ m.state = "idle"
  BY <1>1, PartingIsStill DEF Safe, Roles, Parting
<1>5. Echoes
  BY <1>1, EchoesSame
<1>6. Base'
  BY <1>1 DEF Base, Idlers, Observed
<1>7. (Books => Books') /\ store'.stop = store.stop
  BY <1>1, <1>2, <1>3, BooksReturned DEF Reporting, MainKinds
<1>8. Stopping => Stopping'
  BY <1>1, <1>2, <1>7, StopsStay
<1>9. Pausing => Pausing'
  BY <1>1, <1>2, <1>4, <1>5, PausesStay DEF Executing
<1>10. Locking'
  BY <1>1, <1>2, <1>3, <1>4, LocksFree DEF Starting, MainKinds
<1>11. QED
  BY <1>6, <1>7, <1>8, <1>9, <1>10 DEF Preserved

(* the plan is over, *)
LEMMA ReportUnlockedKeeps ==
    ASSUME TypeInv, Safe, Safe', Base, NEW t \in tasks, ReportUnlocked(t)
    PROVE  Preserved
<1>1. /\ Watched' = Watched /\ worker' = worker /\ comm' = comm /\ store' = store /\ seen' = seen /\ m' = m
      /\ t.kind = "report" /\ t.at = "unlock"
  BY DEF ReportUnlocked, Watched, At
<1>2. PICK u : u.kind = "set" /\ \A v : v \in tasks' <=> (v \in tasks /\ v # t) \/ v = u
  BY GivesWay DEF ReportUnlocked
<1>3. \A v \in tasks : v.kind \in MainKinds => v = t
  BY <1>1 DEF Safe, Roles, MainKinds
<1>4. Still(Watched)
  BY <1>1 DEF Safe, Phases
<1>5. Echoes /\ (Resumes => Resumes')
  BY <1>1, <1>2, EchoesSame DEF TasksAside
<1>6. Base'
  BY <1>1 DEF Base, Idlers, Observed
<1>7. Books => Books'
  BY <1>1, <1>2, BooksStay DEF Reporting
<1>8. Stopping => Stopping'
  BY <1>1, <1>2, StopsStay DEF Starting
<1>9. Pausing => Pausing'
  BY <1>1, <1>2, <1>5, PausesStay DEF Executing, Starting
<1>10. Locking'
  BY <1>1, <1>2, <1>3, <1>4, LocksFree DEF Starting, MainKinds
<1>11. QED
  BY <1>6, <1>7, <1>8, <1>9, <1>10 DEF Preserved

(* and the next one may begin. *)
LEMMA PlanReleasedKeeps ==
    ASSUME TypeInv, Safe, Safe', Base, NEW t \in tasks, PlanReleased(t)
    PROVE  Preserved
<1>1. /\ Watched' = Watched /\ worker' = worker /\ comm' = comm /\ store' = store /\ seen' = seen /\ m' = m
      /\ t.kind = "plan" /\ t.at = "release"
  BY DEF PlanReleased, Watched, At
<1>2. PICK u : /\ u.kind = "set" \/ (u.kind = "plan" /\ u.at = "begin")
               /\ \A v : v \in tasks' <=> (v \in tasks /\ v # t) \/ v = u
  <2>1. CASE tasks' = Goto(t, "begin")
    BY <2>1, <1>1, GoesTo, PlacesAre
  <2>2. CASE tasks' = Spawn(Finish(t), "set", "idle_auto")
    BY <2>2, GivesWay
  <2>3. QED
    BY <2>1, <2>2 DEF PlanReleased
<1>3. \A v \in tasks : v.kind \in MainKinds => v = t
  BY <1>1 DEF Safe, Roles, MainKinds
<1>4. Still(Watched)
  BY <1>1, <1>3 DEF Safe, Phases, Began, MainKinds
<1>5. Echoes /\ (Resumes => Resumes')
  <2>1. Answer' = Answer
    BY <1>1 DEF Answer
  <2>2. QED
    BY <2>1, <1>1, <1>2, EchoesSame DEF Resumes
<1>6. Base'
  BY <1>1 DEF Base, Idlers, Observed
<1>7. Books => Books'
  BY <1>1, <1>2, BooksStay DEF Reporting
<1>8. Stopping => Stopping'
  BY <1>1, <1>2, StopsStay DEF Starting
<1>9. Pausing => Pausing'
  BY <1>1, <1>2, <1>5, PausesStay DEF Executing, Starting
<1>10. Locking'
  BY <1>1, <1>2, <1>3, <1>4, LocksFree DEF Starting, MainKinds
<1>11. QED
  BY <1>6, <1>7, <1>8, <1>9, <1>10 DEF Preserved

-----------------------------------------------------------------------------
(* A worker comes, or is killed. *)

(* A new worker process knows of no plan. *)
LEMMA OpenStartsKeeps ==
    ASSUME TypeInv, Safe, Safe', Base, NEW t \in tasks, OpenStarts(t)
    PROVE  Preserved
<1>1. m' = m /\ comm' = comm /\ store' = store /\ seen' = seen /\ t.kind = "open" /\ t.at = "start"
  BY DEF OpenStarts, At
<1>2. PICK p \in Processes : watched' = p /\ worker' = [worker EXCEPT ![p] = Fresh]
  BY DEF OpenStarts, Unused
<1>3. Watched' = Fresh
  BY <1>2, ProcessesFrom1 DEF TypeInv, Watched
<1>4. Still(Fresh) /\ Alive(Fresh) /\ ~ Fresh.pause /\ Fresh.report = "none" /\ Fresh.re = "idle"
  BY DEF Fresh, NoWorker, Still, Busy, Alive
<1>5. PICK u : u.kind = "open" /\ \A v : v \in tasks' <=> (v \in tasks /\ v # t) \/ v = u
  BY <1>1, GoesTo, PlacesAre DEF OpenStarts
<1>6. \A v \in tasks : v.kind \in MainKinds => v = t
  BY <1>1 DEF Safe, Roles, MainKinds
<1>7. ~ Executing
  BY <1>1 DEF Safe, Roles, Executing
<1>8. Base'
  BY <1>1, <1>2, <1>4 DEF Base, Idlers, Observed, TypeInv
<1>9. Books => Books'
  BY <1>1, <1>3, <1>4, <1>5, <1>6 DEF Books, Reporting, MainKinds
<1>10. Stopping => Stopping'
  BY <1>1, <1>5, StopsStay DEF Starting
<1>11. Pausing => Pausing'
  BY <1>1, <1>3, <1>4, <1>5, <1>6, <1>7 DEF Pausing, Executing, Starting, Held, MainKinds
<1>12. Locking'
  BY <1>3, <1>4, <1>5, <1>6, LocksFree DEF Starting, MainKinds
<1>13. QED
  BY <1>8, <1>9, <1>10, <1>11, <1>12 DEF Preserved

(* The watchdog kills the worker: nothing else goes on. *)
LEMMA KillSentKeeps ==
    ASSUME TypeInv, Safe, Safe', Base, NEW t \in tasks, KillSent(t)
    PROVE  Preserved
<1>1. /\ watched' = watched /\ comm' = comm /\ store' = store /\ seen' = seen /\ t.kind = "kill" /\ t.at = "kill"
  BY DEF KillSent, At
<1>2. m'.state = "destroying_environment"
  BY DEF KillSent, TypeInv, ManagerOk, Manager
<1>3. Still(Gone) /\ ~ Alive(Gone) /\ Gone.report = "none" /\ ~ Gone.pause /\ Gone.re = "idle"
  BY DEF Gone, NoWorker, Still, Busy, Alive
<1>4. PICK u : /\ u.kind = "kill"
               /\ \A v : v \in tasks' => (v \in tasks /\ v # t) \/ v = u
               /\ \A v : v \in tasks /\ v # t => v \in tasks'
  BY <1>1, GoesTo, PlacesAre DEF KillSent, Finish
<1>5. \/ Watched' = Watched /\ worker' = worker /\ ~ Alive(Watched)
      \/ /\ Watched' = Gone /\ tasks = {t}
         /\ \A p \in Processes : worker'[p] = worker[p] \/ worker'[p] = Gone
  <2>1. CASE watched = 0
    BY <2>1, <1>1 DEF KillSent, Watched, NoWorker, Alive
  <2>2. CASE watched # 0 /\ ~ Alive(Watched)
    <3>1. worker' = [worker EXCEPT ![watched] = worker[watched]] /\ worker \in [Processes -> Worker]
      BY <2>2, <1>1 DEF KillSent, Watched, TypeInv
    <3>2. worker' = worker
      BY <3>1
    <3>3. QED
      BY <2>2, <3>2, <1>1 DEF Watched
  <2>3. CASE watched # 0 /\ Alive(Watched)
    <3>1. worker' = [worker EXCEPT ![watched] = Gone] /\ watched \in Processes /\ worker \in [Processes -> Worker]
      BY <2>3, <1>1 DEF KillSent, Watched, TypeInv
    <3>2. Watched' = Gone /\ \A p \in Processes : worker'[p] = worker[p] \/ worker'[p] = Gone
      BY <3>1, <2>3, <1>1 DEF Watched
    <3>3. tasks = {t}
      BY <2>3, <1>1 DEF Safe, Roles
    <3>4. QED
      BY <3>2, <3>3
  <2>4. QED
    BY <2>1, <2>2, <2>3
<1>6. \A v \in tasks : v.kind \in MainKinds => v = t
  BY <1>1 DEF Safe, Roles, MainKinds
<1>7. Still(Watched')
  BY <1>3, <1>5, PartingIsStill DEF Parting
<1>8. Base'
  BY <1>1, <1>5 DEF Base, Idlers, Observed
<1>9. Books => Books'
  BY <1>1, <1>3, <1>4, <1>5, <1>6 DEF Books, Reporting, MainKinds
<1>10. Stopping => Stopping'
  BY <1>1, <1>4, StopsStay DEF Starting
<1>11. Pausing => Pausing'
  <2>1. CASE Watched' = Watched
    <3>1. Echoes
      BY <1>1, EchoesSame
    <3>2. QED
      BY <2>1, <3>1, <1>1, <1>2, <1>4, PausesStay DEF Executing, Starting
  <2>2. CASE Watched' = Gone /\ tasks = {t}
    BY <2>2, <1>1, <1>2, <1>3, <1>4 DEF Pausing, Executing, Starting
  <2>3. QED
    BY <1>5, <2>1, <2>2
<1>12. Locking'
  BY <1>4, <1>6, <1>7, LocksFree DEF Starting, MainKinds
<1>13. QED
  BY <1>8, <1>9, <1>10, <1>11, <1>12 DEF Preserved

-----------------------------------------------------------------------------
(* Answers to clients and to the poll. *)

(* A client's call is over. *)
LEMMA ClientOver ==
    ASSUME TypeInv, Safe, NEW t \in tasks, t.kind = "client", TimedOut(t.id) \/ Answered(t.id), comm' = HangUp(comm)
    PROVE  /\ Echoes /\ \A j : ~ Replied(comm', j)
           /\ Answered(t.id) /\ Answer => /\ Executing
                                          /\ \A v \in tasks : ~ Starting(v)
           /\ \A v \in tasks : Replied(comm, v.id) => v = t
<1>1. Heads(comm, t.id) /\ Drops(comm, comm', t.id) /\ (Answered(t.id) => Replied(comm, t.id))
  BY CallOver, HangUpDrops
<1>2. Echoes /\ \A j : ~ Replied(comm', j)
  BY <1>1 DEF Drops, Echoes
<1>3. Answered(t.id) /\ Answer => Executing /\ \A v \in tasks : ~ Starting(v)
  BY <1>1 DEF Safe, Answers, MainKinds, Starting
<1>4. \A v \in tasks : Replied(comm, v.id) => v = t
  BY <1>1, TasksAre DEF Replied, Heads
<1>5. QED
  BY <1>2, <1>3, <1>4

(* A pause that was accepted is known to the manager. *)
LEMMA PauseAnsweredKeeps ==
    ASSUME TypeInv, Safe, Base, NEW t \in tasks, PauseAnswered(t)
    PROVE  Preserved
<1>1. /\ Watched' = Watched /\ worker' = worker /\ locked' = locked /\ store' = store
      /\ comm' = HangUp(comm) /\ t.kind = "client" /\ t.at = "pause" /\ (TimedOut(t.id) \/ Answered(t.id))
  BY DEF PauseAnswered, Accepted, Refused, At, Watched
<1>2. \A v : v \in tasks' <=> v \in tasks /\ v # t
  BY DEF PauseAnswered, Finish
<1>3. /\ Echoes /\ \A j : ~ Replied(comm', j)
      /\ Answered(t.id) /\ Answer => Executing /\ \A v \in tasks : ~ Starting(v)
      /\ \A v \in tasks : Replied(comm, v.id) => v = t
  BY <1>1, ClientOver
<1>4. /\ seen'.completed = seen.completed /\ seen'.stop = seen.stop /\ seen'.started = seen.started /\ Observed'
      /\ \/ m' = m /\ seen' = seen
         \/ /\ Answered(t.id) /\ Answer /\ seen'.pause = "pending"
            /\ m'.state = m.state /\ m'.pause_pending
  <2>1. CASE m' = m /\ seen' = seen
    BY <2>1 DEF Base, Observed
  <2>2. CASE /\ Accepted(t.id) /\ m' = [m EXCEPT !.pause_pending = TRUE]
             /\ seen' = [seen EXCEPT !.pause = "pending"]
    <3>1. m'.state = m.state /\ m'.pause_pending
      BY <2>2 DEF TypeInv, ManagerOk, Manager
    <3>2. seen.stop \in BOOLEAN /\ seen.started \in Nat
      BY DEF Base, Observed
    <3>3. /\ Observed' /\ seen'.completed = seen.completed /\ seen'.stop = seen.stop /\ seen'.started = seen.started
          /\ seen'.pause = "pending"
      BY <2>2, <3>2, SeenChanged DEF Base
    <3>4. QED
      BY <2>2, <3>1, <3>3 DEF Accepted
  <2>3. QED
    BY <2>1, <2>2 DEF PauseAnswered
<1>5. Base'
  BY <1>1, <1>4 DEF Base, Idlers
<1>6. Books => Books'
  BY <1>1, <1>2, <1>4, BooksStay DEF Reporting
<1>7. Stopping => Stopping'
  BY <1>1, <1>2, <1>4, StopsStay
<1>8. Pausing => Pausing'
  <2>1. CASE m' = m /\ seen' = seen
    <3>1. ~ Resumes
      BY <1>1, <1>3 DEF Resumes
    <3>2. QED
      BY <2>1, <3>1, <1>1, <1>2, <1>3, PausesStay DEF Executing
  <2>2. CASE Answered(t.id) /\ Answer /\ seen'.pause = "pending" /\ m'.state = m.state /\ m'.pause_pending
    <3>1. Replied(comm, t.id)
      BY <2>2, CallOver
    <3>2. Pausing => Held(Watched)
      BY <2>2, <3>1, <1>1 DEF Pausing
    <3>3. m.state # "starting_queue" /\ \A v \in tasks' : ~ Starting(v)
      BY <2>2, <1>2, <1>3 DEF Executing
    <3>4. QED
      BY <2>2, <3>2, <3>3, <1>1, <1>3 DEF Pausing
  <2>3. QED
    BY <1>4, <2>1, <2>2
<1>9. Locking => Locking'
  BY <1>1, <1>2, <1>3, LocksStay
<1>10. QED
  BY <1>5, <1>6, <1>7, <1>8, <1>9 DEF Preserved

(* The client lets the plan go on. *)
LEMMA ContinueAnsweredKeeps ==
    ASSUME TypeInv, Safe, Base, NEW t \in tasks, ContinueAnswered(t)
    PROVE  Preserved
<1>1. /\ Watched' = Watched /\ worker' = worker /\ locked' = locked /\ store' = store
      /\ comm' = HangUp(comm) /\ t.kind = "client" /\ t.at = "continue" /\ (TimedOut(t.id) \/ Answered(t.id))
  BY DEF ContinueAnswered, Accepted, Refused, At, Watched
<1>2. \A v : v \in tasks' <=> v \in tasks /\ v # t
  BY DEF ContinueAnswered, Finish
<1>3. /\ Echoes /\ \A j : ~ Replied(comm', j)
      /\ \A v \in tasks : Replied(comm, v.id) => v = t
  BY <1>1, ClientOver
<1>4. /\ seen'.completed = seen.completed /\ seen'.stop = seen.stop /\ seen'.started = seen.started /\ Observed'
      /\ \/ m' = m /\ seen' = seen /\ ~ (Replied(comm, t.id) /\ Answer)
         \/ seen'.pause = "none" /\ m'.state = "executing_queue"
  <2>1. CASE Refused(t.id) /\ m' = m /\ seen' = seen
    <3>1. ~ (Replied(comm, t.id) /\ Answer)
      BY <2>1, CallOver DEF Refused, Replied
    <3>2. QED
      BY <2>1, <3>1 DEF Base, Observed
  <2>2. CASE m' = [m EXCEPT !.state = "executing_queue"] /\ seen' = [seen EXCEPT !.pause = "none"]
    <3>1. m'.state = "executing_queue"
      BY <2>2 DEF TypeInv, ManagerOk, Manager
    <3>2. seen.stop \in BOOLEAN /\ seen.started \in Nat
      BY DEF Base, Observed
    <3>3. /\ Observed' /\ seen'.completed = seen.completed /\ seen'.stop = seen.stop /\ seen'.started = seen.started
          /\ seen'.pause = "none"
      BY <2>2, <3>2, SeenChanged DEF Base
    <3>4. QED
      BY <3>1, <3>3
  <2>3. QED
    BY <2>1, <2>2 DEF ContinueAnswered
<1>5. Base'
  BY <1>1, <1>4 DEF Base, Idlers
<1>6. Books => Books'
  BY <1>1, <1>2, <1>4, BooksStay DEF Reporting
<1>7. Stopping => Stopping'
  BY <1>1, <1>2, <1>4, StopsStay
<1>8. Pausing => Pausing'
  <2>1. CASE m' = m /\ seen' = seen /\ ~ (Replied(comm, t.id) /\ Answer)
    <3>1. ~ Resumes
      BY <2>1, <1>1, <1>3 DEF Resumes
    <3>2. QED
      BY <2>1, <3>1, <1>1, <1>2, <1>3, PausesStay DEF Executing
  <2>2. CASE seen'.pause = "none" /\ m'.state = "executing_queue"
    BY <2>2, <1>1, <1>2, <1>3, PausesStay
  <2>3. QED
    BY <1>4, <2>1, <2>2
<1>9. Locking => Locking'
  BY <1>1, <1>2, <1>3, LocksStay
<1>10. QED
  BY <1>5, <1>6, <1>7, <1>8, <1>9 DEF Preserved

(* The poll finds a report: it is the running item's.  It finds the plan    *)
(* paused: then the manager need not remember the pause.                    *)
LEMMA PollAnsweredKeeps ==
    ASSUME TypeInv, Safe, Base, PollAnswered
    PROVE  Preserved
<1>1. /\ Watched' = Watched /\ worker' = worker /\ locked' = locked /\ store' = store /\ seen' = seen
      /\ comm' = HangUp(comm) /\ Answered(0)
  BY DEF PollAnswered, Watched
<1>2. /\ Heads(comm, 0) /\ Drops(comm, comm', 0) /\ Replied(comm, 0)
      /\ \A v \in tasks : v.id # 0 /\ ~ Heads(comm, v.id)
  BY <1>1, PollOver, CallOver
<1>3. m'.state = m.state /\ m'.pause_pending = (m.pause_pending /\ Answer.re # "paused")
  BY DEF PollAnswered, AfterPoll, Complete, TypeInv, ManagerOk, Manager
<1>4. Executing /\ Answer.available => Watched.item = store.running
  <2>1. Executing => Watched.life = "up" /\ Alive(Watched)
    BY DEF Safe, Phases, Alive
  <2>2. Executing /\ Answer.available => ~ Still(Watched)
    BY <1>2, <2>1 DEF Safe, Answers, Still, Busy
  <2>3. QED
    BY <2>2 DEF Safe, Booked
<1>5. PICK u, w : /\ u.kind = "unexp" /\ w.kind = "report" /\ w.at = "begin"
                  /\ \A v : v \in tasks' => \/ v \in tasks
                                            \/ v = u
                                            \/ v = w /\ Executing /\ Answer.available
  <2>1. Free(tasks) # {} /\ Free(Spawn(tasks, "unexp", "begin")) # {}
    BY TasksAre, SpawnLeavesRoom DEF PollAnswered
  <2> DEFINE exits == IF Answer.unexpected THEN Spawn(tasks, "unexp", "begin") ELSE tasks
  <2>2. PICK u : u.kind = "unexp" /\ \A v : v \in Spawn(tasks, "unexp", "begin") <=> v \in tasks \/ v = u
    BY <2>1, Begins
  <2>3. \A v : v \in exits <=> v \in tasks \/ (v = u /\ Answer.unexpected)
    BY <2>2
  <2>4. Free(exits) # {}
    BY <2>1
  <2>5. tasks' = IF Executing /\ Answer.available THEN Spawn(exits, "report", "begin") ELSE exits
    BY DEF PollAnswered, Executing
  <2> HIDE DEF exits
  <2>6. PICK w : w.kind = "report" /\ w.at = "begin" /\ \A v : v \in Spawn(exits, "report", "begin") <=> v \in exits \/ v = w
    BY <2>4, Begins
  <2>7. QED
    BY <2>2, <2>3, <2>5, <2>6
<1>6. Echoes /\ ~ Resumes /\ \A j : ~ Replied(comm', j)
  BY <1>2, EchoesDropped
<1>7. Base'
  BY <1>1 DEF Base, Idlers, Observed
<1>8. Books => Books'
  BY <1>1, <1>4, <1>5, BooksStay DEF Reporting
<1>9. Stopping => Stopping'
  BY <1>1, <1>5, StopsStay DEF Starting
<1>10. Pausing => Pausing'
  <2>1. \A v \in tasks' : Starting(v) => v \in tasks
    BY <1>5 DEF Starting
  <2>2. Executing' <=> Executing
    BY <1>3 DEF Executing
  <2>3. ASSUME Pausing, seen.pause = "pending", Executing
        PROVE  Held(Watched) /\ (m'.pause_pending \/ Watched.re = "paused")
    <3>1. Held(Watched) /\ (m.pause_pending \/ Watched.re = "paused")
      BY <2>3, <1>6 DEF Pausing
    <3>2. Answer.re = "paused" => Watched.re = "paused"
      BY <2>3, <1>2 DEF Pausing
    <3>3. m.pause_pending \in BOOLEAN
      BY DEF TypeInv, ManagerOk, Manager
    <3>4. QED
      BY <3>1, <3>2, <3>3, <1>3
  <2>4. QED
    BY <2>1, <2>2, <2>3, <1>1, <1>3, <1>6 DEF Pausing
<1>11. Locking => Locking'
  BY <1>1, <1>5, <1>6, LocksStay DEF Starting
<1>12. QED
  BY <1>7, <1>8, <1>9, <1>10, <1>11 DEF Preserved

-----------------------------------------------------------------------------
(* A plan is started. *)

(* While a plan is being started there is no pause to come: the client that *)
(* let the plan before go on would still be waited for, and the worker is   *)
(* still.                                                                  *)
LEMMA NoPauseYet ==
    ASSUME Safe, Pausing, NEW t \in tasks, t.kind = "plan", ~ Began, ~ m.pause_pending
    PROVE  seen.pause # "pending"
<1>1. SUFFICES ASSUME seen.pause = "pending" PROVE FALSE
  OBVIOUS
<1>2. Executing
  BY <1>1 DEF Safe, Roles, Pausing, Executing
<1>3. ~ Resumes
  <2>1. SUFFICES ASSUME NEW v \in tasks, v.kind = "client", Replied(comm, v.id), Answer PROVE FALSE
    BY DEF Resumes
  <2>2. QED
    BY <2>1 DEF Safe, Answers, MainKinds
<1>4. Watched.re = "paused"
  BY <1>1, <1>2, <1>3 DEF Pausing
<1>5. Still(Watched)
  BY DEF Safe, Phases
<1>6. QED
  BY <1>4, <1>5 DEF Still, Busy

(* The next plan is prepared, unless the queue is to stop. *)
LEMMA PlanBeginsKeeps ==
    ASSUME TypeInv, Safe, Base, NEW t \in tasks, PlanBegins(t)
    PROVE  Preserved
<1>1. /\ Watched' = Watched /\ worker' = worker /\ locked' = locked /\ store' = store /\ seen' = seen
      /\ t.kind = "plan" /\ t.at = "begin"
  BY DEF PlanBegins, BeginsUnless, At, Watched
<1>2. m'.state = m.state /\ m'.pause_pending = m.pause_pending
  BY DEF PlanBegins, BeginsUnless, TypeInv, ManagerOk, Manager
<1>3. PICK u : /\ \/ u.kind = "set"
                  \/ u.kind = "plan" /\ ~ store.stop /\ store.queue # <<>> /\ ~ m.pause_pending
               /\ comm' = comm \/ Adds(comm, comm', t.id, "reset", NoPlan)
               /\ ConfigService /\ u.kind = "plan" => u.at = "prepare" /\ u.plan = Head(store.queue) /\ comm' = comm
               /\ \A v : v \in tasks' <=> (v \in tasks /\ v # t) \/ v = u
  <2>1. CASE \E at \in {"idle", "idle_auto"} : tasks' = Spawn(Finish(t), "set", at) /\ comm' = comm
    BY <2>1, GivesWay
  <2> DEFINE goes == ~ store.stop /\ store.queue # <<>> /\ ~ m.pause_pending
  <2>2. CASE goes /\ comm' = comm /\ tasks' = Finish(t) \cup {[t EXCEPT !.at = "prepare", !.plan = Head(store.queue)]}
    <3> DEFINE h == Head(store.queue)
               u == [t EXCEPT !.at = "prepare", !.plan = h]
    <3>1. tasks' = Finish(t) \cup {u}
      BY <2>2
    <3>2. t \in OfKind("plan")
      BY <1>1, TasksAre, TaskOfKind
    <3> HIDE DEF h
    <3>3. u.kind = "plan" /\ u.at = "prepare" /\ u.plan = h
      BY <3>2 DEF OfKind
    <3>4. \A v : v \in tasks' <=> (v \in tasks /\ v # t) \/ v = u
      BY <3>1 DEF Finish
    <3> HIDE DEF u
    <3>5. QED
      BY <2>2, <3>3, <3>4 DEF h
  <2>3. CASE goes /\ ~ ConfigService /\ comm' = Call(comm, t.id, "reset", NoPlan) /\ tasks' = Goto(t, "reset")
    <3>1. Adds(comm, comm', t.id, "reset", NoPlan)
      BY <2>3, TasksAre, CallAdds DEF Methods
    <3>2. PICK u : u.kind = "plan" /\ \A v : v \in tasks' <=> (v \in tasks /\ v # t) \/ v = u
      BY <2>3, <1>1, GoesTo, PlacesAre
    <3>3. QED
      BY <2>3, <3>1, <3>2
  <2>4. QED
    BY <2>1, <2>2, <2>3 DEF PlanBegins, BeginsUnless
<1>4. Echoes /\ (Resumes => Resumes')
  <2>1. comm'.answer = comm.answer /\ (\A j : Replied(comm', j) <=> Replied(comm, j)) /\ NoNews(comm', comm)
    BY <1>3 DEF Adds, NoNews
  <2>2. Answer' = Answer
    BY <2>1 DEF Answer
  <2>3. QED
    BY <2>1, <2>2, <1>1, <1>3 DEF Echoes, Resumes
<1>5. ~ Began
  BY <1>1 DEF Safe, Roles, MainKinds, Began
<1>6. Base'
  BY <1>1 DEF Base, Idlers, Observed
<1>7. Books => Books'
  BY <1>1, <1>3, BooksStay DEF Reporting
<1>8. Stopping => Stopping'
  BY <1>1, <1>3 DEF Stopping, Starting
<1>9. Pausing => Pausing'
  <2>1. SUFFICES ASSUME Pausing PROVE Pausing'
    OBVIOUS
  <2>2. u.kind = "plan" => seen.pause # "pending"
    BY <2>1, <1>1, <1>3, <1>5, NoPauseYet
  <2>3. \A v \in tasks' : Starting(v) => seen.pause # "pending" \/ v \in tasks
    BY <2>2, <1>3 DEF Starting
  <2>4. \A v \in tasks' : v.kind \in {"boot", "client"} => v \in tasks
    BY <1>3
  <2>5. QED
    BY <2>1, <2>3, <2>4, <1>1, <1>2, <1>4, PausesStay DEF Executing
<1>10. ConfigService /\ Locking => Locking'
  BY <1>1, <1>3, <1>4 DEF Locking, Echoes, NoNews
<1>11. QED
  BY <1>6, <1>7, <1>8, <1>9, <1>10 DEF Preserved

(* Its devices are locked, or the queue stops. *)
LEMMA PlanPreparedKeeps ==
    ASSUME TypeInv, Safe, Base, NEW t \in tasks, PlanPrepared(t)
    PROVE  Preserved
<1>1. /\ Watched' = Watched /\ worker' = worker /\ store' = store /\ seen' = seen
      /\ t.kind = "plan" /\ t.at = "prepare"
  BY DEF PlanPrepared, Prepared, At, Watched
<1>2. m'.state \in {m.state, "idle"} /\ m'.pause_pending = m.pause_pending
  BY DEF PlanPrepared, Prepared, TypeInv, ManagerOk, Manager
<1>3. PICK u : /\ u.kind = "plan" /\ u.at = "reset" /\ u.plan = t.plan
               /\ \A v : v \in tasks' => (v \in tasks /\ v # t) \/ v = u
               /\ \A v : v \in tasks /\ v # t => v \in tasks'
               /\ \/ comm' = comm /\ locked' = locked /\ u \notin tasks'
                  \/ Adds(comm, comm', t.id, "reset", NoPlan) /\ locked' = t.plan
  <2>1. PICK u : /\ u.id = t.id /\ u.kind = "plan" /\ u.at = "reset" /\ u.plan = t.plan
                 /\ \A v : v \in Goto(t, "reset") <=> (v \in tasks /\ v # t) \/ v = u
    BY <1>1, GoesTo, PlacesAre
  <2>2. CASE comm' = Call(comm, t.id, "reset", NoPlan) /\ tasks' = Goto(t, "reset") /\ locked' = t.plan
    <3>1. Adds(comm, comm', t.id, "reset", NoPlan)
      BY <2>2, TasksAre, CallAdds DEF Methods
    <3>2. QED
      BY <2>1, <2>2, <3>1
  <2>3. CASE comm' = comm /\ tasks' = Finish(t) /\ locked' = locked
    <3>1. u \notin tasks
      BY <2>1, <1>1 DEF Safe, Roles, MainKinds
    <3>2. QED
      BY <2>1, <2>3, <3>1 DEF Finish
  <2>4. QED
    BY <2>2, <2>3 DEF PlanPrepared, Prepared
<1>4. Echoes /\ (Resumes => Resumes')
  <2>1. comm'.answer = comm.answer /\ (\A j : Replied(comm', j) <=> Replied(comm, j)) /\ NoNews(comm', comm)
    BY <1>3 DEF Adds, NoNews
  <2>2. Answer' = Answer
    BY <2>1 DEF Answer
  <2>3. QED
    BY <2>1, <2>2, <1>1, <1>3 DEF Echoes, Resumes
<1>5. Still(Watched) /\ ~ Running("boot") /\ \A v \in tasks : v.kind = "plan" => v = t
  BY <1>1 DEF Safe, Phases, Roles, MainKinds, Began, Running
<1>6. Base'
  BY <1>1 DEF Base, Idlers, Observed
<1>7. Books => Books'
  BY <1>1, <1>3, BooksStay DEF Reporting
<1>8. Stopping => Stopping'
  <2>1. Starting(t)
    BY <1>1 DEF Starting
  <2>2. \A v \in tasks' : Starting(v) => \E w \in tasks : Starting(w)
    BY <2>1
  <2>3. QED
    BY <2>2, <1>1, StopsStay
<1>9. Pausing => Pausing'
  <2>1. Starting(t)
    BY <1>1 DEF Starting
  <2>2. \A v \in tasks' : Starting(v) => \E w \in tasks : Starting(w)
    BY <2>1
  <2>3. \A v \in tasks' : v.kind \in {"boot", "client"} => v \in tasks
    BY <1>3
  <2>4. QED
    BY <2>2, <2>3, <1>1, <1>2, <1>4, PausesStay DEF Executing
<1>10. Locking => Locking'
  <2>1. \A i \in 1..Len(comm'.pipe) : comm'.pipe[i].from = Nobody => Watched.life # "up"
    BY <1>4, <1>5 DEF Echoes, NoNews, Safe, Pipe
  <2>2. QED
    BY <2>1, <1>1, <1>3, <1>5 DEF Locking
<1>11. QED
  BY <1>6, <1>7, <1>8, <1>9, <1>10 DEF Preserved

(* The plan's coroutine has its answer, or none. *)
LEMMA PlanCallOver ==
    ASSUME TypeInv, Safe, NEW t \in tasks, t.kind = "plan", TimedOut(t.id) \/ Answered(t.id)
    PROVE  /\ Drops(comm, HangUp(comm), t.id) /\ Heads(comm, t.id)
           /\ \A v \in tasks : v # t => ~ Replied(comm, v.id)
           /\ ~ Running("boot") /\ \A v \in tasks : v.kind \in MainKinds => v = t
           /\ Began => t.at = "run" /\ Answered(t.id) /\ Answer
           /\ ~ Began => Still(Watched)
<1>1. Heads(comm, t.id) /\ Drops(comm, HangUp(comm), t.id)
  <2>1. Heads(comm, t.id) /\ ~ (Read /\ Unread(comm))
    BY CallOver
  <2>2. QED
    BY <2>1, TasksAre, CallEnds
<1>2. \A v \in tasks : v # t => ~ Replied(comm, v.id)
  BY <1>1, TasksAre DEF Heads, Replied
<1>3. ~ Running("boot") /\ \A v \in tasks : v.kind \in MainKinds => v = t
  BY DEF Safe, Roles, MainKinds, Running
<1>4. Began => t.at = "run" /\ Replied(comm, t.id) /\ Answer
  BY <1>3 DEF Began, MainKinds
<1>5. Replied(comm, t.id) => Answered(t.id)
  BY DEF Replied, Heads, Answered, Calling
<1>6. QED
  BY <1>1, <1>2, <1>3, <1>4, <1>5 DEF Safe, Phases

(* The head of the queue becomes the running item, as process_next_item     *)
(* has it; it is the plan whose devices were locked.                        *)
LEMMA PlanResetKeeps ==
    ASSUME TypeInv, Safe, Safe', Base, NEW t \in tasks, PlanReset(t)
    PROVE  Preserved
<1>1. /\ Watched' = Watched /\ worker' = worker /\ seen' = seen /\ t.kind = "plan" /\ t.at = "reset"
      /\ TimedOut(t.id) \/ Answered(t.id)
  BY DEF PlanReset, At, Watched, Accepted, Refused
<1>2. m'.state \in {m.state, "idle"} /\ m'.pause_pending = m.pause_pending
  BY DEF PlanReset, TypeInv, ManagerOk, Manager
<1>3. /\ Drops(comm, HangUp(comm), t.id) /\ Still(Watched) /\ ~ Running("boot")
      /\ \A v \in tasks : v.kind \in MainKinds => v = t
  BY <1>1, PlanCallOver
<1>4. PICK u : /\ u.kind = "plan" /\ u.at = "run"
               /\ \A v : v \in Goto(t, "run") <=> (v \in tasks /\ v # t) \/ v = u
  BY <1>1, GoesTo, PlacesAre
<1>5. \/ /\ comm' = HangUp(comm) /\ store' = store /\ \A v : v \in tasks' <=> v \in tasks /\ v # t
         /\ locked' = locked
      \/ /\ comm' = HangUp(comm) /\ store' = store /\ \A v : v \in tasks' <=> v \in tasks /\ v # t
         /\ Refused(t.id)
      \/ /\ store.queue # <<>> /\ store.running = NoPlan /\ locked' = locked
         /\ store'.running = Head(store.queue) /\ store'.queue = Tail(store.queue)
         /\ store'.history = store.history /\ store'.stop = store.stop
         /\ comm' = Call(HangUp(comm), t.id, "run", Head(store.queue))
         /\ \A v : v \in tasks' <=> (v \in tasks /\ v # t) \/ v = u
  <2>1. tasks' = Finish(t) => \A v : v \in tasks' <=> v \in tasks /\ v # t
    BY DEF Finish
  <2>2. store' = [store EXCEPT !.running = Head(store.queue), !.queue = Tail(@)]
           => /\ store'.running = Head(store.queue) /\ store'.queue = Tail(store.queue)
              /\ store'.history = store.history /\ store'.stop = store.stop
    BY DEF TypeInv, Store
  <2>3. QED
    BY <1>4, <2>1, <2>2 DEF PlanReset
<1>6. Echoes /\ \A j : ~ Replied(comm', j)
  <2>1. CASE comm' = HangUp(comm)
    BY <2>1, <1>3 DEF Drops, Echoes
  <2>2. CASE store.queue # <<>> /\ comm' = Call(HangUp(comm), t.id, "run", Head(store.queue))
    <3>1. PICK c : c = HangUp(comm) /\ Fits(c, tasks \ {t}, poll)
      <4>1. Heads(comm, t.id) /\ ~ (Read /\ Unread(comm))
        BY <1>1, CallOver
      <4>2. Fits(HangUp(comm), tasks \ {t}, poll)
        BY <4>1, HangsUp DEF Heads, Calling, TypeInv
      <4>3. QED
        BY <4>2
    <3>2. Head(store.queue) \in Plan
      BY <2>2, StoreIs, SeqHead
    <3>3. comm' = Call(c, t.id, "run", Head(store.queue)) /\ Calls(c, tasks \ {t}, poll) /\ MaxTasks \in Nat
      BY <2>2, <3>1, TasksAre DEF Fits
    <3>4. Adds(c, comm', t.id, "run", Head(store.queue))
      BY <3>2, <3>3, TasksAre, CallJoins DEF Methods
    <3>5. NoNews(comm', c) /\ NoNews(c, comm) /\ (\A j : ~ Replied(c, j)) /\ \A j : Replied(comm', j) <=> Replied(c, j)
      BY <3>1, <3>4, <1>3 DEF Adds, Drops
    <3>6. NoNews(comm', comm)
      BY <3>5 DEF NoNews
    <3>7. QED
      BY <3>5, <3>6 DEF Echoes
  <2>3. QED
    BY <1>5, <2>1, <2>2
<1>7. /\ \A v \in tasks' : Starting(v) => \E w \in tasks : Starting(w)
      /\ \A v \in tasks' : Reporting(v) => v \in tasks
      /\ \A v \in tasks' : v.kind \in {"boot", "client"} => v \in tasks
      /\ Starting(t)
  BY <1>1, <1>4, <1>5 DEF Starting, Reporting
<1>8. Base'
  BY <1>1 DEF Base, Idlers, Observed
<1>9. Books => Books'
  <2>1. CASE store' = store
    BY <2>1, <1>1, <1>7, BooksStay
  <2>2. CASE /\ store.queue # <<>> /\ store'.running = Head(store.queue) /\ store'.queue = Tail(store.queue)
             /\ store'.history = store.history /\ store.running = NoPlan
    <3> DEFINE q == store.queue
               n == store'.queue
    <3>1. /\ Head(q) = q[1] /\ 1 \in 1..Len(q) /\ Len(n) = Len(q) - 1 /\ Len(q) \in Nat \ {0}
          /\ \A i \in 1..Len(n) : n[i] = q[i + 1] /\ i + 1 \in 1..Len(q) /\ i + 1 # 1
      BY <2>2, StoreIs, SeqHead
    <3>2. ASSUME Books PROVE \A i, j \in 1..Len(n) : n[i] = n[j] => i = j
      <4>1. TAKE i, j \in 1..Len(n)
      <4>2. n[i] = n[j] => i + 1 = j + 1
        BY <3>1, <3>2 DEF Books
      <4>3. QED
        BY <3>1, <4>2
    <3>3. ASSUME Books PROVE \A i \in 1..Len(n) : n[i] # store'.running
      BY <2>2, <3>1, <3>3 DEF Books
    <3>4. ASSUME Books, NEW h \in store'.history, h.exit = "completed"
          PROVE  h.plan \in seen.completed /\ h.plan # store'.running /\ \A i \in 1..Len(n) : n[i] # h.plan
      BY <2>2, <3>1, <3>4 DEF Books
    <3>5. \A v \in tasks' : ~ Reporting(v)
      BY <1>1, <1>3, <1>7 DEF Reporting, MainKinds
    <3>6. QED
      BY <3>2, <3>3, <3>4, <3>5, <1>1 DEF Books
  <2>3. QED
    BY <1>5, <2>1, <2>2
<1>10. Stopping => Stopping'
  BY <1>1, <1>5, <1>7, StopsStay
<1>11. Pausing => Pausing'
  <2>1. SUFFICES ASSUME Pausing PROVE Pausing'
    OBVIOUS
  <2>2. seen.pause # "pending"
    BY <2>1, <1>7 DEF Pausing
  <2>3. QED
    BY <2>1, <2>2, <1>1, <1>2, <1>6, <1>7, PausesStay
<1>12. Locking => Locking'
  <2>1. CASE store' = store /\ locked' = locked /\ \A v : v \in tasks' <=> v \in tasks /\ v # t
    BY <2>1, <1>1, <1>6, LocksStay
  <2>2. CASE \A v : v \in tasks' <=> v \in tasks /\ v # t
    BY <2>2, <1>1, <1>3, LocksFree DEF Starting, MainKinds
  <2>3. CASE /\ store'.running = Head(store.queue) /\ locked' = locked
             /\ \A v : v \in tasks' <=> (v \in tasks /\ v # t) \/ v = u
    <3>1. \A i \in 1..Len(comm'.pipe) : comm'.pipe[i].from = Nobody => Watched.life # "up"
      BY <1>3, <1>6 DEF Echoes, NoNews, Safe, Pipe
    <3>2. \A v \in tasks' : v.kind = "plan" => v = u
      BY <2>3, <1>3 DEF MainKinds
    <3>3. Locking => Parting(Watched) \/ locked = Head(store.queue)
      BY <1>1 DEF Locking
    <3>4. QED
      BY <2>3, <3>1, <3>2, <3>3, <1>1, <1>3, <1>4 DEF Locking
  <2>4. QED
    BY <1>5, <2>1, <2>2, <2>3
<1>13. QED
  BY <1>8, <1>9, <1>10, <1>11, <1>12 DEF Preserved

(* The worker has accepted the plan, or it is put back. *)
LEMMA PlanStartedKeeps ==
    ASSUME TypeInv, Safe, Safe', Base, NEW t \in tasks, PlanStarted(t)
    PROVE  Preserved
<1>1. /\ Watched' = Watched /\ worker' = worker /\ t.kind = "plan" /\ t.at = "run" /\ comm' = HangUp(comm)
      /\ TimedOut(t.id) \/ Answered(t.id)
  BY DEF PlanStarted, At, Watched, Accepted, Refused
<1>2. /\ m'.state \in {"executing_queue", "idle"}
  BY DEF PlanStarted, TypeInv, ManagerOk, Manager
<1>3. /\ Drops(comm, HangUp(comm), t.id)
      /\ \A v \in tasks : v.kind \in MainKinds => v = t
      /\ Began => Answered(t.id) /\ Answer
      /\ ~ Began => Still(Watched)
  BY <1>1, PlanCallOver
<1>4. \A v : v \in tasks' <=> v \in tasks /\ v # t
  BY DEF PlanStarted, Finish
<1>5. Echoes /\ \A j : ~ Replied(comm', j)
  BY <1>1, <1>3 DEF Drops, Echoes
<1>6. \A v \in tasks' : ~ Starting(v) /\ ~ Reporting(v) /\ v.kind # "boot"
  BY <1>3, <1>4 DEF Starting, Reporting, MainKinds
<1>7. /\ Observed' /\ seen'.completed = seen.completed /\ seen'.stop = seen.stop
      /\ \/ seen'.started = seen.started + 1 \/ (seen'.started = seen.started /\ seen.started # 0)
         \/ seen' = seen /\ Refused(t.id)
      /\ \/ seen'.pause = seen.pause /\ seen.pause # "pending"
         \/ seen'.pause = "overtaken"
         \/ seen.pause = "pending"
  <2>1. CASE Accepted(t.id)
    <3>1. PICK n, o : /\ n = (IF seen.started < 2 THEN seen.started + 1 ELSE seen.started)
                      /\ o = (CASE seen.pause = "pending"     -> "ignored"
                                [] seen.pause = "autostarted" -> "overtaken"
                                [] OTHER                      -> seen.pause)
                      /\ seen' = [seen EXCEPT !.started = n, !.pause = o]
      <4>1. ~ Refused(t.id)
        BY <2>1 DEF Accepted, Refused, TimedOut, Answered
      <4>2. QED
        BY <4>1 DEF PlanStarted
    <3>2. n \in Nat /\ (n = seen.started + 1 \/ (n = seen.started /\ seen.started # 0))
          /\ o \in {"none", "pending", "ignored", "autostarted", "overtaken"} /\ seen.stop \in BOOLEAN
          /\ (o = "overtaken" \/ o = seen.pause \/ seen.pause = "pending")
      BY <3>1 DEF Base, Observed
    <3>3. Observed' /\ seen'.completed = seen.completed /\ seen'.stop = seen.stop /\ seen'.started = n /\ seen'.pause = o
      <4>1. /\ Observed /\ seen.stop \in BOOLEAN /\ n \in Nat
            /\ o \in {"none", "pending", "ignored", "autostarted", "overtaken"}
            /\ seen' = [seen EXCEPT !.started = n, !.pause = o]
        BY <3>1, <3>2 DEF Base
      <4>2. QED
        BY <4>1, SeenChanged
    <3>4. QED
      BY <3>2, <3>3
  <2>2. CASE Refused(t.id) /\ seen' = seen
    BY <2>2 DEF Base, Observed
  <2>3. QED
    BY <2>1, <2>2 DEF PlanStarted
<1>8. \/ store' = store /\ locked' = locked
      \/ Refused(t.id) /\ store' = SetStopped(store, "failed")
  BY DEF PlanStarted
<1>9. Refused(t.id) => Still(Watched)
  <2>1. Refused(t.id) => ~ (Answered(t.id) /\ Answer)
    BY DEF Refused, TimedOut, Answered
  <2>2. QED
    BY <2>1, <1>3
<1>10. Base'
  BY <1>1, <1>7 DEF Base, Idlers
<1>11. (Books => Books') /\ store'.stop = store.stop
  BY <1>1, <1>6, <1>7, <1>8, BooksStay, BooksReturned
<1>12. Starting(t)
  BY <1>1 DEF Starting
<1>13. Stopping => Stopping'
  <2>1. SUFFICES ASSUME Stopping, seen.stop PROVE seen'.started <= 1
    BY <1>6, <1>7, <1>11 DEF Stopping
  <2>2. seen.started = 0
    BY <2>1, <1>12 DEF Stopping
  <2>3. QED
    BY <2>2, <1>7
<1>14. Pausing => Pausing'
  <2>1. SUFFICES ASSUME Pausing PROVE Pausing'
    OBVIOUS
  <2>2. seen.pause # "pending"
    BY <2>1, <1>12 DEF Pausing
  <2>3. QED
    BY <2>1, <2>2, <1>1, <1>2, <1>4, <1>5, <1>6, <1>7, PausesStay
<1>15. Locking => Locking'
  <2>1. CASE store' = store /\ locked' = locked
    BY <2>1, <1>1, <1>4, <1>5, LocksStay
  <2>2. CASE Refused(t.id)
    BY <2>2, <1>1, <1>6, <1>9, LocksFree
  <2>3. QED
    BY <1>8, <2>1, <2>2
<1>16. QED
  BY <1>10, <1>11, <1>13, <1>14, <1>15 DEF Preserved

-----------------------------------------------------------------------------
(* A plan is over. *)

(* The report is asked for, *)
LEMMA ReportAskedKeeps ==
    ASSUME TypeInv, Safe, Base, NEW t \in tasks, ReportAsked(t)
    PROVE  Preserved
<1>1. /\ Watched' = Watched /\ worker' = worker /\ m' = m /\ store' = store /\ seen' = seen /\ locked' = locked
      /\ t.kind = "report" /\ t.at = "begin"
  BY DEF ReportAsked, At, Watched
<1>2. PICK u : u.kind = "report" /\ \A v : v \in tasks' <=> (v \in tasks /\ v # t) \/ v = u
  BY <1>1, GoesTo, PlacesAre DEF ReportAsked
<1>3. Adds(comm, comm', t.id, "report", NoPlan)
  BY TasksAre, CallAdds DEF ReportAsked, Methods
<1>4. Echoes /\ (Resumes => Resumes')
  <2>1. Answer' = Answer
    BY <1>3 DEF Answer, Adds
  <2>2. QED
    BY <2>1, <1>1, <1>2, <1>3 DEF Echoes, Resumes, Adds
<1>5. Reporting(t)
  BY <1>1 DEF Reporting
<1>6. Base'
  BY <1>1 DEF Base, Idlers, Observed
<1>7. Books => Books'
  BY <1>1, <1>5, BooksStay
<1>8. \A v \in tasks' : (Starting(v) \/ v.kind \in {"boot", "client"}) => v \in tasks
  BY <1>2 DEF Starting
<1>9. Stopping => Stopping'
  BY <1>1, <1>8, StopsStay
<1>10. Pausing => Pausing'
  BY <1>1, <1>4, <1>8, PausesStay DEF Executing
<1>11. Locking => Locking'
  BY <1>1, <1>4, <1>8, LocksStay
<1>12. QED
  BY <1>6, <1>7, <1>9, <1>10, <1>11 DEF Preserved

(* and it tells of the running item: what is recorded as completed is. *)
LEMMA ReportProcessedKeeps ==
    ASSUME TypeInv, Safe, Safe', Base, NEW t \in tasks, ReportProcessed(t)
    PROVE  Preserved
<1>1. /\ Watched' = Watched /\ worker' = worker /\ m' = m /\ seen' = seen /\ locked' = locked
      /\ t.kind = "report" /\ Answered(t.id) /\ comm' = HangUp(comm)
  BY DEF ReportProcessed, Watched
<1>2. /\ Heads(comm, t.id) /\ Drops(comm, comm', t.id) /\ Replied(comm, t.id)
      /\ \A v \in tasks : v # t => ~ Replied(comm, v.id)
  <2>1. Heads(comm, t.id) /\ Drops(comm, comm', t.id) /\ Replied(comm, t.id)
    BY <1>1, CallOver, HangUpDrops
  <2>2. QED
    BY <2>1, TasksAre DEF Heads, Replied
<1>3. Reporting(t)
  <2>1. t.at # "begin"
    BY <1>1, <1>2, RestsAt, RestingQuiet
  <2>2. t.at # "unlock"
    BY <1>1, <1>2, RestsAt, RestingQuiet
  <2>3. t.at # "again" /\ t.at \in {"begin", "fetch", "again", "unlock"}
    BY <1>1, TasksAre, PlacesAre DEF Safe, Roles
  <2>4. QED
    BY <1>1, <2>1, <2>2, <2>3 DEF Reporting
<1>4. Answer \in Outcome /\ (Answer # "paused" => Still(Watched) /\ Answer = Watched.report)
  BY <1>1, ReportComes
<1>5. \A v \in tasks : v.kind \in MainKinds => v = t
  BY <1>1 DEF Safe, Roles, MainKinds
<1>6. PICK u : /\ \/ u.kind = "plan" /\ u.at = "release" /\ Answer = "completed" /\ store' = SetCompleted(store, "completed")
                  \/ u.kind = "report" /\ u.at = "unlock" /\ Answer \in {"failed", "stopped", "aborted"}
                     /\ store' = SetStopped(store, Answer)
                  \/ u.kind = "set" /\ Answer = "paused" /\ store' = store
               /\ \A v : v \in tasks' <=> (v \in tasks /\ v # t) \/ v = u
  <2>1. CASE Answer = "completed"
    <3>1. tasks' = Finish(t) \cup {[t EXCEPT !.kind = "plan", !.at = "release"]} /\ store' = SetCompleted(store, "completed")
      BY <2>1 DEF ReportProcessed
    <3> DEFINE u == [t EXCEPT !.kind = "plan", !.at = "release"]
    <3>2. t \in OfKind(t.kind)
      BY TasksAre, TaskOfKind
    <3>3. u.kind = "plan" /\ u.at = "release"
      BY <3>2 DEF OfKind
    <3>4. \A v : v \in tasks' <=> (v \in tasks /\ v # t) \/ v = u
      BY <3>1 DEF Finish
    <3> HIDE DEF u
    <3>5. QED
      BY <3>1, <3>3, <3>4, <2>1
  <2>2. CASE Answer \in {"failed", "stopped", "aborted"}
    <3>1. tasks' = Goto(t, "unlock") /\ store' = SetStopped(store, Answer)
      BY <2>2 DEF ReportProcessed, Goto
    <3>2. QED
      BY <3>1, <1>1, <2>2, GoesTo, PlacesAre
  <2>3. CASE Answer = "paused"
    <3>1. tasks' = Spawn(Finish(t), "set", "paused") /\ store' = store
      BY <2>3 DEF ReportProcessed
    <3>2. QED
      BY <3>1, <2>3, GivesWay
  <2>4. QED
    BY <1>4, <2>1, <2>2, <2>3 DEF Outcome
<1>7. Echoes /\ ~ Resumes
  BY <1>1, <1>2 DEF Drops, Echoes, Resumes
<1>8. \A v \in tasks' : ~ Starting(v) /\ ~ Reporting(v) /\ v.kind # "boot"
  BY <1>5, <1>6 DEF Starting, Reporting, MainKinds
<1>9. \A v \in tasks' : v.kind \in {"boot", "client"} => v \in tasks
  BY <1>6
<1>10. Base'
  BY <1>1 DEF Base, Idlers, Observed
<1>11. Books => Books' /\ store'.stop = store.stop
  <2>1. SUFFICES ASSUME Books PROVE Books' /\ store'.stop = store.stop
    OBVIOUS
  <2>2. CASE Answer = "completed" /\ store' = SetCompleted(store, "completed")
    <3>1. store.running \in seen.completed
      BY <2>1, <2>2, <1>3, <1>4 DEF Books
    <3>2. QED
      BY <2>1, <2>2, <3>1, <1>1, <1>8, BooksCompleted
  <2>3. CASE Answer \in {"failed", "stopped", "aborted"} /\ store' = SetStopped(store, Answer)
    <3>1. Answer # "completed"
      BY <2>3
    <3>2. QED
      BY <2>1, <2>3, <3>1, <1>1, <1>8, BooksReturned
  <2>4. CASE store' = store
    BY <2>1, <2>4, <1>1, <1>8, BooksStay
  <2>5. QED
    BY <1>6, <2>2, <2>3, <2>4
<1>12. store'.stop = store.stop
  <2>1. CASE Answer = "completed" /\ store' = SetCompleted(store, "completed")
    BY <2>1, Recorded DEF SetCompleted
  <2>2. CASE Answer \in {"failed", "stopped", "aborted"} /\ store' = SetStopped(store, Answer)
    <3>1. Answer # "completed"
      BY <2>2
    <3>2. QED
      BY <2>2, <3>1, <1>1, <1>8, BooksReturned
  <2>3. QED
    BY <1>6, <2>1, <2>2
<1>13. Stopping => Stopping'
  BY <1>1, <1>8, <1>12, StopsStay
<1>14. Pausing => Pausing'
  BY <1>1, <1>7, <1>8, <1>9, PausesStay DEF Executing
<1>15. Locking => Locking'
  <2>1. CASE Answer = "paused" /\ store' = store
    BY <2>1, <1>1, <1>7, <1>8, LocksStay
  <2>2. CASE Answer # "paused"
    BY <2>2, <1>1, <1>4, <1>8, LocksFree
  <2>3. QED
    BY <1>6, <2>1, <2>2
<1>16. QED
  BY <1>10, <1>11, <1>13, <1>14, <1>15 DEF Preserved

-----------------------------------------------------------------------------
(* The manager's restart. *)

(* A new manager finds a worker, or there is none: then the running item is *)
(* over.                                                                   *)
LEMMA BootLooksKeeps ==
    ASSUME TypeInv, Safe, Safe', Base, NEW t \in tasks, BootLooks(t)
    PROVE  Preserved
<1>1. /\ Watched' = Watched /\ worker' = worker /\ seen' = seen /\ locked' = locked /\ t.kind = "boot" /\ t.at = "alive"
  BY DEF BootLooks, At, Watched
<1>2. comm.line = <<>> /\ tasks = {t} /\ m.state = "initializing"
  BY <1>1 DEF Safe, Pipe, Roles
<1>3. \A j : ~ Replied(comm, j)
  BY <1>2 DEF Replied, Heads
<1>4. m'.state \in {"initializing", "idle"}
  BY <1>2 DEF BootLooks, Boots, TypeInv, ManagerOk, Manager
<1>5. /\ \A v \in tasks' : v.kind = "boot"
      /\ \/ Adds(comm, comm', t.id, "state", NoPlan) /\ store' = store
         \/ /\ ~ Alive(Watched) /\ comm' = comm /\ store' = SetCompleted(store, "unknown")
            /\ tasks' = {}
  <2>1. PICK u : u.kind = "boot" /\ \A v : v \in Goto(t, "state") <=> (v \in tasks /\ v # t) \/ v = u
    BY <1>1, GoesTo, PlacesAre
  <2>2. CASE Alive(Watched)
    <3>1. comm' = Call(comm, t.id, "state", NoPlan) /\ tasks' = Goto(t, "state") /\ store' = store
      BY <2>2 DEF BootLooks
    <3>2. Adds(comm, comm', t.id, "state", NoPlan)
      BY <3>1, TasksAre, CallAdds DEF Methods
    <3>3. QED
      BY <2>1, <3>1, <3>2, <1>2
  <2>3. CASE ~ Alive(Watched)
    BY <2>3, <1>2 DEF BootLooks, Boots, Finish
  <2>4. QED
    BY <2>2, <2>3
<1>6. Echoes /\ \A j : ~ Replied(comm', j)
  BY <1>3, <1>5 DEF Echoes, Adds, NoNews
<1>7. \A v \in tasks' : ~ Starting(v) /\ ~ Reporting(v)
  BY <1>5 DEF Starting, Reporting
<1>8. Base'
  BY <1>1 DEF Base, Idlers, Observed
<1>9. (Books => Books') /\ store'.stop = store.stop
  BY <1>1, <1>5, <1>7, BooksStay, BooksCompleted
<1>10. Stopping => Stopping'
  BY <1>1, <1>7, <1>9, StopsStay
<1>11. Pausing => Pausing'
  BY <1>1, <1>4, <1>6, <1>7, PausesStay DEF Executing
<1>12. Locking => Locking'
  <2>1. CASE store' = store
    BY <2>1, <1>1, <1>6, <1>7, LocksStay
  <2>2. CASE ~ Alive(Watched) /\ tasks' = {}
    <3>1. Still(Watched)
      BY <2>2, PartingIsStill DEF Parting
    <3>2. QED
      BY <2>2, <3>1, <1>1, LocksFree
  <2>3. QED
    BY <1>5, <2>1, <2>2
<1>13. QED
  BY <1>8, <1>9, <1>10, <1>11, <1>12 DEF Preserved

(* The worker is still, or the new manager takes over its plan and what is  *)
(* pending of it.                                                          *)
LEMMA BootSeesKeeps ==
    ASSUME TypeInv, Safe, Safe', Base, NEW t \in tasks, BootSees(t)
    PROVE  Preserved
<1>1. /\ Watched' = Watched /\ worker' = worker /\ locked' = locked /\ t.kind = "boot" /\ t.at = "state"
      /\ comm' = HangUp(comm) /\ (TimedOut(t.id) \/ Answered(t.id))
  BY DEF BootSees, BootSeesPlan, At, Watched
<1>2. Drops(comm, comm', t.id) /\ \A v : v \notin tasks'
  <2>1. Drops(comm, comm', t.id)
    BY <1>1, HangUpDrops
  <2>2. QED
    BY <2>1, <1>1 DEF BootSees, BootSeesPlan, Boots, Finish, Safe, Roles
<1>3. Echoes /\ \A j : ~ Replied(comm', j)
  BY <1>2 DEF Drops, Echoes
<1>4. \/ m'.state = "idle" /\ store' = SetCompleted(store, "unknown") /\ seen' = seen
      \/ m'.state = "idle" /\ store' = SetCompleted(store, "unknown") /\ seen' = [seen EXCEPT !.pause = "none"]
      \/ /\ m'.state \in {"paused", "executing_queue"} /\ store' = store /\ Replied(comm, t.id) /\ Answer.pausing
         /\ m'.pause_pending /\ seen' = seen
      \/ m'.state \in {"paused", "executing_queue"} /\ store' = store /\ seen' = [seen EXCEPT !.pause = "none"]
  <2>1. seen = [seen EXCEPT !.pause = seen.pause]
    BY DEF Base, Observed
  <2>2. CASE TimedOut(t.id)
    <3>1. ~ Answered(t.id)
      BY <2>2 DEF TimedOut, Answered
    <3>2. QED
      BY <3>1 DEF BootSees, BootSeesPlan, Boots, TypeInv, ManagerOk, Manager
  <2>3. CASE Answered(t.id)
    <3>1. ~ TimedOut(t.id) /\ Replied(comm, t.id)
      BY <2>3, CallOver DEF TimedOut
    <3> DEFINE running == RunningPlan(Answer) /\ store.running # NoPlan
               state   == IF ~ running THEN "idle" ELSE IF Answer.re = "paused" THEN "paused" ELSE "executing_queue"
    <3>2. /\ seen' = [seen EXCEPT !.pause = IF Answer.pausing THEN seen.pause ELSE "none"]
          /\ Boots(t, state, running /\ Answer.pausing, TRUE)
      BY <3>1 DEF BootSees, BootSeesPlan
    <3>3. (seen' = seen /\ Answer.pausing) \/ seen' = [seen EXCEPT !.pause = "none"]
      BY <2>1, <3>2
    <3>4. CASE ~ running
      <4>1. m'.state = "idle" /\ store' = SetCompleted(store, "unknown")
        BY <3>2, <3>4 DEF Boots, TypeInv, ManagerOk, Manager
      <4>2. QED
        BY <4>1, <3>3
    <3>5. CASE running
      <4>1. state \in {"paused", "executing_queue"}
        BY <3>5
      <4> HIDE DEF state
      <4>2. m'.state = state /\ store' = store /\ m'.pause_pending = (running /\ Answer.pausing)
        BY <3>2, <4>1 DEF Boots, TypeInv, ManagerOk, Manager
      <4>3. QED
        BY <4>1, <4>2, <3>1, <3>3, <3>5
    <3>6. QED
      BY <3>4, <3>5
  <2>4. QED
    BY <1>1, <2>2, <2>3
<1>5. m'.state = "idle" => Still(Watched)
  <2>1. Safe'
    OBVIOUS
  <2>2. QED
    BY <1>1, <1>2 DEF Safe, Phases, Running, Executing, Began
<1>6. /\ Observed' /\ seen'.completed = seen.completed /\ seen'.stop = seen.stop /\ seen'.started = seen.started
      /\ seen'.pause = "none" \/ seen'.pause = seen.pause
      /\ seen' = [seen EXCEPT !.pause = "none"] => seen'.pause = "none"
  BY <1>4 DEF Base, Observed
<1>7. Base'
  BY <1>1, <1>6 DEF Base, Idlers
<1>8. (Books => Books') /\ store'.stop = store.stop
  BY <1>1, <1>2, <1>4, <1>6, BooksStay, BooksCompleted
<1>9. Stopping => Stopping'
  BY <1>2, <1>6, <1>8, StopsStay
<1>10. Pausing => Pausing'
  <2>1. CASE m'.state = "idle" \/ seen'.pause = "none"
    BY <2>1, <1>1, <1>2, <1>3, <1>4, <1>6, PausesStay DEF Executing
  <2>2. CASE /\ m'.state \in {"paused", "executing_queue"} /\ Replied(comm, t.id) /\ Answer.pausing
             /\ m'.pause_pending /\ seen' = seen
    BY <2>2, <1>1, <1>2, <1>3 DEF Pausing
  <2>3. QED
    BY <1>4, <1>6, <2>1, <2>2
<1>11. Locking => Locking'
  <2>1. CASE store' = store
    BY <2>1, <1>1, <1>2, <1>3, LocksStay
  <2>2. CASE m'.state = "idle"
    BY <2>2, <1>1, <1>2, <1>5, LocksFree
  <2>3. QED
    BY <1>4, <2>1, <2>2
<1>12. QED
  BY <1>7, <1>8, <1>9, <1>10, <1>11 DEF Preserved

(* The requests of the manager before stay in the pipe. *)
LEMMA ManagerRestartsKeeps ==
    ASSUME TypeInv, Safe, Base, ManagerRestarts
    PROVE  Preserved
<1>1. /\ Watched' = Watched /\ worker' = worker /\ store' = store /\ seen' = seen /\ locked' = locked
      /\ ~ Running("boot")
  BY DEF ManagerRestarts, Watched
<1>2. m'.state = "initializing"
  BY DEF ManagerRestarts, Restarted
<1>3. \A v \in tasks' : v.kind = "boot"
  BY DEF ManagerRestarts, Spawn
<1>4. comm.pipe \in Seq(Request)
  BY TasksAre DEF Calls, Piped
<1>5. /\ comm'.line = <<>>
      /\ \A i \in 1..Len(comm'.pipe) : i \in 1..Len(comm.pipe) /\ comm'.pipe[i].method = comm.pipe[i].method
  <2>1. DOMAIN comm.pipe = 1..Len(comm.pipe) /\ Len(comm.pipe) \in Nat
    BY <1>4
  <2>2. PICK pipe : pipe = [i \in DOMAIN comm.pipe |-> [comm.pipe[i] EXCEPT !.from = Nobody]]
    OBVIOUS
  <2>3. comm'.line = <<>> /\ comm'.pipe = pipe
    BY <2>2 DEF ManagerRestarts
  <2>4. Len(pipe) = Len(comm.pipe)
    BY <2>1, <2>2
  <2>5. \A i \in 1..Len(comm.pipe) : pipe[i].method = comm.pipe[i].method
    <3>1. TAKE i \in 1..Len(comm.pipe)
    <3>2. PICK e : e = comm.pipe[i]
      OBVIOUS
    <3>3. e \in Request
      BY <1>4, <3>2, ElementOfSeq
    <3>4. [e EXCEPT !.from = Nobody].method = e.method
      BY <3>3 DEF Request
    <3>5. pipe[i] = [e EXCEPT !.from = Nobody]
      BY <2>1, <2>2, <3>2
    <3>6. QED
      BY <3>2, <3>4, <3>5
  <2>6. QED
    BY <2>3, <2>4, <2>5
<1>6. \A j : ~ Replied(comm', j)
  BY <1>5 DEF Replied, Heads
<1>7. Base'
  BY <1>1 DEF Base, Idlers, Observed
<1>8. \A v \in tasks' : ~ Starting(v) /\ ~ Reporting(v)
  BY <1>3 DEF Starting, Reporting
<1>9. Books => Books'
  BY <1>1, <1>8, BooksStay
<1>10. Stopping => Stopping'
  BY <1>1, <1>8, StopsStay
<1>11. Pausing => Pausing'
  BY <1>1, <1>2, <1>6, <1>8 DEF Pausing, Executing
<1>12. Locking => Locking'
  <2>1. SUFFICES ASSUME Locking, Watched.life = "up", NEW i \in 1..Len(comm.pipe), comm.pipe[i].method = "run"
                 PROVE  Parting(Watched) \/ locked = store.running
    BY <1>1, <1>5, <1>8 DEF Locking, Starting
  <2>2. comm.pipe[i].from # Nobody
    BY <2>1, <1>1 DEF Safe, Pipe
  <2>3. comm.line # <<>> /\ comm.pipe[i] = Head(comm.line)
    BY <2>2, TasksAre DEF Calls, Piped
  <2>4. comm.line[1].method = "run" /\ 1 \in 1..Len(comm.line)
    BY <2>1, <2>3, TasksAre, SeqHead DEF Calls, Lined
  <2>5. PICK t \in tasks : t.kind = "plan" /\ t.at = "run"
    BY <2>4, Callers
  <2>6. QED
    BY <2>1, <2>5 DEF Locking
<1>13. QED
  BY <1>7, <1>9, <1>10, <1>11, <1>12 DEF Preserved

-----------------------------------------------------------------------------
(* The worker. *)

(* A pause is asked of a running plan only, and a plan that is held stays   *)
(* so until it is told to go on.                                           *)
Pauses(w, v) ==
    /\ (w.pause => w.re = "running") => (v.pause => v.re = "running")
    /\ Held(w) => Held(v)

(* The main thread goes on. *)
LEMMA MainThreadPauses ==
    ASSUME NEW w \in Worker, Sound(w), NEW v \in MainThread(w)
    PROVE  /\ Pauses(w, v)
           /\ w.re = "paused" /\ w.todo = "none" => v.re = "paused" /\ v.todo = "none"
           /\ v.report = "completed" => (w.report = "completed" /\ v.item = w.item) \/ w.report # "completed"
<1>1. CASE v \in Started(w)
  BY <1>1 DEF Started, When, Worker, Pauses, Held
<1>2. CASE v \in TakesPlan(w)
  <2>1. CASE /\ w.doing = "none" /\ w.todo # "none"
             /\ v = [w EXCEPT !.todo = "none", !.doing = w.todo, !.re = "running"]
    <3>1. v.re = "running" /\ v.report = w.report /\ v.item = w.item
      BY <2>1 DEF Worker
    <3>2. QED
      BY <2>1, <3>1 DEF Pauses, Held
  <2>2. CASE /\ w.doing = "none" /\ w.todo = "new"
             /\ v = [w EXCEPT !.todo = "none", !.report = "failed", !.told = FALSE,
                              !.exec = "completed", !.env = "idle"]
    <3>1. v.re = w.re /\ v.report = "failed" /\ v.todo = "none" /\ v.pause = w.pause
      BY <2>2 DEF Worker
    <3>2. QED
      BY <2>2, <3>1 DEF Pauses, Held
  <2>3. QED
    BY <1>2, <2>1, <2>2 DEF TakesPlan, When
<1>3. CASE v \in EngineReturns(w)
  <2>1. PICK e \in {"idle", "paused"} : v = [w EXCEPT !.re = e, !.pause = FALSE]
    BY <1>3 DEF EngineReturns, When
  <2>2. w.re = "running"
    BY <1>3 DEF EngineReturns, When
  <2>3. v.report = w.report /\ v.item = w.item /\ v.todo = w.todo /\ ~ v.pause
    BY <2>1 DEF Worker
  <2>4. w.todo = "none"
    BY <2>2 DEF Sound
  <2>5. QED
    BY <2>2, <2>3, <2>4 DEF Pauses, Held
<1>4. CASE v \in WritesReport(w)
  <2>1. w.doing # "none" /\ w.re # "running"
    BY <1>4 DEF WritesReport, When
  <2>2. PICK o \in Outcomes(w) :
           v = [w EXCEPT !.report = o, !.told = FALSE, !.doing = "none", !.env = "idle",
                         !.exec = IF o = "paused" THEN @ ELSE "completed"]
    BY <1>4, <2>1 DEF WritesReport, When
  <2>3. v.re = w.re /\ v.todo = w.todo /\ v.pause = w.pause
    BY <2>2 DEF Worker
  <2>4. w.report # "completed"
    BY <2>1 DEF Sound
  <2>5. QED
    BY <2>3, <2>4 DEF Pauses, Held
<1>5. CASE v \in ShutsDown(w)
  <2>1. CASE w.env = "closing" /\ w.sure /\ v = Gone
    <3>1. w.re = "idle"
      BY <2>1 DEF Sound, Still, Busy
    <3>2. QED
      BY <2>1, <3>1 DEF Pauses, Held, Gone, NoWorker
  <2>2. CASE v = [w EXCEPT !.env = "closing"]
    BY <2>2 DEF Worker, Pauses, Held
  <2>3. QED
    BY <1>5, <2>1, <2>2 DEF ShutsDown, When
<1>6. QED
  BY <1>1, <1>2, <1>3, <1>4, <1>5 DEF MainThread

(* A request is served. *)
LEMMA ServedPauses ==
    ASSUME NEW w \in Worker, Sound(w), NEW r \in Request, ArgGiven(r)
    PROVE  LET v == Served(w, r)
           IN  /\ v.re = w.re
               /\ (w.pause => w.re = "running") => (v.pause => v.re = "running")
               /\ w.re = "paused" => v.todo = w.todo \/ (r.method = "continue" /\ ~ ContinueRefused(w))
               /\ v.report = "none" \/ (v.report = w.report /\ v.item = w.item)
               /\ Still(w) /\ r.method = "run" => Still(v) \/ w.env = "idle"
<1> DEFINE v == Served(w, r)
<1>1. CASE r.method = "state"
  <2>1. v = w
    BY <1>1 DEF Served
  <2> HIDE DEF v
  <2>2. QED
    BY <1>1, <2>1 DEF v
<1>2. CASE r.method = "report"
  <2>1. v = FetchReport(w)
    BY <1>2 DEF Served
  <2> HIDE DEF v
  <2>2. v.re = w.re /\ v.pause = w.pause /\ v.todo = w.todo /\ v.report = w.report /\ v.item = w.item
    BY <2>1 DEF Worker, FetchReport
  <2>3. QED
    BY <1>2, <2>2 DEF v
<1>3. CASE r.method = "run"
  <2>1. v = RunPlan(w, r.arg) /\ r.arg \in Plan
    BY <1>3 DEF Served, ArgGiven
  <2> HIDE DEF v
  <2>2. CASE RunRefused(w)
    <3>1. v = w
      BY <2>1, <2>2 DEF RunPlan
    <3>2. QED
      BY <1>3, <3>1 DEF v
  <2>3. CASE ~ RunRefused(w)
    <3>1. v.re = w.re /\ v.pause = w.pause /\ v.report = w.report
      BY <2>1, <2>3 DEF Worker, RunPlan
    <3>2. w.item = NoPlan /\ w.env = "idle"
      BY <2>3 DEF RunRefused
    <3>3. w.re # "paused" /\ w.report = "none"
      BY <3>2 DEF Sound
    <3>4. QED
      BY <3>1, <3>2, <3>3 DEF v
  <2>4. QED
    BY <2>2, <2>3
<1>4. CASE r.method = "reset"
  <2>1. v = Reset(w)
    BY <1>4 DEF Served
  <2> HIDE DEF v
  <2>2. CASE ResetRefused(w)
    <3>1. v = w
      BY <2>1, <2>2 DEF Reset
    <3>2. QED
      BY <1>4, <3>1 DEF v
  <2>3. CASE ~ ResetRefused(w)
    <3>1. v.report = "none" /\ v.re = w.re /\ v.pause = w.pause /\ v.todo = w.todo
      BY <2>1, <2>3 DEF Worker, Reset
    <3>2. QED
      BY <1>4, <3>1 DEF v
  <2>4. QED
    BY <2>2, <2>3
<1>5. CASE r.method = "pause"
  <2>1. v = Pause(w)
    BY <1>5 DEF Served
  <2> HIDE DEF v
  <2>2. CASE PauseRefused(w)
    <3>1. v = w
      BY <2>1, <2>2 DEF Pause
    <3>2. QED
      BY <1>5, <3>1 DEF v
  <2>3. CASE ~ PauseRefused(w)
    <3>1. v.re = w.re /\ v.re = "running" /\ v.todo = w.todo /\ v.report = w.report /\ v.item = w.item
      BY <2>1, <2>3 DEF Worker, Pause, PauseRefused
    <3>2. QED
      BY <1>5, <3>1 DEF v
  <2>4. QED
    BY <2>2, <2>3
<1>6. CASE r.method = "continue"
  <2>1. v = Continue(w, r.arg)
    BY <1>6 DEF Served
  <2> HIDE DEF v
  <2>2. CASE ContinueRefused(w)
    <3>1. v = w
      BY <2>1, <2>2 DEF Continue
    <3>2. QED
      BY <1>6, <3>1 DEF v
  <2>3. CASE ~ ContinueRefused(w)
    <3>1. v.re = w.re /\ v.pause = w.pause /\ v.report = w.report /\ v.item = w.item
      BY <2>1, <2>3 DEF Worker, Continue
    <3>2. QED
      BY <1>6, <2>3, <3>1 DEF v
  <2>4. QED
    BY <2>2, <2>3
<1>7. CASE r.method \in {"close", "confirm"}
  <2>1. v = CloseEnv(w) \/ v = ConfirmExit(w)
    BY <1>7 DEF Served
  <2> HIDE DEF v
  <2>2. v.re = w.re /\ v.pause = w.pause /\ v.todo = w.todo /\ v.report = w.report /\ v.item = w.item
    BY <2>1 DEF Worker, CloseEnv, ConfirmExit
  <2>3. QED
    BY <1>7, <2>2 DEF v
<1>8. QED
  BY <1>1, <1>2, <1>3, <1>4, <1>5, <1>6, <1>7 DEF Request, Methods

(* A worker begins to read the pipe: it knows of no plan yet. *)
LEMMA WorkerListensKeeps ==
    ASSUME TypeInv, Safe, Base, NEW p \in Processes, WorkerListens(p)
    PROVE  Preserved
<1>1. /\ m' = m /\ tasks' = tasks /\ watched' = watched /\ store' = store /\ seen' = seen /\ locked' = locked
  BY DEF WorkerListens
<1>2. worker[p].life = "booting" /\ worker' = [worker EXCEPT ![p] = [worker[p] EXCEPT !.life = "up"]]
  BY DEF WorkerListens, Listens, When
<1>3. p = watched /\ Watched = worker[p] /\ Watched = Fresh /\ watched # 0
  BY <1>2, AliveIsWatched, ProcessesFrom1 DEF Alive, Safe, Sound
<1>4. Watched' = [Fresh EXCEPT !.life = "up"]
  BY <1>1, <1>2, <1>3 DEF Watched, TypeInv
<1>5. Still(Watched') /\ ~ Watched'.pause /\ Watched'.report = "none" /\ Watched'.re = "idle"
  BY <1>4 DEF Fresh, NoWorker, Still, Busy
<1>6. comm'.pipe = <<>>
  BY DEF WorkerListens, TypeInv, Fits, Calls, CommForm
<1>7. ~ Lingering
  BY Calmly DEF WorkerListens, Failures
<1>8. ~ Executing
  BY <1>3 DEF Safe, Phases, Fresh
<1>9. \A t \in tasks : t.kind \notin {"report", "plan"}
  BY <1>7 DEF Lingering
<1>10. Base'
  BY <1>1, <1>2 DEF Base, Idlers, Observed, TypeInv, Alive
<1>11. Books => Books'
  BY <1>1, <1>5, <1>9 DEF Books, Reporting
<1>12. Stopping => Stopping'
  BY <1>1, StopsStay
<1>13. Pausing => Pausing'
  BY <1>1, <1>5, <1>8 DEF Pausing, Executing, Held
<1>14. Locking => Locking'
  BY <1>1, <1>5, <1>6, <1>9 DEF Locking
<1>15. QED
  BY <1>10, <1>11, <1>12, <1>13, <1>14 DEF Preserved

(* The main thread goes on. *)
LEMMA WorkerRunsKeeps ==
    ASSUME TypeInv, Safe, Base, NEW p \in Processes, WorkerRuns(p)
    PROVE  Preserved
<1>1. /\ m' = m /\ tasks' = tasks /\ watched' = watched /\ store' = store /\ comm' = comm /\ locked' = locked
  BY DEF WorkerRuns
<1>2. PICK v \in MainThread(worker[p]) :
         /\ worker' = [worker EXCEPT ![p] = v]
         /\ seen' = IF v.report = "completed" /\ worker[p].report # "completed"
                    THEN [seen EXCEPT !.completed = @ \cup {v.item}] ELSE seen
  BY DEF WorkerRuns
<1>3. worker[p].life = "up"
  BY <1>2 DEF MainThread, Started, TakesPlan, EngineReturns, WritesReport, ShutsDown, When
<1>4. p = watched /\ Watched = worker[p] /\ watched # 0
  BY <1>3, AliveIsWatched, ProcessesFrom1 DEF Alive
<1>5. Watched' = v /\ Watched \in Worker
  BY <1>1, <1>2, <1>4, WatchedIs DEF Watched, TypeInv
<1>6. Drifts(Watched, Watched') /\ Sound(Watched')
  BY <1>2, <1>4, <1>5, MainThreadDrifts DEF Safe
<1>7. /\ Pauses(Watched, Watched')
      /\ Watched.re = "paused" /\ Watched.todo = "none" => Watched'.re = "paused" /\ Watched'.todo = "none"
      /\ Watched'.report = "completed" => (Watched.report = "completed" /\ Watched'.item = Watched.item)
                                          \/ Watched.report # "completed"
  BY <1>2, <1>4, <1>5, MainThreadPauses DEF Safe
<1>8. v \in Worker
  BY <1>2, <1>4, <1>5, MainThreadTyped
<1>9. /\ seen'.stop = seen.stop /\ seen'.started = seen.started /\ seen'.pause = seen.pause /\ Observed'
      /\ seen.completed \subseteq seen'.completed
      /\ Watched'.report = "completed" /\ Watched.report # "completed" => Watched'.item \in seen'.completed
  <2>1. v.item \in Plan \cup {NoPlan}
    BY <1>8 DEF Worker
  <2>2. CASE v.report = "completed" /\ worker[p].report # "completed"
    BY <2>1, <2>2, <1>2, <1>5 DEF Base, Observed
  <2>3. CASE ~ (v.report = "completed" /\ worker[p].report # "completed")
    BY <2>3, <1>2, <1>4, <1>5 DEF Base, Observed
  <2>4. QED
    BY <2>2, <2>3
<1>10. Base'
  <2>1. \A q \in Processes : q # p => worker'[q] = worker[q]
    BY <1>2 DEF TypeInv
  <2>2. worker'[p] = v
    BY <1>2 DEF TypeInv
  <2>3. ~ Alive(v) => v = Gone
    BY <1>5, <1>6 DEF Drifts, Sound, Alive
  <2>4. QED
    BY <2>1, <2>2, <2>3, <1>9 DEF Base, Idlers
<1>11. Books => Books'
  <2>1. SUFFICES ASSUME Books PROVE Books'
    OBVIOUS
  <2>2. Watched'.report = "completed" => Watched'.item \in seen'.completed
    BY <2>1, <1>7, <1>9 DEF Books
  <2>3. \A t \in tasks : Reporting(t) => Watched'.item = store.running
    <3>1. TAKE t \in tasks
    <3>2. Reporting(t) => Executing /\ ~ Watched.sure
      BY DEF Reporting, Safe, Roles, Phases, Executing
    <3>3. Reporting(t) => Watched'.item = Watched.item
      BY <3>2, <1>6 DEF Drifts
    <3>4. QED
      BY <3>3, <2>1 DEF Books
  <2>4. QED
    BY <2>1, <2>2, <2>3, <1>1, <1>9 DEF Books
<1>12. Stopping => Stopping'
  BY <1>1, <1>9, StopsStay
<1>13. Pausing => Pausing'
  <2>1. Resumes' <=> Resumes
    BY <1>1 DEF Resumes, Answer
  <2>2. \A w, x : Held(w) /\ w.re = "paused" => w.todo = "none"
    BY DEF Held
  <2>3. QED
    BY <2>1, <1>1, <1>7, <1>9 DEF Pausing, Executing, Pauses, Answer, Held
<1>14. Locking => Locking'
  <2>1. Still(Watched) => Still(Watched')
    BY <1>6 DEF Drifts
  <2>2. Parting(Watched) => Parting(Watched')
    BY <2>1, <1>3, <1>4, <1>6 DEF Drifts, Parting, Alive
  <2>3. Watched.life = "up"
    BY <1>3, <1>4
  <2>4. QED
    BY <2>1, <2>2, <2>3, <1>1 DEF Locking
<1>15. QED
  BY <1>10, <1>11, <1>12, <1>13, <1>14 DEF Preserved

(* A request is served. *)
LEMMA WorkerServesKeeps ==
    ASSUME TypeInv, Safe, Base, NEW p \in Processes, WorkerServes(p)
    PROVE  Preserved
<1>1. PICK r : Serves(r)
  BY ServesIt
<1>2. /\ m' = m /\ tasks' = tasks /\ watched' = watched /\ store' = store /\ locked' = locked /\ seen' = seen
      /\ \A q \in Processes : worker'[q] = worker[q] \/ Alive(worker[q])
      /\ \A q \in Processes : Alive(worker'[q]) => q = watched
      /\ 1 \in 1..Len(comm.pipe) /\ r = comm.pipe[1] /\ r \in Request /\ ArgGiven(r)
      /\ Watched.life = "up" /\ comm.answer = <<>> /\ Watched' = Served(Watched, r)
  BY <1>1 DEF Serves
<1>3. Sound(Watched') /\ Handles(Watched, Watched', r)
  BY <1>1, ServesProperly
<1>4. /\ Watched'.re = Watched.re
      /\ (Watched.pause => Watched.re = "running") => (Watched'.pause => Watched'.re = "running")
      /\ Watched.re = "paused" => \/ Watched'.todo = Watched.todo
                                  \/ r.method = "continue" /\ ~ ContinueRefused(Watched)
      /\ Watched'.report = "none" \/ (Watched'.report = Watched.report /\ Watched'.item = Watched.item)
      /\ Still(Watched) /\ r.method = "run" => Still(Watched') \/ Watched.env = "idle"
  BY <1>2, WatchedIs, ServedPauses DEF Safe
<1>5. r.from = Nobody => /\ Running("boot") /\ \A j : ~ Replied(comm', j)
                         /\ \A i \in 1..Len(comm'.pipe) : comm'.pipe[i].from # Nobody
  BY <1>1 DEF Serves, Replied
<1>6. r.from # Nobody => /\ comm'.pipe = <<>> /\ Answer' = ReplyOf(Watched, r)
                         /\ 1 \in 1..Len(comm.line) /\ r = comm.line[1]
                         /\ \A j : Replied(comm', j) <=> j = r.from
  BY <1>1 DEF Serves, Answer
<1>7. \A j : ~ Replied(comm, j)
  BY <1>2 DEF Replied
<1>8. \A t \in tasks : t.kind # "boot" => ~ Running("boot") \/ t.kind \notin MainKinds
  BY DEF Safe, Roles, Running
<1>9. Executing => ~ Running("boot") /\ r.from # Nobody
  BY <1>5 DEF Safe, Roles, Executing, Running
<1>10. Base'
  <2>1. Watched'.life = "up"
    BY <1>3 DEF Handles
  <2>2. watched # 0 /\ watched' = watched
    BY <1>2 DEF Watched, NoWorker
  <2>3. Watched' = worker'[watched]
    BY <2>2 DEF Watched
  <2>4. \A q \in Processes : Alive(worker[q]) => q = watched
    BY DEF Safe, Alone
  <2>5. QED
    BY <2>1, <2>3, <2>4, <1>2 DEF Base, Idlers, Observed, Alive
<1>11. Books => Books'
  <2>1. ASSUME NEW t \in tasks, Reporting(t) PROVE Watched'.item = Watched.item
    <3>1. Executing /\ Watched.report # "none" /\ t.kind \in MainKinds /\ t.kind = "report"
      BY <2>1 DEF Reporting, Safe, Roles, Phases, Executing, MainKinds
    <3>2. r.method # "reset"
      <4>1. SUFFICES ASSUME r.method = "reset" PROVE FALSE
        OBVIOUS
      <4>2. PICK u \in tasks : u.kind = "plan"
        BY <4>1, <3>1, <1>6, <1>9, Callers
      <4>3. QED
        BY <3>1, <4>2 DEF Safe, Roles, MainKinds
    <3>3. Watched'.report = Watched.report
      BY <3>2, <1>3 DEF Handles
    <3>4. QED
      BY <3>1, <3>3, <1>4
  <2>2. QED
    BY <2>1, <1>2, <1>4 DEF Books
<1>12. Stopping => Stopping'
  BY <1>2, StopsStay
<1>13. Pausing => Pausing'
  <2>1. SUFFICES ASSUME Pausing PROVE Pausing'
    OBVIOUS
  <2>2. (Watched.pause => Watched.re = "running") /\ (Watched'.pause => Watched'.re = "running")
    BY <2>1, <1>4 DEF Pausing
  <2>3. ASSUME seen.pause = "pending", Executing
        PROVE  /\ Resumes' \/ (Held(Watched') /\ (m.pause_pending \/ Watched'.re = "paused"))
               /\ Replied(comm', 0) /\ Answer'.re = "paused" => Watched'.re = "paused" /\ Watched'.todo = "none"
    <3>1. Held(Watched) /\ (m.pause_pending \/ Watched.re = "paused")
      BY <2>1, <2>3, <1>7 DEF Pausing, Resumes
    <3>2. CASE r.method = "continue" /\ ~ ContinueRefused(Watched)
      <4>1. /\ Answer' = ~ ContinueRefused(Watched) /\ 1 \in 1..Len(comm.line) /\ r = comm.line[1]
            /\ \A j : Replied(comm', j) <=> j = r.from
        BY <2>3, <3>2, <1>6, <1>9 DEF ReplyOf
      <4>2. PICK u \in tasks : u.id = r.from /\ u.kind = "client" /\ u.at = "continue"
        BY <3>2, <4>1, Callers
      <4>3. Resumes'
        BY <3>2, <4>1, <4>2, <1>2 DEF Resumes
      <4>4. ~ Replied(comm', 0)
        BY <4>1, <4>2, TasksAre
      <4>5. QED
        BY <4>3, <4>4
    <3>3. CASE ~ (r.method = "continue" /\ ~ ContinueRefused(Watched))
      <4>1. Held(Watched') /\ (m.pause_pending \/ Watched'.re = "paused")
        BY <3>1, <3>3, <1>4 DEF Held
      <4>2. ASSUME Replied(comm', 0), Answer'.re = "paused" PROVE Watched'.re = "paused" /\ Watched'.todo = "none"
        <5>1. r.from = 0 /\ r = comm.line[1] /\ 1 \in 1..Len(comm.line) /\ Answer' = ReplyOf(Watched, r)
          BY <2>3, <4>2, <1>6, <1>9
        <5>2. r.method = "state"
          BY <5>1, Callers, TasksAre
        <5>3. Answer'.re = Watched.re
          BY <5>1, <5>2 DEF ReplyOf, StateReply
        <5>4. QED
          BY <4>1, <4>2, <5>3, <1>4 DEF Held
      <4>3. QED
        BY <4>1, <4>2
    <3>4. QED
      BY <3>2, <3>3
  <2>4. ASSUME NEW t \in tasks, Replied(comm', t.id),
               (t.kind = "boot" /\ Answer'.pausing) \/ (t.kind = "client" /\ t.at = "pause" /\ Answer')
        PROVE  Held(Watched')
    <3>1. r.from = t.id /\ r = comm.line[1] /\ 1 \in 1..Len(comm.line) /\ Answer' = ReplyOf(Watched, r)
      BY <2>4, <1>5, <1>6
    <3>2. PICK u \in tasks : u.id = t.id /\ Waits(u, r.method)
      BY <3>1, Callers, TasksAre
    <3>3. u = t
      BY <3>2, TasksAre
    <3>4. CASE t.kind = "boot" /\ Answer'.pausing
      <4>1. r.method = "state"
        BY <3>2, <3>3, <3>4 DEF Waits
      <4>2. Watched.pause
        BY <3>1, <3>4, <4>1 DEF ReplyOf, StateReply
      <4>3. QED
        BY <4>2, <2>2, <1>4 DEF Held
    <3>5. CASE t.kind = "client" /\ t.at = "pause" /\ Answer'
      <4>1. r.method = "pause"
        BY <3>2, <3>3, <3>5 DEF Waits
      <4>2. Watched.re = "running"
        BY <3>1, <3>5, <4>1 DEF ReplyOf, PauseRefused
      <4>3. QED
        BY <4>2, <1>4 DEF Held
    <3>6. QED
      BY <2>4, <3>4, <3>5
  <2>5. QED
    BY <2>1, <2>2, <2>3, <2>4, <1>2 DEF Pausing, Executing
<1>14. Locking => Locking'
  <2>1. SUFFICES ASSUME Locking PROVE Locking'
    OBVIOUS
  <2>2. \A i \in 1..Len(comm'.pipe) : comm'.pipe[i].from # Nobody
    BY <1>5, <1>6
  <2>3. Parting(Watched) => Parting(Watched')
    BY <1>2, <1>3 DEF Handles, Parting, Alive
  <2>4. ASSUME ~ Still(Watched') PROVE locked = store.running
    <3>1. CASE ~ Still(Watched)
      BY <2>1, <3>1 DEF Locking
    <3>2. CASE Still(Watched)
      <4>1. r.method = "run" /\ Watched.env = "idle"
        BY <2>4, <3>2, <1>3 DEF Handles
      <4>2. ~ Parting(Watched)
        BY <4>1, <1>2 DEF Parting, Alive
      <4>3. CASE r.from = Nobody
        BY <2>1, <4>1, <4>2, <4>3, <1>2 DEF Locking
      <4>4. CASE r.from # Nobody
        <5>1. PICK u \in tasks : u.kind = "plan" /\ u.at = "run"
          BY <4>1, <4>4, <1>6, Callers
        <5>2. QED
          BY <2>1, <4>2, <5>1 DEF Locking
      <4>5. QED
        BY <4>3, <4>4
    <3>3. QED
      BY <3>1, <3>2
  <2>5. QED
    BY <2>1, <2>2, <2>3, <2>4, <1>2 DEF Locking
<1>15. QED
  BY <1>10, <1>11, <1>12, <1>13, <1>14 DEF Preserved

-----------------------------------------------------------------------------
(* All steps. *)

(* Nothing changes when nothing happens. *)
LEMMA StuttersKeep ==
    ASSUME TypeInv, Base, UNCHANGED vars
    PROVE  Preserved
<1>1. /\ m' = m /\ tasks' = tasks /\ comm' = comm /\ store' = store /\ worker' = worker
      /\ watched' = watched /\ locked' = locked /\ seen' = seen
  BY DEF vars
<1>2. Echoes /\ (TasksAside /\ Resumes => Resumes')
  BY <1>1, EchoesSame
<1>3. TasksAside
  BY <1>1 DEF TasksAside
<1>4. QED
  BY <1>1, <1>2, <1>3, AsideTaken

(* Every step keeps them. *)
LEMMA AllKept == TypeInv /\ Safe /\ Safe' /\ Base /\ [Next]_vars => Preserved
<1> SUFFICES ASSUME TypeInv, Safe, Safe', Base, [Next]_vars PROVE Preserved
  OBVIOUS
<1>1. CASE UNCHANGED vars
  BY <1>1, StuttersKeep
<1>2. CASE ClientAsks
  BY <1>2, AsksKeep, StartsKeep, FlagsKeep, ClientsKeep, QueueEditedKeeps DEF ClientAsks
<1>3. CASE ManagerRestarts
  BY <1>3, ManagerRestartsKeeps
<1>4. CASE \E p \in Processes : WorkerSteps(p) \/ WorkerDies(p)
  BY <1>4, NothingLate, WorkerServesKeeps, WorkerListensKeeps, WorkerRunsKeeps DEF WorkerSteps
<1>5. CASE Poll \/ (Idle /\ Autostarts)
  BY <1>5, PollAsksKeeps, PollAnsweredKeeps, PollTimesOutKeeps, StartsKeep DEF Poll
<1>6. CASE \E t \in tasks : Turn(t)
  <2>1. PICK t \in tasks : TaskSteps(t)
    BY <1>6 DEF Turn
  <2>2. QED
    BY <2>1, NothingLate, OpensKeep, LeavesKeep, AnsweredKeep, PauseAnsweredKeeps,
       ContinueAnsweredKeeps, OpenStartsKeeps, ClosedKeeps, KillSentKeeps, KillEndsKeeps,
       ExitUnlockedKeeps, StateSetKeeps, PlanBeginsKeeps, PlanPreparedKeeps, PlanResetKeeps,
       PlanStartedKeeps, PlanReleasedKeeps, ReportAskedKeeps, ReportProcessedKeeps,
       ReportUnlockedKeeps, BootLooksKeeps, BootSeesKeeps DEF TaskSteps
<1>7. QED
  BY <1>1, <1>2, <1>3, <1>4, <1>5, <1>6 DEF Next, ManagerSteps

(* The queue begins with every item once (the code gives each its UID). *)
Distinct == \A i, j \in 1..Len(Plans0) : Plans0[i] = Plans0[j] => i = j

(* At the start no plan is running or recorded, and nothing was asked. *)
LEMMA AllBegin ==
    ASSUME Calm, Init
    PROVE  Base /\ (Distinct => Books) /\ Stopping /\ Pausing /\ Locking
<1>1. /\ tasks = {} /\ comm.line = <<>> /\ comm.pipe = <<>> /\ m.state = "idle"
      /\ watched = (IF May("open") THEN 1 ELSE 0)
      /\ worker = [p \in Processes |-> IF p = watched THEN Opened ELSE NoWorker]
      /\ store.queue = Plans0 /\ store.running = NoPlan /\ store.history = {}
      /\ seen = [completed |-> {}, stop |-> FALSE, pause |-> "none", started |-> 0]
  BY DEF Init, Restarted
<1>2. Watched = NoWorker \/ Watched = Opened
  <2>1. 1 \in Processes /\ 0 \notin Processes
    <3>1. Cardinality(Processes) \in Nat /\ Processes = 1..Cardinality(Processes) /\ Processes # {}
      BY ManagerAssumption, FS_CardinalityType
    <3>2. QED
      BY <3>1
  <2>2. Watched = IF May("open") THEN Opened ELSE NoWorker
    BY <1>1, <2>1 DEF Watched
  <2>3. QED
    BY <2>2
<1>3. /\ Watched.doing = "none" /\ Watched.todo = "none" /\ Watched.re = "idle"
      /\ Watched.report = "none" /\ ~ Watched.pause
  <2>1. CASE Watched = NoWorker
    BY <2>1 DEF NoWorker
  <2>2. CASE Watched = Opened
    BY <2>2 DEF Opened, NoWorker
  <2>3. QED
    BY <1>2, <2>1, <2>2
<1>4. Base
  <2>1. Observed
    BY <1>1 DEF Observed
  <2>2. Alive(Opened)
    BY DEF Alive, Opened, NoWorker
  <2>3. Idlers
    BY <1>1, <2>2 DEF Idlers
  <2>4. QED
    BY <2>1, <2>3 DEF Base
<1>5. Distinct => Books
  <2>1. \A i \in 1..Len(Plans0) : Plans0[i] # NoPlan
    BY ManagerAssumption
  <2>2. QED
    BY <1>1, <1>3, <2>1 DEF Books, Distinct
<1>6. Stopping
  BY <1>1 DEF Stopping
<1>7. Pausing
  BY <1>1, <1>3 DEF Pausing, Executing
<1>8. Locking
  BY <1>1, <1>3 DEF Locking, Still, Busy
<1>9. QED
  BY <1>4, <1>5, <1>6, <1>7, <1>8

(* The only worker that executes anything is the watched one, and what it   *)
(* executes is the running item of the queue.                              *)
LEMMA ExecutesRunning ==
    ASSUME TypeInv, Safe, Base, NEW p \in Processes, worker[p].doing # "none"
    PROVE  worker[p] = Watched /\ worker[p].item = store.running /\ ~ Still(Watched)
<1>1. Alive(worker[p])
  BY DEF Base, Idlers, NoWorker, Gone
<1>2. worker[p] = Watched
  BY <1>1, AliveIsWatched
<1>3. QED
  BY <1>2 DEF Safe, Booked, Still, Busy

(* The history is true: a plan that it calls completed has run to the end, *)
(* and will not run again; the plan that a worker executes is the one the  *)
(* queue calls running, however often the manager was restarted (run       *)
(* ReManager).                                                             *)
THEOREM RecordsHold ==
    ASSUME Calm, Distinct
    PROVE  Spec => []RecordsTrue
<1> DEFINE Inv == TypeInv /\ Safe /\ Base /\ Books
<1>1. Init => Inv
  BY TypesBegin, SafeBegins, AllBegin
<1>2. Inv /\ [Next]_vars => Inv'
  BY TypesKept, SafeKept, AllKept DEF Preserved
<1>3. Inv => RecordsTrue
  <2> SUFFICES ASSUME Inv PROVE RecordsTrue
    OBVIOUS
  <2>1. CompletedIsTrue
    BY DEF Books, CompletedIsTrue
  <2>2. RunningIsBooked
    BY ExecutesRunning DEF RunningIsBooked
  <2>3. CompletedOnce
    <3> SUFFICES ASSUME NEW p \in Processes, worker[p].doing = "new",
                        [plan |-> worker[p].item, exit |-> "completed"] \in store.history
                 PROVE  FALSE
      BY DEF CompletedOnce
    <3>1. worker[p].item # store.running
      BY DEF Books
    <3>2. QED
      BY <3>1, ExecutesRunning
  <2>4. QED
    BY <2>1, <2>2, <2>3 DEF RecordsTrue
<1>4. QED
  BY <1>1, <1>2, <1>3, PTL DEF Spec

(* What a client asked in order to stop the queue is honoured: after        *)
(* queue_stop at most the plan that is being started starts, and after a    *)
(* deferred pause none does until a client starts the queue (run           *)
(* ReManager).                                                             *)
THEOREM StopsHold ==
    ASSUME Calm
    PROVE  Spec => []StopsHonoured
<1> DEFINE Inv == TypeInv /\ Safe /\ Base /\ Stopping /\ Pausing
<1>1. Init => Inv
  BY TypesBegin, SafeBegins, AllBegin
<1>2. Inv /\ [Next]_vars => Inv'
  BY TypesKept, SafeKept, AllKept DEF Preserved
<1>3. Inv => StopsHonoured
  BY DEF Stopping, Pausing, StopsHonoured, StopHonoured, PauseHonoured
<1>4. QED
  BY <1>1, <1>2, <1>3, PTL DEF Spec

(* Plans run with their devices locked, when the configuration service is   *)
(* used: also after a pause, and when a manager that was restarted finds   *)
(* its plan running (run ReManager).                                       *)
THEOREM LocksHold ==
    ASSUME Calm, ConfigService
    PROVE  Spec => []PlanRunsLocked
<1> DEFINE Inv == TypeInv /\ Safe /\ Base /\ Locking
<1>1. Init => Inv
  BY TypesBegin, SafeBegins, AllBegin
<1>2. Inv /\ [Next]_vars => Inv'
  BY TypesKept, SafeKept, AllKept DEF Preserved
<1>3. Inv => PlanRunsLocked
  BY ExecutesRunning DEF Locking, PlanRunsLocked
<1>4. QED
  BY <1>1, <1>2, <1>3, PTL DEF Spec

=============================================================================
