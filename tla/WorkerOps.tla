----------------------------- MODULE WorkerOps -----------------------------
(***************************************************************************)
(* One RE Worker process (RunEngineWorker): the state its two threads      *)
(* share, and what each handler and each step of the main thread makes of  *)
(* it.  The manager reaches a worker only through the pipe, so every       *)
(* handler is a reply and a new state.                                     *)
(*                                                                         *)
(* The worker runs plain Python: the main thread is always in the          *)
(* execution loop while the environment is open.                           *)
(***************************************************************************)
EXTENDS Naturals

CONSTANTS Plan, NoPlan

Outcome == {"completed", "failed", "stopped", "aborted", "paused"}

(* life: "booting" - created, the pipe is not read yet; "up"; "gone".      *)
(* doing: the option of the plan the main thread executes.                 *)
Worker == [life   : {"none", "booting", "up", "gone"},
           env    : {"initializing", "idle", "executing_plan", "failed", "closing"},
           re     : {"idle", "running", "paused"},
           exec   : {"reset", "active", "completed"},
           item   : Plan \cup {NoPlan},
           report : Outcome \cup {"none"},
           told   : BOOLEAN,
           todo   : {"none", "new", "resume", "stop", "abort"},
           doing  : {"none", "new", "resume", "stop", "abort"},
           pause  : BOOLEAN,
           exit   : BOOLEAN,
           asked  : BOOLEAN,
           sure   : BOOLEAN]

NoWorker == [life |-> "none", env |-> "initializing", re |-> "idle", exec |-> "reset",
             item |-> NoPlan, report |-> "none", told |-> FALSE, todo |-> "none",
             doing |-> "none", pause |-> FALSE, exit |-> FALSE, asked |-> FALSE,
             sure |-> FALSE]

Fresh == [NoWorker EXCEPT !.life = "booting"]
Gone  == [NoWorker EXCEPT !.life = "gone"]

Opened == [NoWorker EXCEPT !.life = "up", !.env = "idle"]

Alive(w)     == w.life \in {"booting", "up"}
Listening(w) == w.life = "up"

(* Shutdown that no close_env command began.                               *)
Unexpected(w) == w.env = "closing" /\ ~ w.asked

-----------------------------------------------------------------------------
(* Handlers.                                                               *)

StateReply(w) == [item |-> w.item, re |-> w.re, env |-> w.env,
                  available |-> w.report # "none" /\ ~ w.told,
                  pausing |-> w.pause, unexpected |-> Unexpected(w)]

FetchReport(w) == [w EXCEPT !.told = TRUE]

RunRefused(w) ==
    \/ w.todo # "none"
    \/ w.re = "running"
    \/ w.item # NoPlan \/ w.exec # "reset"
    \/ w.env # "idle"

RunPlan(w, p) ==
    IF RunRefused(w) THEN w
    ELSE [w EXCEPT !.item = p, !.exec = "active", !.env = "executing_plan", !.todo = "new"]

ResetRefused(w) == w.re # "idle"

Reset(w) ==
    IF ResetRefused(w) THEN w
    ELSE [w EXCEPT !.item = NoPlan, !.exec = "reset", !.report = "none", !.told = FALSE]

PauseRefused(w) == w.re # "running"
Pause(w)        == IF PauseRefused(w) THEN w ELSE [w EXCEPT !.pause = TRUE]

ContinueRefused(w) == w.re # "paused" \/ w.env # "idle"

Continue(w, option) ==
    IF ContinueRefused(w) THEN w
    ELSE [w EXCEPT !.env = "executing_plan", !.todo = option]

CloseRefused(w) == w.re = "running"
CloseEnv(w)     == IF CloseRefused(w) THEN w ELSE [w EXCEPT !.exit = TRUE, !.asked = TRUE]

ConfirmRefused(w) == ~ w.exit
ConfirmExit(w)    == IF ConfirmRefused(w) THEN w ELSE [w EXCEPT !.sure = TRUE]

-----------------------------------------------------------------------------
(* Steps of the main thread: what the worker may become, {} when the step  *)
(* cannot be taken.                                                        *)

When(guard, S) == IF guard THEN S ELSE {}

Listens(w) == When(w.life = "booting", {[w EXCEPT !.life = "up"]})

(* Startup code has run; failure leads straight to the shutdown code.      *)
Started(w) ==
    When(w.life = "up" /\ w.env = "initializing",
         {[w EXCEPT !.env = "idle"], [w EXCEPT !.env = "failed", !.exit = TRUE]})

(* The plan is taken from the execution queue, as long as the loop goes on. *)
(* Preparing it may fail, and then a report is written without the Run      *)
(* Engine having started.                                                  *)
TakesPlan(w) ==
    When(w.life = "up" /\ w.env # "closing" /\ w.doing = "none" /\ w.todo # "none",
         {[w EXCEPT !.todo = "none", !.doing = w.todo, !.re = "running"]})
    \cup
    When(w.life = "up" /\ w.env # "closing" /\ w.doing = "none" /\ w.todo = "new",
         {[w EXCEPT !.todo = "none", !.report = "failed", !.told = FALSE,
                    !.exec = "completed", !.env = "idle"]})

(* The Run Engine returns; the report is written a moment later.           *)
EngineReturns(w) ==
    When(w.life = "up" /\ w.re = "running", {[w EXCEPT !.re = "idle", !.pause = FALSE]})
    \cup
    When(w.life = "up" /\ w.re = "running" /\ w.pause /\ w.doing \in {"new", "resume"},
         {[w EXCEPT !.re = "paused", !.pause = FALSE]})

OutcomeOf(option) ==
    CASE option \in {"new", "resume"} -> "completed"
      [] option = "stop"              -> "stopped"
      [] option = "abort"             -> "aborted"

Outcomes(w) == IF w.re = "paused" THEN {"paused"} ELSE {OutcomeOf(w.doing), "failed"}

WritesReport(w) ==
    When(w.life = "up" /\ w.doing # "none" /\ w.re # "running",
         {[w EXCEPT !.report = o, !.told = FALSE, !.doing = "none", !.env = "idle",
                    !.exec = IF o = "paused" THEN @ ELSE "completed"] : o \in Outcomes(w)})

(* The loop ends, the worker waits for the manager's confirmation and      *)
(* leaves.                                                                 *)
ShutsDown(w) ==
    When(w.life = "up" /\ w.exit /\ w.doing = "none" /\ w.env \notin {"initializing", "closing"},
         {[w EXCEPT !.env = "closing"]})
    \cup
    When(w.life = "up" /\ w.env = "closing" /\ w.sure, {Gone})

MainThread(w) ==
    Started(w) \cup TakesPlan(w) \cup EngineReturns(w) \cup WritesReport(w) \cup ShutsDown(w)

=============================================================================
