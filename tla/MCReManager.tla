---------------------------- MODULE MCReManager ----------------------------
(* Small instances of ReManager: two plans, three worker processes.        *)
EXTENDS ReManager

CONSTANTS a, b

TwoPlans == <<a, b>>
Three    == 1..3

None     == [f \in External |-> 0]
Open     == [None EXCEPT !.open = 1]

(* Three requests when nothing fails; two, and one failure.                *)
OneFailure ==
    {[None EXCEPT !.request = 3], [Open EXCEPT !.request = 3],
     [None EXCEPT !.request = 1, !.restart = 1]}
    \cup UNION {{[x EXCEPT !.request = 2, !.edit = 1], [x EXCEPT !.request = 2, !.destroy = 1],
                 [x EXCEPT !.request = 2, !.dies = 1], [x EXCEPT !.request = 2, !.late = 1]}
                : x \in {None, Open}}
    \cup {[Open EXCEPT !.request = 2, !.restart = 1]}

(* What the runs that show a disagreement need.                            *)
WorkerMayDie  == {[Open EXCEPT !.request = 1, !.dies = 1]}
ThreeRequests == {[Open EXCEPT !.request = 3]}
RashDestroy   == {[None EXCEPT !.request = 2, !.destroy = 1, !.rash = 1]}
SlowService   == {[None EXCEPT !.request = 2, !.slow = 1]}
RashEdit      == {[Open EXCEPT !.request = 1, !.edit = 1, !.rash = 1]}
RunLost       == {[Open EXCEPT !.request = 1, !.lost = 1]}
Stray         == {[Open EXCEPT !.request = 3, !.stray = 1]}
=============================================================================
