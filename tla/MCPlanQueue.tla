----------------------------- MODULE MCPlanQueue -----------------------------
(* Instances of PlanQueue for TLC.                                         *)
EXTENDS PlanQueue

CONSTANTS i1

OnlyI1 == {i1}

(* Uids are interchangeable, and so are plans.                             *)
Interchange == Permutations(Uid) \cup Permutations(Plan)
=============================================================================
