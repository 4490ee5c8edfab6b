------------------------- MODULE MCLockCoordinator -------------------------
(* Small instances of LockCoordinator: two devices, two or three sessions   *)
(* and one other owner of locks.                                            *)
EXTENDS LockCoordinator, TLC

CONSTANTS d1, d2, p1, p2, p3, o1

MCDevice    == {d1, d2}
OneDevice   == {d1}
OneSession  == {p1}
OneItem     == {p1, o1}
MCSessions  == {p1, p2}
MCSessions3 == {p1, p2, p3}
MCOthers    == {o1}
MCItem      == MCSessions \cup MCOthers
MCItem3     == MCSessions3 \cup MCOthers

NoFaults      == {}
CallFaults    == {"timeout", "audit", "manager", "other"}
TimeoutFault  == {"timeout"}
RestartFault  == {"restart"}
OperatorFault == {"operator"}
SettleFaults  == {"restart", "other", "operator", "reset"}
EnvFaults     == {"manager", "audit", "other"}

Symmetry == Permutations(MCDevice)

=============================================================================
