----------------------- MODULE MCConfigurationService -----------------------
(* A small instance of ConfigurationService: two devices, of which the      *)
(* profile declares one, and two queue items competing for them.            *)
EXTENDS ConfigurationService, TLC

CONSTANTS d1, d2, i1, i2

MCDevice  == {d1, d2}
MCItem    == {i1, i2}
MCDef     == {1, 2}
MCProfile == [d \in MCDevice |-> IF d = d1 THEN [spec |-> "active", def |-> 1] ELSE NoRow]

CrudFaults   == {"write", "wipe"}
ReseedFaults == {"write", "wipe", "seed"}

Sym == Permutations(MCItem)

=============================================================================
