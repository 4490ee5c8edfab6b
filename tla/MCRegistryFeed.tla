--------------------------- MODULE MCRegistryFeed ---------------------------
(* Small instances of RegistryFeed: two devices with one definition each,   *)
(* or one device with two; no plan locks, which other instances check.      *)
EXTENDS RegistryFeed

CONSTANTS d1, d2, v1, v2

MCDevice  == {d1, d2}
OneDevice == {d1}
MCDef     == {v1}
TwoDefs   == {v1, v2}
MCItem    == {}

OnRow == [spec |-> "active", def |-> v1]

(* The first device is in the profile, the second is not. *)
MCProfile == [d \in Device |-> IF d = d1 THEN OnRow ELSE NoRow]

NoFaults == {}
WriteFaults == {"write"}

NoOverlap   == {}
SyncOverlap == {"sync"}

=============================================================================
