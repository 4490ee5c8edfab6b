-------------------------- MODULE DeviceOwnership --------------------------
(***************************************************************************)
(* What the lock authority promises, whatever leases, renewals, policies,  *)
(* registry changes and restarts do underneath: a device has at most one   *)
(* owner, ownership is granted on a set of free devices at once, and an    *)
(* owned device becomes free before anyone owns it again.                  *)
(***************************************************************************)
CONSTANTS
    Device,
    Item,
    NoOwner     \* the owner of a free device

VARIABLE owner  \* the item that owns each device

Init == owner = [d \in Device |-> NoOwner]

Grant(D, i) ==
    /\ \A d \in D : owner[d] = NoOwner
    /\ owner' = [d \in Device |-> IF d \in D THEN i ELSE owner[d]]

Withdraw(D) ==
    owner' = [d \in Device |-> IF d \in D THEN NoOwner ELSE owner[d]]

Next == \E D \in SUBSET Device : Withdraw(D) \/ \E i \in Item : Grant(D, i)

Spec == Init /\ [][Next]_owner

=============================================================================
