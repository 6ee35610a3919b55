------------------------------ MODULE MCFabric ------------------------------
(***************************************************************************)
(* Instances of Fabric for TLC: two threads, one or two resources, and the *)
(* adapters store (fabric-store) and unknown (a name nobody registered).   *)
(***************************************************************************)
EXTENDS Fabric, TLC

CONSTANTS r1, r2, n1, t1, t2, store, unknown

Exclusive(n) == [node |-> n, state |-> "Available", exclusive |-> TRUE]
Shared(n) == [node |-> n, state |-> "Available", exclusive |-> FALSE]
Offline(n) == [node |-> n, state |-> "Unavailable", exclusive |-> TRUE]

OneDescriptor == {Exclusive(n1)}
AnyDescriptor == {Exclusive(n1), Shared(n1), Offline(n1)}

AllExclusive == {[r \in Resource |-> Exclusive(n1)]}
Alike == {[r \in Resource |-> d] : d \in AnyDescriptor \cup {Absent}}

FullSymmetry == {f @@ g : f \in Permutations(Thread), g \in Permutations(Resource)}
=============================================================================
