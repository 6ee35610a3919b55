------------------------------ MODULE LeaseSpec ------------------------------
(***************************************************************************)
(* What exclusive leasing promises, without threads, locks or lazy         *)
(* pruning: a resource has at most one lease in force, every grant carries *)
(* an id never used before, a lease ends when its time is up or when it is *)
(* released, and nothing else ends it.  Fabric.tla is shown to implement   *)
(* this specification.                                                     *)
(***************************************************************************)
EXTENDS Integers

CONSTANTS Resource,   \* resource ids
          Ttl         \* time-to-live values (naturals) a caller may ask for

VARIABLES held,       \* the lease in force on each resource
          issued,     \* the last lease id handed out
          now         \* the clock

specVars == <<held, issued, now>>

\* Lease ids start at 1, so id 0 stands for "no lease".
Vacant == [id |-> 0, expires |-> 0]

\* A lease as seen at time `at`: once its time is up it is no longer there.
InForce(lease, at) == IF lease.expires > at THEN lease ELSE Vacant

Init == /\ held = [r \in Resource |-> Vacant]
        /\ issued = 0
        /\ now = 0

\* A free resource is granted under a fresh id.
Grant(r, ttl) ==
  /\ held[r] = Vacant
  /\ issued' = issued + 1
  /\ held' = [held EXCEPT ![r] =
                InForce([id |-> issued', expires |-> now + ttl], now)]
  /\ UNCHANGED now

\* The lease in force is moved to a new expiry and keeps its id.
Renew(r, ttl) ==
  /\ held[r] # Vacant
  /\ held' = [held EXCEPT ![r] =
                InForce([id |-> held[r].id, expires |-> now + ttl], now)]
  /\ UNCHANGED <<issued, now>>

\* The lease in force is given up.
GiveUp(r) ==
  /\ held[r] # Vacant
  /\ held' = [held EXCEPT ![r] = Vacant]
  /\ UNCHANGED <<issued, now>>

\* Time passes and ends the leases whose time is up.
Elapse ==
  /\ now' = now + 1
  /\ held' = [r \in Resource |-> InForce(held[r], now')]
  /\ UNCHANGED issued

Next == \/ \E r \in Resource, ttl \in Ttl : Grant(r, ttl) \/ Renew(r, ttl)
        \/ \E r \in Resource : GiveUp(r)
        \/ Elapse

Spec == Init /\ [][Next]_specVars
=============================================================================
