------------------------------- MODULE Fabric -------------------------------
(***************************************************************************)
(* The resource fabric of nauti-fabric/src/lib.rs: a registry of resources *)
(* and a table of exclusive, time-bounded leases on them, shared by the    *)
(* threads that serve RPC connections and by maintenance calls.            *)
(*                                                                         *)
(* A call of a Fabric method is a sequence of steps, one per critical      *)
(* section of the code: the steps of concurrent calls interleave exactly   *)
(* where the code drops one lock before it takes the next.  The leases     *)
(* mutex is the only lock held across steps (by attach, while the adapter  *)
(* runs and the attachment is recorded); every other critical section is   *)
(* one step.                                                               *)
(***************************************************************************)
EXTENDS Integers, FiniteSets

CONSTANTS
  Resource,      \* resource ids
  Node,          \* node names
  Descriptor,    \* resource values: records [node, state, exclusive]
  Inventory,     \* registries the agent may have built before it serves
  Discoverable,  \* sets of ids one host discovery may return
  Adapter,       \* adapter names a caller may ask for
  Registered,    \* the adapters registered at start-up
  Store,         \* the name of the fabric-store adapter
  Thread,        \* concurrent callers
  Ttl,           \* lease durations callers ask for
  StaleAfter,    \* older_than of evict_stale_nodes
  Ops,           \* the methods callers use
  MaxCalls,      \* bound on client calls
  MaxTime,       \* bound on the clock
  Absent, NoResource, NoAdapter, NoThread

ASSUME FabricAssumption ==
  /\ Descriptor \subseteq [node : Node, state : {"Available", "Unavailable"},
                           exclusive : BOOLEAN]
  /\ Absent \notin Descriptor
  /\ Inventory \subseteq [Resource -> Descriptor \cup {Absent}]
  /\ Discoverable \subseteq SUBSET Resource
  /\ NoResource \notin Resource
  /\ NoAdapter \notin Adapter
  /\ Registered \subseteq Adapter
  /\ NoThread \notin Thread
  /\ Ttl \subseteq Nat
  /\ StaleAfter \in Nat
  /\ MaxCalls \in Nat /\ MaxTime \in Nat

VARIABLES
  resources,    \* registry: id -> descriptor or Absent
  leases,       \* lease table: id -> [id, expires]
  attachments,  \* resource id -> adapter that attached it last
  live,         \* the store adapter's map: set of [lease, resource]
  heartbeats,   \* node -> time of the last beat, or NoBeat
  nextLeaseId,  \* the AtomicU64; far from 2^64 in any run of the program
  leaseLock,    \* the thread that holds the leases mutex across steps
  call,         \* each thread's call in progress
  grants,       \* lease id -> the lease as its caller knows it
  calls,        \* number of client calls made (bounded by MaxCalls)
  now           \* Instant::now()

registry == <<resources, heartbeats>>
adapterState == <<attachments, live>>
leaseState == <<leases, nextLeaseId, grants>>
vars == <<registry, leaseState, adapterState, leaseLock, call, calls, now>>

\* fetch_add(1) + 1 starts at 1: id 0 stands for "no entry in the table".
NoLease == [id |-> 0, expires |-> 0]
NoBeat == -1

PC == {"idle", "lease_commit", "attach_authorize", "attach_adapter",
       "attach_record", "release_take", "release_lookup", "release_detach",
       "release_remove", "register", "evict_owned", "unregister_check",
       "unregister_remove"}

Result == {"none", "ok", "resource_not_found", "resource_unavailable",
           "already_leased", "lease_not_found", "adapter_not_found",
           "adapter_error"}

\* The locals of a call: the lease and resource it is about, and what
\* discovery, refresh and eviction still have to register (add) or
\* unregister (drop).  blocked is RefreshReport.blocked_by_lease, the ids
\* unregister refused; for a call of unregister itself it is the error.
NoCall == [pc |-> "idle", resource |-> NoResource, lease |-> 0, ttl |-> 0,
           adapter |-> NoAdapter, add |-> {}, drop |-> {}, blocked |-> {},
           stale |-> {}, ret |-> "none"]

Lease == [id : Nat, expires : Nat]
Grant == [resource : Resource, until : Nat, open : BOOLEAN]
Call == [pc : PC, resource : Resource \cup {NoResource}, lease : Nat,
         ttl : Nat, adapter : Adapter \cup {NoAdapter},
         add : SUBSET Resource, drop : SUBSET Resource,
         blocked : SUBSET Resource, stale : SUBSET Node, ret : Result]

Init ==
  /\ resources \in Inventory
  /\ leases = [r \in Resource |-> NoLease]
  /\ attachments = [r \in Resource |-> NoAdapter]
  /\ live = {}
  /\ heartbeats = [n \in Node |-> NoBeat]
  /\ nextLeaseId = 0
  /\ leaseLock = NoThread
  /\ call = [t \in Thread |-> NoCall]
  /\ grants = [i \in 1..0 |-> NoLease]
  /\ calls = 0
  /\ now = 0

-----------------------------------------------------------------------------
(* Calls and returns *)

At(t, label) == call[t].pc = label

\* A client call: counted, so that a run has finitely many.
Begin(t, op) ==
  /\ At(t, "idle")
  /\ op \in Ops
  /\ calls < MaxCalls
  /\ calls' = calls + 1

\* A maintenance call: an operator's tool may repeat it for ever.
BeginMaintenance(t, op) ==
  /\ At(t, "idle")
  /\ op \in Ops
  /\ UNCHANGED calls

Enter(t, c) == call' = [call EXCEPT ![t] = c]
Goto(t, label) == call' = [call EXCEPT ![t].pc = label]
Return(t, result) == Enter(t, [NoCall EXCEPT !.ret = result])

\* Mutated form: the mutex is dropped before the adapter runs.
LeasesNeverLocked == TRUE

LeasesUnlocked == leaseLock = NoThread

\* leases.retain(|_, active| active.expires_at > Instant::now())
Retain == [r \in Resource |-> IF leases[r].expires > now
                                THEN leases[r] ELSE NoLease]

\* Leases callers hold, expired, released or not.
Issued == 1..nextLeaseId

-----------------------------------------------------------------------------
(* lease_exclusive *)

Leasable(d) == d.state = "Available" /\ d.exclusive

\* The resource is looked up and its lock dropped before leases is locked.
LeaseExclusive(t, r, ttl) ==
  /\ Begin(t, "lease_exclusive")
  /\ IF resources[r] = Absent THEN Return(t, "resource_not_found")
     ELSE IF ~Leasable(resources[r]) THEN Return(t, "resource_unavailable")
     ELSE Enter(t, [NoCall EXCEPT !.pc = "lease_commit", !.resource = r,
                                  !.ttl = ttl])
  /\ UNCHANGED <<registry, leaseState, adapterState, leaseLock, now>>

\* The leases callers know of, with the next one handed to thread t.
HandOut(t, r, until) ==
  [i \in 1..(nextLeaseId + 1) |->
     IF i \in Issued THEN grants[i]
     ELSE [resource |-> r, until |-> until, open |-> TRUE]]

\* Mutated form: the ttl is subtracted.
GrantLeaseBackdated(t, r, until) ==
  /\ nextLeaseId' = nextLeaseId + 1
  /\ leases' = [Retain EXCEPT ![r] = [id |-> nextLeaseId',
                                      expires |-> now - call[t].ttl]]
  /\ grants' = HandOut(t, r, until)

\* Insert a fresh lease on r and hand it to thread t.
GrantLease(t, r, until) ==
  /\ nextLeaseId' = nextLeaseId + 1
  /\ leases' = [Retain EXCEPT ![r] = [id |-> nextLeaseId', expires |-> until]]
  /\ grants' = HandOut(t, r, until)

\* Mutated form: contains_key is not asked after the prune.
LeaseCommitUnchecked(t) ==
  /\ At(t, "lease_commit")
  /\ LeasesUnlocked
  /\ GrantLease(t, call[t].resource, now + call[t].ttl)
  /\ Return(t, "ok")
  /\ UNCHANGED <<registry, adapterState, leaseLock, calls, now>>

\* Prune every expired lease, then grant unless the resource is leased.
LeaseCommit(t) ==
  /\ At(t, "lease_commit")
  /\ LeasesUnlocked
  /\ LET r == call[t].resource
     IN  \/ /\ Retain[r] # NoLease
            /\ leases' = Retain
            /\ Return(t, "already_leased")
            /\ UNCHANGED <<nextLeaseId, grants>>
         \/ /\ Retain[r] = NoLease
            /\ GrantLease(t, r, now + call[t].ttl)
            /\ Return(t, "ok")
  /\ UNCHANGED <<registry, adapterState, leaseLock, calls, now>>

(* renew_lease: one critical section; expired leases are pruned first. *)
RenewLease(t, i, ttl) ==
  /\ Begin(t, "renew_lease")
  /\ LeasesUnlocked
  /\ LET r == grants[i].resource
     IN  \/ /\ Retain[r].id # i
            /\ leases' = Retain
            /\ Return(t, "lease_not_found")
            /\ UNCHANGED grants
         \/ /\ Retain[r].id = i
            /\ leases' = [Retain EXCEPT ![r].expires = now + ttl]
            /\ grants' = [grants EXCEPT ![i].until = now + ttl]
            /\ Return(t, "ok")
  /\ UNCHANGED <<registry, adapterState, nextLeaseId, leaseLock, now>>

-----------------------------------------------------------------------------
(* attach *)

Attach(t, a, i) ==
  /\ Begin(t, "attach")
  /\ LET r == grants[i].resource
     IN  IF resources[r] = Absent THEN Return(t, "resource_not_found")
         ELSE Enter(t, [NoCall EXCEPT !.pc = "attach_authorize",
                          !.resource = r, !.lease = i, !.adapter = a])
  /\ UNCHANGED <<registry, leaseState, adapterState, leaseLock, now>>

\* The lease presented is the one in the table and has time left.
Authorized(c) == /\ leases[c.resource].id = c.lease
                 /\ leases[c.resource].expires > now

\* Lock leases; from here to attach_record the lock is held.
AttachAuthorize(t) ==
  /\ At(t, "attach_authorize")
  /\ LeasesUnlocked
  /\ \/ /\ ~Authorized(call[t])
        /\ Return(t, "lease_not_found")
        /\ UNCHANGED leaseLock
     \/ /\ Authorized(call[t])
        /\ call[t].adapter \notin Registered
        /\ Return(t, "adapter_not_found")
        /\ UNCHANGED leaseLock
     \/ /\ Authorized(call[t])
        /\ call[t].adapter \in Registered
        /\ leaseLock' = t
        /\ Goto(t, "attach_adapter")
  /\ UNCHANGED <<registry, leaseState, adapterState, calls, now>>

\* The store adapter's live.insert(lease.id, resolution).
StoreInsert(c) == {e \in live : e.lease # c.lease}
                    \cup {[lease |-> c.lease, resource |-> c.resource]}

\* adapter.attach: only the store adapter keeps state; any adapter may refuse
\* (wrong kind, missing attribute, backend unavailable).
AttachAdapter(t) ==
  /\ At(t, "attach_adapter")
  /\ \/ /\ live' = IF call[t].adapter = Store THEN StoreInsert(call[t])
                                              ELSE live
        /\ Goto(t, "attach_record")
        /\ UNCHANGED leaseLock
     \/ /\ Return(t, "adapter_error")
        /\ leaseLock' = NoThread
        /\ UNCHANGED live
  /\ UNCHANGED <<registry, leaseState, attachments, calls, now>>

AttachRecord(t) ==
  /\ At(t, "attach_record")
  /\ attachments' = [attachments EXCEPT ![call[t].resource] = call[t].adapter]
  /\ leaseLock' = NoThread
  /\ Return(t, "ok")
  /\ UNCHANGED <<registry, leaseState, live, calls, now>>

-----------------------------------------------------------------------------
(* release *)

\* Mutated form: any lease on the resource will do.
InTableAny(r, i) == leases[r] # NoLease

\* The table's entry for r is lease i.
InTable(r, i) == leases[r].id = i

\* First look at the table: the id must match; expiry is not looked at.
Release(t, i) ==
  /\ Begin(t, "release")
  /\ LeasesUnlocked
  /\ LET r == grants[i].resource
     IN  IF InTable(r, i)
           THEN Enter(t, [NoCall EXCEPT !.pc = "release_take",
                                        !.resource = r, !.lease = i])
           ELSE Return(t, "lease_not_found")
  /\ UNCHANGED <<registry, leaseState, adapterState, leaseLock, now>>

\* attachments.remove(resource_id), after leases has been unlocked.
ReleaseTake(t) ==
  /\ At(t, "release_take")
  /\ LET r == call[t].resource
     IN  /\ attachments' = [attachments EXCEPT ![r] = NoAdapter]
         /\ IF attachments[r] = NoAdapter
              THEN Goto(t, "release_remove")
              ELSE Enter(t, [call[t] EXCEPT !.pc = "release_lookup",
                                            !.adapter = attachments[r]])
  /\ UNCHANGED <<registry, leaseState, live, leaseLock, calls, now>>

\* An unregistered resource, or adapter, skips the detach.
ReleaseLookup(t) ==
  /\ At(t, "release_lookup")
  /\ Goto(t, IF /\ resources[call[t].resource] # Absent
                /\ call[t].adapter \in Registered
               THEN "release_detach" ELSE "release_remove")
  /\ UNCHANGED <<registry, leaseState, adapterState, leaseLock, calls, now>>

\* Mutated form: the match arms are swapped.
DetachRefusedSwapped(c) == /\ c.adapter = Store
                           /\ \E e \in live : /\ e.lease = c.lease
                                              /\ e.resource = c.resource

\* The store adapter's detach refuses a lease it holds for another resource.
DetachRefused(c) == /\ c.adapter = Store
                    /\ \E e \in live : /\ e.lease = c.lease
                                       /\ e.resource # c.resource

\* live.remove(&lease.id)
StoreRemove(c) == IF c.adapter = Store THEN {e \in live : e.lease # c.lease}
                                       ELSE live

\* adapter.detach(&resource, lease)?: a refusal leaves the lease in place.
ReleaseDetach(t) ==
  /\ At(t, "release_detach")
  /\ IF DetachRefused(call[t])
       THEN Return(t, "lease_not_found") /\ UNCHANGED live
       ELSE Goto(t, "release_remove") /\ live' = StoreRemove(call[t])
  /\ UNCHANGED <<registry, leaseState, attachments, leaseLock, calls, now>>

\* Second look at the table, under the lock again: the id must still match.
ReleaseRemove(t) ==
  /\ At(t, "release_remove")
  /\ LeasesUnlocked
  /\ LET r == call[t].resource
         i == call[t].lease
     IN  \/ /\ InTable(r, i)
            /\ leases' = [leases EXCEPT ![r] = NoLease]
            /\ grants' = [grants EXCEPT ![i].open = FALSE]
            /\ Return(t, "ok")
         \/ /\ ~InTable(r, i)
            /\ Return(t, "lease_not_found")
            /\ UNCHANGED <<leases, grants>>
  /\ UNCHANGED <<registry, adapterState, nextLeaseId, leaseLock, calls, now>>

-----------------------------------------------------------------------------
(* The registry: register, discover_local, refresh_local, unregister *)

Register(t, r, d) ==
  /\ Begin(t, "register")
  /\ resources' = [resources EXCEPT ![r] = d]
  /\ Return(t, "ok")
  /\ UNCHANGED <<heartbeats, leaseState, adapterState, leaseLock, now>>

\* Where a call goes once `add` and `drop` are known: additions come first.
NextWork(c) ==
  IF c.add # {} THEN [c EXCEPT !.pc = "register"]
  ELSE IF c.drop # {} THEN [c EXCEPT !.pc = "unregister_check",
                                     !.resource = NoResource]
  ELSE [NoCall EXCEPT !.ret = "ok", !.blocked = c.blocked]

\* discover_local registers whatever the host shows.
DiscoverLocal(t, found) ==
  /\ BeginMaintenance(t, "discover_local")
  /\ Enter(t, NextWork([NoCall EXCEPT !.add = found]))
  /\ UNCHANGED <<registry, leaseState, adapterState, leaseLock, now>>

\* refresh_local compares the discovery with one snapshot of the registry:
\* every id of the registry that the host does not show is to go.
RefreshLocal(t, found) ==
  /\ BeginMaintenance(t, "refresh_local")
  /\ LET current == {r \in Resource : resources[r] # Absent}
     IN  Enter(t, NextWork([NoCall EXCEPT !.add = found \ current,
                                          !.drop = current \ found]))
  /\ UNCHANGED <<registry, leaseState, adapterState, leaseLock, now>>

RegisterNext(t) ==
  /\ At(t, "register")
  /\ \E r \in call[t].add, d \in Descriptor :
       /\ resources' = [resources EXCEPT ![r] = d]
       /\ Enter(t, NextWork([call[t] EXCEPT !.add = @ \ {r}]))
  /\ UNCHANGED <<heartbeats, leaseState, adapterState, leaseLock, calls, now>>

Unregister(t, r) ==
  /\ Begin(t, "unregister")
  /\ Enter(t, NextWork([NoCall EXCEPT !.drop = {r}]))
  /\ UNCHANGED <<registry, leaseState, adapterState, leaseLock, now>>

\* leases.contains_key(resource_id): an expired entry counts.
Leased(r) == leases[r] # NoLease

\* Mutated form: a refused id is tried again.
UnregisterCheckRetries(t) ==
  /\ At(t, "unregister_check")
  /\ LeasesUnlocked
  /\ \E r \in call[t].drop :
       Enter(t, IF Leased(r)
                  THEN [call[t] EXCEPT !.blocked = @ \cup {r}]
                  ELSE [call[t] EXCEPT !.pc = "unregister_remove",
                                       !.resource = r, !.drop = @ \ {r}])
  /\ UNCHANGED <<registry, leaseState, adapterState, leaseLock, calls, now>>

\* The table is looked at under the leases lock, which is then dropped.  A
\* refusal ends unregister; refresh and evict go on with the next id.
UnregisterCheck(t) ==
  /\ At(t, "unregister_check")
  /\ LeasesUnlocked
  /\ \E r \in call[t].drop :
       Enter(t, IF Leased(r)
                  THEN NextWork([call[t] EXCEPT !.drop = @ \ {r},
                                                !.blocked = @ \cup {r}])
                  ELSE [call[t] EXCEPT !.pc = "unregister_remove",
                                       !.resource = r, !.drop = @ \ {r}])
  /\ UNCHANGED <<registry, leaseState, adapterState, leaseLock, calls, now>>

\* Mutated form: whatever lease is on the resource goes with it.
UnregisterRemoveWithLease(t) ==
  /\ At(t, "unregister_remove")
  /\ resources' = [resources EXCEPT ![call[t].resource] = Absent]
  /\ leases' = [leases EXCEPT ![call[t].resource] = NoLease]
  /\ Enter(t, NextWork(call[t]))
  /\ UNCHANGED <<heartbeats, nextLeaseId, grants, adapterState, leaseLock, calls, now>>

\* The removal itself, under the resources lock alone.
UnregisterRemove(t) ==
  /\ At(t, "unregister_remove")
  /\ resources' = [resources EXCEPT ![call[t].resource] = Absent]
  /\ Enter(t, NextWork(call[t]))
  /\ UNCHANGED <<heartbeats, leaseState, adapterState, leaseLock, calls, now>>

-----------------------------------------------------------------------------
(* heartbeat and evict_stale_nodes *)

Heartbeat(t, n) ==
  /\ Begin(t, "heartbeat")
  /\ heartbeats' = [heartbeats EXCEPT ![n] = now]
  /\ Return(t, "ok")
  /\ UNCHANGED <<resources, leaseState, adapterState, leaseLock, now>>

\* seen < Instant::now() - older_than
IsStale(n) == /\ heartbeats[n] # NoBeat
              /\ heartbeats[n] + StaleAfter < now

\* Stale entries are collected and removed under the heartbeats lock; the
\* cutoff is the clock's reading of this step.
EvictStaleNodes(t) ==
  /\ BeginMaintenance(t, "evict_stale_nodes")
  /\ LET stale == {n \in Node : IsStale(n)}
     IN  /\ heartbeats' = [n \in Node |-> IF n \in stale
                                            THEN NoBeat ELSE heartbeats[n]]
         /\ IF stale = {} THEN Return(t, "ok")
            ELSE Enter(t, [NoCall EXCEPT !.pc = "evict_owned",
                                         !.stale = stale])
  /\ UNCHANGED <<resources, leaseState, adapterState, leaseLock, now>>

\* The ids those nodes own, from a later snapshot of the registry.
OwnedBy(nodes) == {r \in Resource : /\ resources[r] # Absent
                                    /\ resources[r].node \in nodes}

EvictOwned(t) ==
  /\ At(t, "evict_owned")
  /\ Enter(t, NextWork([call[t] EXCEPT !.drop = OwnedBy(call[t].stale)]))
  /\ UNCHANGED <<registry, leaseState, adapterState, leaseLock, calls, now>>

-----------------------------------------------------------------------------
(* The specification *)

Tick ==
  /\ now < MaxTime
  /\ now' = now + 1
  /\ UNCHANGED <<registry, leaseState, adapterState, leaseLock, call, calls>>

\* The steps of a call after its first one.
Step(t) ==
  \/ LeaseCommit(t)
  \/ AttachAuthorize(t) \/ AttachAdapter(t) \/ AttachRecord(t)
  \/ ReleaseTake(t) \/ ReleaseLookup(t) \/ ReleaseDetach(t)
  \/ ReleaseRemove(t)
  \/ RegisterNext(t) \/ UnregisterCheck(t) \/ UnregisterRemove(t)
  \/ EvictOwned(t)

\* The first step of a call.
Invoke(t) ==
  \/ \E r \in Resource, ttl \in Ttl : LeaseExclusive(t, r, ttl)
  \/ \E i \in Issued, ttl \in Ttl : RenewLease(t, i, ttl)
  \/ \E a \in Adapter, i \in Issued : Attach(t, a, i)
  \/ \E i \in Issued : Release(t, i)
  \/ \E r \in Resource, d \in Descriptor : Register(t, r, d)
  \/ \E r \in Resource : Unregister(t, r)
  \/ \E found \in Discoverable : DiscoverLocal(t, found)
                                 \/ RefreshLocal(t, found)
  \/ \E n \in Node : Heartbeat(t, n)
  \/ EvictStaleNodes(t)

\* Every call has returned and the bounds are used up.
Quiescent ==
  /\ calls = MaxCalls /\ now = MaxTime
  /\ \A t \in Thread : At(t, "idle")
  /\ UNCHANGED vars

Next == \/ \E t \in Thread : Invoke(t) \/ Step(t)
        \/ Tick
        \/ Quiescent

Spec == Init /\ [][Next]_vars

\* A thread inside a call keeps running, and the clock keeps ticking; nobody
\* is obliged to make a call.
Fairness == /\ \A t \in Thread : WF_vars(Step(t))
            /\ WF_vars(Tick)

FairSpec == Spec /\ Fairness

-----------------------------------------------------------------------------
(* Properties *)

\* Every variable keeps its type.  What the code could get wrong here is the
\* lease arithmetic: an expiry is never before the epoch, and the callers'
\* leases are exactly those with an id up to next_lease_id.
TypeOK ==
  /\ resources \in [Resource -> Descriptor \cup {Absent}]
  /\ leases \in [Resource -> Lease]
  /\ attachments \in [Resource -> Adapter \cup {NoAdapter}]
  /\ live \subseteq [lease : Nat, resource : Resource]
  /\ heartbeats \in [Node -> Nat \cup {NoBeat}]
  /\ nextLeaseId \in Nat
  /\ leaseLock \in Thread \cup {NoThread}
  /\ call \in [Thread -> Call]
  /\ grants \in [Issued -> Grant]
  /\ calls \in Nat
  /\ now \in Nat

\* A lease its caller may rely on: not given up, and with time left.
Valid(i) == grants[i].open /\ grants[i].until > now

\* A lease that was granted stays in the table, with the expiry its caller was
\* told, until its time is up or a release of that very lease removes it: no
\* pruning, unregistering, eviction or stale release of another lease on the
\* resource takes it away.
ValidLeaseIsKept ==
  \A i \in Issued : Valid(i) =>
    leases[grants[i].resource] = [id |-> i, expires |-> grants[i].until]

\* lease_exclusive is exclusive over time: two leases on one resource are
\* never both valid, whatever the interleaving of expiry, lazy pruning,
\* renewal and duplicate releases.
AtMostOneHolder ==
  \A i, j \in Issued :
    (i # j /\ grants[i].resource = grants[j].resource)
      => ~(Valid(i) /\ Valid(j))

Attaching(t) == call[t].pc \in {"attach_adapter", "attach_record"}

\* attach holds the leases lock from its check to the end, so the lease under
\* which an adapter runs, and under which the attachment is then recorded, is
\* still the one in the table: it can be neither released nor re-granted.
AttachUnderLease ==
  \A t \in Thread : Attaching(t) =>
    /\ leaseLock = t
    /\ InTable(call[t].resource, call[t].lease)

\* release never ends early in `adapter.detach(..)?`, having dropped the
\* attachment record but kept the lease: the store only knows a lease under
\* the resource it was granted for.
DetachNeverRefused ==
  \A t \in Thread : At(t, "release_detach") => ~DetachRefused(call[t])

\* What the fabric promises its callers about leases, expired entries that
\* still sit in the table left out: pruning them is not visible.
Leasing == INSTANCE LeaseSpec WITH held <- Retain, issued <- nextLeaseId

\* The fabric, with its threads, its locks dropped between steps and its lazy
\* pruning, implements exclusive leasing.
ImplementsLeasing == Leasing!Spec

\* Every call returns: no call waits for ever on the leases lock or loops over
\* what it has to register or unregister, however calls interleave.
CallsReturn == \A t \in Thread : ~At(t, "idle") ~> At(t, "idle")

\* A release that found its lease in the table ends that lease, even when the
\* resource was unregistered or another release overtook it: it never returns
\* early between dropping the attachment record and removing the lease.
ReleaseEndsLease ==
  \A t \in Thread, i \in 1..MaxCalls :
    (At(t, "release_take") /\ call[t].lease = i)
      ~> \A r \in Resource : ~InTable(r, i)

\* unregister (and so refresh and eviction) never leaves a valid lease on a
\* resource that is no longer registered.
NoOrphanedLease ==
  \A i \in Issued : Valid(i) => resources[grants[i].resource] # Absent

\* A resource of an evicted node is unregistered in the end, a lease on it
\* notwithstanding, unless the node comes back (or the lease outlives the
\* clock's bound): its expiry is said to reclaim it.
EvictedIsReclaimed ==
  \A r \in Resource :
    (\E t \in Thread : call[t].stale # {} /\ r \in call[t].drop)
      ~> \/ resources[r] = Absent
         \/ heartbeats[resources[r].node] # NoBeat
         \/ leases[r].expires > MaxTime

\* Eviction is called again and again.
EvictingSpec == /\ FairSpec
                /\ \A t \in Thread : WF_vars(EvictStaleNodes(t))
=============================================================================
