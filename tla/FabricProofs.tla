----------------------------- MODULE FabricProofs -----------------------------
(***************************************************************************)
(* Theorems about Fabric.tla, for every set of resources, threads,         *)
(* adapters and durations and without the bounds TLC needs.                *)
(***************************************************************************)
EXTENDS Fabric, TLAPS

\* Every entry of the lease table is an open grant of that resource, with the
\* expiry its caller was told.
TableIsGranted ==
  \A r \in Resource :
    \/ leases[r] = NoLease
    \/ /\ leases[r].id \in Issued
       /\ grants[leases[r].id].resource = r
       /\ grants[leases[r].id].open
       /\ grants[leases[r].id].until = leases[r].expires

\* The labels of calls that carry a lease.
LeaseLabels == {"attach_authorize", "attach_adapter", "attach_record",
                "release_take", "release_lookup", "release_detach",
                "release_remove"}

\* A call about a lease names the resource that lease was granted for, a call
\* about to touch one resource names one, and a ttl is one a caller asked for.
SaneCall(c) ==
  /\ c.pc \in LeaseLabels => /\ c.lease \in Issued
                             /\ c.resource = grants[c.lease].resource
  /\ c.pc \in {"lease_commit", "unregister_remove"} => c.resource \in Resource
  /\ c.pc = "lease_commit" => c.ttl \in Ttl

CallsAreSane == \A t \in Thread : SaneCall(call[t])

\* The store adapter only knows leases, under their own resource.
LiveIsGranted ==
  \A e \in live : e.lease \in Issued /\ e.resource = grants[e.lease].resource

LeaseInv == /\ TypeOK
            /\ TableIsGranted
            /\ ValidLeaseIsKept
            /\ CallsAreSane
            /\ LiveIsGranted
            /\ AttachUnderLease

-----------------------------------------------------------------------------
(* Calls that leave the leases, the store and the clock alone *)

\* The registry, the attachment records and the bounds keep their types.
RestTypeOK ==
  /\ resources \in [Resource -> Descriptor \cup {Absent}]
  /\ attachments \in [Resource -> Adapter \cup {NoAdapter}]
  /\ heartbeats \in [Node -> Nat \cup {NoBeat}]
  /\ calls \in Nat

\* A step that only moves one call on, to a state outside the section attach
\* runs under the leases lock, preserves the invariant.
LEMMA CallMovesOn ==
  ASSUME LeaseInv, NEW t \in Thread, NEW c \in Call, SaneCall(c),
         Enter(t, c), c.pc \notin {"attach_adapter", "attach_record"},
         RestTypeOK', UNCHANGED <<leases, nextLeaseId, grants, live,
                                  leaseLock, now>>
  PROVE  LeaseInv'
<1> USE DEF LeaseInv, Enter
<1>1. TypeOK'
  BY DEF TypeOK, RestTypeOK, Issued
<1>2. TableIsGranted' /\ ValidLeaseIsKept'
  BY DEF TableIsGranted, ValidLeaseIsKept, Valid, Issued
<1>3. CallsAreSane'
  BY DEF CallsAreSane, SaneCall, Issued, TypeOK
<1>4. LiveIsGranted'
  BY DEF LiveIsGranted, Issued
<1>5. AttachUnderLease'
  BY DEF AttachUnderLease, Attaching, InTable, TypeOK
<1> QED BY <1>1, <1>2, <1>3, <1>4, <1>5
\* The registry, the attachments and the leases stay as they are.
OnlyCallMoves ==
  /\ UNCHANGED <<resources, heartbeats, leases, nextLeaseId, grants,
                 attachments, live, leaseLock, now>>
  /\ calls' \in {calls, calls + 1}

LEMMA LookupMovesOn ==
  ASSUME LeaseInv, NEW t \in Thread, NEW c \in Call, SaneCall(c),
         Enter(t, c), c.pc \notin {"attach_adapter", "attach_record"},
         OnlyCallMoves
  PROVE  LeaseInv'
<1>1. RestTypeOK'
  BY DEF OnlyCallMoves, RestTypeOK, LeaseInv, TypeOK
<1> QED BY <1>1, CallMovesOn DEF OnlyCallMoves

\* NoCall and what NextWork makes of a call are calls; neither names a lease.
LEMMA NoCallSane ==
  ASSUME NEW res \in Result
  PROVE  /\ [NoCall EXCEPT !.ret = res] \in Call
         /\ SaneCall([NoCall EXCEPT !.ret = res])
         /\ [NoCall EXCEPT !.ret = res].pc = "idle"
BY DEF NoCall, Call, PC, Result, SaneCall, LeaseLabels

LEMMA NextWorkSane ==
  ASSUME NEW c \in Call
  PROVE  /\ NextWork(c) \in Call
         /\ SaneCall(NextWork(c))
         /\ NextWork(c).pc \notin {"attach_adapter", "attach_record"}
BY DEF NextWork, NoCall, Call, PC, Result, SaneCall, LeaseLabels

\* Steps of lease_exclusive, attach and release that look, and of the whole
\* registry side, preserve the invariant.
LEMMA LookupsPreserve ==
  ASSUME LeaseInv, NEW t \in Thread,
         \/ \E r \in Resource, ttl \in Ttl : LeaseExclusive(t, r, ttl)
         \/ \E a \in Adapter, i \in Issued : Attach(t, a, i)
         \/ \E i \in Issued : Release(t, i)
         \/ ReleaseTake(t)
         \/ ReleaseLookup(t)
  PROVE  LeaseInv'
<1>1. ASSUME NEW r \in Resource, NEW ttl \in Ttl, LeaseExclusive(t, r, ttl)
      PROVE  LeaseInv'
  <2> DEFINE c == [NoCall EXCEPT !.pc = "lease_commit", !.resource = r,
                                 !.ttl = ttl]
  <2>1. c \in Call /\ SaneCall(c) /\ c.pc = "lease_commit"
    BY FabricAssumption DEF NoCall, Call, PC, Result, SaneCall, LeaseLabels
  <2>2. OnlyCallMoves
    BY <1>1 DEF LeaseExclusive, Begin, OnlyCallMoves, registry, leaseState,
                adapterState
  <2>3. \/ Enter(t, c)
        \/ \E res \in Result : Enter(t, [NoCall EXCEPT !.ret = res])
    BY <1>1 DEF LeaseExclusive, Return, Result
  <2> QED BY <2>1, <2>2, <2>3, LookupMovesOn, NoCallSane
<1>2. ASSUME NEW a \in Adapter, NEW i \in Issued, Attach(t, a, i)
      PROVE  LeaseInv'
  <2> DEFINE c == [NoCall EXCEPT !.pc = "attach_authorize",
                     !.resource = grants[i].resource, !.lease = i,
                     !.adapter = a]
  <2>0. grants[i].resource \in Resource /\ i \in Nat
    BY DEF LeaseInv, TypeOK, Grant, Issued
  <2>1. c \in Call /\ SaneCall(c) /\ c.pc = "attach_authorize"
    BY <2>0 DEF NoCall, Call, PC, Result, SaneCall, LeaseLabels
  <2>2. OnlyCallMoves
    BY <1>2 DEF Attach, Begin, OnlyCallMoves, registry, leaseState,
                adapterState
  <2>3. \/ Enter(t, c)
        \/ \E res \in Result : Enter(t, [NoCall EXCEPT !.ret = res])
    BY <1>2 DEF Attach, Return, Result
  <2> QED BY <2>1, <2>2, <2>3, LookupMovesOn, NoCallSane
<1>3. ASSUME NEW i \in Issued, Release(t, i)
      PROVE  LeaseInv'
  <2> DEFINE c == [NoCall EXCEPT !.pc = "release_take",
                     !.resource = grants[i].resource, !.lease = i]
  <2>0. grants[i].resource \in Resource /\ i \in Nat
    BY DEF LeaseInv, TypeOK, Grant, Issued
  <2>1. c \in Call /\ SaneCall(c) /\ c.pc = "release_take"
    BY <2>0 DEF NoCall, Call, PC, Result, SaneCall, LeaseLabels
  <2>2. OnlyCallMoves
    BY <1>3 DEF Release, Begin, OnlyCallMoves, registry, leaseState,
                adapterState
  <2>3. \/ Enter(t, c)
        \/ \E res \in Result : Enter(t, [NoCall EXCEPT !.ret = res])
    BY <1>3 DEF Release, Return, Result
  <2> QED BY <2>1, <2>2, <2>3, LookupMovesOn, NoCallSane
<1>4. CASE ReleaseTake(t)
  <2> DEFINE r == call[t].resource
             c == [call[t] EXCEPT !.pc = "release_lookup",
                                  !.adapter = attachments[r]]
             d == [call[t] EXCEPT !.pc = "release_remove"]
  <2>0. call[t] \in Call /\ SaneCall(call[t]) /\ call[t].pc = "release_take"
    BY <1>4 DEF ReleaseTake, At, LeaseInv, TypeOK, CallsAreSane, SaneCall
  <2>1. r \in Resource
    BY <2>0 DEF SaneCall, LeaseLabels, LeaseInv, TypeOK, Grant
  <2>2. c \in Call /\ SaneCall(c) /\ c.pc = "release_lookup"
    BY <2>0, <2>1 DEF Call, PC, SaneCall, LeaseLabels, LeaseInv, TypeOK
  <2>3. d \in Call /\ SaneCall(d) /\ d.pc = "release_remove"
    BY <2>0 DEF Call, PC, SaneCall, LeaseLabels
  <2>4. RestTypeOK' /\ UNCHANGED <<leases, nextLeaseId, grants, live,
                                   leaseLock, now>>
    BY <1>4 DEF ReleaseTake, registry, leaseState, LeaseInv, TypeOK,
                RestTypeOK
  <2>5. Enter(t, c) \/ Enter(t, d)
    BY <1>4, <2>0 DEF ReleaseTake, Goto, Enter, LeaseInv, TypeOK
  <2> QED BY <2>2, <2>3, <2>4, <2>5, CallMovesOn
<1>5. CASE ReleaseLookup(t)
  <2>0. call[t] \in Call /\ SaneCall(call[t]) /\ call[t].pc = "release_lookup"
    BY <1>5 DEF ReleaseLookup, At, LeaseInv, TypeOK, CallsAreSane, SaneCall
  <2>1. ASSUME NEW label \in {"release_detach", "release_remove"}
        PROVE  LET c == [call[t] EXCEPT !.pc = label]
               IN  c \in Call /\ SaneCall(c) /\ c.pc = label
    BY <2>0 DEF Call, PC, SaneCall, LeaseLabels
  <2>2. OnlyCallMoves
    BY <1>5 DEF ReleaseLookup, OnlyCallMoves, registry, leaseState,
                adapterState
  <2>3. \E label \in {"release_detach", "release_remove"} :
          Enter(t, [call[t] EXCEPT !.pc = label])
    BY <1>5 DEF ReleaseLookup, Goto, Enter
  <2> QED BY <2>1, <2>2, <2>3, LookupMovesOn
<1> QED BY <1>1, <1>2, <1>3, <1>4, <1>5
\* register, discovery, refresh, unregister, heartbeat and eviction preserve
\* the invariant: none of their steps touches the lease table.
LEMMA RegistryPreserves ==
  ASSUME LeaseInv, NEW t \in Thread,
         \/ \E r \in Resource, d \in Descriptor : Register(t, r, d)
         \/ \E r \in Resource : Unregister(t, r)
         \/ \E found \in Discoverable : DiscoverLocal(t, found)
                                        \/ RefreshLocal(t, found)
         \/ \E n \in Node : Heartbeat(t, n)
         \/ EvictStaleNodes(t)
         \/ RegisterNext(t)
         \/ UnregisterCheck(t)
         \/ UnregisterRemove(t)
         \/ EvictOwned(t)
  PROVE  LeaseInv'
<1> DEFINE Frame == UNCHANGED <<leases, nextLeaseId, grants, live, leaseLock,
                                now>>
<1>0. call[t] \in Call /\ SaneCall(call[t])
  BY DEF LeaseInv, TypeOK, CallsAreSane, SaneCall
<1>1. ASSUME NEW r \in Resource, NEW d \in Descriptor, Register(t, r, d)
      PROVE  LeaseInv'
  <2>1. RestTypeOK'
    BY <1>1 DEF Register, Begin, RestTypeOK, LeaseInv, TypeOK, adapterState
  <2>2. Frame
    BY <1>1 DEF Register, leaseState, adapterState
  <2>3. Enter(t, [NoCall EXCEPT !.ret = "ok"]) /\ "ok" \in Result
    BY <1>1 DEF Register, Return, Result
  <2> QED BY <2>1, <2>2, <2>3, CallMovesOn, NoCallSane
<1>2. ASSUME NEW r \in Resource, Unregister(t, r)
      PROVE  LeaseInv'
  <2>1. OnlyCallMoves
    BY <1>2 DEF Unregister, Begin, OnlyCallMoves, registry, leaseState,
                adapterState
  <2>2. [NoCall EXCEPT !.drop = {r}] \in Call
    BY DEF NoCall, Call, PC, Result
  <2>3. Enter(t, NextWork([NoCall EXCEPT !.drop = {r}]))
    BY <1>2 DEF Unregister
  <2> QED BY <2>1, <2>2, <2>3, LookupMovesOn, NextWorkSane
<1>3. ASSUME NEW found \in Discoverable, DiscoverLocal(t, found)
      PROVE  LeaseInv'
  <2>1. OnlyCallMoves
    BY <1>3 DEF DiscoverLocal, BeginMaintenance, OnlyCallMoves, registry,
                leaseState, adapterState
  <2>2. [NoCall EXCEPT !.add = found] \in Call
    BY FabricAssumption DEF NoCall, Call, PC, Result
  <2>3. Enter(t, NextWork([NoCall EXCEPT !.add = found]))
    BY <1>3 DEF DiscoverLocal
  <2> QED BY <2>1, <2>2, <2>3, LookupMovesOn, NextWorkSane
<1>4. ASSUME NEW found \in Discoverable, RefreshLocal(t, found)
      PROVE  LeaseInv'
  <2> DEFINE current == {r \in Resource : resources[r] # Absent}
             c == [NoCall EXCEPT !.add = found \ current,
                                 !.drop = current \ found]
  <2>1. OnlyCallMoves
    BY <1>4 DEF RefreshLocal, BeginMaintenance, OnlyCallMoves, registry,
                leaseState, adapterState
  <2>2. c \in Call
    BY FabricAssumption DEF NoCall, Call, PC, Result
  <2>3. Enter(t, NextWork(c))
    BY <1>4 DEF RefreshLocal
  <2> QED BY <2>1, <2>2, <2>3, LookupMovesOn, NextWorkSane
<1>5. ASSUME NEW n \in Node, Heartbeat(t, n)
      PROVE  LeaseInv'
  <2>1. RestTypeOK'
    BY <1>5 DEF Heartbeat, Begin, RestTypeOK, LeaseInv, TypeOK, adapterState
  <2>2. Frame
    BY <1>5 DEF Heartbeat, leaseState, adapterState
  <2>3. Enter(t, [NoCall EXCEPT !.ret = "ok"]) /\ "ok" \in Result
    BY <1>5 DEF Heartbeat, Return, Result
  <2> QED BY <2>1, <2>2, <2>3, CallMovesOn, NoCallSane
<1>6. CASE EvictStaleNodes(t)
  <2> DEFINE stale == {n \in Node : IsStale(n)}
             c == [NoCall EXCEPT !.pc = "evict_owned", !.stale = stale]
  <2>1. RestTypeOK'
    BY <1>6 DEF EvictStaleNodes, BeginMaintenance, RestTypeOK, LeaseInv,
                TypeOK, adapterState
  <2>2. Frame
    BY <1>6 DEF EvictStaleNodes, leaseState, adapterState
  <2>3. c \in Call /\ SaneCall(c) /\ c.pc = "evict_owned"
    BY DEF NoCall, Call, PC, Result, SaneCall, LeaseLabels
  <2>4. \/ Enter(t, c)
        \/ \E res \in Result : Enter(t, [NoCall EXCEPT !.ret = res])
    BY <1>6 DEF EvictStaleNodes, Return, Result
  <2> QED BY <2>1, <2>2, <2>3, <2>4, CallMovesOn, NoCallSane
<1>7. CASE RegisterNext(t)
  <2>1. PICK r \in call[t].add, d \in Descriptor :
          /\ resources' = [resources EXCEPT ![r] = d]
          /\ Enter(t, NextWork([call[t] EXCEPT !.add = @ \ {r}]))
    BY <1>7 DEF RegisterNext
  <2>2. RestTypeOK'
    BY <1>7, <2>1 DEF RegisterNext, RestTypeOK, LeaseInv, TypeOK,
                      adapterState
  <2>3. Frame
    BY <1>7 DEF RegisterNext, leaseState, adapterState
  <2>4. [call[t] EXCEPT !.add = @ \ {r}] \in Call
    BY <1>0 DEF Call
  <2> QED BY <2>1, <2>2, <2>3, <2>4, CallMovesOn, NextWorkSane
<1>8. CASE UnregisterCheck(t)
  <2>1. PICK r \in call[t].drop :
          Enter(t, IF Leased(r)
                     THEN NextWork([call[t] EXCEPT !.drop = @ \ {r},
                                                   !.blocked = @ \cup {r}])
                     ELSE [call[t] EXCEPT !.pc = "unregister_remove",
                                          !.resource = r,
                                          !.drop = @ \ {r}])
    BY <1>8 DEF UnregisterCheck
  <2> DEFINE c == [call[t] EXCEPT !.drop = @ \ {r}, !.blocked = @ \cup {r}]
             d == [call[t] EXCEPT !.pc = "unregister_remove",
                                  !.resource = r, !.drop = @ \ {r}]
  <2>2. OnlyCallMoves
    BY <1>8 DEF UnregisterCheck, OnlyCallMoves, registry, leaseState,
                adapterState
  <2>3. c \in Call
    BY <1>0, <2>1 DEF Call
  <2>4. d \in Call /\ SaneCall(d) /\ d.pc = "unregister_remove"
    BY <1>0, <2>1 DEF Call, PC, SaneCall, LeaseLabels
  <2>5. Enter(t, NextWork(c)) \/ Enter(t, d)
    BY <2>1
  <2> QED BY <2>2, <2>3, <2>4, <2>5, LookupMovesOn, NextWorkSane
<1>9. CASE UnregisterRemove(t)
  <2>1. RestTypeOK'
    BY <1>9 DEF UnregisterRemove, RestTypeOK, LeaseInv, TypeOK, adapterState
  <2>2. Frame
    BY <1>9 DEF UnregisterRemove, leaseState, adapterState
  <2>3. Enter(t, NextWork(call[t]))
    BY <1>9 DEF UnregisterRemove
  <2> QED BY <1>0, <2>1, <2>2, <2>3, CallMovesOn, NextWorkSane
<1>10. CASE EvictOwned(t)
  <2> DEFINE c == [call[t] EXCEPT !.drop = OwnedBy(call[t].stale)]
  <2>1. OnlyCallMoves
    BY <1>10 DEF EvictOwned, OnlyCallMoves, registry, leaseState,
                 adapterState
  <2>2. c \in Call
    BY <1>0 DEF Call, OwnedBy
  <2>3. Enter(t, NextWork(c))
    BY <1>10 DEF EvictOwned
  <2> QED BY <2>1, <2>2, <2>3, LookupMovesOn, NextWorkSane
<1> QED
  BY <1>1, <1>2, <1>3, <1>4, <1>5, <1>6, <1>7, <1>8, <1>9, <1>10
-----------------------------------------------------------------------------
(* Steps that change the leases, the store or the lock *)

\* Pruning touches expired leases only.
LEMMA RetainFacts ==
  ASSUME TypeOK
  PROVE  /\ Retain \in [Resource -> Lease]
         /\ \A r \in Resource :
              \/ Retain[r] = NoLease /\ leases[r].expires <= now
              \/ Retain[r] = leases[r] /\ leases[r].expires > now
BY DEF Retain, TypeOK, Lease, NoLease

\* With the leases lock free no attach is in its locked section.
LEMMA UnlockedMeansNotAttaching ==
  ASSUME LeaseInv, LeasesUnlocked
  PROVE  \A t \in Thread : ~Attaching(t)
BY FabricAssumption DEF LeaseInv, AttachUnderLease, LeasesUnlocked

LEMMA LeaseCommitPreserves ==
  ASSUME LeaseInv, NEW t \in Thread, LeaseCommit(t)
  PROVE  LeaseInv'
<1> DEFINE r == call[t].resource
           until == now + call[t].ttl
           new == nextLeaseId + 1
           c(res) == [NoCall EXCEPT !.ret = res]
<1>1. /\ TypeOK /\ TableIsGranted /\ ValidLeaseIsKept /\ CallsAreSane
      /\ LiveIsGranted /\ AttachUnderLease
  BY DEF LeaseInv
<1>2. r \in Resource /\ until \in Nat /\ new \in Nat /\ new \notin Issued
      /\ new \in Nat \ {0} /\ Issued = 1..nextLeaseId
  BY <1>1 DEF LeaseCommit, At, CallsAreSane, SaneCall, TypeOK, Call, Issued
<1>3. \A u \in Thread : ~Attaching(u)
  BY UnlockedMeansNotAttaching DEF LeaseCommit
<1>4. /\ UNCHANGED <<resources, heartbeats, attachments, live, leaseLock,
                     calls, now>>
      /\ \E res \in Result : call' = [call EXCEPT ![t] = c(res)]
  BY DEF LeaseCommit, Return, Enter, registry, adapterState, Result
<1>5. \A u \in Thread : call'[u] \in Call /\ (call'[u] = call[u]
                          \/ call'[u].pc = "idle")
  BY <1>1, <1>4, NoCallSane DEF TypeOK
<1>6. AttachUnderLease'
  BY <1>3, <1>5 DEF AttachUnderLease, Attaching
<1>7. call' \in [Thread -> Call]
  BY <1>1, <1>4, NoCallSane DEF TypeOK
<1>8. CASE leases' = Retain /\ UNCHANGED <<nextLeaseId, grants>>
  <2>1. TypeOK'
    BY <1>1, <1>4, <1>7, <1>8, RetainFacts DEF TypeOK, Issued
  <2>2. TableIsGranted'
    BY <1>1, <1>8, RetainFacts DEF TableIsGranted, Issued
  <2>3. ValidLeaseIsKept'
    BY <1>1, <1>4, <1>8, RetainFacts
    DEF ValidLeaseIsKept, Valid, Issued, TypeOK, Grant
  <2>4. CallsAreSane' /\ LiveIsGranted'
    BY <1>1, <1>4, <1>5, <1>8
    DEF CallsAreSane, SaneCall, LiveIsGranted, LeaseLabels, Issued
  <2> QED BY <1>6, <2>1, <2>2, <2>3, <2>4 DEF LeaseInv
<1>9. CASE Retain[r] = NoLease /\ GrantLease(t, r, until)
  <2>1. /\ nextLeaseId' = new
        /\ leases' = [Retain EXCEPT ![r] = [id |-> new, expires |-> until]]
        /\ grants' = HandOut(t, r, until)
    BY <1>9 DEF GrantLease
  <2>2. /\ grants' \in [1..new -> Grant]
        /\ \A i \in Issued : grants'[i] = grants[i]
        /\ grants'[new] = [resource |-> r, until |-> until,
                           open |-> TRUE]
    BY <1>1, <1>2, <2>1 DEF HandOut, TypeOK, Grant
  <2>3. Issued' = Issued \cup {new}
    BY <1>1, <1>2, <2>1 DEF Issued, TypeOK
  <2>4. [id |-> new, expires |-> until] \in Lease
    BY <1>2 DEF Lease
  <2>5. TypeOK'
    <3>1. leases' \in [Resource -> Lease]
      BY <1>1, <2>1, <2>4, RetainFacts
    <3>2. nextLeaseId' \in Nat /\ grants' \in [Issued' -> Grant]
      BY <1>2, <2>1, <2>2 DEF Issued
    <3> QED BY <1>1, <1>4, <1>7, <3>1, <3>2 DEF TypeOK
  <2>6. \A s \in Resource \ {r} : leases'[s] = Retain[s]
    BY <1>1, <2>1, RetainFacts
  <2>7. leases'[r] = [id |-> new, expires |-> until]
    BY <1>1, <1>2, <2>1, RetainFacts
  <2>8. TableIsGranted'
    BY <1>1, <1>2, <2>2, <2>3, <2>6, <2>7, RetainFacts DEF TableIsGranted
  <2>9. ValidLeaseIsKept'
    <3> SUFFICES ASSUME NEW i \in Issued', Valid(i)'
                 PROVE  leases'[grants'[i].resource] =
                          [id |-> i, expires |-> grants'[i].until]
      BY DEF ValidLeaseIsKept
    <3>1. CASE i = new
      BY <3>1, <2>2, <2>7
    <3>2. CASE i \in Issued
      <4>1. Valid(i) /\ grants'[i] = grants[i] /\ grants[i] \in Grant
        BY <3>2, <2>2, <1>1, <1>4 DEF Valid, TypeOK
      <4>2. leases[grants[i].resource] = [id |-> i, expires |-> grants[i].until]
        BY <1>1, <3>2, <4>1 DEF ValidLeaseIsKept
      <4>3. Retain[grants[i].resource] = leases[grants[i].resource]
        BY <1>1, <4>1, <4>2, RetainFacts DEF Valid, Grant, TypeOK
      <4>4. grants[i].resource # r
        BY <1>9, <4>2, <4>3, <3>2, <1>2 DEF NoLease
      <4> QED BY <4>1, <4>2, <4>3, <4>4, <2>6 DEF Grant
    <3> QED BY <2>3, <3>1, <3>2
  <2>10. CallsAreSane' /\ LiveIsGranted'
    <3>1. \A i \in Issued : i \in Issued' /\ grants'[i] = grants[i]
      BY <2>2, <2>3
    <3>2. CallsAreSane'
      BY <1>1, <1>5, <3>1 DEF CallsAreSane, SaneCall, LeaseLabels
    <3>3. LiveIsGranted'
      BY <1>1, <1>4, <3>1 DEF LiveIsGranted
    <3> QED BY <3>2, <3>3
  <2> QED BY <1>6, <2>5, <2>8, <2>9, <2>10 DEF LeaseInv
<1> QED BY <1>8, <1>9 DEF LeaseCommit
LEMMA RenewLeasePreserves ==
  ASSUME LeaseInv, NEW t \in Thread, NEW i \in Issued, NEW ttl \in Ttl,
         RenewLease(t, i, ttl)
  PROVE  LeaseInv'
<1> DEFINE r == grants[i].resource
           until == now + ttl
<1>1. /\ TypeOK /\ TableIsGranted /\ ValidLeaseIsKept /\ CallsAreSane
      /\ LiveIsGranted /\ AttachUnderLease
  BY DEF LeaseInv
<1>2. r \in Resource /\ until \in Nat /\ i \in Nat \ {0} /\ grants[i] \in Grant
  BY <1>1, FabricAssumption DEF TypeOK, Grant, Issued
<1>3. \A u \in Thread : ~Attaching(u)
  BY UnlockedMeansNotAttaching DEF RenewLease
<1>4. /\ UNCHANGED <<resources, heartbeats, attachments, live, leaseLock,
                     nextLeaseId, now>>
      /\ calls' = calls + 1
      /\ \E res \in Result : call' = [call EXCEPT ![t] =
                                        [NoCall EXCEPT !.ret = res]]
  BY DEF RenewLease, Begin, Return, Enter, registry, adapterState, Result
<1>5. \A u \in Thread : call'[u] \in Call /\ (call'[u] = call[u]
                          \/ call'[u].pc = "idle")
  BY <1>1, <1>4, NoCallSane DEF TypeOK
<1>6. AttachUnderLease'
  BY <1>3, <1>5 DEF AttachUnderLease, Attaching
<1>7. call' \in [Thread -> Call] /\ calls' \in Nat /\ Issued' = Issued
  BY <1>1, <1>4, NoCallSane DEF TypeOK, Issued
<1>8. CASE leases' = Retain /\ UNCHANGED grants
  <2>1. TypeOK'
    BY <1>1, <1>4, <1>7, <1>8, RetainFacts DEF TypeOK
  <2>2. TableIsGranted'
    BY <1>1, <1>7, <1>8, RetainFacts DEF TableIsGranted
  <2>3. ValidLeaseIsKept'
    BY <1>1, <1>4, <1>7, <1>8, RetainFacts
    DEF ValidLeaseIsKept, Valid, TypeOK, Grant
  <2>4. CallsAreSane' /\ LiveIsGranted'
    BY <1>1, <1>4, <1>5, <1>7, <1>8
    DEF CallsAreSane, SaneCall, LiveIsGranted, LeaseLabels
  <2> QED BY <1>6, <2>1, <2>2, <2>3, <2>4 DEF LeaseInv
<1>9. CASE /\ Retain[r].id = i
           /\ leases' = [Retain EXCEPT ![r].expires = until]
           /\ grants' = [grants EXCEPT ![i].until = until]
  <2>1. Retain[r] = leases[r] /\ leases[r].id = i
    BY <1>1, <1>2, <1>9, RetainFacts DEF NoLease
  <2>2. leases'[r] = [id |-> i, expires |-> until]
    BY <1>1, <1>2, <1>9, RetainFacts DEF Lease
  <2>3. \A s \in Resource \ {r} : leases'[s] = Retain[s]
    BY <1>1, <1>9, RetainFacts
  <2>4. /\ grants' \in [Issued -> Grant]
        /\ grants'[i].until = until
        /\ \A j \in Issued : /\ grants'[j].resource = grants[j].resource
                             /\ grants'[j].open = grants[j].open
                             /\ j # i => grants'[j] = grants[j]
    BY <1>1, <1>2, <1>9 DEF TypeOK, Grant
  <2>5. leases' \in [Resource -> Lease]
    BY <1>1, <1>2, <1>9, RetainFacts DEF Lease
  <2>6. TypeOK'
    BY <1>1, <1>4, <1>7, <2>4, <2>5 DEF TypeOK
  <2>7. TableIsGranted'
    <3> SUFFICES ASSUME NEW s \in Resource, leases'[s] # NoLease
                 PROVE  /\ leases'[s].id \in Issued
                        /\ grants'[leases'[s].id].resource = s
                        /\ grants'[leases'[s].id].open
                        /\ grants'[leases'[s].id].until = leases'[s].expires
      BY <1>7 DEF TableIsGranted
    <3>1. CASE s = r
      BY <1>1, <1>2, <2>1, <2>2, <2>4, <3>1 DEF TableIsGranted, NoLease
    <3>2. CASE s # r
      <4>1. leases'[s] = leases[s] /\ leases[s] # NoLease
        BY <1>1, <2>3, <3>2, RetainFacts
      <4>2. leases[s].id # i
        BY <1>1, <3>2, <4>1 DEF TableIsGranted
      <4> QED BY <1>1, <2>4, <4>1, <4>2 DEF TableIsGranted
    <3> QED BY <3>1, <3>2
  <2>8. ValidLeaseIsKept'
    <3> SUFFICES ASSUME NEW j \in Issued, Valid(j)'
                 PROVE  leases'[grants'[j].resource] =
                          [id |-> j, expires |-> grants'[j].until]
      BY <1>7 DEF ValidLeaseIsKept
    <3>1. CASE j = i
      BY <2>2, <2>4, <3>1
    <3>2. CASE j # i
      <4>1. Valid(j) /\ grants'[j] = grants[j] /\ grants[j] \in Grant
        BY <1>1, <1>4, <2>4, <3>2 DEF Valid, TypeOK
      <4>2. leases[grants[j].resource] = [id |-> j, expires |-> grants[j].until]
        BY <1>1, <4>1 DEF ValidLeaseIsKept
      <4>3. Retain[grants[j].resource] = leases[grants[j].resource]
        BY <1>1, <4>1, <4>2, RetainFacts DEF Valid, Grant, TypeOK
      <4>4. grants[j].resource # r
        BY <2>1, <3>2, <4>2
      <4> QED BY <2>3, <4>1, <4>2, <4>3, <4>4 DEF Grant
    <3> QED BY <3>1, <3>2
  <2>9. CallsAreSane' /\ LiveIsGranted'
    <3>1. \A j \in Issued :
            j \in Issued' /\ grants'[j].resource = grants[j].resource
      BY <1>7, <2>4
    <3>2. CallsAreSane'
      BY <1>1, <1>5, <3>1 DEF CallsAreSane, SaneCall, LeaseLabels
    <3>3. LiveIsGranted'
      BY <1>1, <1>4, <3>1 DEF LiveIsGranted
    <3> QED BY <3>2, <3>3
  <2> QED BY <1>6, <2>6, <2>7, <2>8, <2>9 DEF LeaseInv
<1> QED BY <1>8, <1>9 DEF RenewLease

LEMMA ReleaseRemovePreserves ==
  ASSUME LeaseInv, NEW t \in Thread, ReleaseRemove(t)
  PROVE  LeaseInv'
<1> DEFINE r == call[t].resource
           i == call[t].lease
<1>1. /\ TypeOK /\ TableIsGranted /\ ValidLeaseIsKept /\ CallsAreSane
      /\ LiveIsGranted /\ AttachUnderLease
  BY DEF LeaseInv
<1>2. i \in Issued /\ r = grants[i].resource /\ r \in Resource
  BY <1>1 DEF ReleaseRemove, At, CallsAreSane, SaneCall, LeaseLabels, TypeOK, Grant
<1>3. \A u \in Thread : ~Attaching(u)
  BY UnlockedMeansNotAttaching DEF ReleaseRemove
<1>4. /\ UNCHANGED <<resources, heartbeats, attachments, live, leaseLock,
                     nextLeaseId, calls, now>>
      /\ \E res \in Result : call' = [call EXCEPT ![t] =
                                        [NoCall EXCEPT !.ret = res]]
  BY DEF ReleaseRemove, Return, Enter, registry, adapterState, Result
<1>5. \A u \in Thread : call'[u] \in Call /\ (call'[u] = call[u]
                          \/ call'[u].pc = "idle")
  BY <1>1, <1>4, NoCallSane DEF TypeOK
<1>6. AttachUnderLease'
  BY <1>3, <1>5 DEF AttachUnderLease, Attaching
<1>7. call' \in [Thread -> Call] /\ Issued' = Issued
  BY <1>1, <1>4, NoCallSane DEF TypeOK, Issued
<1>8. CASE UNCHANGED <<leases, grants>>
  <2>1. TypeOK' /\ TableIsGranted' /\ ValidLeaseIsKept'
    BY <1>1, <1>4, <1>7, <1>8
    DEF TypeOK, TableIsGranted, ValidLeaseIsKept, Valid
  <2>2. CallsAreSane' /\ LiveIsGranted'
    BY <1>1, <1>4, <1>5, <1>7, <1>8
    DEF CallsAreSane, SaneCall, LiveIsGranted, LeaseLabels
  <2> QED BY <1>6, <2>1, <2>2 DEF LeaseInv
<1>9. CASE /\ InTable(r, i)
           /\ leases' = [leases EXCEPT ![r] = NoLease]
           /\ grants' = [grants EXCEPT ![i].open = FALSE]
  <2>1. /\ leases' \in [Resource -> Lease]
        /\ leases'[r] = NoLease
        /\ \A s \in Resource \ {r} : leases'[s] = leases[s]
    BY <1>1, <1>2, <1>9 DEF TypeOK, Lease, NoLease
  <2>2. /\ grants' \in [Issued -> Grant]
        /\ ~grants'[i].open
        /\ \A j \in Issued : /\ grants'[j].resource = grants[j].resource
                             /\ j # i => grants'[j] = grants[j]
    BY <1>1, <1>2, <1>9 DEF TypeOK, Grant
  <2>3. TypeOK'
    BY <1>1, <1>4, <1>7, <2>1, <2>2 DEF TypeOK
  <2>4. TableIsGranted'
    <3> SUFFICES ASSUME NEW s \in Resource, leases'[s] # NoLease
                 PROVE  /\ leases'[s].id \in Issued
                        /\ grants'[leases'[s].id].resource = s
                        /\ grants'[leases'[s].id].open
                        /\ grants'[leases'[s].id].until = leases'[s].expires
      BY <1>7 DEF TableIsGranted
    <3>1. s # r /\ leases'[s] = leases[s]
      BY <2>1
    <3>2. leases[s].id # i
      BY <1>1, <1>2, <3>1 DEF TableIsGranted
    <3> QED BY <1>1, <2>2, <3>1, <3>2 DEF TableIsGranted
  <2>5. ValidLeaseIsKept'
    <3> SUFFICES ASSUME NEW j \in Issued, Valid(j)'
                 PROVE  leases'[grants'[j].resource] =
                          [id |-> j, expires |-> grants'[j].until]
      BY <1>7 DEF ValidLeaseIsKept
    <3>1. j # i
      BY <2>2 DEF Valid
    <3>2. grants'[j] = grants[j] /\ Valid(j) /\ grants[j] \in Grant
      BY <1>1, <1>4, <2>2, <3>1 DEF Valid, TypeOK
    <3>3. leases[grants[j].resource] = [id |-> j, expires |-> grants[j].until]
      BY <1>1, <3>2 DEF ValidLeaseIsKept
    <3>4. grants[j].resource # r
      BY <1>9, <3>1, <3>3 DEF InTable
    <3> QED BY <2>1, <3>2, <3>3, <3>4 DEF Grant
  <2>6. CallsAreSane' /\ LiveIsGranted'
    <3>1. \A j \in Issued :
            j \in Issued' /\ grants'[j].resource = grants[j].resource
      BY <1>7, <2>2
    <3>2. CallsAreSane'
      BY <1>1, <1>5, <3>1 DEF CallsAreSane, SaneCall, LeaseLabels
    <3>3. LiveIsGranted'
      BY <1>1, <1>4, <3>1 DEF LiveIsGranted
    <3> QED BY <3>2, <3>3
  <2> QED BY <1>6, <2>3, <2>4, <2>5, <2>6 DEF LeaseInv
<1> QED BY <1>8, <1>9 DEF ReleaseRemove
\* Locking, running the adapter and recording the attachment; and the detach
\* of a release.
LEMMA AdapterStepsPreserve ==
  ASSUME LeaseInv, NEW t \in Thread,
         \/ AttachAuthorize(t) \/ AttachAdapter(t) \/ AttachRecord(t)
         \/ ReleaseDetach(t)
  PROVE  LeaseInv'
<1>1. /\ TypeOK /\ TableIsGranted /\ ValidLeaseIsKept /\ CallsAreSane
      /\ LiveIsGranted /\ AttachUnderLease
  BY DEF LeaseInv
<1>2. /\ call[t] \in Call /\ call[t].pc \in LeaseLabels
      /\ call[t].lease \in Issued
      /\ call[t].resource = grants[call[t].lease].resource
      /\ call[t].resource \in Resource
  BY <1>1 DEF TypeOK, CallsAreSane, SaneCall, LeaseLabels, AttachAuthorize,
              AttachAdapter, AttachRecord, ReleaseDetach, At, Grant
<1>3. UNCHANGED <<resources, heartbeats, leases, nextLeaseId, grants, calls,
                  now>>
  BY DEF AttachAuthorize, AttachAdapter, AttachRecord, ReleaseDetach,
         registry, leaseState
<1>4. TableIsGranted' /\ ValidLeaseIsKept' /\ Issued' = Issued
  BY <1>1, <1>3 DEF TableIsGranted, ValidLeaseIsKept, Valid, Issued
<1>5. PICK c \in Call :
        /\ call' = [call EXCEPT ![t] = c]
        /\ \/ \E res \in Result : c = [NoCall EXCEPT !.ret = res]
           \/ \E label \in {"attach_adapter", "attach_record",
                            "release_remove"} :
                c = [call[t] EXCEPT !.pc = label]
  <2>1. \/ \E res \in Result : Enter(t, [NoCall EXCEPT !.ret = res])
        \/ \E label \in {"attach_adapter", "attach_record",
                         "release_remove"} : Goto(t, label)
    BY DEF AttachAuthorize, AttachAdapter, AttachRecord, ReleaseDetach,
           Return, Result
  <2>2. ASSUME NEW label \in {"attach_adapter", "attach_record",
                              "release_remove"}, Goto(t, label)
        PROVE  /\ [call[t] EXCEPT !.pc = label] \in Call
               /\ call' = [call EXCEPT ![t] = [call[t] EXCEPT !.pc = label]]
    BY <1>1, <1>2, <2>2 DEF Goto, Call, PC, TypeOK
  <2> QED BY <2>1, <2>2, NoCallSane DEF Enter
<1>6. call' \in [Thread -> Call] /\ CallsAreSane'
  <2>1. SaneCall(c)
    BY <1>2, <1>5, NoCallSane DEF SaneCall, LeaseLabels, Call
  <2>2. call' \in [Thread -> Call]
    BY <1>1, <1>5 DEF TypeOK
  <2>3. \A u \in Thread : call'[u] = c \/ call'[u] = call[u]
    BY <1>1, <1>5 DEF TypeOK
  <2>4. \A u \in Thread : SaneCall(call'[u])
    BY <1>1, <2>1, <2>3 DEF CallsAreSane, SaneCall
  <2>5. CallsAreSane'
    BY <1>3, <1>4, <2>4 DEF CallsAreSane, SaneCall
  <2> QED BY <2>2, <2>5
<1>7. LiveIsGranted' /\ live' \subseteq [lease : Nat, resource : Resource]
  <2>1. live' \subseteq live \cup {[lease |-> call[t].lease,
                                    resource |-> call[t].resource]}
    BY DEF AttachAuthorize, AttachAdapter, AttachRecord, ReleaseDetach,
           adapterState, StoreInsert, StoreRemove
  <2>2. call[t].lease \in Nat
    BY <1>2 DEF Call
  <2> QED BY <1>1, <1>2, <1>3, <1>4, <2>1, <2>2 DEF LiveIsGranted, TypeOK
<1>8. /\ attachments' \in [Resource -> Adapter \cup {NoAdapter}]
      /\ leaseLock' \in Thread \cup {NoThread}
  BY <1>1, <1>2 DEF AttachAuthorize, AttachAdapter, AttachRecord,
                    ReleaseDetach, adapterState, TypeOK, Call
<1>9. TypeOK'
  BY <1>1, <1>3, <1>4, <1>6, <1>7, <1>8 DEF TypeOK
<1>10. AttachUnderLease'
  <2>1. \A u \in Thread \ {t} : call'[u] = call[u]
    BY <1>1, <1>5 DEF TypeOK
  <2>2. CASE AttachAuthorize(t)
    <3>1. \A u \in Thread : ~Attaching(u)
      BY <2>2, UnlockedMeansNotAttaching DEF AttachAuthorize
    <3>2. \A u \in Thread \ {t} : ~Attaching(u)'
      BY <2>1, <3>1 DEF Attaching
    <3>3. ASSUME Attaching(t)'
          PROVE  leaseLock' = t /\ InTable(call[t].resource, call[t].lease)
                 /\ Goto(t, "attach_adapter")
      BY <1>1, <2>2, <3>3 DEF AttachAuthorize, Authorized, InTable, Attaching,
                              Return, Enter, NoCall, TypeOK
    <3>4. ASSUME Goto(t, "attach_adapter")
          PROVE  /\ call'[t].resource = call[t].resource
                 /\ call'[t].lease = call[t].lease
      BY <1>1, <1>2, <3>4 DEF Goto, TypeOK, Call
    <3> QED BY <1>3, <3>2, <3>3, <3>4 DEF AttachUnderLease, InTable
  <2>3. CASE AttachAdapter(t)
    <3>1. leaseLock = t /\ InTable(call[t].resource, call[t].lease)
      BY <1>1, <2>3 DEF AttachAdapter, At, AttachUnderLease, Attaching
    <3>2. \A u \in Thread \ {t} : ~Attaching(u)'
      BY <1>1, <2>1, <3>1 DEF AttachUnderLease, Attaching
    <3>3. ASSUME Attaching(t)'
          PROVE  leaseLock' = t /\ Goto(t, "attach_record")
      BY <1>1, <2>3, <3>1, <3>3 DEF AttachAdapter, Attaching, Return, Enter,
                                    NoCall, TypeOK
    <3>4. ASSUME Goto(t, "attach_record")
          PROVE  /\ call'[t].resource = call[t].resource
                 /\ call'[t].lease = call[t].lease
      BY <1>1, <1>2, <3>4 DEF Goto, TypeOK, Call
    <3> QED BY <1>3, <3>1, <3>2, <3>3, <3>4 DEF AttachUnderLease, InTable
  <2>4. CASE AttachRecord(t)
    <3>1. leaseLock = t
      BY <1>1, <2>4 DEF AttachRecord, At, AttachUnderLease, Attaching
    <3>2. \A u \in Thread \ {t} : ~Attaching(u)'
      BY <1>1, <2>1, <3>1 DEF AttachUnderLease, Attaching
    <3>3. ~Attaching(t)'
      BY <1>1, <2>4 DEF AttachRecord, Attaching, Return, Enter, NoCall, TypeOK
    <3> QED BY <3>2, <3>3 DEF AttachUnderLease
  <2>5. CASE ReleaseDetach(t)
    <3>1. ~Attaching(t)' /\ UNCHANGED leaseLock
      BY <1>1, <1>2, <2>5 DEF ReleaseDetach, Attaching, Return, Goto, Enter,
                              NoCall, TypeOK, Call
    <3> QED BY <1>1, <1>3, <2>1, <3>1 DEF AttachUnderLease, Attaching, InTable
  <2> QED BY <2>2, <2>3, <2>4, <2>5
<1> QED BY <1>4, <1>6, <1>7, <1>9, <1>10 DEF LeaseInv

LEMMA TickPreserves ==
  ASSUME LeaseInv, Tick
  PROVE  LeaseInv'
<1>1. /\ UNCHANGED <<resources, heartbeats, leases, nextLeaseId, grants,
                     attachments, live, leaseLock, call, calls>>
      /\ now' = now + 1
  BY DEF Tick, registry, leaseState, adapterState
<1>2. TypeOK' /\ \A i \in Issued : Valid(i)' => Valid(i)
  BY <1>1 DEF LeaseInv, TypeOK, Issued, Valid, Grant
<1>3. TableIsGranted' /\ CallsAreSane' /\ LiveIsGranted' /\ AttachUnderLease'
  BY <1>1 DEF LeaseInv, TableIsGranted, CallsAreSane, SaneCall, LiveIsGranted,
              AttachUnderLease, Attaching, InTable, Issued
<1>4. ValidLeaseIsKept'
  BY <1>1, <1>2 DEF LeaseInv, ValidLeaseIsKept, Issued
<1> QED BY <1>2, <1>3, <1>4 DEF LeaseInv
-----------------------------------------------------------------------------
(* The invariant and what follows from it *)

LEMMA InitInv == Init => LeaseInv
<1> SUFFICES ASSUME Init PROVE LeaseInv
  OBVIOUS
<1>1. NoCall \in Call /\ NoLease \in Lease /\ Issued = {}
  BY DEF Init, NoCall, Call, PC, Result, NoLease, Lease, Issued
<1>2. TypeOK
  BY <1>1, FabricAssumption DEF Init, TypeOK, NoBeat
<1>3. TableIsGranted /\ ValidLeaseIsKept /\ LiveIsGranted
  BY <1>1 DEF Init, TableIsGranted, ValidLeaseIsKept, LiveIsGranted
<1>4. CallsAreSane /\ AttachUnderLease
  BY DEF Init, CallsAreSane, SaneCall, AttachUnderLease, Attaching, NoCall, LeaseLabels
<1> QED BY <1>2, <1>3, <1>4 DEF LeaseInv

LEMMA NextInv == LeaseInv /\ [Next]_vars => LeaseInv'
<1> SUFFICES ASSUME LeaseInv, [Next]_vars
             PROVE  LeaseInv'
  OBVIOUS
<1>1. ASSUME NEW t \in Thread, Invoke(t)
      PROVE  LeaseInv'
  BY <1>1, LookupsPreserve, RegistryPreserves, RenewLeasePreserves DEF Invoke
<1>2. ASSUME NEW t \in Thread, Step(t)
      PROVE  LeaseInv'
  BY <1>2, LookupsPreserve, RegistryPreserves, LeaseCommitPreserves,
     ReleaseRemovePreserves, AdapterStepsPreserve DEF Step
<1>3. CASE Tick
  BY <1>3, TickPreserves
<1>4. CASE UNCHANGED vars
  BY <1>4 DEF vars, registry, leaseState, adapterState, LeaseInv, TypeOK,
              TableIsGranted, ValidLeaseIsKept, Valid, CallsAreSane, SaneCall,
              LiveIsGranted, AttachUnderLease, Attaching, InTable, Issued
<1>5. CASE Quiescent
  BY <1>4, <1>5 DEF Quiescent
<1> QED BY <1>1, <1>2, <1>3, <1>4, <1>5 DEF Next

\* The inductive invariant of the fabric: the lease table holds exactly the
\* open grants, every valid lease is in it, and attach's section under the
\* leases lock shuts everyone else out.
THEOREM LeaseInvariant == Spec => []LeaseInv
<1> QED BY InitInv, NextInv, PTL DEF Spec

\* Every variable of the fabric keeps its type.
THEOREM TypeCorrect == Spec => []TypeOK
<1>1. LeaseInv => TypeOK
  BY DEF LeaseInv
<1> QED BY <1>1, LeaseInvariant, PTL

\* A granted lease is kept until it expires or is released by name.
THEOREM LeaseKept == Spec => []ValidLeaseIsKept
<1>1. LeaseInv => ValidLeaseIsKept
  BY DEF LeaseInv
<1> QED BY <1>1, LeaseInvariant, PTL

\* lease_exclusive is exclusive: no two valid leases share a resource.
THEOREM Exclusive == Spec => []AtMostOneHolder
<1>1. LeaseInv => AtMostOneHolder
  <2> SUFFICES ASSUME LeaseInv, NEW i \in Issued, NEW j \in Issued, i # j,
                      grants[i].resource = grants[j].resource,
                      Valid(i), Valid(j)
               PROVE  FALSE
    BY DEF AtMostOneHolder
  <2>1. leases[grants[i].resource] = [id |-> i, expires |-> grants[i].until]
    BY DEF LeaseInv, ValidLeaseIsKept
  <2>2. leases[grants[j].resource] = [id |-> j, expires |-> grants[j].until]
    BY DEF LeaseInv, ValidLeaseIsKept
  <2> QED BY <2>1, <2>2
<1> QED BY <1>1, LeaseInvariant, PTL

\* An adapter runs, and its attachment is recorded, under the lease that was
\* authorized.
THEOREM AttachAuthorized == Spec => []AttachUnderLease
<1>1. LeaseInv => AttachUnderLease
  BY DEF LeaseInv
<1> QED BY <1>1, LeaseInvariant, PTL

\* The store adapter never refuses the detach of a release, so a release that
\* has dropped the attachment record always goes on to remove the lease.
THEOREM DetachGranted == Spec => []DetachNeverRefused
<1>1. LeaseInv => DetachNeverRefused
  BY DEF LeaseInv, DetachNeverRefused, DetachRefused, At, CallsAreSane, SaneCall,
         LiveIsGranted, LeaseLabels
<1> QED BY <1>1, LeaseInvariant, PTL
-----------------------------------------------------------------------------
(* The fabric implements LeaseSpec *)

LEMMA VacantIsNoLease == Leasing!Vacant = NoLease
BY DEF Leasing!Vacant, NoLease

\* A step that touches neither the table nor the clock is invisible.
LEMMA QuietStep ==
  ASSUME UNCHANGED <<leases, nextLeaseId, now>>
  PROVE  UNCHANGED Leasing!specVars
BY DEF Leasing!specVars, Retain

\* So is a prune.
LEMMA PruneIsInvisible ==
  ASSUME TypeOK, leases' = Retain, UNCHANGED <<nextLeaseId, now>>
  PROVE  UNCHANGED Leasing!specVars
<1>1. Retain' = Retain
  BY DEF Retain, TypeOK, Lease, NoLease
<1> QED BY <1>1 DEF Leasing!specVars

\* Writing an entry over the pruned table writes it, as long as it has time
\* left, over the leases in force.
LEMMA WriteEntry ==
  ASSUME TypeOK, NEW r \in Resource, NEW entry \in Lease, UNCHANGED now,
         leases' = [Retain EXCEPT ![r] = entry]
  PROVE  Retain' = [Retain EXCEPT ![r] = Leasing!InForce(entry, now)]
BY RetainFacts DEF Retain, TypeOK, Lease, NoLease, Leasing!InForce,
                   Leasing!Vacant

\* A grant is a Grant, and a refused one changes nothing.
LEMMA LeaseCommitRefines ==
  ASSUME LeaseInv, NEW t \in Thread, LeaseCommit(t)
  PROVE  Leasing!Next \/ UNCHANGED Leasing!specVars
<1> DEFINE r == call[t].resource
           ttl == call[t].ttl
           entry == [id |-> nextLeaseId + 1, expires |-> now + ttl]
<1>1. TypeOK /\ UNCHANGED now
  BY DEF LeaseInv, LeaseCommit
<1>2. r \in Resource /\ ttl \in Ttl
  BY DEF LeaseInv, CallsAreSane, SaneCall, LeaseCommit, At
<1>3. entry \in Lease
  <2>1. ttl \in Nat /\ now \in Nat /\ nextLeaseId \in Nat
    BY <1>1, <1>2, FabricAssumption DEF TypeOK
  <2>2. now + ttl \in Nat /\ nextLeaseId + 1 \in Nat
    BY <2>1
  <2> QED BY <2>2 DEF Lease
<1>4. CASE leases' = Retain /\ UNCHANGED nextLeaseId
  BY <1>1, <1>4, PruneIsInvisible
<1>5. CASE Retain[r] = NoLease /\ GrantLease(t, r, now + ttl)
  <2>1. nextLeaseId' = nextLeaseId + 1 /\ leases' = [Retain EXCEPT ![r] = entry]
    BY <1>5 DEF GrantLease
  <2>2. Retain' = [Retain EXCEPT ![r] = Leasing!InForce(entry, now)]
    BY <1>1, <1>2, <1>3, <2>1, WriteEntry
  <2>3. Leasing!Grant(r, ttl)
    BY <1>1, <1>5, <2>1, <2>2, VacantIsNoLease DEF Leasing!Grant
  <2> QED BY <1>2, <2>3 DEF Leasing!Next
<1> QED BY <1>4, <1>5 DEF LeaseCommit

\* A renewal is a Renew, and one that finds no lease changes nothing.
LEMMA RenewLeaseRefines ==
  ASSUME LeaseInv, NEW t \in Thread, NEW i \in Issued, NEW ttl \in Ttl,
         RenewLease(t, i, ttl)
  PROVE  Leasing!Next \/ UNCHANGED Leasing!specVars
<1> DEFINE r == grants[i].resource
           entry == [id |-> Retain[r].id, expires |-> now + ttl]
<1>1. TypeOK /\ UNCHANGED <<nextLeaseId, now>>
  BY DEF LeaseInv, RenewLease
<1>2. r \in Resource /\ i # 0 /\ Retain \in [Resource -> Lease]
  BY <1>1, RetainFacts DEF TypeOK, Grant, Issued
<1>3. entry \in Lease
  BY <1>1, <1>2, FabricAssumption DEF Lease, TypeOK
<1>4. CASE leases' = Retain
  BY <1>1, <1>4, PruneIsInvisible
<1>5. CASE /\ Retain[r].id = i
           /\ leases' = [Retain EXCEPT ![r].expires = now + ttl]
  <2>1. leases' = [Retain EXCEPT ![r] = entry]
    <3>1. Retain[r] \in Lease
      BY <1>2
    <3>2. [Retain[r] EXCEPT !.expires = now + ttl] = entry
      BY <3>1 DEF Lease
    <3> QED BY <1>2, <1>5, <3>2
  <2>2. Retain' = [Retain EXCEPT ![r] = Leasing!InForce(entry, now)]
    BY <1>1, <1>2, <1>3, <2>1, WriteEntry
  <2>3. Retain[r] # NoLease
    BY <1>2, <1>5 DEF NoLease
  <2>4. Leasing!Renew(r, ttl)
    BY <1>1, <2>2, <2>3, VacantIsNoLease DEF Leasing!Renew
  <2> QED BY <1>2, <2>4 DEF Leasing!Next
<1> QED BY <1>4, <1>5 DEF RenewLease

\* Removing a lease with time left is a GiveUp; removing an expired one, or
\* finding none, changes nothing.
LEMMA ReleaseRemoveRefines ==
  ASSUME LeaseInv, NEW t \in Thread, ReleaseRemove(t)
  PROVE  Leasing!Next \/ UNCHANGED Leasing!specVars
<1> DEFINE r == call[t].resource
<1>1. TypeOK /\ UNCHANGED <<nextLeaseId, now>>
  BY DEF LeaseInv, ReleaseRemove
<1>2. r \in Resource
  BY <1>1 DEF ReleaseRemove, At, LeaseInv, CallsAreSane, SaneCall,
              LeaseLabels, TypeOK, Grant
<1>3. CASE UNCHANGED leases
  BY <1>1, <1>3, QuietStep
<1>4. CASE leases' = [leases EXCEPT ![r] = NoLease]
  <2>1. Retain' = [Retain EXCEPT ![r] = NoLease]
    BY <1>1, <1>2, <1>4 DEF Retain, TypeOK, NoLease
  <2>2. CASE Retain[r] = NoLease
    <3>1. Retain' = Retain
      BY <1>1, <1>2, <2>1, <2>2, RetainFacts
    <3> QED BY <1>1, <3>1 DEF Leasing!specVars
  <2>3. CASE Retain[r] # NoLease
    <3>1. Leasing!GiveUp(r)
      BY <1>1, <2>1, <2>3, VacantIsNoLease DEF Leasing!GiveUp
    <3> QED BY <1>2, <3>1 DEF Leasing!Next
  <2> QED BY <2>2, <2>3
<1> QED BY <1>3, <1>4 DEF ReleaseRemove

\* The clock's tick ends, in both specifications, the leases whose time is up.
LEMMA TickRefines ==
  ASSUME LeaseInv, Tick
  PROVE  Leasing!Next
<1>1. TypeOK /\ UNCHANGED <<leases, nextLeaseId>> /\ now' = now + 1
  BY DEF LeaseInv, Tick, leaseState
<1>2. Retain' = [r \in Resource |-> Leasing!InForce(Retain[r], now')]
  BY <1>1 DEF Retain, TypeOK, Lease, NoLease, Leasing!InForce,
              Leasing!Vacant
<1>3. Leasing!Elapse
  BY <1>1, <1>2 DEF Leasing!Elapse
<1> QED BY <1>3 DEF Leasing!Next

\* Every other step leaves the table and the clock alone.
LEMMA OthersAreQuiet ==
  ASSUME NEW t \in Thread,
         \/ Invoke(t) /\ ~\E i \in Issued, ttl \in Ttl : RenewLease(t, i, ttl)
         \/ Step(t) /\ ~LeaseCommit(t) /\ ~ReleaseRemove(t)
  PROVE  UNCHANGED <<leases, nextLeaseId, now>>
<1>1. CASE Invoke(t) /\ ~\E i \in Issued, ttl \in Ttl : RenewLease(t, i, ttl)
  BY <1>1 DEF Invoke, LeaseExclusive, Attach, Release, Register, Unregister,
              DiscoverLocal, RefreshLocal, Heartbeat, EvictStaleNodes,
              leaseState
<1>2. CASE Step(t) /\ ~LeaseCommit(t) /\ ~ReleaseRemove(t)
  BY <1>2 DEF Step, AttachAuthorize, AttachAdapter, AttachRecord, ReleaseTake,
              ReleaseLookup, ReleaseDetach, RegisterNext, UnregisterCheck,
              UnregisterRemove, EvictOwned, leaseState
<1> QED BY <1>1, <1>2

\* The fabric of lib.rs implements exclusive leasing, for every number of
\* resources, threads and durations: each step of each method, with its lock
\* dropped in between and its expired entries lingering in the table, is a
\* step of LeaseSpec or invisible to it.
THEOREM FabricImplementsLeasing == Spec => ImplementsLeasing
<1>1. Init => Leasing!Init
  BY VacantIsNoLease DEF Init, Leasing!Init, Retain, NoLease
<1>2. LeaseInv /\ [Next]_vars => [Leasing!Next]_(Leasing!specVars)
  <2> SUFFICES ASSUME LeaseInv, [Next]_vars
               PROVE  Leasing!Next \/ UNCHANGED Leasing!specVars
    OBVIOUS
  <2>1. ASSUME NEW t \in Thread, Invoke(t) \/ Step(t)
        PROVE  Leasing!Next \/ UNCHANGED Leasing!specVars
    BY <2>1, OthersAreQuiet, QuietStep, LeaseCommitRefines,
       RenewLeaseRefines, ReleaseRemoveRefines
  <2>2. CASE Tick
    BY <2>2, TickRefines
  <2>3. CASE UNCHANGED vars
    BY <2>3, QuietStep DEF vars, leaseState
  <2>4. CASE Quiescent
    BY <2>3, <2>4 DEF Quiescent
  <2> QED BY <2>1, <2>2, <2>3, <2>4 DEF Next
<1> QED BY <1>1, <1>2, LeaseInvariant, PTL
        DEF Spec, ImplementsLeasing, Leasing!Spec

-----------------------------------------------------------------------------
(* Why the leases lock is given back and why a call ends: the safety facts   *)
(* under CallsReturn                                                         *)

\* The leases lock is held between steps by an attach in its adapter or about
\* to record, and by nobody else: no error path of attach, and no other
\* method, keeps it.
LockIsAttachs == \A t \in Thread : leaseLock = t <=> Attaching(t)

\* Only attach takes the lock, and it moves into and out of the section that
\* runs under it exactly when it takes and drops the lock.
LEMMA LockStep ==
  ASSUME LeaseInv, LockIsAttachs, NEW t \in Thread, Invoke(t) \/ Step(t)
  PROVE  LockIsAttachs'
<1>1. call \in [Thread -> Call] /\ t # NoThread
  BY FabricAssumption DEF LeaseInv, TypeOK
<1>2. CASE Invoke(t)
  <2>1. ~Attaching(t) /\ UNCHANGED leaseLock
    BY <1>2 DEF Invoke, LeaseExclusive, RenewLease, Attach, Release, Register,
                Unregister, DiscoverLocal, RefreshLocal, Heartbeat,
                EvictStaleNodes, Begin, BeginMaintenance, At, Attaching
  <2>2. LeaseInv'
    BY <1>2, NextInv DEF Next
  <2>3. \A u \in Thread \ {t} : call'[u] = call[u]
    BY <1>1, <1>2
    DEF Invoke, LeaseExclusive, RenewLease, Attach, Release, Register,
        Unregister, DiscoverLocal, RefreshLocal, Heartbeat, EvictStaleNodes,
        Return, Enter
  <2>4. leaseLock # t
    BY <2>1 DEF LockIsAttachs
  <2>5. ~Attaching(t)'
    BY <2>1, <2>2, <2>4 DEF LeaseInv, AttachUnderLease
  <2> QED BY <2>1, <2>3, <2>4, <2>5 DEF LockIsAttachs, Attaching
<1>3. CASE AttachAuthorize(t)
  <2>1. \A u \in Thread : ~Attaching(u)
    BY <1>3, UnlockedMeansNotAttaching DEF AttachAuthorize
  <2>2. /\ \A u \in Thread \ {t} : call'[u] = call[u]
        /\ \/ leaseLock' = t /\ call'[t].pc = "attach_adapter"
           \/ /\ leaseLock' = NoThread
              /\ call'[t].pc = "idle"
    BY <1>1, <1>3 DEF AttachAuthorize, Return, Enter, Goto, LeasesUnlocked,
                      NoCall, Call
  <2> QED BY <1>1, <2>1, <2>2, FabricAssumption DEF LockIsAttachs, Attaching
<1>4. CASE AttachAdapter(t) \/ AttachRecord(t)
  <2>1. Attaching(t) /\ leaseLock = t
    BY <1>4 DEF AttachAdapter, AttachRecord, At, Attaching, LockIsAttachs
  <2>2. \A u \in Thread \ {t} : ~Attaching(u)
    BY <2>1 DEF LockIsAttachs
  <2>3. /\ \A u \in Thread \ {t} : call'[u] = call[u]
        /\ \/ leaseLock' = t /\ call'[t].pc = "attach_record"
           \/ leaseLock' = NoThread /\ call'[t].pc = "idle"
    BY <1>1, <1>4, <2>1 DEF AttachAdapter, AttachRecord, Return, Enter, Goto,
                            NoCall, Call
  <2> QED BY <1>1, <2>2, <2>3, FabricAssumption DEF LockIsAttachs, Attaching
<1>5. CASE Step(t) /\ ~AttachAuthorize(t) /\ ~AttachAdapter(t)
                   /\ ~AttachRecord(t)
  <2>1. ~Attaching(t) /\ UNCHANGED leaseLock
    BY <1>5 DEF Step, LeaseCommit, ReleaseTake, ReleaseLookup, ReleaseDetach,
                ReleaseRemove, RegisterNext, UnregisterCheck,
                UnregisterRemove, EvictOwned, At, Attaching
  <2>2. LeaseInv'
    BY <1>5, NextInv DEF Next
  <2>3. \A u \in Thread \ {t} : call'[u] = call[u]
    BY <1>1, <1>5
    DEF Step, LeaseCommit, ReleaseTake, ReleaseLookup, ReleaseDetach,
        ReleaseRemove, RegisterNext, UnregisterCheck, UnregisterRemove,
        EvictOwned, Return, Enter, Goto
  <2>4. leaseLock # t
    BY <2>1 DEF LockIsAttachs
  <2>5. ~Attaching(t)'
    BY <2>1, <2>2, <2>4 DEF LeaseInv, AttachUnderLease
  <2> QED BY <2>1, <2>3, <2>4, <2>5 DEF LockIsAttachs, Attaching
<1> QED BY <1>2, <1>3, <1>4, <1>5 DEF Step

\* attach is the only holder of the leases lock that outlives a step
\* (lib.rs:554 to 585), and it holds it exactly as long as its adapter runs or
\* its record is due: no other method and no error return keeps the other
\* callers waiting, which is the safety half of CallsReturn.
THEOREM LockHeldByAttach == Spec => []LockIsAttachs
<1>1. Init => LockIsAttachs
  BY FabricAssumption DEF Init, LockIsAttachs, Attaching, NoCall
<1>2. LeaseInv /\ LockIsAttachs /\ [Next]_vars => LockIsAttachs'
  <2> SUFFICES ASSUME LeaseInv, LockIsAttachs, [Next]_vars
               PROVE  LockIsAttachs'
    OBVIOUS
  <2>1. CASE \E t \in Thread : Invoke(t) \/ Step(t)
    BY <2>1, LockStep
  <2>2. CASE UNCHANGED <<leaseLock, call>>
    BY <2>2 DEF LockIsAttachs, Attaching
  <2> QED BY <2>1, <2>2 DEF Next, Tick, Quiescent, vars
<1> QED BY <1>1, <1>2, LeaseInvariant, PTL DEF Spec

\* What a call still has before it: evict_stale_nodes has to find what the
\* stale nodes own, then registrations come first and removals last.
Phase(c) == CASE c.pc = "idle" -> 0
              [] c.pc = "register" -> 2
              [] c.pc = "evict_owned" -> 3
              [] OTHER -> 1

\* The steps left of one critical section's worth of work.
Height(c) ==
  CASE c.pc \in {"lease_commit", "attach_record", "release_remove",
                 "unregister_check"} -> 1
    [] c.pc \in {"attach_adapter", "release_detach", "unregister_remove"} -> 2
    [] c.pc \in {"attach_authorize", "release_lookup"} -> 3
    [] c.pc = "release_take" -> 4
    [] OTHER -> 0

Fewer(A, B) == A \subseteq B /\ A # B

\* c is closer to its return than d, in a lexicographic order that is well
\* founded where the sets to register and unregister are finite, as the ones
\* a host discovery or a snapshot of the registry yields are.
Closer(c, d) ==
  \/ Phase(c) < Phase(d)
  \/ /\ Phase(c) = Phase(d)
     /\ \/ Fewer(c.add, d.add)
        \/ c.add = d.add /\ Fewer(c.drop, d.drop)
        \/ c.add = d.add /\ c.drop = d.drop /\ Height(c) < Height(d)

\* Every step of a call brings that call closer to its return, and the steps
\* of other calls leave it where it is.
CallsComeCloser ==
  [][\A t \in Thread :
       /\ Step(t) => Closer(call'[t], call[t])
       /\ ~At(t, "idle") => Step(t) \/ call'[t] = call[t]]_vars

\* No call that has begun to unregister has anything left to register.
PastAdding ==
  \A t \in Thread :
    call[t].pc \in {"unregister_check", "unregister_remove"}
      => call[t].add = {}

\* What NextWork turns a call into.
LEMMA NextWorkCases ==
  ASSUME NEW c \in Call
  PROVE  \/ NextWork(c).pc = "register" /\ NextWork(c).add = c.add
            /\ c.add # {}
         \/ /\ NextWork(c).pc = "unregister_check"
            /\ NextWork(c).add = c.add /\ NextWork(c).drop = c.drop
            /\ c.add = {}
         \/ NextWork(c).pc = "idle"
BY DEF NextWork, NoCall, Call

\* Moving to a label, with an adapter or without, keeps the work to be done.
MovesTo(d, c, label) == d.pc = label /\ d.add = c.add /\ d.drop = c.drop

LEMMA GotoKeepsWork ==
  ASSUME NEW c \in Call, NEW label \in PC
  PROVE  MovesTo([c EXCEPT !.pc = label], c, label)
BY DEF Call, MovesTo

LEMMA LookupKeepsWork ==
  ASSUME NEW c \in Call, NEW a
  PROVE  MovesTo([c EXCEPT !.pc = "release_lookup", !.adapter = a], c,
                 "release_lookup")
BY DEF Call, MovesTo

LEMMA StepComesCloser ==
  ASSUME LeaseInv, PastAdding, NEW t \in Thread, Step(t)
  PROVE  Closer(call'[t], call[t])
<1> DEFINE old == call[t]
           new == call'[t]
<1>1. call \in [Thread -> Call] /\ old \in Call
  BY DEF LeaseInv, TypeOK
<1>2. \A c : Enter(t, c) => new = c
  BY <1>1 DEF Enter
<1>3. \A label : Goto(t, label) => new = [old EXCEPT !.pc = label]
  BY <1>1 DEF Goto
<1>4. \A res : Return(t, res) => new.pc = "idle"
  BY <1>2 DEF Return, NoCall
<1>5. old.pc # "idle"
  BY DEF Step, LeaseCommit, AttachAuthorize, AttachAdapter, AttachRecord,
         ReleaseTake, ReleaseLookup, ReleaseDetach, ReleaseRemove,
         RegisterNext, UnregisterCheck, UnregisterRemove, EvictOwned, At
<1>6. new.pc = "idle" => Closer(new, old)
  <2>1. old.pc # "idle" => Phase(old) \in {1, 2, 3}
    BY DEF Phase
  <2>2. new.pc = "idle" => Phase(new) = 0
    BY DEF Phase
  <2> QED BY <1>5, <2>1, <2>2 DEF Closer
<1>7. CASE LeaseCommit(t) \/ AttachRecord(t) \/ ReleaseRemove(t)
  <2>1. \E res : Return(t, res)
    BY <1>7 DEF LeaseCommit, AttachRecord, ReleaseRemove
  <2> QED BY <1>4, <1>6, <2>1
<1>8. CASE AttachAuthorize(t) \/ AttachAdapter(t) \/ ReleaseLookup(t)
           \/ ReleaseDetach(t)
  <2>1. \/ \E res : Return(t, res)
        \/ old.pc = "attach_authorize" /\ Goto(t, "attach_adapter")
        \/ old.pc = "attach_adapter" /\ Goto(t, "attach_record")
        \/ old.pc = "release_lookup" /\ Goto(t, "release_detach")
        \/ old.pc = "release_lookup" /\ Goto(t, "release_remove")
        \/ old.pc = "release_detach" /\ Goto(t, "release_remove")
    BY <1>8 DEF AttachAuthorize, AttachAdapter, ReleaseLookup, ReleaseDetach,
                At
  <2>2. ASSUME NEW label \in PC, Goto(t, label)
        PROVE  MovesTo(new, old, label)
    <3>1. new = [old EXCEPT !.pc = label]
      BY <1>3, <2>2
    <3> QED BY <1>1, <3>1, GotoKeepsWork
  <2>3. \/ new.pc = "idle"
        \/ /\ new.add = old.add /\ new.drop = old.drop
           /\ \/ /\ old.pc = "attach_authorize" /\ new.pc = "attach_adapter"
              \/ /\ old.pc = "attach_adapter" /\ new.pc = "attach_record"
              \/ /\ old.pc = "release_lookup"
                 /\ new.pc \in {"release_detach", "release_remove"}
              \/ /\ old.pc = "release_detach" /\ new.pc = "release_remove"
    BY <1>4, <2>1, <2>2 DEF PC, MovesTo
  <2> QED BY <1>6, <2>3 DEF Closer, Phase, Height
<1>9. CASE ReleaseTake(t)
  <2>1. /\ old.pc = "release_take"
        /\ new.pc \in {"release_lookup", "release_remove"}
        /\ new.add = old.add /\ new.drop = old.drop
    <3>1. \/ new = [old EXCEPT !.pc = "release_remove"]
          \/ new = [old EXCEPT !.pc = "release_lookup",
                               !.adapter = attachments[old.resource]]
      BY <1>2, <1>3, <1>9 DEF ReleaseTake
    <3>2. MovesTo([old EXCEPT !.pc = "release_remove"], old, "release_remove")
      BY <1>1, GotoKeepsWork DEF PC
    <3>3. MovesTo([old EXCEPT !.pc = "release_lookup",
                              !.adapter = attachments[old.resource]],
                  old, "release_lookup")
      BY <1>1, LookupKeepsWork
    <3>4. MovesTo(new, old, "release_remove")
          \/ MovesTo(new, old, "release_lookup")
      BY <3>1, <3>2, <3>3
    <3> QED BY <1>9, <3>4 DEF ReleaseTake, At, MovesTo
  <2> QED BY <2>1 DEF Closer, Phase, Height
<1>10. CASE RegisterNext(t)
  <2>1. PICK r \in old.add : new = NextWork([old EXCEPT !.add = @ \ {r}])
    BY <1>2, <1>10 DEF RegisterNext
  <2> DEFINE c == [old EXCEPT !.add = @ \ {r}]
  <2>2. c \in Call /\ c.add = old.add \ {r} /\ old.pc = "register"
    BY <1>1, <1>10 DEF RegisterNext, At, Call
  <2>3. Fewer(c.add, old.add)
    BY <2>1, <2>2 DEF Fewer
  <2>4. new.pc = "register" => new.add = c.add
    BY <2>1, <2>2, NextWorkCases
  <2>5. new.pc \in {"register", "unregister_check", "idle"}
    BY <2>1, <2>2, NextWorkCases
  <2> QED BY <1>6, <2>2, <2>3, <2>4, <2>5 DEF Closer, Phase
<1>11. CASE UnregisterCheck(t)
  <2>1. PICK r \in old.drop :
          new = IF Leased(r)
                  THEN NextWork([old EXCEPT !.drop = @ \ {r},
                                            !.blocked = @ \cup {r}])
                  ELSE [old EXCEPT !.pc = "unregister_remove",
                                   !.resource = r, !.drop = @ \ {r}]
    BY <1>2, <1>11 DEF UnregisterCheck
  <2>2. old.pc = "unregister_check" /\ old.add = {}
    BY <1>11 DEF UnregisterCheck, At, PastAdding
  <2> DEFINE c == [old EXCEPT !.drop = @ \ {r}, !.blocked = @ \cup {r}]
             d == [old EXCEPT !.pc = "unregister_remove", !.resource = r,
                              !.drop = @ \ {r}]
  <2>3. c \in Call /\ c.add = {} /\ c.drop = old.drop \ {r}
    BY <1>1, <2>1, <2>2 DEF Call
  <2>4. d.pc = "unregister_remove" /\ d.add = {} /\ d.drop = old.drop \ {r}
    BY <1>1, <2>2 DEF Call
  <2>5. \/ new.pc = "idle"
        \/ /\ new.pc \in {"unregister_check", "unregister_remove"}
           /\ new.add = {} /\ new.drop = old.drop \ {r}
    BY <2>1, <2>3, <2>4, NextWorkCases
  <2>6. Fewer(old.drop \ {r}, old.drop)
    BY <2>1 DEF Fewer
  <2> QED BY <1>6, <2>2, <2>5, <2>6 DEF Closer, Phase
<1>12. CASE UnregisterRemove(t)
  <2>1. new = NextWork(old) /\ old.pc = "unregister_remove" /\ old.add = {}
    BY <1>2, <1>12 DEF UnregisterRemove, At, PastAdding
  <2>2. \/ new.pc = "idle"
        \/ /\ new.pc = "unregister_check"
           /\ new.add = old.add /\ new.drop = old.drop
    BY <1>1, <2>1, NextWorkCases
  <2> QED BY <1>6, <2>1, <2>2 DEF Closer, Phase, Height
<1>13. CASE EvictOwned(t)
  <2> DEFINE c == [old EXCEPT !.drop = OwnedBy(old.stale)]
  <2>1. new = NextWork(c) /\ old.pc = "evict_owned" /\ c \in Call
    BY <1>1, <1>2, <1>13 DEF EvictOwned, At, Call, OwnedBy
  <2>2. new.pc \in {"register", "unregister_check", "idle"}
    BY <2>1, NextWorkCases
  <2> QED BY <2>1, <2>2 DEF Closer, Phase
<1> QED BY <1>7, <1>8, <1>9, <1>10, <1>11, <1>12, <1>13 DEF Step

\* A first step, too, lists removals only once nothing is left to add.
LEMMA PastAddingStep ==
  ASSUME LeaseInv, PastAdding, NEW t \in Thread, Invoke(t) \/ Step(t)
  PROVE  PastAdding' /\ \A u \in Thread \ {t} : call'[u] = call[u]
<1> DEFINE Unregisters(c) == c.pc \in {"unregister_check",
                                       "unregister_remove"}
<1>1. call \in [Thread -> Call]
  BY DEF LeaseInv, TypeOK
<1>2. \A c \in Call : Unregisters(NextWork(c)) => NextWork(c).add = {}
  BY NextWorkCases
<1>3. ASSUME NEW c, Enter(t, c), Unregisters(c) => c.add = {}
      PROVE  PastAdding' /\ \A u \in Thread \ {t} : call'[u] = call[u]
  BY <1>1, <1>3 DEF PastAdding, Enter
<1>4. CASE \E c \in Call : Enter(t, NextWork(c))
  BY <1>2, <1>3, <1>4
<1>5. CASE \E c : Enter(t, c) /\ ~Unregisters(c)
  BY <1>3, <1>5
<1>6. CASE Invoke(t)
  <2>1. CASE \/ \E r \in Resource : Unregister(t, r)
             \/ \E found \in Discoverable : DiscoverLocal(t, found)
                                            \/ RefreshLocal(t, found)
    <3>1. \A r \in Resource : [NoCall EXCEPT !.drop = {r}] \in Call
      BY DEF NoCall, Call, PC, Result
    <3>2. \A A, D \in SUBSET Resource :
            [NoCall EXCEPT !.add = A, !.drop = D] \in Call
      BY DEF NoCall, Call, PC, Result
    <3>3. \A A \in SUBSET Resource : [NoCall EXCEPT !.add = A] \in Call
      BY DEF NoCall, Call, PC, Result
    <3>4. \A found \in Discoverable : found \in SUBSET Resource
      BY FabricAssumption
    <3>5. \E c \in Call : Enter(t, NextWork(c))
      <4>1. ASSUME NEW r \in Resource, Unregister(t, r)
            PROVE  \E c \in Call : Enter(t, NextWork(c))
        BY <3>1, <4>1 DEF Unregister
      <4>2. ASSUME NEW found \in Discoverable, DiscoverLocal(t, found)
            PROVE  \E c \in Call : Enter(t, NextWork(c))
        BY <3>3, <3>4, <4>2 DEF DiscoverLocal
      <4>3. ASSUME NEW found \in Discoverable, RefreshLocal(t, found)
            PROVE  \E c \in Call : Enter(t, NextWork(c))
        <5> DEFINE current == {r \in Resource : resources[r] # Absent}
        <5>1. found \ current \in SUBSET Resource
              /\ current \ found \in SUBSET Resource
          BY <3>4
        <5> QED BY <3>2, <4>3, <5>1 DEF RefreshLocal
      <4> QED BY <2>1, <4>1, <4>2, <4>3
    <3> QED BY <1>4, <3>5
  <2>2. CASE ~(\/ \E r \in Resource : Unregister(t, r)
               \/ \E found \in Discoverable : DiscoverLocal(t, found)
                                              \/ RefreshLocal(t, found))
    <3>1. \E c : Enter(t, c) /\ ~Unregisters(c)
      <4>1. \/ \E res : Enter(t, [NoCall EXCEPT !.ret = res])
            \/ \E r, ttl : Enter(t, [NoCall EXCEPT !.pc = "lease_commit",
                                       !.resource = r, !.ttl = ttl])
            \/ \E r, i, a : Enter(t, [NoCall EXCEPT !.pc = "attach_authorize",
                              !.resource = r, !.lease = i, !.adapter = a])
            \/ \E r, i : Enter(t, [NoCall EXCEPT !.pc = "release_take",
                                     !.resource = r, !.lease = i])
            \/ \E stale : Enter(t, [NoCall EXCEPT !.pc = "evict_owned",
                                                  !.stale = stale])
        BY <1>6, <2>2 DEF Invoke, LeaseExclusive, RenewLease, Attach, Release,
                          Register, Heartbeat, EvictStaleNodes, Return
      <4>2. /\ \A res : ~Unregisters([NoCall EXCEPT !.ret = res])
            /\ \A r, ttl :
                 ~Unregisters([NoCall EXCEPT !.pc = "lease_commit",
                                 !.resource = r, !.ttl = ttl])
            /\ \A r, i, a :
                 ~Unregisters([NoCall EXCEPT !.pc = "attach_authorize",
                                 !.resource = r, !.lease = i, !.adapter = a])
            /\ \A r, i :
                 ~Unregisters([NoCall EXCEPT !.pc = "release_take",
                                 !.resource = r, !.lease = i])
            /\ \A stale :
                 ~Unregisters([NoCall EXCEPT !.pc = "evict_owned",
                                             !.stale = stale])
        BY DEF NoCall
      <4> HIDE DEF Unregisters
      <4> QED BY <4>1, <4>2
    <3> QED BY <1>5, <3>1
  <2> QED BY <2>1, <2>2
<1>7. CASE Step(t)
  <2> DEFINE old == call[t]
  <2>1. old \in Call
    BY <1>1
  <2>2. CASE RegisterNext(t) \/ UnregisterRemove(t) \/ EvictOwned(t)
    <3>1. \A r : [old EXCEPT !.add = @ \ {r}] \in Call
      BY <2>1 DEF Call
    <3>2. [old EXCEPT !.drop = OwnedBy(old.stale)] \in Call
      BY <2>1 DEF Call, OwnedBy
    <3>3. \E c \in Call : Enter(t, NextWork(c))
      BY <2>1, <2>2, <3>1, <3>2 DEF RegisterNext, UnregisterRemove, EvictOwned
    <3> QED BY <1>4, <3>3
  <2>3. CASE UnregisterCheck(t)
    <3>1. PICK r \in old.drop :
            Enter(t, IF Leased(r)
                       THEN NextWork([old EXCEPT !.drop = @ \ {r},
                                                 !.blocked = @ \cup {r}])
                       ELSE [old EXCEPT !.pc = "unregister_remove",
                                        !.resource = r, !.drop = @ \ {r}])
      BY <2>3 DEF UnregisterCheck
    <3> DEFINE c == [old EXCEPT !.drop = @ \ {r}, !.blocked = @ \cup {r}]
               d == [old EXCEPT !.pc = "unregister_remove",
                                !.resource = r, !.drop = @ \ {r}]
    <3>2. c \in Call
      BY <2>1, <3>1 DEF Call
    <3>3. d.add = {}
      BY <2>1, <2>3 DEF UnregisterCheck, At, PastAdding, Call
    <3>4. CASE Enter(t, NextWork(c))
      BY <1>4, <3>2, <3>4
    <3>5. CASE Enter(t, d)
      BY <1>3, <3>3, <3>5
    <3> QED BY <3>1, <3>4, <3>5
  <2>4. CASE ~RegisterNext(t) /\ ~UnregisterRemove(t) /\ ~EvictOwned(t)
             /\ ~UnregisterCheck(t)
    <3>1. \/ \E res : Enter(t, [NoCall EXCEPT !.ret = res])
          \/ \E label \in {"attach_adapter", "attach_record",
                           "release_detach", "release_remove"} :
               Enter(t, [old EXCEPT !.pc = label])
          \/ \E a : Enter(t, [old EXCEPT !.pc = "release_lookup",
                                         !.adapter = a])
      BY <1>1, <1>7, <2>4
      DEF Step, LeaseCommit, AttachAuthorize, AttachAdapter, AttachRecord,
          ReleaseTake, ReleaseLookup, ReleaseDetach, ReleaseRemove, Return,
          Goto, Enter
    <3>2. \A label : [old EXCEPT !.pc = label].pc = label
      BY <2>1 DEF Call
    <3>3. \A a : [old EXCEPT !.pc = "release_lookup", !.adapter = a].pc
                   = "release_lookup"
      BY <2>1 DEF Call
    <3>4. \A res : [NoCall EXCEPT !.ret = res].pc = "idle"
      BY DEF NoCall
    <3> QED BY <1>5, <3>1, <3>2, <3>3, <3>4
  <2> QED BY <2>2, <2>3, <2>4
<1> QED BY <1>6, <1>7

\* No method loops: each step of a call decreases what is left of it, so the
\* `for` loops of discover_local, refresh_local and evict_stale_nodes and the
\* chains of critical sections of lease_exclusive, attach, release and
\* unregister end after finitely many steps of their own, whatever the other
\* threads do.  With LockHeldByAttach this is why every call returns.
THEOREM CallsProgress == Spec => CallsComeCloser
<1> DEFINE Move ==
      \A t \in Thread :
        /\ Step(t) => Closer(call'[t], call[t])
        /\ ~At(t, "idle") => Step(t) \/ call'[t] = call[t]
<1>1. Init => PastAdding
  BY DEF Init, PastAdding, NoCall
<1>2. LeaseInv /\ PastAdding /\ [Next]_vars => PastAdding' /\ [Move]_vars
  <2> SUFFICES ASSUME LeaseInv, PastAdding, [Next]_vars
               PROVE  PastAdding' /\ [Move]_vars
    OBVIOUS
  <2>1. ASSUME NEW t \in Thread, Invoke(t) \/ Step(t)
        PROVE  PastAdding' /\ Move
    <3>1. PastAdding' /\ \A u \in Thread \ {t} : call'[u] = call[u]
      BY <2>1, PastAddingStep
    <3>2. Invoke(t) => At(t, "idle")
      BY DEF Invoke, LeaseExclusive, RenewLease, Attach, Release, Register,
             Unregister, DiscoverLocal, RefreshLocal, Heartbeat,
             EvictStaleNodes, Begin, BeginMaintenance
    <3> QED BY <2>1, <3>1, <3>2, StepComesCloser
  <2>2. CASE UNCHANGED call
    <3>1. PastAdding'
      BY <2>2 DEF PastAdding
    <3>2. Move
      BY <2>2, StepComesCloser
    <3> QED BY <3>1, <3>2
  <2> QED BY <2>1, <2>2 DEF Next, Tick, Quiescent, vars
<1> QED BY <1>1, <1>2, LeaseInvariant, PTL DEF Spec, CallsComeCloser
=============================================================================
