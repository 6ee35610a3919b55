-------------------------- MODULE FleetPlanProofs --------------------------
(***************************************************************************)
(* Proofs about FleetPlan, for any fleet views, asks and replies: a        *)
(* refusal to place is true and a placement is the best there is.          *)
(***************************************************************************)
EXTENDS FleetPlan, TLAPS, WellFoundedInduction

\* Roles are known only after the files are read, and an ask has no files.
PhasesInOrder ==
  /\ pc \in {"snapshot", "matrix"} => roles = {}
  /\ pc \in {"snapshot", "matrix", "roles", "plan"} => todo = {} /\ best.host = 0
  /\ input.mode = "ask" => pc \in {"dial", "await", "done"}
  /\ input.mode # "ask" => pc \notin {"dial", "await"}

HostsAreKeys ==
  /\ input \in Inputs
  /\ view = [hosts |-> view.hosts, latency |-> view.latency]
  /\ DOMAIN view.hosts \subseteq HostKeys

Barren(k) == k = input.node \/ Serving(view.hosts[k], input.role) = {}

\* While the pass has no candidate, no host it has come to could serve.
PassMissesNone ==
  pc = "fleet" =>
    /\ Valid /\ input.mode = "monolithic" /\ OwnSlots = {}
    /\ todo \subseteq DOMAIN view.hosts
    /\ best.host = 0 => \A k \in DOMAIN view.hosts \ todo : Barren(k)

PlanInv ==
  /\ PhasesInOrder
  /\ HostsAreKeys
  /\ PassMissesNone
  /\ RefusalIsTrue

-----------------------------------------------------------------------------
(* Lemmas *)

\* The hosts that are left have a first one.
LEMMA FirstOf ==
  ASSUME NEW T, T \subseteq Nat, T # {}
  PROVE  \E m \in T : \A l \in T : m <= l
<1> DEFINE Less == {ss \in Nat \X Nat : ss[1] < ss[2]}
<1>1. IsWellFoundedOn(Less, Nat)
  BY NatLessThanWellFounded DEF OpToRel
<1>2. \A x, y \in Nat : <<y, x>> \in Less <=> y < x
  OBVIOUS
<1>3. \E x \in T : \A y \in T : ~ (<<y, x>> \in Less)
  <2> HIDE DEF Less
  <2> QED BY <1>1, WFMin
<1>4. PICK m \in T : \A y \in T : ~ (<<y, m>> \in Less)
  BY <1>3
<1>5. \A y \in T : ~ (y < m)
  <2> HIDE DEF Less
  <2> QED BY <1>2, <1>4
<1> QED BY <1>4, <1>5

LEMMA NextHostIsLeft ==
  ASSUME todo \subseteq HostKeys, todo # {}
  PROVE  NextHost \in todo /\ NextHost # 0 /\ \A l \in todo : NextHost <= l
<1>1. \E m \in todo : \A l \in todo : m <= l
  BY FirstOf, PlanAssumption
<1> QED BY <1>1, PlanAssumption DEF NextHost

\* An eligible slot is one its host would serve.
LEMMA EligibleServes ==
  ASSUME NEW e \in Eligible
  PROVE  /\ e[1] \in DOMAIN view.hosts
         /\ Serving(view.hosts[e[1]], input.role) # {}
<1>1. PICK k \in DOMAIN view.hosts : \E i \in DOMAIN view.hosts[k].slots : e = <<k, i>>
  BY DEF Eligible
<1>2. PICK i \in DOMAIN view.hosts[k].slots : e = <<k, i>>
  BY <1>1
<1>3. ~view.hosts[k].locked /\ Serves(view.hosts[k].slots[i], input.role)
  BY <1>2 DEF Eligible, Serves
<1> QED BY <1>2, <1>3 DEF Serving

LEMMA InitInv == Init => PlanInv
<1> SUFFICES ASSUME Init PROVE PlanInv
  OBVIOUS
<1>1. PhasesInOrder /\ PassMissesNone /\ pc # "done"
  BY DEF Init, PhasesInOrder, PassMissesNone, NoCandidate
<1>2. HostsAreKeys
  BY DEF Init, HostsAreKeys, EmptyMap
<1> QED BY <1>1, <1>2 DEF PlanInv, RefusalIsTrue, Planned

\* A step that goes on with the work: the outcome is not known yet.
LEMMA GoesOn ==
  ASSUME PlanInv, pc' # "done", PhasesInOrder', HostsAreKeys', PassMissesNone'
  PROVE  PlanInv'
BY DEF PlanInv, RefusalIsTrue, Planned

\* A step that ends a `plan offline`.
LEMMA EndsOffline ==
  ASSUME PlanInv, pc \notin {"dial", "await", "done"}, pc' = "done",
         UNCHANGED <<input, view, roles, wire>>, RefusalIsTrue'
  PROVE  PlanInv'
BY DEF PlanInv, PhasesInOrder, HostsAreKeys, PassMissesNone

-----------------------------------------------------------------------------
(* plan offline *)

LEMMA LoadInv == ASSUME PlanInv, LoadSnapshot \/ LoadMatrix \/ LoadRoles PROVE PlanInv'
<1>1. /\ UNCHANGED <<input, todo, best, wire>> /\ pc \in {"snapshot", "matrix", "roles"}
      /\ input.mode # "ask"
  BY DEF LoadSnapshot, LoadMatrix, LoadRoles, PlanInv, PhasesInOrder
<1>2. CASE LoadSnapshot \/ LoadMatrix
  <2>1. roles = {} /\ UNCHANGED roles
    BY <1>2 DEF LoadSnapshot, LoadMatrix, PlanInv, PhasesInOrder
  <2>2. CASE pc' = "done" /\ UNCHANGED view
    <3>1. RefusalIsTrue'
      BY <2>1 DEF RefusalIsTrue, Valid
    <3> QED BY <1>1, <2>1, <2>2, <3>1, EndsOffline
  <2>3. CASE pc' \in {"matrix", "roles"}
    <3>1. HostsAreKeys'
      <4>1. CASE LoadSnapshot
        <5>1. view' = FromSnapshotJson(input.view)
          BY <4>1, <2>3 DEF LoadSnapshot, Unloadable, Report
        <5>2. /\ DOMAIN view'.hosts \subseteq DOMAIN HostMap(input.view)
              /\ view' = [hosts |-> view'.hosts, latency |-> view'.latency]
          BY <5>1 DEF FromSnapshotJson
        <5> QED BY <1>1, <5>2, InputsAssumption DEF PlanInv, HostsAreKeys
      <4>2. CASE LoadMatrix
        <5>1. view' = view \/ view' = [view EXCEPT !.latency = ReadLatency(input.matrix)]
          BY <4>2, <2>3 DEF LoadMatrix
        <5>2. /\ view'.hosts = view.hosts
              /\ view' = [hosts |-> view'.hosts, latency |-> view'.latency]
          BY <5>1 DEF PlanInv, HostsAreKeys
        <5> QED BY <1>1, <5>2 DEF PlanInv, HostsAreKeys
      <4> QED BY <1>2, <4>1, <4>2
    <3>2. PhasesInOrder' /\ PassMissesNone'
      BY <1>1, <2>1, <2>3 DEF PlanInv, PhasesInOrder, PassMissesNone
    <3> QED BY <1>1, <2>3, <3>1, <3>2, GoesOn
  <2>4. (pc' = "done" /\ UNCHANGED view) \/ pc' \in {"matrix", "roles"}
    BY <1>2 DEF LoadSnapshot, LoadMatrix, Unloadable, Report
  <2> QED BY <2>2, <2>3, <2>4
<1>3. CASE LoadRoles
  <2>1. pc' = "plan" /\ UNCHANGED view
    BY <1>3 DEF LoadRoles
  <2>2. PhasesInOrder' /\ PassMissesNone' /\ HostsAreKeys'
    BY <1>1, <2>1 DEF PlanInv, PhasesInOrder, PassMissesNone, HostsAreKeys
  <2> QED BY <1>1, <2>1, <2>2, GoesOn
<1> QED BY <1>2, <1>3

LEMMA PlanByKindInv == ASSUME PlanInv, PlanByKind PROVE PlanInv'
<1>1. UNCHANGED <<input, view, roles, best, wire>> /\ pc = "plan" /\ input.mode # "ask"
  BY DEF PlanByKind, PlanInv, PhasesInOrder
<1>2. CASE Invalid
  <2>1. pc' = "done" /\ ~Valid
    BY <1>2 DEF Invalid, Report, Valid
  <2>2. RefusalIsTrue'
    BY <1>1, <2>1 DEF RefusalIsTrue, Valid, Unnamed
  <2> QED BY <1>1, <2>1, <2>2, EndsOffline
<1>3. CASE input.mode \notin {"monolithic", "federated"} /\ Report(Reject("bad-enum", 0, NoWhy))
  <2>1. pc' = "done" /\ result'.token = "bad-enum"
    BY <1>3 DEF Report, Reject
  <2>2. RefusalIsTrue'
    BY <1>1, <1>3, <2>1 DEF RefusalIsTrue
  <2> QED BY <1>1, <2>1, <2>2, EndsOffline
<1>4. CASE Report(OwnFragment)
  <2>1. pc' = "done" /\ result'.kind = "fragment"
    BY <1>4 DEF Report, OwnFragment, FragmentFor
  <2>2. RefusalIsTrue'
    BY <2>1 DEF RefusalIsTrue
  <2> QED BY <1>1, <2>1, <2>2, EndsOffline
<1>5. CASE input.mode = "federated" /\ OwnSlots = {} /\ Report(EscalateNowhere("federated"))
  <2>1. /\ pc' = "done" /\ result'.token = "escalate-nowhere"
        /\ result'.why.by = "federated" \/ Eligible = {}
    <3>1. DOMAIN view.hosts = {} => Eligible = {}
      BY DEF Eligible
    <3>2. DOMAIN view.hosts # {} => EscalateConstraint("federated").by = "federated"
      BY DEF EscalateConstraint
    <3> QED BY <1>5, <3>1, <3>2 DEF Report, EscalateNowhere, Reject
  <2>2. \A e \in Eligible : e[1] # input.node
    BY <1>5, EligibleServes DEF OwnSlots
  <2>3. Eligible' = Eligible
    BY <1>1 DEF Eligible
  <2>4. RefusalIsTrue'
    BY <1>1, <1>5, <2>1, <2>2, <2>3 DEF RefusalIsTrue
  <2> QED BY <1>1, <2>1, <2>4, EndsOffline
<1>6. CASE /\ Valid /\ input.mode = "monolithic" /\ OwnSlots = {}
           /\ pc' = "fleet" /\ todo' = DOMAIN view.hosts
  <2>1. Valid' /\ OwnSlots' = {}
    BY <1>1, <1>6 DEF Valid, Unnamed, OwnSlots, Serving
  <2>2. PassMissesNone'
    BY <1>1, <1>6, <2>1 DEF PassMissesNone
  <2>3. PhasesInOrder' /\ HostsAreKeys'
    BY <1>1, <1>6 DEF PlanInv, PhasesInOrder, HostsAreKeys
  <2> QED BY <1>6, <2>2, <2>3, GoesOn
<1> QED BY <1>2, <1>3, <1>4, <1>5, <1>6 DEF PlanByKind

LEMMA ConsiderInv == ASSUME PlanInv, ConsiderHost PROVE PlanInv'
<1> DEFINE k == NextHost
           serving == Serving(view.hosts[k], input.role)
           candidate == Candidate(k, BestSlot(view.hosts[k], input.role),
                                  RttMs(view.latency, input.node, k))
<1>1. /\ UNCHANGED <<input, pc, view, roles, wire>> /\ pc = "fleet" /\ todo # {}
      /\ todo' = todo \ {k}
      /\ best' = IF k # input.node /\ serving # {} /\ Better(candidate) THEN candidate ELSE best
  BY DEF ConsiderHost
<1>2. /\ Valid /\ input.mode = "monolithic" /\ OwnSlots = {} /\ todo \subseteq DOMAIN view.hosts
      /\ best.host = 0 => \A h \in DOMAIN view.hosts \ todo : Barren(h)
  BY <1>1 DEF PlanInv, PassMissesNone
<1>3. k \in todo /\ k # 0
  BY <1>1, <1>2, NextHostIsLeft DEF PlanInv, HostsAreKeys
<1>4. candidate.host = k
  BY DEF Candidate
<1>5. best'.host = 0 => best.host = 0 /\ Barren(k)
  BY <1>1, <1>3, <1>4 DEF Better, Barren
<1>6. \A h : Barren(h)' <=> Barren(h)
  BY <1>1 DEF Barren, Serving, Serves
<1>7. Valid' /\ OwnSlots' = {}
  BY <1>1, <1>2 DEF Valid, Unnamed, OwnSlots, Serving
<1>8. PassMissesNone'
  BY <1>1, <1>2, <1>3, <1>5, <1>6, <1>7 DEF PassMissesNone
<1>9. PhasesInOrder' /\ HostsAreKeys'
  BY <1>1 DEF PlanInv, PhasesInOrder, HostsAreKeys
<1> QED BY <1>1, <1>8, <1>9, GoesOn

LEMMA FleetDoneInv == ASSUME PlanInv, FleetDone PROVE PlanInv'
<1>1. UNCHANGED <<input, view, roles, todo, best, wire>> /\ pc = "fleet" /\ todo = {} /\ pc' = "done"
  BY DEF FleetDone, Report
<1>2. CASE result'.kind = "fragment"
  <2>1. RefusalIsTrue'
    BY <1>2 DEF RefusalIsTrue
  <2> QED BY <1>1, <2>1, EndsOffline
<1>3. CASE best.host = 0 /\ result' = EscalateNowhere("head_plan")
  <2>1. /\ input.mode = "monolithic" /\ OwnSlots = {}
        /\ \A k \in DOMAIN view.hosts : Barren(k)
    BY <1>1, <1>3 DEF PlanInv, PassMissesNone
  <2>2. Eligible = {}
    <3> SUFFICES ASSUME NEW e \in Eligible PROVE FALSE
      OBVIOUS
    <3>1. e[1] \in DOMAIN view.hosts /\ Serving(view.hosts[e[1]], input.role) # {}
      BY EligibleServes
    <3>2. e[1] = input.node
      BY <2>1, <3>1 DEF Barren
    <3> QED BY <2>1, <3>1, <3>2 DEF OwnSlots
  <2>3. Eligible' = Eligible /\ result'.token = "escalate-nowhere"
    BY <1>1, <1>3 DEF Eligible, EscalateNowhere, Reject
  <2>4. RefusalIsTrue'
    BY <1>1, <1>3, <2>1, <2>2, <2>3 DEF RefusalIsTrue
  <2> QED BY <1>1, <2>4, EndsOffline
<1> QED
  <2>1. result'.kind = "fragment" \/ (best.host = 0 /\ result' = EscalateNowhere("head_plan"))
    BY DEF FleetDone, Report, FragmentFor
  <2> QED BY <1>2, <1>3, <2>1

-----------------------------------------------------------------------------
(* plan ask *)

\* A step that ends a `plan ask`: nothing was planned here.
LEMMA EndsAsk ==
  ASSUME PlanInv, pc \in {"dial", "await"}, pc' = "done", UNCHANGED <<input, view, roles>>
  PROVE  PlanInv'
<1>1. input.mode = "ask"
  BY DEF PlanInv, PhasesInOrder
<1> QED BY <1>1 DEF PlanInv, PhasesInOrder, HostsAreKeys, PassMissesNone, RefusalIsTrue, Planned

LEMMA HeadInv == ASSUME PlanInv, PolicyHead \/ (DialHead /\ pc' = "await") PROVE PlanInv'
<1>1. UNCHANGED <<input, view, roles, todo, best>> /\ pc' = "await" /\ pc \in {"dial", "await"}
  BY DEF PolicyHead, HeadReplies, HeadSends, HeadCloses, DialHead
<1>2. PhasesInOrder' /\ HostsAreKeys' /\ PassMissesNone'
  BY <1>1 DEF PlanInv, PhasesInOrder, HostsAreKeys, PassMissesNone
<1> QED BY <1>1, <1>2, GoesOn

LEMMA AskInv == ASSUME PlanInv, DialHead \/ ReadFails \/ ReadToEnd, pc' = "done" PROVE PlanInv'
BY EndsAsk DEF DialHead, ReadFails, ReadToEnd

LEMMA NextInv == ASSUME PlanInv, [Next]_vars PROVE PlanInv'
<1>1. CASE Offline
  BY <1>1, LoadInv, PlanByKindInv, ConsiderInv, FleetDoneInv DEF Offline
<1>2. CASE DialHead \/ ReadFails \/ ReadToEnd
  <2>1. pc' = "done" \/ (DialHead /\ pc' = "await")
    BY <1>2 DEF DialHead, ReadFails, ReadToEnd, Report
  <2> QED BY <1>2, <2>1, AskInv, HeadInv
<1>3. CASE PolicyHead
  <2>1. PolicyHead \/ (DialHead /\ pc' = "await")
    BY <1>3
  <2> QED BY <2>1, HeadInv
<1>4. CASE UNCHANGED vars
  <2>1. UNCHANGED <<input, pc, view, roles, todo, best, wire, result>>
    BY <1>4 DEF vars
  <2>2. PhasesInOrder' /\ HostsAreKeys'
    BY <2>1 DEF PlanInv, PhasesInOrder, HostsAreKeys
  <2>3. PassMissesNone'
    BY <2>1 DEF PlanInv, PassMissesNone, Valid, Unnamed, OwnSlots, Serving, Serves, Barren
  <2>4. RefusalIsTrue'
    <3>1. Eligible' = Eligible
      BY <2>1 DEF Eligible
    <3>2. RefusalIsTrue
      BY DEF PlanInv
    <3> QED BY <2>1, <3>1, <3>2 DEF RefusalIsTrue, Planned, Valid, Unnamed
  <2> QED BY <2>2, <2>3, <2>4 DEF PlanInv
<1> QED BY <1>1, <1>2, <1>3, <1>4 DEF Next, Client, Exited

-----------------------------------------------------------------------------
(* Types *)

\* A host lists finitely many slots.
SlotsAreFinite ==
  \A k \in DOMAIN view.hosts : \E n \in Nat : DOMAIN view.hosts[k].slots \subseteq 1..n

TypeInv == TypeOK /\ SlotsAreFinite

\* What from_snapshot_json reads of a host is a host.
LEMMA ReadSlotsTyped ==
  ASSUME NEW raw \in RawHost
  PROVE  /\ IsHost([locked |-> raw.locked, slots |-> ReadSlots(raw)])
         /\ \E n \in Nat : DOMAIN ReadSlots(raw) \subseteq 1..n
<1> DEFINE host == [locked |-> raw.locked, slots |-> ReadSlots(raw)]
<1>1. raw.items \in Seq(Slot \union {NotObject}) /\ raw.locked \in BOOLEAN
  BY DEF RawHost
<1>2. /\ Len(raw.items) \in Nat /\ DOMAIN raw.items = 1..Len(raw.items)
      /\ \A i \in 1..Len(raw.items) : raw.items[i] \in Slot \union {NotObject}
  BY <1>1
<1>3. DOMAIN ReadSlots(raw) \subseteq 1..Len(raw.items)
  BY <1>2 DEF ReadSlots
<1>4. ASSUME NEW i \in DOMAIN ReadSlots(raw) PROVE ReadSlots(raw)[i] \in Slot
  <2>1. /\ i \in Nat /\ raw.items[i] \in Slot
        /\ ReadSlots(raw)[i] = [raw.items[i] EXCEPT !.slot = IF @ = 0 THEN i ELSE @]
    BY <1>2, <1>3 DEF ReadSlots
  <2> QED BY <2>1 DEF Slot
<1>5. host.locked = raw.locked /\ host.slots = ReadSlots(raw)
  OBVIOUS
<1>6. DOMAIN ReadSlots(raw) \subseteq Nat
  BY <1>2, <1>3
<1> QED BY <1>1, <1>2, <1>3, <1>4, <1>5, <1>6 DEF IsHost

LEMMA ReadLatencyTyped ==
  ASSUME NEW doc, IsDocument(doc)
  PROVE  \A k \in DOMAIN ReadLatency(doc) : IsRow(ReadLatency(doc)[k])
<1>1. CASE ReadLatency(doc) = doc.rpc_median_ms
  BY <1>1 DEF IsDocument
<1>2. CASE ReadLatency(doc) = EmptyMap
  BY <1>2 DEF EmptyMap
<1>3. CASE ReadLatency(doc) = [k \in {doc.from} |-> doc.nodes]
  BY <1>3 DEF IsDocument
<1> QED BY <1>1, <1>2, <1>3 DEF ReadLatency

LEMMA SnapshotTyped ==
  ASSUME NEW i \in Inputs, NEW v, v = FromSnapshotJson(i.view)
  PROVE  /\ DOMAIN v.hosts \subseteq HostKeys
         /\ \A k \in DOMAIN v.hosts :
              IsHost(v.hosts[k]) /\ \E n \in Nat : DOMAIN v.hosts[k].slots \subseteq 1..n
         /\ \A k \in DOMAIN v.latency : IsRow(v.latency[k])
<1> DEFINE map == HostMap(i.view)
           keys == {k \in DOMAIN map : map[k] # NotObject}
<1>1. /\ v.hosts = [k \in keys |-> [locked |-> map[k].locked, slots |-> ReadSlots(map[k])]]
      /\ v.latency = ReadLatency(i.view)
  BY DEF FromSnapshotJson
<1>2. DOMAIN map \subseteq HostKeys /\ \A k \in keys : map[k] \in RawHost
  BY InputsAssumption
<1>3. ASSUME NEW k \in DOMAIN v.hosts
      PROVE  IsHost(v.hosts[k]) /\ \E n \in Nat : DOMAIN v.hosts[k].slots \subseteq 1..n
  <2>1. map[k] \in RawHost /\ v.hosts[k] = [locked |-> map[k].locked, slots |-> ReadSlots(map[k])]
    BY <1>1, <1>2
  <2> QED BY <2>1, ReadSlotsTyped
<1>4. \A k \in DOMAIN v.latency : IsRow(v.latency[k])
  BY <1>1, ReadLatencyTyped, InputsAssumption
<1>5. DOMAIN v.hosts \subseteq HostKeys
  BY <1>1, <1>2
<1> QED BY <1>3, <1>4, <1>5

LEMMA InitTyped == Init => TypeInv
<1> SUFFICES ASSUME Init PROVE TypeInv
  OBVIOUS
<1>1. DOMAIN view.hosts = {} /\ DOMAIN view.latency = {}
  BY DEF Init, EmptyMap
<1>2. result.kind = "reject" /\ best.host = 0
  BY DEF Init, Pending, Reject, NoCandidate
<1> QED BY <1>1, <1>2 DEF Init, TypeInv, TypeOK, SlotsAreFinite

\* Steps that leave the files' content as it was read.
LEMMA SameViewTyped ==
  ASSUME TypeInv, UNCHANGED <<input, view, roles>>,
         pc' \in {"snapshot", "matrix", "roles", "plan", "fleet", "dial", "await", "done"},
         todo' \subseteq DOMAIN view.hosts, best'.host \in HostKeys \union {0},
         result'.kind \in {"fragment", "reject"}
  PROVE  TypeInv'
BY DEF TypeInv, TypeOK, SlotsAreFinite

\* What a step may report.
LEMMA OutcomeKinds ==
  /\ \A token, status, why : Reject(token, status, why).kind = "reject"
  /\ \A k, i, rtt : FragmentFor(k, i, rtt).kind = "fragment"
  /\ Answer.kind \in {"fragment", "reject"}
<1>1. \A token, status, why : Reject(token, status, why).kind = "reject"
  BY DEF Reject
<1>2. \A k, i, rtt : FragmentFor(k, i, rtt).kind = "fragment"
  BY DEF FragmentFor
<1>3. [Pending EXCEPT !.kind = "fragment", !.token = "head"].kind = "fragment"
  BY DEF Pending, Reject
<1>4. Answer.kind \in {"fragment", "reject"}
  BY <1>1, <1>3 DEF Answer
<1> QED BY <1>1, <1>2, <1>4

LEMMA NextTyped == ASSUME PlanInv, TypeInv, [Next]_vars PROVE TypeInv'
<1>0. TypeOK /\ SlotsAreFinite /\ input \in Inputs
  BY DEF TypeInv, TypeOK
<1>1. CASE LoadSnapshot /\ view' = FromSnapshotJson(input.view)
  <2>1. /\ DOMAIN view'.hosts \subseteq HostKeys
        /\ \A k \in DOMAIN view'.hosts :
             IsHost(view'.hosts[k]) /\ \E n \in Nat : DOMAIN view'.hosts[k].slots \subseteq 1..n
        /\ \A k \in DOMAIN view'.latency : IsRow(view'.latency[k])
    BY <1>0, <1>1, SnapshotTyped
  <2>2. todo = {}
    BY <1>1 DEF LoadSnapshot, PlanInv, PhasesInOrder
  <2>3. UNCHANGED <<input, roles, todo, best>> /\ pc' \in {"matrix", "done"}
    BY <1>1 DEF LoadSnapshot, Unloadable, Report
  <2>4. result'.kind \in {"fragment", "reject"}
    BY <1>0, <1>1, OutcomeKinds DEF LoadSnapshot, Unloadable, Report, TypeOK
  <2> QED BY <1>0, <2>1, <2>2, <2>3, <2>4 DEF TypeInv, TypeOK, SlotsAreFinite
<1>2. CASE LoadMatrix /\ view' = [view EXCEPT !.latency = ReadLatency(input.matrix)]
  <2>1. view'.hosts = view.hosts /\ view'.latency = ReadLatency(input.matrix)
    BY <1>2 DEF PlanInv, HostsAreKeys
  <2>2. \A k \in DOMAIN view'.latency : IsRow(view'.latency[k])
    BY <1>0, <2>1, ReadLatencyTyped, InputsAssumption
  <2>3. UNCHANGED <<input, roles, todo, best>> /\ pc' \in {"roles", "done"}
    BY <1>2 DEF LoadMatrix, Unloadable, Report
  <2>4. result'.kind \in {"fragment", "reject"}
    BY <1>0, <1>2, OutcomeKinds DEF LoadMatrix, Unloadable, Report, TypeOK
  <2> QED BY <1>0, <2>1, <2>2, <2>3, <2>4 DEF TypeInv, TypeOK, SlotsAreFinite
<1>3. CASE LoadRoles
  <2>1. roles' \subseteq Roles \union {"path"}
    BY <1>0, <1>3, InputsAssumption DEF LoadRoles, RolesFromJson
  <2> QED BY <1>0, <1>3, <2>1 DEF LoadRoles, TypeInv, TypeOK, SlotsAreFinite
<1>4. CASE (LoadSnapshot \/ LoadMatrix) /\ UNCHANGED view
  <2>1. UNCHANGED <<input, roles, todo, best>> /\ pc' \in {"matrix", "roles", "done"}
    BY <1>4 DEF LoadSnapshot, LoadMatrix, Unloadable, Report
  <2>2. result'.kind \in {"fragment", "reject"}
    BY <1>0, <1>4, OutcomeKinds DEF LoadSnapshot, LoadMatrix, Unloadable, Report, TypeOK
  <2> QED BY <1>0, <1>4, <2>1, <2>2, SameViewTyped DEF TypeInv, TypeOK
<1>5. CASE PlanByKind
  <2>1. UNCHANGED <<input, view, roles, best>>
    BY <1>5 DEF PlanByKind
  <2>2. todo' \subseteq DOMAIN view.hosts /\ pc' \in {"fleet", "done"}
    BY <1>0, <1>5 DEF PlanByKind, Invalid, Report, TypeOK
  <2>3. result'.kind \in {"fragment", "reject"}
    BY <1>0, <1>5, OutcomeKinds DEF PlanByKind, Invalid, Report, EscalateNowhere, OwnFragment, TypeOK
  <2> QED BY <1>0, <2>1, <2>2, <2>3, SameViewTyped DEF TypeOK
<1>6. CASE ConsiderHost
  <2>1. /\ UNCHANGED <<input, pc, view, roles, result>> /\ todo # {}
        /\ todo' = todo \ {NextHost}
        /\ best' = best \/ best'.host = NextHost
    BY <1>6 DEF ConsiderHost, Candidate
  <2>2. todo \subseteq HostKeys
    BY <1>0 DEF TypeOK
  <2>3. NextHost \in HostKeys
    BY <2>1, <2>2, NextHostIsLeft
  <2> QED BY <1>0, <2>1, <2>3, SameViewTyped DEF TypeOK
<1>7. CASE FleetDone \/ DialHead \/ ReadFails \/ ReadToEnd
  <2>1. UNCHANGED <<input, view, roles, todo, best>> /\ pc' \in {"await", "done"}
    BY <1>7 DEF FleetDone, DialHead, ReadFails, ReadToEnd, Report
  <2>2. result'.kind \in {"fragment", "reject"}
    BY <1>0, <1>7, OutcomeKinds
    DEF FleetDone, DialHead, ReadFails, ReadToEnd, Report, EscalateNowhere, Unreachable, TypeOK
  <2> QED BY <1>0, <2>1, <2>2, SameViewTyped DEF TypeOK
<1>8. CASE PolicyHead \/ UNCHANGED vars
  <2>1. UNCHANGED <<input, pc, view, roles, todo, best, result>>
    BY <1>8 DEF PolicyHead, HeadReplies, HeadSends, HeadCloses, vars
  <2> QED BY <1>0, <2>1, SameViewTyped DEF TypeOK
<1>9. LoadSnapshot => view' = FromSnapshotJson(input.view) \/ UNCHANGED view
  BY DEF LoadSnapshot
<1>10. LoadMatrix => view' = [view EXCEPT !.latency = ReadLatency(input.matrix)] \/ UNCHANGED view
  BY DEF LoadMatrix
<1> QED
  BY <1>1, <1>2, <1>3, <1>4, <1>5, <1>6, <1>7, <1>8, <1>9, <1>10 DEF Next, Client, Offline, Exited

-----------------------------------------------------------------------------
(* The best slot *)

\* e is the choice over f: a higher score, or an equal one of an earlier host or
\* of a later slot of the same host.
Beats(e, f) ==
  \/ Score(f) < Score(e)
  \/ Score(f) = Score(e) /\ (e[1] < f[1] \/ (e[1] = f[1] /\ f[2] <= e[2]))

\* Among finitely many numbers there is a last one of the greatest: if for some
\* first n there were none up to n, the one up to n - 1, or n itself, would be.
LEMMA LastOfGreatest ==
  ASSUME NEW n \in Nat, NEW S, S \subseteq 1..n, S # {}, NEW f \in [S -> Int]
  PROVE  \E i \in S : \A j \in S : f[j] < f[i] \/ (f[j] = f[i] /\ j <= i)
<1> DEFINE IsLast(i, m) ==
             i \in S /\ i <= m /\ \A j \in S : j <= m => f[j] < f[i] \/ (f[j] = f[i] /\ j <= i)
           None == {m \in 0..n : (\E j \in S : j <= m) /\ ~(\E i \in S : IsLast(i, m))}
<1>a. S \subseteq Nat \ {0} /\ \A i \in S : f[i] \in Int
  OBVIOUS
<1>b. \A x, y, z \in S : f[x] <= f[y] /\ f[y] <= f[z] => f[x] < f[z] \/ f[x] = f[z]
  BY <1>a
<1>1. None = {}
  <2> SUFFICES ASSUME None # {} PROVE FALSE
    OBVIOUS
  <2>1. PICK m \in None : \A l \in None : m <= l
    <3>1. None \subseteq Nat
      OBVIOUS
    <3> HIDE DEF None
    <3> QED BY <3>1, FirstOf
  <2>2. m \in 0..n /\ m # 0
    OBVIOUS
  <2>3. m - 1 \in 0..n /\ m - 1 \notin None
    <3>1. m \in Nat /\ m - 1 \in 0..n /\ ~(m <= m - 1)
      BY <2>2
    <3> HIDE DEF None
    <3> QED BY <2>1, <3>1
  <2>4. PICK j \in S : j <= m
    OBVIOUS
  <2>5. ASSUME NEW i \in S PROVE ~IsLast(i, m)
    OBVIOUS
  <2>6. CASE \A l \in S : ~(l <= m - 1)
    <3>1. m \in S /\ \A l \in S : l <= m => l = m
      BY <1>a, <2>2, <2>4, <2>6
    <3>2. IsLast(m, m)
      BY <1>a, <3>1
    <3> QED BY <3>1, <3>2, <2>5
  <2>7. CASE \E l \in S : l <= m - 1
    <3>1. PICK i \in S : IsLast(i, m - 1)
      BY <2>3, <2>7
    <3>2. i \in Int /\ f[i] \in Int /\ i <= m - 1
      BY <3>1
    <3>3. CASE m \notin S
      <4>1. ASSUME NEW l \in S, l <= m PROVE l <= m - 1
        <5>1. l \in Nat /\ m \in Nat /\ l # m
          BY <1>a, <2>2, <3>3
        <5> QED BY <4>1, <5>1
      <4>2. IsLast(i, m)
        BY <1>a, <2>2, <3>1, <3>2, <4>1
      <4> QED BY <4>2, <2>5
    <3>4. CASE m \in S /\ f[m] < f[i]
      <4>1. ASSUME NEW l \in S, l <= m PROVE f[l] < f[i] \/ (f[l] = f[i] /\ l <= i)
        <5>1. CASE l = m
          BY <3>4, <5>1
        <5>2. CASE l <= m - 1
          BY <3>1, <5>2
        <5> QED BY <2>2, <4>1, <5>1, <5>2
      <4>2. IsLast(i, m)
        BY <1>a, <2>2, <3>2, <4>1
      <4> QED BY <4>2, <2>5
    <3>5. CASE m \in S /\ ~(f[m] < f[i])
      <4>1. f[m] \in Int /\ f[i] <= f[m]
        BY <3>2, <3>5
      <4>2. ASSUME NEW l \in S, l <= m PROVE f[l] < f[m] \/ (f[l] = f[m] /\ l <= m)
        <5>1. CASE l = m
          BY <5>1, <4>2
        <5>2. CASE l <= m - 1
          <6>1. f[l] \in Int /\ f[l] <= f[i]
            BY <3>1, <3>2, <5>2
          <6>2. f[l] < f[m] \/ f[l] = f[m]
            BY <1>b, <3>5, <4>1, <6>1, Zenon
          <6> QED BY <4>2, <6>2, Zenon
        <5>3. l = m \/ l <= m - 1
          BY <1>a, <2>2, <4>2
        <5> QED BY <5>1, <5>2, <5>3
      <4>3. IsLast(m, m)
        BY <2>2, <3>5, <4>2
      <4> QED BY <3>5, <4>3, <2>5
    <3> QED BY <3>3, <3>4, <3>5
  <2> QED BY <2>6, <2>7
<1>2. n \notin None
  BY <1>1
<1>3. \A j \in S : j <= n
  OBVIOUS
<1>4. PICK i \in S : IsLast(i, n)
  <2>1. \E j \in S : j <= n
    BY <1>3
  <2>2. n \in 0..n
    OBVIOUS
  <2> HIDE DEF IsLast
  <2> QED BY <1>2, <2>1, <2>2
<1> QED BY <1>3, <1>4

\* max_by finds the last of the roomiest slots, when any serves.
LEMMA BestSlotIsBest ==
  ASSUME NEW host, IsHost(host), NEW n \in Nat, DOMAIN host.slots \subseteq 1..n,
         NEW role, Serving(host, role) # {}
  PROVE  /\ BestSlot(host, role) \in Serving(host, role)
         /\ \A j \in Serving(host, role) :
              \/ host.slots[j].free_mb < host.slots[BestSlot(host, role)].free_mb
              \/ /\ host.slots[j].free_mb = host.slots[BestSlot(host, role)].free_mb
                 /\ j <= BestSlot(host, role)
<1> DEFINE S == Serving(host, role)
           f == [i \in S |-> host.slots[i].free_mb]
           last(i) == \A j \in S : \/ host.slots[j].free_mb < host.slots[i].free_mb
                                   \/ host.slots[j].free_mb = host.slots[i].free_mb /\ j <= i
<1>1. S \subseteq DOMAIN host.slots
  BY DEF Serving
<1>2. f \in [S -> Int]
  BY <1>1 DEF IsHost, Slot
<1>3. S \subseteq 1..n /\ S # {}
  BY <1>1
<1>4. \E i \in S : \A j \in S : f[j] < f[i] \/ (f[j] = f[i] /\ j <= i)
  <2> HIDE DEF S, f
  <2> QED BY <1>2, <1>3, LastOfGreatest
<1>5. \E i \in S : last(i)
  <2> HIDE DEF S
  <2> QED BY <1>4
<1>6. BestSlot(host, role) = CHOOSE i \in S : last(i)
  BY DEF BestSlot
<1> HIDE DEF S, last
<1>7. BestSlot(host, role) \in S /\ last(BestSlot(host, role))
  BY <1>5, <1>6
<1> QED BY <1>7 DEF S, last

LEMMA EligibleIsServing ==
  ASSUME NEW k, NEW i
  PROVE  <<k, i>> \in Eligible <=>
           k \in DOMAIN view.hosts /\ i \in Serving(view.hosts[k], input.role)
<1>1. ASSUME <<k, i>> \in Eligible
      PROVE  k \in DOMAIN view.hosts /\ i \in Serving(view.hosts[k], input.role)
  <2>1. PICK h \in DOMAIN view.hosts : \E j \in DOMAIN view.hosts[h].slots : <<k, i>> = <<h, j>>
    BY <1>1 DEF Eligible
  <2>2. k \in DOMAIN view.hosts /\ i \in DOMAIN view.hosts[k].slots
    BY <2>1
  <2>3. ~view.hosts[k].locked /\ Serves(view.hosts[k].slots[i], input.role)
    BY <1>1 DEF Eligible, Serves
  <2> QED BY <2>2, <2>3 DEF Serving
<1>2. ASSUME k \in DOMAIN view.hosts, i \in Serving(view.hosts[k], input.role)
      PROVE  <<k, i>> \in Eligible
  <2>1. /\ i \in DOMAIN view.hosts[k].slots /\ ~view.hosts[k].locked
        /\ Serves(view.hosts[k].slots[i], input.role)
    BY <1>2 DEF Serving
  <2> QED BY <1>2, <2>1 DEF Eligible, Serves
<1> QED BY <1>1, <1>2

LEMMA EligiblePair ==
  ASSUME NEW e \in Eligible
  PROVE  e = <<e[1], e[2]>>
<1>1. PICK k \in DOMAIN view.hosts : \E i \in DOMAIN view.hosts[k].slots : e = <<k, i>>
  BY DEF Eligible
<1> QED BY <1>1

\* The best slot of a host beats the others on it: they share the latency term.
LEMMA HostBest ==
  ASSUME TypeInv, NEW k \in DOMAIN view.hosts, Serving(view.hosts[k], input.role) # {},
         NEW i, i = BestSlot(view.hosts[k], input.role)
  PROVE  /\ <<k, i>> \in Eligible /\ Score(<<k, i>>) \in Int
         /\ \A f \in Eligible : f[1] = k => Beats(<<k, i>>, f) /\ Score(f) \in Int
<1> DEFINE host == view.hosts[k]
           rtt == IF k = input.node THEN NotMeasured ELSE RttMs(view.latency, input.node, k)
<1>1. IsHost(host) /\ \E n \in Nat : DOMAIN host.slots \subseteq 1..n
  BY DEF TypeInv, TypeOK, SlotsAreFinite
<1>2. /\ i \in Serving(host, input.role)
      /\ \A j \in Serving(host, input.role) :
           \/ host.slots[j].free_mb < host.slots[i].free_mb
           \/ host.slots[j].free_mb = host.slots[i].free_mb /\ j <= i
  BY <1>1, BestSlotIsBest
<1>3. rtt \in Rtt
  BY DEF TypeInv, TypeOK, RttMs, Rtt, IsRow
<1>4. \A j \in Serving(host, input.role) : host.slots[j].free_mb \in Int
  BY <1>1 DEF Serving, IsHost, Slot
<1>5. \A j : Score(<<k, j>>) = FleetScore(host.slots[j].free_mb, rtt)
  BY DEF Score
<1>6. \A free \in Int : FleetScore(free, rtt) \in Int
  BY <1>3 DEF FleetScore, Rtt, LatencyMbPerMs
<1>7. \A a, b \in Int : a < b => FleetScore(a, rtt) < FleetScore(b, rtt)
  BY <1>3 DEF FleetScore, Rtt, LatencyMbPerMs
<1>8. <<k, i>> \in Eligible /\ Score(<<k, i>>) \in Int
  BY <1>2, <1>4, <1>5, <1>6, EligibleIsServing
<1>9. ASSUME NEW f \in Eligible, f[1] = k PROVE Beats(<<k, i>>, f) /\ Score(f) \in Int
  <2>1. f = <<k, f[2]>> /\ f[2] \in Serving(host, input.role)
    BY <1>9, EligiblePair, EligibleIsServing
  <2>2. Score(f) = FleetScore(host.slots[f[2]].free_mb, rtt)
    BY <1>5, <2>1, Zenon
  <2>3. Score(f) \in Int
    BY <1>4, <1>6, <2>1, <2>2, Zenon
  <2>4. CASE host.slots[f[2]].free_mb < host.slots[i].free_mb
    <3>1. Score(f) < Score(<<k, i>>)
      BY <1>2, <1>4, <1>5, <1>7, <2>1, <2>2, <2>4, Zenon
    <3> QED BY <2>3, <3>1 DEF Beats
  <2>5. CASE host.slots[f[2]].free_mb = host.slots[i].free_mb /\ f[2] <= i
    <3>1. Score(f) = Score(<<k, i>>)
      BY <1>5, <2>2, <2>5, Zenon
    <3>2. <<k, i>>[1] = f[1] /\ <<k, i>>[2] = i
      BY <1>9
    <3> QED BY <2>3, <2>5, <3>1, <3>2 DEF Beats
  <2> QED BY <1>2, <2>1, <2>4, <2>5
<1> QED BY <1>8, <1>9

\* The pass has kept the best of the hosts it has come to, and these are before
\* the ones that are left.
PassKeepsBest ==
  pc = "fleet" =>
    /\ \A k \in DOMAIN view.hosts \ todo, l \in todo : k < l
    /\ best.host # 0 =>
         /\ best.host \in DOMAIN view.hosts \ todo /\ best.host # input.node
         /\ <<best.host, best.at>> \in Eligible
         /\ best.score = Score(<<best.host, best.at>>) /\ best.score \in Int
         /\ best.rtt = RttMs(view.latency, input.node, best.host)
         /\ \A f \in Eligible : f[1] \notin todo =>
              Beats(<<best.host, best.at>>, f) /\ Score(f) \in Int

\* A step that changes neither the view nor the ask.
LEMMA SameField ==
  ASSUME UNCHANGED <<view, input>>
  PROVE  /\ Eligible' = Eligible
         /\ \A e : Score(e)' = Score(e)
         /\ \A e, f : Beats(e, f)' <=> Beats(e, f)
<1>1. Eligible' = Eligible
  BY DEF Eligible
<1>2. \A e : Score(e)' = Score(e)
  BY DEF Score, RttMs, FleetScore
<1>3. \A e, f : Beats(e, f)' <=> Beats(e, f)
  BY <1>2 DEF Beats
<1> QED BY <1>1, <1>2, <1>3

\* One turn of the loop, with its three outcomes: nothing here to take, a better
\* candidate, and one that is not better.
LEMMA ConsiderBest ==
  ASSUME PlanInv, TypeInv, PassKeepsBest, ConsiderHost
  PROVE  PassKeepsBest'
<1> DEFINE k == NextHost
           i == BestSlot(view.hosts[k], input.role)
           serving == Serving(view.hosts[k], input.role)
           candidate == Candidate(k, i, RttMs(view.latency, input.node, k))
           b == <<best.host, best.at>>
<1>1. /\ UNCHANGED <<input, pc, view>> /\ pc = "fleet" /\ todo # {}
      /\ todo' = todo \ {k}
      /\ best' = IF k # input.node /\ serving # {} /\ Better(candidate) THEN candidate ELSE best
  BY DEF ConsiderHost
<1>2. /\ OwnSlots = {} /\ todo \subseteq DOMAIN view.hosts
      /\ best.host = 0 => \A h \in DOMAIN view.hosts \ todo : Barren(h)
  BY <1>1 DEF PlanInv, PassMissesNone
<1>3. /\ \A h \in DOMAIN view.hosts \ todo, l \in todo : h < l
      /\ best.host # 0 =>
           /\ best.host \in DOMAIN view.hosts \ todo /\ best.host # input.node /\ b \in Eligible
           /\ best.score = Score(b) /\ best.score \in Int
           /\ best.rtt = RttMs(view.latency, input.node, best.host)
           /\ \A f \in Eligible : f[1] \notin todo => Beats(b, f) /\ Score(f) \in Int
  BY <1>1 DEF PassKeepsBest
<1>4. DOMAIN view.hosts \subseteq Nat /\ todo \subseteq HostKeys
  BY <1>2, PlanAssumption DEF PlanInv, HostsAreKeys
<1>5. k \in todo /\ k # 0 /\ \A l \in todo : k <= l
  BY <1>1, <1>4, NextHostIsLeft
<1>6. /\ Eligible' = Eligible /\ \A e : Score(e)' = Score(e)
      /\ \A e, f : Beats(e, f)' <=> Beats(e, f)
  BY <1>1, SameField
<1>7. ASSUME NEW h \in DOMAIN view.hosts \ todo', NEW l \in todo' PROVE h < l
  <2>1. l \in todo /\ l # k
    BY <1>1
  <2>2. CASE h = k
    BY <1>2, <1>4, <1>5, <2>1, <2>2
  <2>3. CASE h \notin todo
    BY <1>3, <2>1, <2>3
  <2> QED BY <1>1, <2>2, <2>3
<1>8. ASSUME NEW f \in Eligible
      PROVE  /\ f[1] \in DOMAIN view.hosts /\ f[1] # input.node
             /\ Serving(view.hosts[f[1]], input.role) # {}
  <2>1. f[1] \in DOMAIN view.hosts /\ Serving(view.hosts[f[1]], input.role) # {}
    BY EligibleServes
  <2> QED BY <1>2, <2>1 DEF OwnSlots
<1>9. ASSUME NEW f \in Eligible, f[1] \notin todo PROVE best.host # 0
  BY <1>2, <1>8, <1>9 DEF Barren
<1>10. CASE k = input.node \/ serving = {}
  <2>1. best' = best
    BY <1>1, <1>10
  <2>2. ASSUME NEW f \in Eligible, f[1] \notin todo' PROVE f[1] \notin todo
    BY <1>1, <1>8, <1>10, <2>2
  <2>3. ASSUME best.host # 0
        PROVE  /\ best.host \in DOMAIN view.hosts \ todo' /\ best.host # input.node
               /\ b \in Eligible /\ best.score = Score(b) /\ best.score \in Int
               /\ best.rtt = RttMs(view.latency, input.node, best.host)
               /\ \A f \in Eligible : f[1] \notin todo' => Beats(b, f) /\ Score(f) \in Int
    BY <1>1, <1>3, <2>2, <2>3
  <2>4. (RttMs(view.latency, input.node, best.host))' = RttMs(view.latency, input.node, best.host)
    BY <1>1, <2>1 DEF RttMs
  <2> QED BY <1>1, <1>6, <1>7, <2>1, <2>3, <2>4 DEF PassKeepsBest
<1>11. CASE k # input.node /\ serving # {} /\ Better(candidate)
  <2>1. /\ best'.host = k /\ best'.at = i /\ best'.rtt = RttMs(view.latency, input.node, k)
        /\ best'.score = FleetScore(view.hosts[k].slots[i].free_mb, RttMs(view.latency, input.node, k))
    BY <1>1, <1>11 DEF Candidate
  <2>2. best'.score = Score(<<k, i>>)
    BY <1>11, <2>1 DEF Score
  <2>3. /\ <<k, i>> \in Eligible /\ Score(<<k, i>>) \in Int
        /\ \A f \in Eligible : f[1] = k => Beats(<<k, i>>, f) /\ Score(f) \in Int
    BY <1>2, <1>5, <1>11, HostBest
  <2>4. ASSUME NEW f \in Eligible, f[1] \notin todo' PROVE Beats(<<k, i>>, f) /\ Score(f) \in Int
    <3>1. CASE f[1] = k
      BY <2>3, <3>1
    <3>2. CASE f[1] \notin todo
      <4>1. best.host # 0 /\ Beats(b, f) /\ Score(f) \in Int /\ best.score = Score(b) /\ best.score \in Int
        BY <1>3, <1>9, <3>2
      <4>2. candidate.score > best.score
        BY <1>11, <4>1 DEF Better
      <4>3. candidate.score = Score(<<k, i>>)
        BY <1>1, <1>11, <2>2
      <4>4. Score(f) < Score(<<k, i>>)
        <5>1. Score(f) <= best.score
          BY <4>1 DEF Beats
        <5> QED BY <2>3, <4>1, <4>2, <4>3, <5>1
      <4> QED BY <4>1, <4>4 DEF Beats
    <3> QED BY <1>1, <2>4, <3>1, <3>2
  <2>5. k \in DOMAIN view.hosts \ todo'
    BY <1>1, <1>2, <1>5
  <2>6. (RttMs(view.latency, input.node, best.host))' = RttMs(view.latency, input.node, k)
    BY <1>1, <2>1 DEF RttMs
  <2> QED BY <1>1, <1>6, <1>7, <1>11, <2>1, <2>2, <2>3, <2>4, <2>5, <2>6 DEF PassKeepsBest
<1>12. CASE k # input.node /\ serving # {} /\ ~Better(candidate)
  <2>1. best' = best /\ best.host # 0 /\ ~(candidate.score > best.score)
    BY <1>1, <1>12 DEF Better
  <2>2. candidate.score = Score(<<k, i>>)
    BY <1>12 DEF Candidate, Score
  <2>3. /\ Score(<<k, i>>) \in Int
        /\ \A f \in Eligible : f[1] = k => Beats(<<k, i>>, f) /\ Score(f) \in Int
    BY <1>2, <1>5, <1>12, HostBest
  <2>4. best.score = Score(b) /\ best.score \in Int /\ best.host < k
    BY <1>3, <1>5, <2>1
  <2>5. ASSUME NEW f \in Eligible, f[1] \notin todo' PROVE Beats(b, f) /\ Score(f) \in Int
    <3>1. CASE f[1] = k
      <4>1. Score(f) \in Int /\ Score(f) <= Score(<<k, i>>)
        BY <2>3, <3>1 DEF Beats
      <4>2. Score(f) <= Score(b)
        BY <2>1, <2>2, <2>3, <2>4, <4>1
      <4>3. b[1] < f[1]
        BY <2>4, <3>1
      <4> QED BY <2>4, <4>1, <4>2, <4>3 DEF Beats
    <3>2. CASE f[1] \notin todo
      BY <1>3, <2>1, <3>2
    <3> QED BY <1>1, <2>5, <3>1, <3>2
  <2>6. best.host \in DOMAIN view.hosts \ todo'
    BY <1>1, <1>3, <2>1
  <2>7. (RttMs(view.latency, input.node, best.host))' = RttMs(view.latency, input.node, best.host)
    BY <1>1, <2>1 DEF RttMs
  <2> QED BY <1>1, <1>3, <1>6, <1>7, <2>1, <2>4, <2>5, <2>6, <2>7 DEF PassKeepsBest
<1> QED BY <1>10, <1>11, <1>12

BestInv == PassKeepsBest /\ PlanIsBest

\* The pass is over: its best beats every slot there is.
LEMMA FleetDoneBest == ASSUME PlanInv, BestInv, FleetDone PROVE PlanIsBest'
<1> SUFFICES ASSUME result'.kind = "fragment" PROVE PlanIsBest'
  BY DEF PlanIsBest
<1> DEFINE e == <<best.host, best.at>>
<1>1. UNCHANGED <<input, view, best>> /\ pc = "fleet" /\ todo = {}
  BY DEF FleetDone
<1>2. best.host # 0 /\ result' = FragmentFor(best.host, best.at, best.rtt)
  BY DEF FleetDone, Report, EscalateNowhere, Reject
<1>3. /\ result'.host = best.host /\ result'.rtt = best.rtt
      /\ result'.slot = view.hosts[best.host].slots[best.at]
  BY <1>2 DEF FragmentFor
<1>4. /\ e \in Eligible /\ best.rtt = RttMs(view.latency, input.node, best.host)
      /\ \A f \in Eligible : Beats(e, f)
  BY <1>1, <1>2 DEF BestInv, PassKeepsBest
<1>5. OwnSlots = {}
  BY <1>1 DEF PlanInv, PassMissesNone
<1>6. {f \in Eligible : f[1] = input.node} = {}
  BY <1>5, EligibleServes DEF OwnSlots
<1>7. Eligible' = Eligible /\ \A f : Score(f)' = Score(f)
  BY <1>1, SameField
<1>8. \E d \in Eligible :
        /\ result'.host = d[1] /\ result'.slot = view.hosts[d[1]].slots[d[2]]
        /\ \A f \in Eligible : Beats(d, f)
        /\ result'.rtt = RttMs(view.latency, input.node, d[1])
  BY <1>3, <1>4
<1> QED BY <1>1, <1>6, <1>7, <1>8 DEF PlanIsBest, Beats, RttMs

\* The asking node's own best slot needs no link.
LEMMA OwnBest ==
  ASSUME TypeInv, UNCHANGED <<input, view>>, OwnSlots # {}, result' = OwnFragment
  PROVE  PlanIsBest'
<1> DEFINE node == input.node
           i == BestSlot(view.hosts[node], input.role)
           own == {f \in Eligible : f[1] = node}
<1>1. node \in DOMAIN view.hosts /\ Serving(view.hosts[node], input.role) # {}
  BY DEF OwnSlots
<1>2. /\ result'.host = node /\ result'.rtt = NotMeasured
      /\ result'.slot = view.hosts[node].slots[i]
  BY DEF OwnFragment, FragmentFor
<1>3. <<node, i>> \in Eligible /\ \A f \in own : Beats(<<node, i>>, f)
  BY <1>1, HostBest
<1>4. <<node, i>> \in own
  BY <1>3
<1>5. \E d \in own :
        /\ result'.host = d[1] /\ result'.slot = view.hosts[d[1]].slots[d[2]]
        /\ \A f \in own : Beats(d, f)
        /\ result'.rtt = NotMeasured
  BY <1>2, <1>3, <1>4
<1>6. Eligible' = Eligible /\ \A f : Score(f)' = Score(f)
  BY SameField
<1>7. own' = own /\ own # {}
  BY <1>4, <1>6
<1> QED BY <1>5, <1>6, <1>7 DEF PlanIsBest, Beats

LEMMA NextBest == ASSUME PlanInv, TypeInv, BestInv, [Next]_vars PROVE BestInv'
<1>1. CASE pc' \notin {"fleet", "done"}
  BY <1>1 DEF BestInv, PassKeepsBest, PlanIsBest, Planned
<1>2. CASE LoadSnapshot \/ LoadMatrix \/ DialHead \/ ReadFails \/ ReadToEnd
  <2>1. CASE input.mode = "ask"
    <3>1. UNCHANGED input /\ pc' # "fleet"
      BY <1>2 DEF LoadSnapshot, LoadMatrix, DialHead, ReadFails, ReadToEnd, Unloadable, Report
    <3> QED BY <2>1, <3>1 DEF BestInv, PassKeepsBest, PlanIsBest, Planned
  <2>2. CASE input.mode # "ask"
    <3>1. LoadSnapshot \/ LoadMatrix
      BY <1>2, <2>2 DEF DialHead, ReadFails, ReadToEnd, PlanInv, PhasesInOrder
    <3>2. pc' # "fleet" /\ (pc' = "done" => result'.kind = "reject")
      BY <3>1, OutcomeKinds DEF LoadSnapshot, LoadMatrix, Unloadable, Report
    <3> QED BY <3>2 DEF BestInv, PassKeepsBest, PlanIsBest, Planned
  <2> QED BY <2>1, <2>2
<1>3. CASE PlanByKind
  <2>1. UNCHANGED <<input, view, best>> /\ best.host = 0
    BY <1>3 DEF PlanByKind, PlanInv, PhasesInOrder
  <2>2. CASE OwnSlots # {} /\ Report(OwnFragment)
    <3>1. PlanIsBest'
      BY <2>1, <2>2, OwnBest DEF Report
    <3> QED BY <2>2, <3>1 DEF BestInv, PassKeepsBest, Report
  <2>3. CASE pc' = "done" /\ result'.kind = "reject"
    BY <2>3 DEF BestInv, PassKeepsBest, PlanIsBest
  <2>4. CASE pc' = "fleet" /\ todo' = DOMAIN view.hosts
    <3>1. PassKeepsBest'
      BY <2>1, <2>4 DEF PassKeepsBest
    <3> QED BY <2>4, <3>1 DEF BestInv, PlanIsBest, Planned
  <2> QED BY <1>3, <2>2, <2>3, <2>4, OutcomeKinds DEF PlanByKind, Invalid, Report, EscalateNowhere
<1>4. CASE ConsiderHost
  <2>1. PassKeepsBest' /\ pc' = "fleet"
    BY <1>4, ConsiderBest DEF BestInv, ConsiderHost
  <2> QED BY <2>1 DEF BestInv, PlanIsBest, Planned
<1>5. CASE FleetDone
  <2>1. pc' = "done"
    BY <1>5 DEF FleetDone, Report
  <2> QED BY <1>5, <2>1, FleetDoneBest DEF BestInv, PassKeepsBest
<1>6. CASE UNCHANGED vars
  <2>1. UNCHANGED <<input, pc, view, roles, todo, best, wire, result>>
    BY <1>6 DEF vars
  <2>2. Eligible' = Eligible /\ (\A e : Score(e)' = Score(e)) /\ \A e, f : Beats(e, f)' <=> Beats(e, f)
    BY <2>1, SameField
  <2>3. PassKeepsBest'
    BY <2>1, <2>2 DEF BestInv, PassKeepsBest, RttMs
  <2>4. PlanIsBest'
    BY <2>1, <2>2 DEF BestInv, PlanIsBest, Planned, RttMs
  <2> QED BY <2>3, <2>4 DEF BestInv
<1>7. LoadRoles => pc' = "plan"
  BY DEF LoadRoles
<1>8. PolicyHead => pc' = "await"
  BY DEF PolicyHead, HeadReplies, HeadSends, HeadCloses
<1> QED
  BY <1>1, <1>2, <1>3, <1>4, <1>5, <1>6, <1>7, <1>8 DEF Next, Client, Offline, Exited

-----------------------------------------------------------------------------
(* Theorems *)

\* The inductive invariant of one invocation of `nauti plan`.
THEOREM PlanInvariant == Spec => []PlanInv
<1>1. PlanInv /\ [Next]_vars => PlanInv'
  BY NextInv
<1> QED BY <1>1, InitInv, PTL DEF Spec

\* For any views and asks, a refusal that does not name the federated planner
\* means that nothing in the fleet can serve, one that does that nothing on the
\* asking node can, and a valid ask is refused for no other reason (plan_with,
\* head_plan).
THEOREM RefusalsTrue == Spec => []RefusalIsTrue
<1>1. PlanInv => RefusalIsTrue
  BY DEF PlanInv
<1> QED BY <1>1, PlanInvariant, PTL

\* Every variable keeps its type: what is read of any snapshot and matrix is a
\* fleet view, and the pass stays within its hosts (from_snapshot_json).
THEOREM PlanTypeCorrect == Spec => []TypeOK
<1>1. PlanInv /\ TypeInv /\ [Next]_vars => TypeInv'
  BY NextTyped
<1>2. TypeInv => TypeOK
  BY DEF TypeInv
<1> QED BY <1>1, <1>2, InitTyped, PlanInvariant, PTL DEF Spec

\* A plan names the best slot of the fleet, for any number of hosts, slots,
\* roles and links: no eligible slot outscores it, and ties go to the first host
\* and its last slot (plan_with, head_plan).
THEOREM PlansAreBest == Spec => []PlanIsBest
<1>1. Init => BestInv
  BY DEF Init, BestInv, PassKeepsBest, PlanIsBest, Planned
<1>2. PlanInv /\ TypeInv /\ [Next]_vars => TypeInv'
  BY NextTyped
<1>3. PlanInv /\ TypeInv /\ BestInv /\ [Next]_vars => BestInv'
  BY NextBest
<1>4. BestInv => PlanIsBest
  BY DEF BestInv
<1> QED BY <1>1, <1>2, <1>3, <1>4, InitTyped, PlanInvariant, PTL DEF Spec
=============================================================================
