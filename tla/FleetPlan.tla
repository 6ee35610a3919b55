----------------------------- MODULE FleetPlan -----------------------------
(***************************************************************************)
(* One `nauti plan` (plan.rs, plan_action in nauti.rs).  `plan offline`    *)
(* reads a snapshot, a latency matrix and a role catalogue, and plans at   *)
(* the extent its planner kind names; `plan ask` posts the ask to the head *)
(* and reads the answer to the end of the connection.                      *)
(*                                                                         *)
(* The planner's pass over the hosts is one step per host, in key order,   *)
(* as the loop over the BTreeMap is; hosts are numbered in that order and  *)
(* 0 is the empty name.  The head's own program is not in the repository:  *)
(* it may send any reply, and the connection may end after any part of it. *)
(***************************************************************************)
EXTENDS Integers, Sequences, FiniteSets

CONSTANTS
  HostKeys,      \* host_key and node_id, numbered in key order
  Roles,         \* role names
  Comment,       \* the role names that begin with an underscore
  Inputs,        \* the invocations: see InputsAssumption
  Replies,       \* what a head may send: [status, chunked, header, body]
  Fragments,     \* the bodies serde_json reads as a PlanFragment
  Details,       \* the bodies that are an object with a detail
  NotObject, NotMeasured, NoAnswer

ASSUME PlanAssumption ==
  /\ HostKeys \subseteq Nat \ {0}
  /\ Comment \subseteq Roles
  /\ "path" \notin Roles
  /\ NotMeasured \notin Int

VARIABLES
  input,   \* the arguments and the files they name, which the run never writes
  pc,      \* where plan_ask or plan_offline is
  view,    \* FleetView: [hosts, latency]
  roles,   \* RoleCatalogue
  todo,    \* the hosts that MonolithicMoEPlanner::plan has not come to
  best,    \* its best candidate so far
  wire,    \* the connection to the head: [reply, sent, open]
  result   \* Result<PlanFragment, PlanReject>

vars == <<input, pc, view, roles, todo, best, wire, result>>

EmptyMap == [k \in {} |-> k]

-----------------------------------------------------------------------------
(* The snapshot and what is read from it *)

\* A slot of the view; roles = {} and model = 0 are the serde defaults.
Slot == [slot : Nat, model : Nat, roles : SUBSET Roles, healthy : BOOLEAN,
         free_mb : Int, resource : Nat]

\* A host as the JSON has it: its lock, where its slots are, and what is there.
RawHost == [locked : BOOLEAN, form : {"list", "map", "absent", "other"},
            items : Seq(Slot \union {NotObject})]

IsHost(host) ==
  /\ host.locked \in BOOLEAN
  /\ DOMAIN host.slots \subseteq Nat
  /\ \A i \in DOMAIN host.slots : host.slots[i] \in Slot

Rtt == Int \union {NotMeasured}

IsRow(row) == \A l \in DOMAIN row : row[l] \in Rtt

\* LATENCY_MB_PER_MS: the headroom that a millisecond of latency outweighs.
LatencyMbPerMs == 512

FleetScore(free, rtt) == IF rtt = NotMeasured THEN free ELSE free - LatencyMbPerMs * rtt

\* Variant: health is not asked.
ServesSick(s, role) == IF s.roles = {} THEN s.model # 0 ELSE role \in s.roles

\* A slot that declares no role serves any role when it holds a model.
Serves(s, role) ==
  /\ s.healthy
  /\ IF s.roles = {} THEN s.model # 0 ELSE role \in s.roles

\* The slots of a JSON host, by their place in its list or in the key order of
\* its map; without a "slots" key the host object is itself the map, and a
\* "slots" that is neither yields none.  What is not a slot is dropped, and a
\* slot without a name takes its place for one.
ReadSlots(raw) ==
  [i \in {j \in DOMAIN raw.items : raw.form # "other" /\ raw.items[j] # NotObject} |->
     [raw.items[i] EXCEPT !.slot = IF @ = 0 THEN i ELSE @]]

\* LatencyMatrix::from_json: the matrix, or the row of a fleet view.
ReadLatency(doc) ==
  IF DOMAIN doc.rpc_median_ms # {} THEN doc.rpc_median_ms
  ELSE IF doc.from = 0 \/ DOMAIN doc.nodes = {} THEN EmptyMap
  ELSE [k \in {doc.from} |-> doc.nodes]

\* The host map sits under nodes, hosts or fleet, or is the whole object:
\* the first of the four that is an object.
HostMap(doc) ==
  LET maps == {i \in DOMAIN doc.maps : doc.maps[i] # NotObject}
  IN  IF maps = {} THEN EmptyMap
      ELSE doc.maps[CHOOSE i \in maps : \A j \in maps : i <= j]

\* What serde has taken for a document: a row of numbers or nulls to a node.
IsDocument(doc) ==
  /\ \A k \in DOMAIN doc.rpc_median_ms : IsRow(doc.rpc_median_ms[k])
  /\ IsRow(doc.nodes)

\* The keys of a snapshot's hosts are the ones that were numbered, and a host
\* is an object or is passed over.
ASSUME InputsAssumption ==
  \A i \in Inputs :
    /\ IsDocument(i.view) /\ IsDocument(i.matrix)
    /\ i.roles.names \subseteq Roles
    /\ DOMAIN HostMap(i.view) \subseteq HostKeys
    /\ \A k \in DOMAIN HostMap(i.view) : HostMap(i.view)[k] \in RawHost \union {NotObject}

FromSnapshotJson(doc) ==
  LET map == HostMap(doc)
      keys == {k \in DOMAIN map : map[k] # NotObject}
  IN  [hosts |-> [k \in keys |->
                    [locked |-> map[k].locked, slots |-> ReadSlots(map[k])]],
       latency |-> ReadLatency(doc)]

RttMs(latency, from, to) ==
  IF from \in DOMAIN latency /\ to \in DOMAIN latency[from]
  THEN latency[from][to] ELSE NotMeasured

-----------------------------------------------------------------------------
(* The best slot of one host *)

Serving(host, role) ==
  IF host.locked THEN {}
  ELSE {i \in DOMAIN host.slots : Serves(host.slots[i], role)}

\* Iterator::max_by keeps the last of equal candidates.  The latency term is
\* the same for every slot of a host, so best_slot and best_slot_scored agree.
BestSlot(host, role) ==
  CHOOSE i \in Serving(host, role) :
    \A j \in Serving(host, role) :
      \/ host.slots[j].free_mb < host.slots[i].free_mb
      \/ host.slots[j].free_mb = host.slots[i].free_mb /\ j <= i

Candidate(k, i, rtt) ==
  [score |-> FleetScore(view.hosts[k].slots[i].free_mb, rtt), host |-> k,
   at |-> i, rtt |-> rtt]

NoCandidate == [score |-> 0, host |-> 0, at |-> 0, rtt |-> NotMeasured]

-----------------------------------------------------------------------------
(* The outcome *)

\* The constraint of a refusal, and whose words it is; NoWhy is None.
NoWhy == [by |-> "nobody", hosts |-> 0, locked |-> {}, unhealthy |-> 0]

FragmentFor(k, i, rtt) ==
  [kind |-> "fragment", token |-> "none", status |-> 0, why |-> NoWhy,
   host |-> k, slot |-> view.hosts[k].slots[i], rtt |-> rtt]

NoSlot == [slot |-> 0, model |-> 0, roles |-> {}, healthy |-> FALSE,
           free_mb |-> 0, resource |-> 0]

\* reason_token and http_status of a PlanReject; status 0 is None.
Reject(token, status, why) ==
  [kind |-> "reject", token |-> token, status |-> status, why |-> why,
   host |-> 0, slot |-> NoSlot, rtt |-> NotMeasured]

Pending == Reject("pending", 0, NoWhy)

Init ==
  /\ input \in Inputs
  /\ pc = IF input.mode = "ask" THEN "dial" ELSE "snapshot"
  /\ view = [hosts |-> EmptyMap, latency |-> EmptyMap]
  /\ roles = {}
  /\ todo = {} /\ best = NoCandidate
  /\ wire = [reply |-> NoAnswer, sent |-> 0, open |-> FALSE]
  /\ result = Pending

\* report_plan prints the outcome; a refusal is an error exit.
Report(outcome) == pc' = "done" /\ result' = outcome

-----------------------------------------------------------------------------
(* plan_offline *)

\* A file that cannot be read is backend-down, one that is not JSON is
\* executor-error with status 0.
Unloadable(file) ==
  \/ file.state = "unreadable" /\ Report(Reject("backend-down", 0, NoWhy))
  \/ file.state = "notjson" /\ Report(Reject("executor-error", 0, NoWhy))

LoadSnapshot ==
  /\ pc = "snapshot"
  /\ \/ /\ Unloadable(input.view)
        /\ UNCHANGED view
     \/ /\ input.view.state = "json"
        /\ view' = FromSnapshotJson(input.view)
        /\ pc' = "matrix" /\ UNCHANGED result
  /\ UNCHANGED <<input, roles, todo, best, wire>>

\* with_latency replaces what the snapshot said, by nothing if the file has
\* no matrix.
LoadMatrix ==
  /\ pc = "matrix"
  /\ \/ /\ input.matrix.state = "none"
        /\ pc' = "roles" /\ UNCHANGED <<view, result>>
     \/ /\ Unloadable(input.matrix)
        /\ UNCHANGED view
     \/ /\ input.matrix.state = "json"
        /\ view' = [view EXCEPT !.latency = ReadLatency(input.matrix)]
        /\ pc' = "roles" /\ UNCHANGED result
  /\ UNCHANGED <<input, roles, todo, best, wire>>

\* RoleCatalogue::from_json takes the strings or keys that are no comment.
RolesFromJson(names) == names \ Comment

\* Anything but a JSON file is a comma list, the path of one that is not JSON
\* too.
LoadRoles ==
  /\ pc = "roles"
  /\ roles' = CASE input.roles.form = "json" -> RolesFromJson(input.roles.names)
                [] input.roles.form = "text" -> {"path"}
                [] OTHER -> input.roles.names
  /\ pc' = "plan"
  /\ UNCHANGED <<input, view, todo, best, wire, result>>

\* The constraint names what the whole view shows, if it shows anything;
\* plan_with puts its planner's name before it, head_plan nothing.
EscalateConstraint(planner) ==
  LET hosts == DOMAIN view.hosts
  IN  IF hosts = {} THEN NoWhy ELSE
      [by |-> planner,
       hosts |-> Cardinality(hosts),
       locked |-> {k \in hosts : view.hosts[k].locked},
       unhealthy |-> Cardinality(UNION {
         {<<k, i>> : i \in {j \in DOMAIN view.hosts[k].slots :
            /\ ~view.hosts[k].slots[j].healthy
            /\ input.role \in view.hosts[k].slots[j].roles}} : k \in hosts})]

EscalateNowhere(planner) == Reject("escalate-nowhere", 403, EscalateConstraint(planner))

\* validate_ask: an empty name before an unknown role.
Unnamed == input.node = 0 \/ input.role = ""

Invalid ==
  \/ Unnamed /\ Report(Reject("missing-field", 422, NoWhy))
  \/ /\ ~Unnamed
     /\ input.role \notin roles
     /\ Report(Reject("bad-enum", 404, NoWhy))

Valid == ~Unnamed /\ input.role \in roles

OwnSlots ==
  IF input.node \in DOMAIN view.hosts
  THEN Serving(view.hosts[input.node], input.role) ELSE {}

OwnFragment ==
  FragmentFor(input.node, BestSlot(view.hosts[input.node], input.role), NotMeasured)

\* plan_by_kind: both kinds look at the asking node first, and federated at
\* nothing else.
PlanByKind ==
  /\ pc = "plan"
  /\ \/ Invalid /\ UNCHANGED todo
     \/ /\ Valid
        /\ input.mode \notin {"monolithic", "federated"}
        /\ Report(Reject("bad-enum", 0, NoWhy)) /\ UNCHANGED todo
     \/ /\ Valid
        /\ input.mode \in {"monolithic", "federated"}
        /\ OwnSlots # {}
        /\ Report(OwnFragment) /\ UNCHANGED todo
     \/ /\ Valid
        /\ input.mode = "federated"
        /\ OwnSlots = {}
        /\ Report(EscalateNowhere("federated")) /\ UNCHANGED todo
     \/ /\ Valid
        /\ input.mode = "monolithic"
        /\ OwnSlots = {}
        /\ pc' = "fleet" /\ todo' = DOMAIN view.hosts /\ UNCHANGED result
  /\ UNCHANGED <<input, view, roles, best, wire>>

NextHost == CHOOSE k \in todo : \A l \in todo : k <= l

Better(candidate) == best.host = 0 \/ candidate.score > best.score

\* Variant: the pass begins again once a candidate is found.
ConsiderAgain ==
  /\ pc = "fleet"
  /\ todo # {}
  /\ todo' = HostKeys
  /\ UNCHANGED <<input, pc, view, roles, best, wire, result>>

\* One turn of the loop of MonolithicMoEPlanner::plan.
ConsiderHost ==
  /\ pc = "fleet"
  /\ todo # {}
  /\ LET k == NextHost
         serving == Serving(view.hosts[k], input.role)
         candidate == Candidate(k, BestSlot(view.hosts[k], input.role),
                                RttMs(view.latency, input.node, k))
     IN  /\ todo' = todo \ {k}
         /\ best' = IF k # input.node /\ serving # {} /\ Better(candidate)
                    THEN candidate ELSE best
  /\ UNCHANGED <<input, pc, view, roles, wire, result>>

\* Variant: a host that no link was measured to is not offered.
FleetDoneMeasured ==
  /\ pc = "fleet"
  /\ todo = {}
  /\ Report(IF best.rtt # NotMeasured THEN FragmentFor(best.host, best.at, best.rtt)
            ELSE EscalateNowhere("head_plan"))
  /\ UNCHANGED <<input, view, roles, todo, best, wire>>

FleetDone ==
  /\ pc = "fleet"
  /\ todo = {}
  /\ \/ best.host # 0 /\ Report(FragmentFor(best.host, best.at, best.rtt))
     \/ best.host = 0 /\ Report(EscalateNowhere("head_plan"))
  /\ UNCHANGED <<input, view, roles, todo, best, wire>>

-----------------------------------------------------------------------------
(* plan_ask: ask_head_with_timeout, http_post *)

Unreachable == Reject("backend-down", 0, NoWhy)

\* parse_head_url refuses what is not http://host[:port].
DialHead ==
  /\ pc = "dial"
  /\ \/ /\ input.url = "bad"
        /\ Report(Reject("bad-enum", 0, NoWhy)) /\ UNCHANGED wire
     \/ /\ input.url = "good"
        /\ Report(Unreachable) /\ UNCHANGED wire
     \/ /\ input.url = "good"
        /\ pc' = "await" /\ wire' = [wire EXCEPT !.open = TRUE] /\ UNCHANGED result
  /\ UNCHANGED <<input, view, roles, todo, best>>

\* The parts of a reply on the wire: the status and headers, the blank line,
\* and the pieces of its body, each with its size and with a last size of zero
\* when it is sent in chunks.
Length(reply) ==
  2 + IF reply.chunked THEN 2 * Len(reply.body) + 1 ELSE Len(reply.body)

\* The head accepts the request and chooses its reply.
HeadReplies ==
  /\ pc = "await" /\ wire.open
  /\ wire.reply = NoAnswer
  /\ \E reply \in Replies : wire' = [wire EXCEPT !.reply = reply]
  /\ UNCHANGED <<input, pc, view, roles, todo, best, result>>

HeadSends ==
  /\ pc = "await" /\ wire.open
  /\ wire.reply # NoAnswer
  /\ wire.sent < Length(wire.reply)
  /\ wire' = [wire EXCEPT !.sent = @ + 1]
  /\ UNCHANGED <<input, pc, view, roles, todo, best, result>>

\* The head, or whatever is between, closes: at the end of the reply or before.
HeadCloses ==
  /\ pc = "await" /\ wire.open
  /\ wire' = [wire EXCEPT !.open = FALSE]
  /\ UNCHANGED <<input, pc, view, roles, todo, best, result>>

\* Variant: no timeout on the read.
ReadFailsOnReset ==
  /\ pc = "await" /\ wire.open
  /\ wire.reply # NoAnswer
  /\ Report(Unreachable)
  /\ UNCHANGED <<input, view, roles, todo, best, wire>>

\* A write fails, the connection is reset, or no byte comes within the
\* socket's timeout.
ReadFails ==
  /\ pc = "await" /\ wire.open
  /\ Report(Unreachable)
  /\ UNCHANGED <<input, view, roles, todo, best, wire>>

\* The pieces of the body that came: dechunk drops one that is not whole, and
\* without chunks a piece is cut where the parser would stop anyway.
Body ==
  LET whole == IF wire.reply.chunked THEN (wire.sent - 2) \div 2 ELSE wire.sent - 2
  IN  SubSeq(wire.reply.body, 1, IF whole < Len(wire.reply.body) THEN whole
                                 ELSE Len(wire.reply.body))

\* The constraint of a 403 is the header, or else the detail of the body.
HeadConstraint ==
  IF wire.reply.header \/ Body \in Details THEN [NoWhy EXCEPT !.by = "head"] ELSE NoWhy

Answer ==
  LET status == wire.reply.status
  IN  CASE status \in 200..299 /\ Body \in Fragments ->
             [Pending EXCEPT !.kind = "fragment", !.token = "head"]
        [] status \in 200..299 /\ Body \notin Fragments -> Reject("missing-field", status, NoWhy)
        [] status = 403 -> Reject("escalate-nowhere", 403, HeadConstraint)
        [] status = 404 -> Reject("bad-enum", 404, NoWhy)
        [] OTHER -> Reject(IF status >= 500 THEN "backend-down" ELSE "executor-error",
                           status, NoWhy)

\* parse_http_response needs the blank line; the rest is read as it came.
ReadToEnd ==
  /\ pc = "await" /\ ~wire.open
  /\ \/ wire.sent < 2 /\ Report(Unreachable)
     \/ wire.sent >= 2 /\ Report(Answer)
  /\ UNCHANGED <<input, view, roles, todo, best, wire>>

Exited == pc = "done" /\ UNCHANGED vars

Offline == LoadSnapshot \/ LoadMatrix \/ LoadRoles \/ PlanByKind \/ ConsiderHost \/ FleetDone

PolicyHead == HeadReplies \/ HeadSends \/ HeadCloses

Client == Offline \/ DialHead \/ ReadFails \/ ReadToEnd

Next == Client \/ PolicyHead \/ Exited

Spec == Init /\ [][Next]_vars

\* The client's own steps are taken: the socket's timeouts are set on both
\* halves, so a head that sends nothing is a ReadFails.  Nothing is asked of
\* the head; its reply is finite, which the timeouts alone do not ensure.
FairSpec == Spec /\ WF_vars(Client)

-----------------------------------------------------------------------------
(* Properties *)

TypeOK ==
  /\ input \in Inputs
  /\ pc \in {"snapshot", "matrix", "roles", "plan", "fleet", "dial", "await", "done"}
  /\ DOMAIN view.hosts \subseteq HostKeys
  /\ \A k \in DOMAIN view.hosts : IsHost(view.hosts[k])
  /\ \A k \in DOMAIN view.latency : IsRow(view.latency[k])
  /\ roles \subseteq Roles \union {"path"}
  /\ todo \subseteq DOMAIN view.hosts
  /\ best.host \in HostKeys \union {0}
  /\ result.kind \in {"fragment", "reject"}

Planned == pc = "done" /\ input.mode # "ask"

\* The reference: every slot of the view that may take the role, by definition.
Eligible ==
  {e \in UNION {{<<k, i>> : i \in DOMAIN view.hosts[k].slots} : k \in DOMAIN view.hosts} :
     LET slot == view.hosts[e[1]].slots[e[2]]
     IN  /\ ~view.hosts[e[1]].locked
         /\ slot.healthy
         /\ \/ input.role \in slot.roles
            \/ slot.roles = {} /\ slot.model # 0}

Score(e) ==
  FleetScore(view.hosts[e[1]].slots[e[2]].free_mb,
             IF e[1] = input.node THEN NotMeasured ELSE RttMs(view.latency, input.node, e[1]))

\* A plan names an eligible slot with its measured latency: on the asking node
\* when that has one, and otherwise one that no eligible slot of the fleet
\* outscores, of the first host in key order among equals and the last slot
\* on it, whatever order the pass met them in (head_plan, plan_with).
PlanIsBest ==
  Planned /\ result.kind = "fragment" =>
    LET own == {e \in Eligible : e[1] = input.node}
        field == IF own = {} THEN Eligible ELSE own
    IN  \E e \in field :
          /\ result.host = e[1] /\ result.slot = view.hosts[e[1]].slots[e[2]]
          /\ \A f \in field :
               \/ Score(f) < Score(e)
               \/ Score(f) = Score(e) /\ (e[1] < f[1] \/ (e[1] = f[1] /\ f[2] <= e[2]))
          /\ result.rtt = IF own = {} THEN RttMs(view.latency, input.node, e[1])
                          ELSE NotMeasured

\* A reader is never told of the fleet what holds of one node: unless its
\* constraint names the federated planner, escalate-nowhere means that no slot
\* of any host in the view can take the role, and with that name that none of
\* the asking node's can; a valid ask of a known kind gets no other refusal
\* once its files are read (plan_with, head_plan, escalate_constraint).
RefusalIsTrue ==
  Planned /\ result.kind = "reject" /\ Valid =>
    \/ result.token = "escalate-nowhere" /\ Eligible = {}
    \/ /\ result.token = "escalate-nowhere" /\ result.why.by = "federated"
       /\ \A e \in Eligible : e[1] # input.node
    \/ input.mode \notin {"monolithic", "federated"} /\ result.token = "bad-enum"

\* Every invocation ends, with a head that stays silent too (set_read_timeout).
PlanReturns == <>(pc = "done")
=============================================================================
