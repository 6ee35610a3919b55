---------------------------- MODULE MCFleetPlan ----------------------------
(* Instance of FleetPlan: an asking node 2 between the hosts 1 and 3. *)
EXTENDS FleetPlan

SlotOf(name, model, roleSet, healthy, free) ==
  [slot |-> name, model |-> model, roles |-> roleSet, healthy |-> healthy,
   free_mb |-> free, resource |-> name]

Coder == SlotOf(0, 1, {"coder"}, TRUE, 512)
Roomy == SlotOf(8, 1, {"coder", "judge"}, TRUE, 1024)
Sick == SlotOf(9, 1, {"coder"}, FALSE, 2048)
AnyRole == SlotOf(7, 1, {}, TRUE, 1024)
Bare == SlotOf(0, 0, {}, TRUE, 2048)

Raw(locked, form, items) == [locked |-> locked, form |-> form, items |-> items]

RawHosts ==
  {NotObject, Raw(FALSE, "list", <<Coder>>), Raw(FALSE, "map", <<NotObject, Roomy, AnyRole>>),
   Raw(TRUE, "list", <<Roomy>>), Raw(FALSE, "absent", <<Sick, Bare>>),
   Raw(FALSE, "other", <<Roomy>>)}

HostMaps == [{1, 2, 3} -> RawHosts]

Rows == [{1, 3} -> {0, 1, NotMeasured}]

Latencies ==
  {[rpc_median_ms |-> EmptyMap, from |-> from, nodes |-> EmptyMap] : from \in {0, 2}} \union
  {[rpc_median_ms |-> [k \in {2} |-> row], from |-> 0, nodes |-> EmptyMap] : row \in Rows} \union
  {[rpc_median_ms |-> EmptyMap, from |-> 2, nodes |-> [k \in {1} |-> 1]]}

Document(maps, latency) ==
  [state |-> "json", maps |-> maps, rpc_median_ms |-> latency.rpc_median_ms,
   from |-> latency.from, nodes |-> latency.nodes]

NoLatency == [rpc_median_ms |-> EmptyMap, from |-> 0, nodes |-> EmptyMap]

Broken(state) == [Document(<<>>, NoLatency) EXCEPT !.state = state]

Invocation(mode, file, matrix, spec, node, role, url) ==
  [mode |-> mode, view |-> file, matrix |-> matrix, roles |-> spec,
   node |-> node, role |-> role, url |-> url]

Chain == [form |-> "json", names |-> {"coder", "judge", "_comment"}]

Ordinary ==
  {Invocation(mode, Document(<<NotObject, map, NotObject, map>>, latency),
              Broken("none"), Chain, 2, "coder", "good") :
     mode \in {"monolithic", "federated"}, map \in HostMaps, latency \in Latencies}

Sample == Document(<<NotObject, NotObject, NotObject,
                     [k \in {1, 3} |-> Raw(FALSE, "list", <<Roomy>>)]>>, NoLatency)

Unusual ==
  {Invocation(mode, file, matrix, spec, node, role, "good") :
     mode \in {"monolithic", "federated", "other"},
     file \in {Sample, Broken("unreadable"), Broken("notjson"), Document(<<NotObject>>, NoLatency)},
     matrix \in {Broken("none"), Broken("unreadable"), Broken("notjson"), Document(<<>>, NoLatency)},
     spec \in {Chain, [Chain EXCEPT !.form = "text"], [Chain EXCEPT !.form = "list"]},
     node \in {0, 2, 3}, role \in {"", "coder", "pilot", "_comment"}}

Asking ==
  {Invocation("ask", Sample, Sample, Chain, 2, "coder", url) : url \in {"good", "bad"}}

AllInputs == Ordinary \union Unusual \union Asking

AllFragments == {<<"open", "close">>, <<"open", "close", "space">>}
AllDetails == {<<"detail">>}

AllReplies ==
  [status : {200, 201, 403, 404, 422, 503}, chunked : BOOLEAN, header : BOOLEAN,
   body : AllFragments \union AllDetails \union {<<>>, <<"open">>}]
=============================================================================
