----------------------------- MODULE RpcSession -----------------------------
(***************************************************************************)
(* One RPC session between a controller and an agent (rpc.rs): probe_node  *)
(* of `nauti fleet` connects, pings a few times, asks for the inventory    *)
(* and closes, each call under a time limit; the agent's accept loop reads *)
(* a request, answers it and reads the next.                               *)
(*                                                                         *)
(* Requests and answers carry no identifier: AgentClient::call takes the   *)
(* next frame on the stream for its answer.  The model numbers the         *)
(* requests, as a history, to say which request an answer belongs to.      *)
(***************************************************************************)
EXTENDS Naturals, Sequences

CONSTANT Samples  \* pings per probe (samples.max(1))

ASSUME SessionAssumption == Samples \in Nat \ {0}

VARIABLES
  client,     \* probe_node: where it is, what it asks, pings left, torn stream,
              \* and, as a history, whether a call ran into its time limit
  conn,       \* the QUIC connection
  agent,      \* the agent's task for this connection
  up, down,   \* frames in flight to the agent and back
  rtts,       \* the samples of the report: [asked, answered]
  resources,  \* the inventory of the report: at most one [asked, answered]
  answers     \* history: every answer a call returned

stream == <<up, down>>
report == <<rtts, resources>>
vars == <<client, conn, agent, stream, report, answers>>

Request == {"Ping", "Inventory"}

\* A frame above MAX_FRAME_BYTES is Huge: write_frame sends it all the same.
Response(request) ==
  IF request = "Ping" THEN {"Pong", "Error"} ELSE {"Inventory", "Huge", "Error"}

Init ==
  /\ client = [pc |-> "connect", request |-> "Ping", left |-> Samples,
               sent |-> 0, torn |-> FALSE, late |-> FALSE]
  /\ conn = "none"
  /\ agent = "none"
  /\ up = <<>> /\ down = <<>>
  /\ rtts = {} /\ resources = {} /\ answers = {}

-----------------------------------------------------------------------------
(* The controller: probe_node and AgentClient *)

Connect ==
  /\ client.pc = "connect"
  /\ client' = [client EXCEPT !.pc = "call"]
  /\ conn' = "open"
  /\ agent' = "accepting"
  /\ UNCHANGED <<stream, report, answers>>

\* Refused, unreachable or past 15 seconds: probe_node reports and returns.
ConnectFails ==
  /\ client.pc = "connect"
  /\ client' = [client EXCEPT !.pc = "offline"]
  /\ UNCHANGED <<conn, agent, stream, report, answers>>

\* A request is a few bytes, which the stream's window always takes: writing
\* the frame does not wait, and no time limit can cut it.
Call ==
  /\ client.pc = "call"
  /\ conn = "open"
  /\ client' = [client EXCEPT !.pc = "await", !.sent = @ + 1]
  /\ up' = Append(up, [n |-> client.sent + 1, request |-> client.request])
  /\ UNCHANGED <<conn, agent, down, report, answers>>

\* Variant: the loop goes on after a failed ping.
CallFailedContinues(torn, late) ==
  client' = [client EXCEPT !.pc = IF client.request = "Ping" THEN "call" ELSE "close",
                           !.left = IF @ > 0 THEN @ - 1 ELSE @,
                           !.request = IF client.left <= 1 THEN "Inventory" ELSE @,
                           !.torn = torn, !.late = late]

\* A ping that fails ends the loop over samples and the inventory is asked
\* for on the same stream; an inventory that fails is Null in the report.
CallFailed(torn, late) ==
  client' = [client EXCEPT !.pc = IF client.request = "Ping" THEN "call" ELSE "close",
                           !.request = "Inventory", !.torn = torn, !.late = late]

Pair(response) == [asked |-> client.sent, answered |-> response.n]

\* Variant: one turn of the loop too many.
PingAnsweredOnceMore(response) ==
  /\ client.request = "Ping"
  /\ response.what = "Pong"
  /\ rtts' = rtts \cup {Pair(response)}
  /\ client' = [client EXCEPT !.pc = "call", !.left = @ - 1,
                              !.request = IF client.left = 0 THEN "Inventory" ELSE "Ping"]
  /\ UNCHANGED resources

PingAnswered(response) ==
  /\ client.request = "Ping"
  /\ response.what = "Pong"
  /\ rtts' = rtts \cup {Pair(response)}
  /\ client' = [client EXCEPT !.pc = "call", !.left = @ - 1,
                              !.request = IF client.left = 1 THEN "Inventory" ELSE "Ping"]
  /\ UNCHANGED resources

InventoryAnswered(response) ==
  /\ client.request = "Inventory"
  /\ response.what = "Inventory"
  /\ resources' = {Pair(response)}
  /\ client' = [client EXCEPT !.pc = "close"]
  /\ UNCHANGED rtts

UnexpectedAnswer(response) ==
  /\ <<client.request, response.what>> \notin
       {<<"Ping", "Pong">>, <<"Inventory", "Inventory">>}
  /\ CallFailed(FALSE, client.late)
  /\ UNCHANGED report

\* read_frame returns the next frame, whatever request it answers.
ReadAnswer ==
  /\ client.pc = "await"
  /\ conn = "open"
  /\ ~client.torn
  /\ down # <<>>
  /\ Head(down).what # "Huge"
  /\ down' = Tail(down)
  /\ answers' = answers \cup {Pair(Head(down))}
  /\ \/ PingAnswered(Head(down))
     \/ InventoryAnswered(Head(down))
     \/ UnexpectedAnswer(Head(down))
  /\ UNCHANGED <<conn, agent, up>>

\* FrameTooLarge is returned with the body still in the stream.
RefuseHuge ==
  /\ client.pc = "await"
  /\ conn = "open"
  /\ ~client.torn
  /\ down # <<>>
  /\ Head(down).what = "Huge"
  /\ CallFailed(TRUE, client.late)
  /\ UNCHANGED <<conn, agent, stream, report, answers>>

\* In the middle of a frame the next four bytes are no length: the read fails
\* at once, or waits for bytes that are no JSON when they come.
ReadTorn ==
  /\ client.pc = "await"
  /\ conn = "open"
  /\ client.torn
  /\ CallFailed(TRUE, client.late)
  /\ UNCHANGED <<conn, agent, stream, report, answers>>

\* tokio::time::timeout drops the call.  When part of the frame had come, the
\* dropped read_exact may have taken some of its bytes: the stream is torn.
Timeout ==
  /\ client.pc = "await"
  /\ \/ CallFailed(client.torn, TRUE)
     \/ /\ down # <<>>
        /\ CallFailed(TRUE, TRUE)
  /\ UNCHANGED <<conn, agent, stream, report, answers>>

CallBroken ==
  /\ client.pc \in {"call", "await"}
  /\ conn = "lost"
  /\ CallFailed(client.torn, client.late)
  /\ UNCHANGED <<conn, agent, stream, report, answers>>

\* close: finish the sending side first, so that the agent sees the end.
Finish ==
  /\ client.pc = "close"
  /\ client' = [client EXCEPT !.pc = "drain"]
  /\ conn' = IF conn = "open" THEN "finished" ELSE conn
  /\ UNCHANGED <<agent, stream, report, answers>>

\* Variant: no time limit on read_to_end.
DrainedByAgent ==
  /\ client.pc = "drain"
  /\ agent = "finishing" \/ conn = "lost"
  /\ client' = [client EXCEPT !.pc = "done"]
  /\ conn' = IF conn = "finished" THEN "closed" ELSE conn
  /\ UNCHANGED <<agent, stream, report, answers>>

\* read_to_end ends with the agent's end of stream, an error (too long, or
\* the connection is gone) or after two seconds; all of them are ignored.
Drained ==
  /\ client.pc = "drain"
  /\ client' = [client EXCEPT !.pc = "done"]
  /\ conn' = IF conn = "finished" THEN "closed" ELSE conn
  /\ UNCHANGED <<agent, stream, report, answers>>

Client ==
  \/ Connect
  \/ ConnectFails
  \/ Call
  \/ ReadAnswer
  \/ RefuseHuge
  \/ ReadTorn
  \/ Timeout
  \/ CallBroken
  \/ Finish
  \/ Drained

-----------------------------------------------------------------------------
(* The agent: FabricAgent::accept *)

\* The stream a controller opened shows with its first bytes.
AcceptBi ==
  /\ agent = "accepting"
  /\ conn \in {"open", "finished"}
  /\ up # <<>>
  /\ agent' = "serving"
  /\ UNCHANGED <<client, conn, stream, report, answers>>

\* Variant: a rejected request is dispatched as well, and answered twice.
ServeRejected ==
  /\ agent = "serving"
  /\ conn \in {"open", "finished"}
  /\ up # <<>>
  /\ \E what \in Response(Head(up).request) :
       down' = down \o IF what = "Error"
                       THEN <<[n |-> Head(up).n, what |-> "Pong"],
                              [n |-> Head(up).n, what |-> "Error"]>>
                       ELSE <<[n |-> Head(up).n, what |-> what]>>
  /\ up' = Tail(up)
  /\ UNCHANGED <<client, conn, agent, report, answers>>

\* One turn of the loop: read a request, authorize, dispatch, write the answer.
Serve ==
  /\ agent = "serving"
  /\ conn \in {"open", "finished"}
  /\ up # <<>>
  /\ \E what \in Response(Head(up).request) :
       down' = Append(down, [n |-> Head(up).n, what |-> what])
  /\ up' = Tail(up)
  /\ UNCHANGED <<client, conn, agent, report, answers>>

\* ConnectionClosed from read_frame breaks the loop: send.finish().
AgentFinish ==
  /\ agent = "serving"
  /\ conn = "finished"
  /\ up = <<>>
  /\ agent' = "finishing"
  /\ UNCHANGED <<client, conn, stream, report, answers>>

\* Variant: the controller's own close goes unnoticed.
AgentEndOnLoss ==
  /\ agent \in {"accepting", "serving", "finishing"}
  /\ conn = "lost"
  /\ agent' = "ended"
  /\ UNCHANGED <<client, conn, stream, report, answers>>

\* The connection is gone: accept_bi, a read or a write fails, or closed()
\* returns.
AgentEnd ==
  /\ agent \in {"accepting", "serving", "finishing"}
  /\ conn \in {"closed", "lost"}
  /\ agent' = "ended"
  /\ UNCHANGED <<client, conn, stream, report, answers>>

Agent == AcceptBi \/ Serve \/ AgentFinish \/ AgentEnd

Lose ==
  /\ conn \in {"open", "finished"}
  /\ conn' = "lost"
  /\ UNCHANGED <<client, agent, stream, report, answers>>

\* Both sides are through with the session.
Over ==
  /\ client.pc \in {"done", "offline"}
  /\ agent \in {"none", "ended"}
  /\ UNCHANGED vars

Next == Client \/ Agent \/ Lose \/ Over

Spec == Init /\ [][Next]_vars

\* The controller runs and its time limits expire; of the agent and of the
\* network nothing is assumed.
ProbeSpec == Spec /\ WF_vars(Client)

-----------------------------------------------------------------------------
(* What `nauti fleet` reports and the planner reads *)

\* percentile of the samples: 0.0 when there is none.
Median == IF rtts = {} THEN "zero" ELSE "measured"

\* LatencyMatrix::from_json: the report of a node that was not connected has
\* no rpc_rtt_ms, which is None; any number is Some.
MatrixEntry == IF client.pc = "offline" THEN "None" ELSE Median

-----------------------------------------------------------------------------
(* Properties *)

ClientState ==
  [pc : {"connect", "call", "await", "close", "drain", "done", "offline"},
   request : Request, left : 0..Samples, sent : Nat, torn : BOOLEAN,
   late : BOOLEAN]
RequestFrame == [n : Nat, request : Request]
ResponseFrame == [n : Nat, what : {"Pong", "Inventory", "Huge", "Error"}]
Exchange == [asked : Nat, answered : Nat]

\* Every variable has its type: the phases of controller, agent and
\* connection, frames that carry a request or one of its answers.
TypeOK ==
  /\ client \in ClientState
  /\ conn \in {"none", "open", "finished", "closed", "lost"}
  /\ agent \in {"none", "accepting", "serving", "finishing", "ended"}
  /\ up \in Seq(RequestFrame)
  /\ down \in Seq(ResponseFrame)
  /\ rtts \in SUBSET Exchange
  /\ resources \in SUBSET Exchange
  /\ answers \in SUBSET Exchange

\* What a probe reports is true: every round trip it counts, and the inventory
\* it shows, is the answer to the very request it was measured or asked with,
\* although late answers stay in the stream after a time limit.  It rests on
\* leaving the loop at the first failed ping, and on the two kinds of answer.
ReportIsPaired == \A p \in rtts \cup resources : p.asked = p.answered

\* Every answer AgentClient::call returns belongs to the request it was given,
\* as long as no call of the session ran into a time limit.
CallsArePaired == client.late \/ \A p \in answers : p.asked = p.answered

\* A probe ends, whatever the agent and the network do: `nauti fleet` waits
\* for every probe before it prints anything.
ProbeEnds == <>(client.pc \in {"done", "offline"})

\* The agent's task for a connection does not stay: however the controller
\* leaves, in order or not, the accept loop comes to its end if it runs at all.
AgentSessionEnds ==
  WF_vars(Agent) => ((agent = "accepting") ~> (agent = "ended"))

\* A latency in the planner's matrix was measured (plan.rs: a missing one "is
\* never read as 0.0 and never filled in").
RttIsMeasured ==
  client.pc \in {"done", "offline"} => (MatrixEntry = "None" \/ rtts # {})
=============================================================================
