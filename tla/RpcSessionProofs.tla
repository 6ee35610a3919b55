-------------------------- MODULE RpcSessionProofs --------------------------
(***************************************************************************)
(* Proofs about RpcSession, for any number of samples: the report of a     *)
(* probe is paired even when time limits expire, and every call is as long *)
(* as none has.                                                            *)
(***************************************************************************)
EXTENDS RpcSession, TLAPS

\* Exactly one request is out while the controller waits, and none before
\* it asks: the frame in flight is the current request or its answer.
OneInFlight ==
  /\ client.pc = "call" => up = <<>> /\ down = <<>>
  /\ client.pc = "await" =>
       \/ /\ up = <<[n |-> client.sent, request |-> client.request]>>
          /\ down = <<>>
       \/ /\ up = <<>>
          /\ \E what \in Response(client.request) :
               down = <<[n |-> client.sent, what |-> what]>>

\* The connection is usable and no call has failed on it: the controller is
\* still pinging, or no call has timed out.
Unbroken == conn = "open" /\ (client.request = "Ping" \/ ~client.late)

BeforeConnect ==
  client.pc = "connect" =>
    /\ conn = "none" /\ up = <<>> /\ down = <<>> /\ ~client.torn
    /\ client.request = "Ping"

InStep == Unbroken => OneInFlight

\* The inventory is asked for once, and last.
AskedLast(n) ==
  /\ client.pc \in {"await", "close", "drain", "done"}
  /\ client.request = "Inventory"
  /\ n = client.sent

InventoryIsLast ==
  /\ \A i \in 1..Len(up) : up[i].request = "Inventory" => AskedLast(up[i].n)
  /\ \A i \in 1..Len(down) : down[i].what = "Inventory" => AskedLast(down[i].n)

\* A call that ran into its time limit ended the loop over samples.
LateIsLeft == client.late => client.request = "Inventory"

\* The loop over samples has not run out.
PingsLeft == client.request = "Ping" => client.left > 0

\* A torn stream is never pinged on: the loop ended with the call that tore it.
TornIsLeft == client.torn => client.request = "Inventory"

\* The inductive invariant.
SessionInv ==
  /\ TypeOK
  /\ PingsLeft
  /\ TornIsLeft
  /\ LateIsLeft
  /\ BeforeConnect
  /\ InStep
  /\ InventoryIsLast
  /\ ReportIsPaired
  /\ CallsArePaired

-----------------------------------------------------------------------------
\* Taking the first frame of a stream.
LEMMA TakeFirst ==
  ASSUME NEW S, NEW s \in Seq(S), s # <<>>
  PROVE  /\ Head(s) \in S /\ Head(s) = s[1] /\ 1 \in 1..Len(s)
         /\ Tail(s) \in Seq(S)
         /\ Len(Tail(s)) = Len(s) - 1
         /\ \A i \in 1..Len(Tail(s)) : i + 1 \in 1..Len(s) /\ Tail(s)[i] = s[i + 1]
OBVIOUS

\* The controller's record keeps its type and its loop its count when a call
\* fails.
LEMMA FailedIsTyped ==
  ASSUME TypeOK, NEW torn \in BOOLEAN, NEW late \in BOOLEAN, CallFailed(torn, late)
  PROVE  /\ client' \in ClientState
         /\ client'.request = "Inventory"
         /\ client'.pc \in {"call", "close"}
         /\ client.request = "Inventory" => client'.pc = "close"
         /\ client'.pc = "call" => client.request = "Ping"
         /\ client'.sent = client.sent /\ client'.late = late
BY DEF TypeOK, ClientState, CallFailed, Request

\* The same when a request is written and when a ping is answered.
LEMMA AskIsTyped ==
  ASSUME client \in ClientState,
         client' = [client EXCEPT !.pc = "await", !.sent = client.sent + 1]
  PROVE  /\ client' \in ClientState
         /\ client'.pc = "await" /\ client'.sent = client.sent + 1
         /\ client'.request = client.request /\ client'.left = client.left
         /\ client'.torn = client.torn /\ client'.late = client.late
<1>1. client.sent + 1 \in Nat
  BY DEF ClientState
<1> DEFINE next == client.sent + 1
<1> HIDE DEF next
<1>2. client' = [client EXCEPT !.pc = "await", !.sent = next] /\ next \in Nat
  BY <1>1 DEF next
<1>3. client' \in ClientState /\ client'.sent = next
  BY <1>2 DEF ClientState
<1> QED BY <1>2, <1>3 DEF next, ClientState

LEMMA PongIsTyped ==
  ASSUME client \in ClientState, client.left \in 1..Samples, Samples \in Nat,
         client' = [client EXCEPT !.pc = "call", !.left = client.left - 1,
                      !.request = IF client.left = 1 THEN "Inventory" ELSE "Ping"]
  PROVE  /\ client' \in ClientState
         /\ client'.pc = "call" /\ client'.sent = client.sent
         /\ client'.request = "Ping" => client'.left > 0
         /\ client'.torn = client.torn /\ client'.late = client.late
<1> DEFINE rest == client.left - 1
<1> DEFINE ask == IF client.left = 1 THEN "Inventory" ELSE "Ping"
<1>1. rest \in 0..Samples /\ ask \in Request /\ (ask = "Ping" => rest > 0)
  BY DEF ClientState, Request
<1> HIDE DEF rest, ask
<1>2. client' = [client EXCEPT !.pc = "call", !.left = rest, !.request = ask]
  BY DEF rest, ask
<1>3. client' \in ClientState /\ client'.left = rest /\ client'.request = ask
  BY <1>1, <1>2 DEF ClientState
<1> QED BY <1>1, <1>2, <1>3 DEF ClientState

\* Typing is preserved by every step of the session.
LEMMA TypeStep == TypeOK /\ PingsLeft /\ [Next]_vars => TypeOK' /\ PingsLeft'
<1> SUFFICES ASSUME TypeOK, PingsLeft, [Next]_vars PROVE TypeOK' /\ PingsLeft'
  OBVIOUS
<1> USE SessionAssumption DEF TypeOK, PingsLeft
<1>1. CASE Connect \/ ConnectFails
  BY <1>1 DEF Connect, ConnectFails, ClientState, stream, report
<1>3. CASE Call
  <2>1. [n |-> client.sent + 1, request |-> client.request] \in RequestFrame
    BY DEF ClientState, RequestFrame
  <2>2. up' \in Seq(RequestFrame)
    BY <1>3, <2>1 DEF Call
  <2>3. /\ client' \in ClientState
        /\ client'.request = client.request /\ client'.left = client.left
    BY <1>3, AskIsTyped DEF Call
  <2> QED BY <1>3, <2>2, <2>3 DEF Call, report
<1>4. CASE ReadAnswer
  <2> DEFINE response == Head(down)
  <2>1. /\ response \in ResponseFrame
        /\ down' \in Seq(ResponseFrame)
    BY <1>4, TakeFirst DEF ReadAnswer
  <2>2. Pair(response) \in Exchange
    BY <2>1 DEF Pair, Exchange, ClientState, ResponseFrame
  <2>3. CASE PingAnswered(response)
    <3>1. client.left \in 1..Samples
      BY <2>3 DEF PingAnswered, ClientState
    <3>2. /\ client' \in ClientState
          /\ client'.request = "Ping" => client'.left > 0
      BY <2>3, <3>1, PongIsTyped DEF PingAnswered
    <3> QED BY <1>4, <2>1, <2>2, <2>3, <3>2 DEF ReadAnswer, PingAnswered
  <2>4. CASE InventoryAnswered(response)
    <3>1. /\ client' \in ClientState
          /\ client'.request = "Inventory"
      BY <2>4 DEF InventoryAnswered, ClientState, Request
    <3> QED BY <1>4, <2>1, <2>2, <2>4, <3>1 DEF ReadAnswer, InventoryAnswered
  <2>5. CASE UnexpectedAnswer(response)
    <3>1. CallFailed(FALSE, client.late) /\ UNCHANGED report /\ client.late \in BOOLEAN
      BY <2>5 DEF UnexpectedAnswer, ClientState
    <3> QED BY <1>4, <2>1, <2>2, <3>1, FailedIsTyped DEF ReadAnswer, report
  <2> QED BY <1>4, <2>3, <2>4, <2>5 DEF ReadAnswer
<1>5. CASE RefuseHuge \/ ReadTorn \/ Timeout \/ CallBroken
  <2>1. PICK torn \in BOOLEAN, late \in BOOLEAN : CallFailed(torn, late)
    BY <1>5 DEF RefuseHuge, ReadTorn, Timeout, CallBroken, ClientState
  <2>2. UNCHANGED <<conn, agent, stream, report, answers>>
    BY <1>5 DEF RefuseHuge, ReadTorn, Timeout, CallBroken
  <2> QED BY <2>1, <2>2, FailedIsTyped DEF stream, report
<1>6. CASE Finish \/ Drained
  BY <1>6 DEF Finish, Drained, ClientState, stream, report
<1>7. CASE AcceptBi \/ AgentFinish \/ AgentEnd \/ Lose
  BY <1>7 DEF AcceptBi, AgentFinish, AgentEnd, Lose, stream, report
<1>8. CASE Serve
  <2>1. Head(up) \in RequestFrame /\ up' \in Seq(RequestFrame)
    BY <1>8, TakeFirst DEF Serve
  <2>2. PICK what \in Response(Head(up).request) :
          down' = Append(down, [n |-> Head(up).n, what |-> what])
    BY <1>8 DEF Serve
  <2>3. [n |-> Head(up).n, what |-> what] \in ResponseFrame
    BY <2>1 DEF Response, RequestFrame, ResponseFrame
  <2>4. down' \in Seq(ResponseFrame)
    BY <2>2, <2>3
  <2> QED BY <1>8, <2>1, <2>4 DEF Serve, report
<1>9. CASE Over \/ UNCHANGED vars
  BY <1>9 DEF Over, vars, stream, report
<1> QED
  BY <1>1, <1>3, <1>4, <1>5, <1>6, <1>7, <1>8, <1>9 DEF Next, Client, Agent

-----------------------------------------------------------------------------
\* A call that fails leaves nothing to be paired: after it the session is
\* broken, unless the answer was read and both directions are empty.
LEMMA FailedStep ==
  ASSUME SessionInv, TypeOK', PingsLeft', NEW torn \in BOOLEAN, NEW late \in BOOLEAN,
         CallFailed(torn, late), client.late => late,
         client.pc \in {"call", "await"},
         late \/ conn' # "open" \/ client'.pc = "close",
         UNCHANGED <<conn, stream, report, answers>>
  PROVE  SessionInv'
<1> USE DEF SessionInv
<1>1. /\ client'.request = "Inventory" /\ client'.pc \in {"call", "close"}
      /\ client'.pc = "call" => client.request = "Ping"
      /\ client'.sent = client.sent /\ client'.late = late
  BY FailedIsTyped
<1>2. BeforeConnect' /\ TornIsLeft' /\ LateIsLeft'
  BY <1>1 DEF BeforeConnect, TornIsLeft, LateIsLeft
<1>3. InStep'
  BY <1>1 DEF InStep, Unbroken, OneInFlight
<1>4. InventoryIsLast'
  <2>1. ASSUME NEW n, AskedLast(n) PROVE AskedLast(n)'
    BY <1>1, <2>1 DEF AskedLast
  <2> QED BY <2>1 DEF InventoryIsLast, stream
<1>5. ReportIsPaired' /\ CallsArePaired'
  BY <1>1 DEF ReportIsPaired, CallsArePaired, report
<1> QED BY <1>2, <1>3, <1>4, <1>5

\* A request goes out: it is the only frame in flight if the session is
\* unbroken, and the inventory's request is the last of all.
LEMMA CallStep ==
  ASSUME SessionInv, TypeOK', PingsLeft', Call
  PROVE  SessionInv'
<1> USE DEF SessionInv
<1> DEFINE frame == [n |-> client.sent + 1, request |-> client.request]
<1>1. /\ client'.pc = "await" /\ client'.sent = client.sent + 1
      /\ client'.request = client.request /\ client'.torn = client.torn
      /\ client'.late = client.late
  BY AskIsTyped DEF Call, TypeOK
<1>2. /\ client.pc = "call" /\ conn = "open" /\ conn' = conn /\ up' = Append(up, frame)
      /\ UNCHANGED <<down, rtts, resources, answers>>
  BY DEF Call, report
<1>3. BeforeConnect' /\ TornIsLeft' /\ LateIsLeft'
  BY <1>1 DEF BeforeConnect, TornIsLeft, LateIsLeft
<1>4. InStep'
  <2> SUFFICES ASSUME Unbroken PROVE OneInFlight'
    BY <1>1, <1>2 DEF InStep, Unbroken
  <2>1. up = <<>> /\ down = <<>>
    BY <1>2 DEF InStep, OneInFlight
  <2>2. up' = <<frame>>
    BY <1>2, <2>1
  <2> QED BY <1>1, <1>2, <2>1, <2>2 DEF OneInFlight
<1>5. InventoryIsLast'
  <2>1. \A i \in 1..Len(up) : up[i].request # "Inventory"
    BY <1>2 DEF InventoryIsLast, AskedLast
  <2>2. \A i \in 1..Len(down) : down[i].what # "Inventory"
    BY <1>2 DEF InventoryIsLast, AskedLast
  <2>3. ASSUME NEW i \in 1..Len(up'), up'[i].request = "Inventory"
        PROVE  AskedLast(up[i].n)'
    <3>1. Len(up') = Len(up) + 1 /\ (i \in 1..Len(up) => up'[i] = up[i])
          /\ (i = Len(up) + 1 => up'[i] = frame)
      BY <1>2 DEF TypeOK
    <3>2. i = Len(up) + 1
      BY <2>1, <2>3, <3>1 DEF TypeOK
    <3> QED BY <1>1, <2>3, <3>1, <3>2 DEF AskedLast
  <2> QED BY <1>2, <2>2, <2>3 DEF InventoryIsLast
<1>6. ReportIsPaired' /\ CallsArePaired'
  BY <1>1, <1>2 DEF ReportIsPaired, CallsArePaired
<1> QED BY <1>3, <1>4, <1>5, <1>6

\* An answer is read: in an unbroken session it is the current one, and an
\* inventory is always the one just asked for.
LEMMA ReadStep ==
  ASSUME SessionInv, TypeOK', PingsLeft', ReadAnswer
  PROVE  SessionInv'
<1> USE DEF SessionInv
<1> DEFINE response == Head(down)
<1>1. /\ client.pc = "await" /\ conn = "open" /\ conn' = conn /\ up' = up
      /\ down # <<>> /\ down' = Tail(down) /\ answers' = answers \cup {Pair(response)}
  BY DEF ReadAnswer
<1>2. /\ response \in ResponseFrame /\ response = down[1] /\ 1 \in 1..Len(down)
      /\ \A i \in 1..Len(down') : i + 1 \in 1..Len(down) /\ down'[i] = down[i + 1]
  BY <1>1, TakeFirst DEF TypeOK
<1>3. Unbroken => up = <<>> /\ down' = <<>> /\ Pair(response).asked = Pair(response).answered
  <2> SUFFICES ASSUME Unbroken
               PROVE  up = <<>> /\ down' = <<>> /\ response.n = client.sent
    BY DEF Pair
  <2>1. up = <<>>
    BY <1>1 DEF InStep, OneInFlight
  <2>2. PICK what : down = <<[n |-> client.sent, what |-> what]>>
    BY <1>1 DEF InStep, OneInFlight
  <2> QED BY <1>1, <2>1, <2>2
<1>4. response.what = "Inventory" => response.n = client.sent
  BY <1>2 DEF InventoryIsLast, AskedLast
<1>5. /\ client'.pc \in {"call", "close"} /\ client'.sent = client.sent
      /\ client.request = "Inventory" => client'.request = "Inventory" /\ client'.pc = "close"
      /\ ~client'.torn /\ client'.late = client.late
  <2>1. CASE PingAnswered(response)
    BY <2>1 DEF ReadAnswer, PingAnswered, TypeOK, ClientState
  <2>2. CASE InventoryAnswered(response)
    BY <2>2 DEF ReadAnswer, InventoryAnswered, TypeOK, ClientState
  <2>3. CASE UnexpectedAnswer(response)
    BY <2>3 DEF UnexpectedAnswer, CallFailed, TypeOK, ClientState
  <2> QED BY <2>1, <2>2, <2>3 DEF ReadAnswer
<1>6. BeforeConnect' /\ TornIsLeft' /\ LateIsLeft'
  BY <1>5 DEF BeforeConnect, TornIsLeft, LateIsLeft
<1>7. InStep'
  <2> SUFFICES ASSUME Unbroken', client'.pc = "call" PROVE up' = <<>> /\ down' = <<>>
    BY <1>5 DEF InStep, OneInFlight
  <2>1. Unbroken
    BY <1>1, <1>5 DEF Unbroken, TypeOK, ClientState, Request
  <2> QED BY <1>1, <1>3, <2>1
<1>8. InventoryIsLast'
  <2>1. ASSUME NEW n, AskedLast(n) PROVE AskedLast(n)'
    BY <1>5, <2>1 DEF AskedLast
  <2> QED BY <1>1, <1>2, <2>1 DEF InventoryIsLast
<1>9. CallsArePaired'
  BY <1>1, <1>3, <1>5 DEF CallsArePaired, Unbroken
<1>10. ReportIsPaired'
  <2>1. CASE PingAnswered(response)
    <3>1. Unbroken
      BY <1>1, <2>1 DEF PingAnswered, Unbroken
    <3> QED BY <1>3, <2>1, <3>1 DEF PingAnswered, ReportIsPaired
  <2>2. CASE InventoryAnswered(response)
    BY <1>4, <2>2 DEF InventoryAnswered, ReportIsPaired, Pair
  <2>3. CASE UnexpectedAnswer(response)
    BY <2>3 DEF UnexpectedAnswer, ReportIsPaired, report
  <2> QED BY <2>1, <2>2, <2>3 DEF ReadAnswer
<1> QED BY <1>6, <1>7, <1>8, <1>9, <1>10

\* The agent answers the first request in the stream: the frame in flight
\* changes direction and keeps its number.
LEMMA ServeStep ==
  ASSUME SessionInv, TypeOK', PingsLeft', Serve
  PROVE  SessionInv'
<1> USE DEF SessionInv
<1>1. /\ up # <<>> /\ up' = Tail(up)
      /\ UNCHANGED <<client, conn, rtts, resources, answers>>
  BY DEF Serve, report
<1>2. PICK what \in Response(Head(up).request) :
        down' = Append(down, [n |-> Head(up).n, what |-> what])
  BY DEF Serve
<1> DEFINE frame == [n |-> Head(up).n, what |-> what]
<1>3. /\ Head(up) \in RequestFrame /\ Head(up) = up[1] /\ 1 \in 1..Len(up)
      /\ \A i \in 1..Len(up') : i + 1 \in 1..Len(up) /\ up'[i] = up[i + 1]
  BY <1>1, TakeFirst DEF TypeOK
<1>4. BeforeConnect' /\ TornIsLeft' /\ LateIsLeft'
  BY <1>1 DEF BeforeConnect, TornIsLeft, LateIsLeft
<1>5. InStep'
  <2> SUFFICES ASSUME Unbroken PROVE OneInFlight'
    BY <1>1 DEF InStep, Unbroken
  <2>1. OneInFlight
    BY DEF InStep
  <2>2. client.pc # "call"
    BY <1>1, <2>1 DEF OneInFlight
  <2>3. CASE client.pc = "await"
    <3>1. up = <<[n |-> client.sent, request |-> client.request]>> /\ down = <<>>
      BY <1>1, <2>1, <2>3 DEF OneInFlight
    <3>2. up' = <<>> /\ down' = <<[n |-> client.sent, what |-> what]>>
          /\ what \in Response(client.request)
      BY <1>1, <1>2, <3>1
    <3> QED BY <1>1, <2>3, <3>2 DEF OneInFlight
  <2> QED BY <1>1, <2>2, <2>3 DEF OneInFlight
<1>6. InventoryIsLast'
  <2>1. ASSUME NEW n, AskedLast(n) PROVE AskedLast(n)'
    BY <1>1, <2>1 DEF AskedLast
  <2>2. what = "Inventory" => AskedLast(frame.n)
    BY <1>2, <1>3 DEF Response, InventoryIsLast, RequestFrame, Request
  <2>3. ASSUME NEW i \in 1..Len(down'), down'[i].what = "Inventory"
        PROVE  AskedLast(down'[i].n)
    <3>1. Len(down') = Len(down) + 1 /\ (i \in 1..Len(down) => down'[i] = down[i])
          /\ (i = Len(down) + 1 => down'[i] = frame)
      BY <1>2 DEF TypeOK
    <3>2. i \in 1..Len(down) \/ i = Len(down) + 1
      BY <3>1 DEF TypeOK
    <3> QED BY <2>2, <2>3, <3>1, <3>2 DEF InventoryIsLast
  <2>4. ASSUME NEW i \in 1..Len(up'), up'[i].request = "Inventory"
        PROVE  AskedLast(up'[i].n)
    BY <1>3, <2>4 DEF InventoryIsLast
  <2> QED BY <2>1, <2>3, <2>4 DEF InventoryIsLast
<1>7. ReportIsPaired' /\ CallsArePaired'
  BY <1>1 DEF ReportIsPaired, CallsArePaired
<1> QED BY <1>4, <1>5, <1>6, <1>7

\* Steps that touch no frame and leave the controller's request alone.
LEMMA QuietSessionStep ==
  ASSUME SessionInv, TypeOK', PingsLeft', UNCHANGED <<stream, report, answers>>,
         client'.request = client.request, client'.sent = client.sent,
         client'.torn = client.torn, client'.late = client.late,
         conn' = "open" => conn = "open",
         \/ client'.pc = client.pc /\ (client.pc = "connect" => conn' = conn)
         \/ client.pc = "close" /\ client'.pc = "drain"
         \/ client.pc = "drain" /\ client'.pc = "done"
  PROVE  SessionInv'
<1> USE DEF SessionInv
<1>1. UNCHANGED <<up, down, rtts, resources, answers>>
  BY DEF stream, report
<1>2. BeforeConnect' /\ TornIsLeft' /\ LateIsLeft'
  BY <1>1 DEF BeforeConnect, TornIsLeft, LateIsLeft
<1>3. InStep'
  BY <1>1 DEF InStep, Unbroken, OneInFlight
<1>4. InventoryIsLast'
  <2>1. ASSUME NEW n, AskedLast(n) PROVE AskedLast(n)'
    BY <2>1 DEF AskedLast
  <2> QED BY <1>1, <2>1 DEF InventoryIsLast
<1>5. ReportIsPaired' /\ CallsArePaired'
  BY <1>1 DEF ReportIsPaired, CallsArePaired
<1> QED BY <1>2, <1>3, <1>4, <1>5

\* The connection attempt: there is no frame before it.
LEMMA ConnectStep ==
  ASSUME SessionInv, TypeOK', PingsLeft', Connect \/ ConnectFails
  PROVE  SessionInv'
<1> USE DEF SessionInv
<1>1. /\ client.pc = "connect" /\ client'.pc \in {"call", "offline"}
      /\ client'.request = client.request /\ client'.torn = client.torn
      /\ client'.late = client.late
      /\ UNCHANGED <<up, down, rtts, resources, answers>>
  BY DEF Connect, ConnectFails, stream, report, TypeOK, ClientState
<1>2. up = <<>> /\ down = <<>> /\ up' = <<>> /\ down' = <<>>
  BY <1>1 DEF BeforeConnect
<1>3. BeforeConnect' /\ TornIsLeft' /\ LateIsLeft' /\ InStep'
  BY <1>1, <1>2 DEF BeforeConnect, TornIsLeft, LateIsLeft, InStep, OneInFlight
<1>4. InventoryIsLast'
  BY <1>2 DEF InventoryIsLast
<1>5. ReportIsPaired' /\ CallsArePaired'
  BY <1>1 DEF ReportIsPaired, CallsArePaired
<1> QED BY <1>3, <1>4, <1>5

\* Every step of the session preserves the invariant.
LEMMA SessionStep == SessionInv /\ [Next]_vars => SessionInv'
<1> SUFFICES ASSUME SessionInv, [Next]_vars PROVE SessionInv'
  OBVIOUS
<1>1. TypeOK' /\ PingsLeft'
  BY TypeStep DEF SessionInv
<1>2. CASE Connect \/ ConnectFails
  BY <1>1, <1>2, ConnectStep
<1>3. CASE Call
  BY <1>1, <1>3, CallStep
<1>4. CASE ReadAnswer
  BY <1>1, <1>4, ReadStep
<1>5. CASE RefuseHuge \/ ReadTorn
  <2>1. PICK torn \in BOOLEAN : CallFailed(torn, client.late)
    BY <1>5 DEF RefuseHuge, ReadTorn
  <2>2. /\ client.pc = "await" /\ conn = "open"
        /\ UNCHANGED <<conn, stream, report, answers>>
    BY <1>5 DEF RefuseHuge, ReadTorn
  <2>3. client.request = "Inventory"
    <3>1. CASE ReadTorn
      BY <3>1 DEF ReadTorn, SessionInv, TornIsLeft
    <3>2. CASE RefuseHuge /\ client.request = "Ping"
      <4>1. down # <<>> /\ Head(down).what = "Huge"
        BY <3>2 DEF RefuseHuge
      <4>2. PICK what \in Response("Ping") : down = <<[n |-> client.sent, what |-> what]>>
        BY <2>2, <3>2, <4>1 DEF SessionInv, InStep, Unbroken, OneInFlight
      <4> QED BY <4>1, <4>2 DEF Response
    <3> QED BY <1>5, <3>1, <3>2 DEF SessionInv, TypeOK, ClientState, Request
  <2>4. client'.pc = "close"
    BY <2>1, <2>3, FailedIsTyped DEF SessionInv, TypeOK, ClientState
  <2>5. client.late \in BOOLEAN
    BY DEF SessionInv, TypeOK, ClientState
  <2> QED BY <1>1, <2>1, <2>2, <2>4, <2>5, FailedStep
<1>6. CASE Timeout
  <2>1. PICK torn \in BOOLEAN : CallFailed(torn, TRUE)
    BY <1>6 DEF Timeout, SessionInv, TypeOK, ClientState
  <2>2. client.pc = "await" /\ UNCHANGED <<conn, stream, report, answers>>
    BY <1>6 DEF Timeout
  <2> QED BY <1>1, <2>1, <2>2, FailedStep
<1>7. CASE CallBroken
  <2>1. PICK torn \in BOOLEAN : CallFailed(torn, client.late)
    BY <1>7 DEF CallBroken, SessionInv, TypeOK, ClientState
  <2>2. /\ client.pc \in {"call", "await"} /\ conn' # "open"
        /\ UNCHANGED <<conn, stream, report, answers>>
    BY <1>7 DEF CallBroken
  <2>3. client.late \in BOOLEAN
    BY DEF SessionInv, TypeOK, ClientState
  <2> QED BY <1>1, <2>1, <2>2, <2>3, FailedStep
<1>8. CASE Finish \/ Drained
  <2>1. /\ UNCHANGED <<stream, report, answers>>
        /\ client'.request = client.request /\ client'.sent = client.sent
        /\ client'.torn = client.torn /\ client'.late = client.late
        /\ conn' = "open" => conn = "open"
        /\ \/ client.pc = "close" /\ client'.pc = "drain"
           \/ client.pc = "drain" /\ client'.pc = "done"
    BY <1>8 DEF Finish, Drained, SessionInv, TypeOK, ClientState
  <2> QED BY <1>1, <2>1, QuietSessionStep
<1>9. CASE AcceptBi \/ AgentFinish \/ AgentEnd \/ Over \/ UNCHANGED vars
  <2>1. UNCHANGED <<client, conn, stream, report, answers>>
    BY <1>9 DEF AcceptBi, AgentFinish, AgentEnd, Over, vars
  <2>2. UNCHANGED <<stream, report, answers>> /\ client' = client /\ conn' = conn
    BY <2>1
  <2> QED BY <1>1, <2>2, QuietSessionStep
<1>10. CASE Serve
  BY <1>1, <1>10, ServeStep
<1>11. CASE Lose
  <2>1. /\ UNCHANGED <<client, stream, report, answers>>
        /\ conn' = "lost" /\ client.pc # "connect"
    BY <1>11 DEF Lose, SessionInv, BeforeConnect
  <2> QED BY <1>1, <2>1, QuietSessionStep
<1> QED
  BY <1>2, <1>3, <1>4, <1>5, <1>6, <1>7, <1>8, <1>9, <1>10, <1>11 DEF Next, Client, Agent

\* The inductive invariant holds in every state of every session: calls of
\* probe_node stay in step with the agent's loop until one fails.
THEOREM SessionInvariant == Spec => []SessionInv
<1>1. Init => SessionInv
  BY SessionAssumption DEF Init, SessionInv, TypeOK, PingsLeft, TornIsLeft, BeforeConnect,
     InStep, Unbroken, InventoryIsLast, LateIsLeft, ReportIsPaired,
     CallsArePaired, ClientState, Request
<1> QED BY <1>1, SessionStep, PTL DEF Spec

\* Every variable of the session keeps its type.
THEOREM SessionTypeCorrect == Spec => []TypeOK
BY SessionInvariant, PTL DEF SessionInv

\* The report of a probe counts only round trips, and shows only an inventory,
\* that answer their own request, for any number of samples and with calls
\* that run into their time limits (probe_node, AgentClient::call).
THEOREM ReportPaired == Spec => []ReportIsPaired
BY SessionInvariant, PTL DEF SessionInv

\* Until a call runs into its time limit, every answer a call returns belongs
\* to its request (AgentClient::call on the shared stream).
THEOREM CallsPaired == Spec => []CallsArePaired
BY SessionInvariant, PTL DEF SessionInv
=============================================================================
