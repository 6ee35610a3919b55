-------------------------- MODULE RngBackendProofs --------------------------
(***************************************************************************)
(* Proofs about RngBackend, for any quota, period, chunk and buffers: the  *)
(* quota counter never runs below zero, a FIFO never yields an empty       *)
(* completion, the rate is bounded over every period, and no buffer is     *)
(* forgotten by a worker that waits.                                       *)
(***************************************************************************)
EXTENDS RngBackend, TLAPS

\* A request that is being read has a buffer, and was cut to what is left of
\* the quota; with a quota and room in the buffer, something is wanted.
ReadFits ==
  /\ worker.pc = "read" =>
       /\ worker.batch # <<>>
       /\ worker.got <= worker.want
       /\ worker.want <= timer.quota
       /\ MaxBytes > 0 /\ worker.batch[1].len > 0 => worker.want > 0
  /\ worker.pc = "sleep" => worker.batch # <<>> /\ worker.batch[1].ok

\* Nothing is served before there is a source.
SourceComesFirst == source.kind = "none" => worker.pc = "off" /\ used = <<>>

RngInv ==
  /\ TypeOK
  /\ ReadFits
  /\ SourceComesFirst
  /\ NoEmptyEntropy

-----------------------------------------------------------------------------
(* Types of the parts *)

WorkerState ==
  [pc : {"off", "idle", "pop", "chain", "sleep", "read", "signal", "enable", "dead"},
   event_idx : BOOLEAN, batch : Seq(Chain), want : Nat, got : Nat]

TimerState == [elapsed : 0..Period, quota : 0..MaxBytes]

GuestType == avail \in Seq(Chain) /\ signalled \in Nat /\ posted \in 0..MaxPosts

UsedType == used \in Seq([head : 1..MaxPosts, len : Nat, room : Lengths]) /\ failed \in Nat

RemoteType ==
  /\ source \in [kind : {"none", "file", "fifo"}, bytes : Nat]
  /\ pump \in [pc : {"off", "open", "fetch", "write"}, have : 0..Chunk]
  /\ server \in {"up", "down"}

LEMMA TypeParts ==
  TypeOK <=> /\ GuestType /\ UsedType /\ RemoteType
             /\ kick \in BOOLEAN /\ notify \in BOOLEAN
             /\ worker \in WorkerState /\ timer \in TimerState
             /\ served \in [0..Period -> Nat]
BY DEF TypeOK, GuestType, UsedType, RemoteType, WorkerState, TimerState

\* The first chain of a batch, and the rest.
LEMMA BatchParts ==
  ASSUME worker \in WorkerState, worker.batch # <<>>
  PROVE  worker.batch[1] \in Chain /\ Tail(worker.batch) \in Seq(Chain)
BY DEF WorkerState

LEMMA InitInv == Init => RngInv
<1> SUFFICES ASSUME Init PROVE RngInv
  OBVIOUS
<1>1. TypeOK
  <2>1. worker \in WorkerState
    <3>1. PICK b \in BOOLEAN :
            worker = [pc |-> "off", event_idx |-> b, batch |-> <<>>, want |-> 0, got |-> 0]
      BY DEF Init
    <3>2. <<>> \in Seq(Chain)
      OBVIOUS
    <3> QED BY <3>1, <3>2 DEF WorkerState
  <2>2. timer \in TimerState
    BY RngAssumption DEF Init, TimerState
  <2>3. RemoteType
    BY RngAssumption DEF Init, RemoteType
  <2>4. GuestType /\ UsedType
    BY RngAssumption DEF Init, GuestType, UsedType
  <2>5. kick \in BOOLEAN /\ notify \in BOOLEAN /\ served \in [0..Period -> Nat]
    BY DEF Init
  <2> QED BY <2>1, <2>2, <2>3, <2>4, <2>5, TypeParts
<1> QED BY <1>1 DEF Init, RngInv, ReadFits, SourceComesFirst, NoEmptyEntropy

\* A step that serves nothing and leaves worker, timer and source in place.
LEMMA QuietInv ==
  ASSUME RngInv, TypeOK', UNCHANGED <<worker, used>>, timer'.quota = timer.quota,
         source'.kind = source.kind \/ used = <<>>, source'.kind = "none" => source.kind = "none"
  PROVE  RngInv'
BY DEF RngInv, ReadFits, SourceComesFirst, NoEmptyEntropy

\* The worker moves to a label at which nothing is read.
LEMMA GotoInv ==
  ASSUME RngInv, TypeOK', UNCHANGED <<used, source>>, source.kind # "none",
         worker'.pc \notin {"read", "sleep"}
  PROVE  RngInv'
BY DEF RngInv, ReadFits, SourceComesFirst, NoEmptyEntropy

LEMMA GotoType ==
  ASSUME worker \in WorkerState,
         NEW label \in {"idle", "pop", "chain", "sleep", "signal", "enable"}, Goto(label)
  PROVE  worker' \in WorkerState /\ worker'.pc = label /\ worker'.batch = worker.batch
BY DEF Goto, WorkerState

LEMMA DieType ==
  ASSUME worker \in WorkerState, Die
  PROVE  worker' \in WorkerState /\ worker'.pc = "dead"
<1>1. <<>> \in Seq(Chain)
  OBVIOUS
<1> QED BY <1>1 DEF Die, WorkerState

-----------------------------------------------------------------------------
(* The guest, the clock and the pump *)

LEMMA OutsideInv ==
  ASSUME RngInv,
         \/ \E len \in Lengths, ok \in BOOLEAN : Post(len, ok)
         \/ Tick \/ PumpStart \/ Pump \/ PumpKilled \/ ServerChanges
  PROVE  RngInv'
<1> USE RngAssumption
<1>0. /\ GuestType /\ UsedType /\ RemoteType /\ kick \in BOOLEAN /\ notify \in BOOLEAN
      /\ worker \in WorkerState /\ timer \in TimerState /\ served \in [0..Period -> Nat]
  BY TypeParts DEF RngInv
<1>1. ASSUME NEW len \in Lengths, NEW ok \in BOOLEAN, Post(len, ok) PROVE RngInv'
  <2>1. posted + 1 \in 1..MaxPosts
    BY <1>0, <1>1 DEF Post, GuestType
  <2>2. [head |-> posted + 1, len |-> len, ok |-> ok] \in Chain
    BY <2>1 DEF Chain
  <2>3. GuestType' /\ kick' \in BOOLEAN
    BY <1>0, <1>1, <2>1, <2>2 DEF Post, GuestType
  <2>4. TypeOK'
    BY <1>0, <1>1, <2>3, TypeParts DEF Post, remote, ring, UsedType, RemoteType, WorkerState, TimerState, TypeOK, GuestType
  <2> QED BY <1>1, <2>4, QuietInv DEF Post, ring
<1>2. CASE Tick
  <2>1. timer' \in TimerState /\ timer'.quota = timer.quota
    BY <1>0, <1>2 DEF Tick, TimerState
  <2>2. served' \in [0..Period -> Nat]
    BY <1>0, <1>2 DEF Tick
  <2>3. TypeOK'
    BY <1>2, <2>1, <2>2 DEF RngInv, Tick, guest, ring, remote, TypeOK, TimerState
  <2> QED BY <1>2, <2>1, <2>3, QuietInv DEF Tick, ring
<1>3. CASE PumpStart
  <2>1. RemoteType' /\ source'.kind = "fifo"
    BY <1>0, <1>3 DEF PumpStart, RemoteType
  <2>2. TypeOK'
    BY <1>3, <2>1 DEF RngInv, PumpStart, guest, ring, RemoteType, TypeOK
  <2>3. source.kind = "fifo" \/ used = <<>>
    BY <1>0, <1>3 DEF PumpStart, RngInv, SourceComesFirst, RemoteType
  <2> QED BY <1>3, <2>1, <2>2, <2>3, QuietInv DEF PumpStart, ring
<1>4. CASE Pump
  <2>1. RemoteType' /\ source'.kind = source.kind
    <3>1. CASE PumpOpen \/ Fetch \/ FetchFails
      BY <1>0, <3>1 DEF PumpOpen, Fetch, FetchFails, RemoteType
    <3>2. CASE Write
      <4>1. /\ Written \in Nat /\ Written <= pump.have /\ source.bytes \in Nat
            /\ pump.have \in 0..Chunk
        BY <1>0, <3>2 DEF Write, Written, RemoteType
      <4>2. pump.have - Written \in 0..Chunk /\ source.bytes + Written \in Nat
        BY <4>1
      <4> QED BY <1>0, <3>2, <4>2 DEF Write, RemoteType
    <3> QED BY <1>4, <3>1, <3>2 DEF Pump
  <2>2. UNCHANGED <<guest, ring, kick, notify, worker, timer, served>>
    BY <1>4 DEF Pump, PumpOpen, Fetch, FetchFails, Write
  <2>3. TypeOK'
    BY <2>1, <2>2 DEF RngInv, guest, ring, RemoteType, TypeOK
  <2> QED BY <2>1, <2>2, <2>3, QuietInv DEF ring
<1>5. CASE ServerChanges
  <2>1. TypeOK'
    BY <1>5 DEF RngInv, ServerChanges, guest, ring, TypeOK
  <2> QED BY <1>5, <2>1, QuietInv DEF ServerChanges, ring
<1>6. CASE PumpKilled
  <2>1. RemoteType' /\ source' = source
    BY <1>0, <1>6 DEF PumpKilled, RemoteType
  <2>2. TypeOK'
    BY <1>6, <2>1 DEF RngInv, PumpKilled, guest, ring, RemoteType, TypeOK
  <2> QED BY <1>6, <2>1, <2>2, QuietInv DEF PumpKilled, ring
<1> QED BY <1>1, <1>2, <1>3, <1>4, <1>5, <1>6

-----------------------------------------------------------------------------
(* The worker *)

\* A request begins to be read with what is left of a quota.
LEMMA ReadInv ==
  ASSUME RngInv, worker.pc \in {"chain", "sleep"}, worker.batch # <<>>,
         NEW quota \in 0..MaxBytes, MaxBytes > 0 => quota > 0,
         ReadUpTo(quota), timer' \in TimerState, timer'.quota = quota,
         UNCHANGED <<guest, ring, kick, notify, served, source, remote>>
  PROVE  RngInv'
<1> USE RngAssumption
<1>0. worker \in WorkerState /\ source.kind # "none"
  BY TypeParts DEF RngInv, SourceComesFirst
<1>1. worker.batch[1].len \in Nat
  <2>1. worker.batch[1].len \in Lengths
    BY <1>0, BatchParts DEF Chain
  <2> QED BY <2>1, RngAssumption
<1>2. /\ Allowance(worker.batch[1].len, quota) \in Nat
      /\ Allowance(worker.batch[1].len, quota) <= quota
      /\ MaxBytes > 0 /\ worker.batch[1].len > 0 => Allowance(worker.batch[1].len, quota) > 0
  BY <1>1 DEF Allowance
<1>3. /\ worker' \in WorkerState /\ worker'.pc = "read" /\ worker'.got = 0
      /\ worker'.want = Allowance(worker.batch[1].len, quota) /\ worker'.batch = worker.batch
  BY <1>0, <1>2 DEF ReadUpTo, WorkerState
<1>4. TypeOK'
  BY <1>3 DEF RngInv, TypeOK, WorkerState, TimerState, guest, ring, remote
<1>5. ReadFits'
  BY <1>2, <1>3 DEF ReadFits
<1> QED BY <1>0, <1>3, <1>4, <1>5 DEF RngInv, SourceComesFirst, NoEmptyEntropy, ring

LEMMA RefillType == Refill \in TimerState /\ Refill.quota = MaxBytes
BY RngAssumption DEF Refill, TimerState

LEMMA CheckChainInv == ASSUME RngInv, CheckChain PROVE RngInv'
<1> USE RngAssumption
<1>0. worker \in WorkerState /\ source.kind # "none" /\ timer \in TimerState /\ worker.pc = "chain"
  BY TypeParts DEF RngInv, SourceComesFirst, CheckChain
<1>1. UNCHANGED <<guest, ring, kick, notify, served, source, remote>>
  BY DEF CheckChain
<1>2. CASE UNCHANGED timer /\ (Goto("signal") \/ Die)
  <2>1. worker' \in WorkerState /\ worker'.pc \notin {"read", "sleep"}
    BY <1>0, <1>2, GotoType, DieType
  <2>2. TypeOK'
    BY <1>1, <1>2, <2>1 DEF RngInv, TypeOK, WorkerState, guest, ring, remote
  <2> QED BY <1>0, <1>1, <2>1, <2>2, GotoInv DEF ring
<1>3. CASE worker.batch # <<>> /\ timer' = Refill /\ ReadUpTo(MaxBytes)
  BY <1>0, <1>1, <1>3, ReadInv, RefillType
<1>4. CASE worker.batch # <<>> /\ worker.batch[1].ok /\ Goto("sleep") /\ UNCHANGED timer
  <2>1. worker' \in WorkerState /\ worker'.pc = "sleep" /\ worker'.batch = worker.batch
    BY <1>0, <1>4, GotoType
  <2>2. TypeOK'
    BY <1>1, <1>4, <2>1 DEF RngInv, TypeOK, WorkerState, guest, ring, remote
  <2> QED BY <1>0, <1>1, <1>4, <2>1, <2>2 DEF RngInv, ReadFits, SourceComesFirst, NoEmptyEntropy, ring
<1>5. CASE worker.batch # <<>> /\ timer.quota > 0 /\ ReadUpTo(timer.quota) /\ UNCHANGED timer
  <2>1. timer.quota \in 0..MaxBytes
    BY <1>0 DEF TimerState
  <2> QED BY <1>0, <1>1, <1>5, <2>1, ReadInv
<1> QED BY <1>2, <1>3, <1>4, <1>5 DEF CheckChain

LEMMA CompleteInv == ASSUME RngInv, Complete PROVE RngInv'
<1> USE RngAssumption
<1>0. /\ worker \in WorkerState /\ source.kind # "none" /\ timer \in TimerState /\ worker.pc = "read"
      /\ worker.batch # <<>> /\ worker.got <= worker.want /\ worker.want <= timer.quota
      /\ MaxBytes > 0 /\ worker.batch[1].len > 0 => worker.want > 0
      /\ UsedType /\ served \in [0..Period -> Nat]
  BY TypeParts DEF RngInv, SourceComesFirst, ReadFits, Complete
<1>1. /\ worker.got \in Nat /\ worker.want \in Nat /\ worker.batch[1].len \in Lengths
      /\ worker.batch[1].head \in 1..MaxPosts /\ Tail(worker.batch) \in Seq(Chain)
  BY <1>0, BatchParts DEF WorkerState, Chain
<1> DEFINE completion == [head |-> worker.batch[1].head, len |-> worker.got,
                          room |-> worker.batch[1].len]
<1>2. /\ completion \in [head : 1..MaxPosts, len : Nat, room : Lengths]
      /\ \/ used' = Append(used, completion) /\ failed' = failed
         \/ used' = used /\ failed' = failed + 1
  BY <1>1 DEF Complete
<1>3. UsedType'
  <2> HIDE DEF completion
  <2>1. used' \in Seq([head : 1..MaxPosts, len : Nat, room : Lengths])
    <3> DEFINE S == [head : 1..MaxPosts, len : Nat, room : Lengths]
    <3>1. used \in Seq(S) /\ completion \in S
      BY <1>0, <1>2 DEF UsedType
    <3>2. used' = Append(used, completion) \/ used' = used
      BY <1>2
    <3> HIDE DEF S
    <3>3. used' \in Seq(S)
      BY <3>1, <3>2
    <3> QED BY <3>3 DEF S
  <2>2. failed' \in Nat
    BY <1>0, <1>2 DEF UsedType
  <2> QED BY <2>1, <2>2 DEF UsedType
<1>4. timer' \in TimerState
  <2>1. timer.quota - worker.got \in 0..MaxBytes
    BY <1>0, <1>1 DEF TimerState
  <2> QED BY <1>0, <2>1 DEF Complete, Charge, TimerState
<1>5. served' \in [0..Period -> Nat]
  <2>1. served' = [served EXCEPT ![0] = served[0] + worker.got]
    BY DEF Complete
  <2>2. served[0] + worker.got \in Nat
    BY <1>0, <1>1
  <2> QED BY <1>0, <2>1, <2>2
<1>6. worker' \in WorkerState /\ worker'.pc = "chain"
  BY <1>0, <1>1 DEF Complete, WorkerState
<1>7. TypeOK'
  BY <1>3, <1>4, <1>5, <1>6
     DEF RngInv, Complete, TypeOK, UsedType, TimerState, WorkerState, guest, remote
<1>8. NoEmptyEntropy'
  <2> SUFFICES ASSUME source.kind = "fifo", MaxBytes > 0, NEW i \in DOMAIN used', used'[i].room > 0
               PROVE  used'[i].len > 0
    BY DEF NoEmptyEntropy, Complete
  <2>0. CASE used' = used
    BY <2>0 DEF RngInv, NoEmptyEntropy
  <2>1. worker.got = worker.want
    BY DEF Complete, SourceEnded
  <2>2. completion.len = worker.want /\ completion.room = worker.batch[1].len
    BY <2>1
  <2> HIDE DEF completion
  <2>4. CASE used' = Append(used, completion)
    <3>1. /\ DOMAIN used = 1..Len(used) /\ DOMAIN used' = 1..(Len(used) + 1) /\ Len(used) \in Nat
          /\ used'[Len(used) + 1] = completion /\ \A k \in 1..Len(used) : used'[k] = used[k]
      BY <1>0, <2>4 DEF UsedType
    <3>2. CASE i \in DOMAIN used
      BY <3>1, <3>2 DEF RngInv, NoEmptyEntropy
    <3>3. CASE i = Len(used) + 1
      BY <1>0, <2>2, <3>1, <3>3
    <3> QED BY <3>1, <3>2, <3>3
  <2> QED BY <1>2, <2>0, <2>4
<1> QED BY <1>0, <1>6, <1>7, <1>8 DEF RngInv, ReadFits, SourceComesFirst, Complete

LEMMA WorkerInv == ASSUME RngInv, Serve \/ Worker \/ WorkerFails PROVE RngInv'
<1> USE RngAssumption
<1>0. /\ worker \in WorkerState /\ timer \in TimerState /\ RemoteType /\ GuestType /\ UsedType
      /\ source.kind = "none" => worker.pc = "off"
  BY TypeParts DEF RngInv, SourceComesFirst
<1>1. CASE Serve \/ HandleEvent \/ SignalUsed \/ EnableNotification \/ WorkerFails
  <2>1. Die \/ \E label \in {"idle", "pop", "enable"} : Goto(label)
    BY <1>1 DEF Serve, HandleEvent, SignalUsed, EnableNotification, WorkerFails
  <2>2. worker' \in WorkerState /\ worker'.pc \notin {"read", "sleep"}
    BY <1>0, <2>1, GotoType, DieType
  <2>3. UNCHANGED <<ring, avail, posted, timer, served, source, remote>> /\ source.kind # "none"
    BY <1>0, <1>1 DEF Serve, HandleEvent, SignalUsed, EnableNotification, WorkerFails, guest
  <2>4. kick' \in BOOLEAN /\ notify' \in BOOLEAN /\ signalled' \in Nat
    <3>1. kick \in BOOLEAN /\ notify \in BOOLEAN /\ signalled \in Nat /\ Len(used) \in Nat
      BY <1>0 DEF RngInv, TypeOK, UsedType
    <3>2. kick' = kick \/ kick' = FALSE
      BY <1>1 DEF Serve, HandleEvent, SignalUsed, EnableNotification, WorkerFails
    <3>3. notify' = notify \/ notify' = FALSE \/ notify' = (avail = <<>>)
      BY <1>1 DEF Serve, HandleEvent, SignalUsed, EnableNotification, WorkerFails
    <3>4. signalled' = signalled \/ signalled' = Len(used)
      BY <1>1 DEF Serve, HandleEvent, SignalUsed, EnableNotification, WorkerFails, guest
    <3>5. kick' \in BOOLEAN /\ notify' \in BOOLEAN
      BY <3>1, <3>2, <3>3, Zenon
    <3> QED BY <3>1, <3>4, <3>5
  <2>5. TypeOK'
    BY <2>2, <2>3, <2>4 DEF RngInv, TypeOK, WorkerState, ring, remote
  <2> QED BY <2>2, <2>3, <2>5, GotoInv DEF ring
<1>2. CASE PopAll
  <2>1. worker' \in WorkerState /\ worker'.pc = "chain"
    BY <1>0, <1>2 DEF PopAll, WorkerState, GuestType
  <2>2. TypeOK'
    BY <1>2, <2>1 DEF RngInv, TypeOK, PopAll, WorkerState, ring, remote
  <2> QED BY <1>0, <1>2, <2>1, <2>2, GotoInv DEF PopAll, ring
<1>3. CASE Awake
  <2>1. worker.batch # <<>> /\ MaxBytes \in 0..MaxBytes
    BY <1>3 DEF RngInv, ReadFits, Awake
  <2> QED BY <1>3, <2>1, ReadInv, RefillType DEF Awake
<1>4. CASE ReadSource
  <2>1. /\ worker.got <= worker.want /\ worker.pc = "read" /\ worker.want \in Nat /\ worker.got \in Nat
        /\ source.bytes \in Nat
    BY <1>0, <1>4 DEF ReadSource, RngInv, ReadFits, WorkerState, RemoteType
  <2>2. Taken \in Nat /\ worker.got + Taken <= worker.want /\ source.bytes - Taken \in Nat
    BY <2>1 DEF Taken
  <2>3. /\ worker' \in WorkerState /\ worker'.pc = "read" /\ worker'.got = worker.got + Taken
        /\ worker'.want = worker.want /\ worker'.batch = worker.batch
    <3>1. worker' = [worker EXCEPT !.got = worker.got + Taken] /\ worker.got + Taken \in Nat
      BY <1>4, <2>1, <2>2 DEF ReadSource
    <3> QED BY <1>0, <2>1, <3>1 DEF WorkerState
  <2>4. source' \in [kind : {"none", "file", "fifo"}, bytes : Nat] /\ source'.kind = source.kind
    BY <1>0, <1>4, <2>2 DEF ReadSource, RemoteType
  <2>5. TypeOK'
    BY <1>4, <2>3, <2>4 DEF RngInv, TypeOK, ReadSource, WorkerState, guest, ring, remote
  <2>6. ReadFits'
    BY <1>4, <2>1, <2>2, <2>3 DEF RngInv, ReadFits, ReadSource
  <2> QED BY <1>0, <1>4, <2>1, <2>3, <2>4, <2>5, <2>6
        DEF RngInv, SourceComesFirst, NoEmptyEntropy, ReadSource, ring
<1> QED BY <1>1, <1>2, <1>3, <1>4, CheckChainInv, CompleteInv DEF Worker

-----------------------------------------------------------------------------
(* The rate limit *)

\* What had been served when the quota was refilled last.
Base == served[0] - MaxBytes + timer.quota

\* Since the period began nothing less than Base had been served; and at most
\* one quota was served in the Period ticks before that.
WindowInv ==
  /\ \A t \in 0..timer.elapsed : Base <= served[t]
  /\ \A t \in 0..Period : Base - MaxBytes <= served[t]

LEMMA WindowParts ==
  ASSUME TypeOK
  PROVE  /\ served \in [0..Period -> Nat] /\ timer \in TimerState
         /\ timer.quota \in 0..MaxBytes /\ timer.elapsed \in 0..Period
         /\ Period \in Nat /\ MaxBytes \in Nat /\ 0 \in 0..Period
BY RngAssumption DEF TypeOK, TimerState

LEMMA WindowBounds == TypeOK /\ WindowInv => RateIsBounded
<1> SUFFICES ASSUME TypeOK, WindowInv PROVE RateIsBounded
  OBVIOUS
<1>1. Base - MaxBytes <= served[Period] /\ served[Period] \in Nat /\ served[0] \in Nat
  BY WindowParts DEF WindowInv
<1> QED BY <1>1, WindowParts DEF Base, RateIsBounded

\* Only the clock, a refill and a completion touch the window.
LEMMA TickWindow == ASSUME TypeOK, WindowInv, Tick PROVE WindowInv'
<1> USE WindowParts
<1>1. timer'.elapsed \in 0..(timer.elapsed + 1) /\ timer'.elapsed \in 0..Period /\ timer'.quota = timer.quota
  BY DEF Tick, TimerState
<1>2. \A t \in 0..Period : served'[t] = IF t = 0 THEN served[0] ELSE served[t - 1]
  BY DEF Tick
<1>3. Base' = Base
  BY <1>1, <1>2 DEF Base
<1>4. ASSUME NEW t \in 0..timer'.elapsed PROVE Base <= served'[t]
  BY <1>1, <1>2 DEF WindowInv
<1>5. ASSUME NEW t \in 0..Period PROVE Base - MaxBytes <= served'[t]
  BY <1>2 DEF WindowInv
<1> QED BY <1>3, <1>4, <1>5 DEF WindowInv

\* A refill comes only when the period is over: what was served since the last
\* one is at most a quota, and it was served within the window.
LEMMA RefillWindow ==
  ASSUME TypeOK, WindowInv, timer.elapsed >= Period, timer' = Refill, UNCHANGED served
  PROVE  WindowInv'
<1> USE WindowParts
<1>1. timer.elapsed = Period /\ timer'.elapsed = 0 /\ timer'.quota = MaxBytes
  BY DEF Refill
<1>2. Base' = served[0] /\ served[0] \in Nat
  BY <1>1 DEF Base
<1>3. Base \in Int /\ served[0] - MaxBytes <= Base
  BY <1>2 DEF Base
<1>4. ASSUME NEW t \in 0..Period PROVE served[0] - MaxBytes <= served[t]
  <2>1. Base <= served[t] /\ served[t] \in Nat
    BY <1>1 DEF WindowInv
  <2> QED BY <1>2, <1>3, <2>1
<1>5. \A t \in 0..timer'.elapsed : served[0] <= served'[t]
  BY <1>1, <1>2
<1> QED BY <1>2, <1>4, <1>5 DEF WindowInv

LEMMA CompleteWindow == ASSUME TypeOK, WindowInv, Complete PROVE WindowInv'
<1> USE WindowParts
<1>1. worker.got \in Nat
  BY DEF TypeOK
<1>2. timer'.elapsed = timer.elapsed /\ timer'.quota = timer.quota - worker.got
  BY DEF Complete, Charge, TimerState
<1>3. \A t \in 0..Period : served'[t] = IF t = 0 THEN served[0] + worker.got ELSE served[t]
  BY DEF Complete
<1>4. Base' = Base /\ Base \in Int
  BY <1>1, <1>2, <1>3 DEF Base
<1>5. ASSUME NEW t \in 0..Period PROVE served[t] \in Nat /\ served[t] <= served'[t] /\ served'[t] \in Nat
  BY <1>1, <1>3
<1>6. ASSUME NEW t \in 0..timer.elapsed PROVE Base <= served'[t]
  <2>1. t \in 0..Period /\ Base <= served[t]
    BY DEF WindowInv
  <2> QED BY <1>4, <1>5, <2>1
<1>7. ASSUME NEW t \in 0..Period PROVE Base - MaxBytes <= served'[t]
  BY <1>4, <1>5 DEF WindowInv
<1> QED BY <1>2, <1>4, <1>6, <1>7 DEF WindowInv

LEMMA NextWindow == ASSUME TypeOK, WindowInv, [Next]_vars PROVE WindowInv'
<1>1. CASE UNCHANGED <<served, timer>>
  BY <1>1 DEF WindowInv, Base
<1>2. CASE CheckChain \/ Awake
  <2>1. UNCHANGED served /\ (UNCHANGED timer \/ (timer' = Refill /\ timer.elapsed >= Period))
    BY <1>2 DEF CheckChain, Awake
  <2> QED BY <1>1, <2>1, RefillWindow
<1>3. Tick \/ Complete \/ CheckChain \/ Awake \/ UNCHANGED <<served, timer>>
  BY DEF Next, vars, Post, Serve, Worker, HandleEvent, PopAll, ReadSource, SignalUsed,
         EnableNotification, WorkerFails, PumpStart, Pump, PumpOpen, Fetch, FetchFails, Write, PumpKilled,
         ServerChanges
<1> QED BY <1>1, <1>2, <1>3, TickWindow, CompleteWindow

-----------------------------------------------------------------------------
(* The ring *)

\* Buffers the worker has answered, or could not put back.
Done == Len(used) + failed

\* While the worker lives, every buffer posted is done, in the batch or
\* available, in this order.
InOrder ==
  /\ \A i, j \in DOMAIN used : i < j => used[i].head < used[j].head
  /\ worker.pc # "dead" =>
       /\ posted = Done + Len(worker.batch) + Len(avail)
       /\ \A i \in DOMAIN used : used[i].head <= Done
       /\ \A i \in DOMAIN worker.batch : worker.batch[i].head = Done + i
       /\ \A i \in DOMAIN avail : avail[i].head = Done + Len(worker.batch) + i

\* Between batches nothing is left of one, and outside of process_queue every
\* completion was signalled.
BatchIsDone ==
  /\ worker.pc \in {"off", "idle", "pop", "signal", "enable"} => worker.batch = <<>>
  /\ worker.pc \in {"off", "idle", "pop", "enable"} => signalled = Len(used)

\* A buffer the worker will not look for by itself has kicked it.
KicksArrive ==
  /\ ~worker.event_idx \/ worker.pc \in {"off", "idle"} => notify
  /\ worker.pc = "off" => avail = <<>>
  /\ worker.pc = "enable" => worker.event_idx
  /\ worker.pc = "idle" \/ (~worker.event_idx /\ worker.pc \notin {"pop", "dead"})
       => avail = <<>> \/ kick

RingInv == InOrder /\ BatchIsDone /\ KicksArrive

LEMMA RingTypes ==
  TypeOK => /\ avail \in Seq(Chain) /\ used \in Seq([head : 1..MaxPosts, len : Nat, room : Lengths])
            /\ worker \in WorkerState /\ worker.batch \in Seq(Chain)
            /\ posted \in Nat /\ signalled \in Nat /\ failed \in Nat
            /\ kick \in BOOLEAN /\ notify \in BOOLEAN /\ worker.event_idx \in BOOLEAN
BY RngAssumption DEF TypeOK, WorkerState

LEMMA RingLengths ==
  ASSUME TypeOK
  PROVE  /\ Len(used) \in Nat /\ Len(worker.batch) \in Nat /\ Len(avail) \in Nat /\ Done \in Nat
         /\ DOMAIN used = 1..Len(used) /\ DOMAIN worker.batch = 1..Len(worker.batch)
         /\ DOMAIN avail = 1..Len(avail)
<1>1. /\ Len(used) \in Nat /\ Len(worker.batch) \in Nat /\ Len(avail) \in Nat /\ failed \in Nat
      /\ DOMAIN used = 1..Len(used) /\ DOMAIN worker.batch = 1..Len(worker.batch)
      /\ DOMAIN avail = 1..Len(avail)
  BY RingTypes
<1> QED BY <1>1 DEF Done

LEMMA RingForgetsNothing == TypeOK /\ RingInv => NothingForgotten
<1> SUFFICES ASSUME TypeOK, RingInv PROVE NothingForgotten
  OBVIOUS
<1>1. ASSUME worker.pc = "idle", ~kick PROVE signalled + failed = posted
  <2>1. avail = <<>> /\ worker.batch = <<>> /\ signalled = Len(used)
    BY <1>1 DEF RingInv, KicksArrive, BatchIsDone
  <2>2. posted = Done + Len(worker.batch) + Len(avail) /\ Done \in Nat
    BY <1>1, RingLengths DEF RingInv, InOrder
  <2>3. posted = Done
    BY <2>1, <2>2
  <2> QED BY <2>1, <2>3 DEF Done
<1> QED BY <1>1 DEF NothingForgotten, RingInv, InOrder

\* Counting the buffers when one is completed.
LEMMA Counting ==
  ASSUME NEW u \in Nat, NEW b \in Nat, NEW i \in Nat
  PROVE  /\ (u + 1) + (b - 1) = u + b
         /\ u + (i + 1) = (u + 1) + i
OBVIOUS

LEMMA PostRing ==
  ASSUME TypeOK, RingInv, NEW len \in Lengths, NEW ok \in BOOLEAN, Post(len, ok)
  PROVE  RingInv'
<1> DEFINE buffer == [head |-> posted + 1, len |-> len, ok |-> ok]
<1>1. avail' = Append(avail, buffer)
  BY DEF Post
<1>2. posted' = posted + 1
  BY DEF Post
<1>3. UNCHANGED <<used, failed, worker, signalled, notify>> /\ Done' = Done /\ worker.pc # "off"
  BY DEF Post, ring, Done
<1>4. ASSUME worker.pc # "dead"
      PROVE  /\ posted' = Done + Len(worker.batch) + Len(avail')
             /\ \A i \in DOMAIN avail' : avail'[i].head = Done + Len(worker.batch) + i
  <2>1. Done \in Nat /\ Len(worker.batch) \in Nat /\ Len(avail) \in Nat
    BY RingLengths
  <2>2. posted = Done + Len(worker.batch) + Len(avail)
    BY <1>4 DEF RingInv, InOrder
  <2>3. /\ Len(avail') = Len(avail) + 1 /\ DOMAIN avail' = 1..(Len(avail) + 1)
        /\ avail'[Len(avail) + 1] = buffer /\ \A i \in 1..Len(avail) : avail'[i] = avail[i]
        /\ DOMAIN avail = 1..Len(avail)
    BY <1>1, RingTypes
  <2>4. posted' = Done + Len(worker.batch) + Len(avail')
    <3>1. Len(avail') = Len(avail) + 1
      BY <2>3
    <3>2. (Done + Len(worker.batch) + Len(avail)) + 1
            = Done + Len(worker.batch) + (Len(avail) + 1)
      <4> DEFINE u == Done  b == Len(worker.batch)  a == Len(avail)
      <4>1. u \in Nat /\ b \in Nat /\ a \in Nat
        BY <2>1
      <4> HIDE DEF u, b, a
      <4>2. (u + b + a) + 1 = u + b + (a + 1)
        BY <4>1
      <4> QED BY <4>2 DEF u, b, a
    <3> QED BY <1>2, <2>2, <3>1, <3>2, Zenon
  <2>5. ASSUME NEW i \in DOMAIN avail' PROVE avail'[i].head = Done + Len(worker.batch) + i
    <3>1. CASE i \in 1..Len(avail)
      BY <1>4, <2>3, <3>1 DEF RingInv, InOrder
    <3>2. CASE i = Len(avail) + 1
      <4>1. avail'[i].head = posted'
        BY <1>2, <2>3, <3>2
      <4>2. i = Len(avail')
        BY <2>3, <3>2
      <4> QED BY <2>4, <4>1, <4>2
    <3>3. i \in 1..Len(avail) \/ i = Len(avail) + 1
      BY <2>1, <2>3
    <3> QED BY <3>1, <3>2, <3>3
  <2> QED BY <2>4, <2>5
<1>5. InOrder'
  BY <1>3, <1>4 DEF RingInv, InOrder
<1>6. BatchIsDone'
  BY <1>3 DEF RingInv, BatchIsDone
<1>7. KicksArrive'
  BY <1>3, RingTypes DEF RingInv, KicksArrive, Post
<1> QED BY <1>5, <1>6, <1>7 DEF RingInv

\* The worker takes all there is.
LEMMA PopRing == ASSUME TypeOK, RingInv, PopAll PROVE RingInv'
<1>1. /\ worker'.batch = avail /\ worker'.pc = "chain" /\ worker'.event_idx = worker.event_idx
      /\ avail' = <<>> /\ UNCHANGED <<used, failed, posted, signalled, kick, notify>> /\ Done' = Done
  BY RingTypes DEF PopAll, WorkerState, ring, Done
<1>2. /\ worker.batch = <<>> /\ Len(worker.batch) = 0 /\ Len(avail) \in Nat /\ Done \in Nat
      /\ worker.pc = "pop"
      /\ posted = Done + Len(worker.batch) + Len(avail)
  BY RingLengths DEF PopAll, RingInv, BatchIsDone, InOrder
<1>3. Len(avail') = 0 /\ DOMAIN avail' = {}
  BY <1>1
<1>4. InOrder'
  <2>1. posted' = Done' + Len(worker'.batch) + Len(avail')
    BY <1>1, <1>2, <1>3
  <2>2. ASSUME NEW i \in DOMAIN worker'.batch PROVE worker'.batch[i].head = Done' + i
    <3>0. i \in DOMAIN avail
      BY <1>1
    <3>1. avail[i].head = Done + Len(worker.batch) + i /\ i \in Nat
      BY <1>2, <3>0, RingLengths DEF RingInv, InOrder
    <3>2. avail[i].head = Done + i
      <4>1. Done + 0 + i = Done + i
        BY <1>2, <3>1
      <4> QED BY <1>2, <3>1, <4>1, Zenon
    <3> QED BY <1>1, <3>2
  <2> QED BY <1>1, <1>2, <1>3, <2>1, <2>2 DEF RingInv, InOrder
<1>5. BatchIsDone' /\ KicksArrive'
  BY <1>1 DEF RingInv, BatchIsDone, KicksArrive, PopAll
<1> QED BY <1>4, <1>5 DEF RingInv

\* A completion is that of the first chain of the batch.
LEMMA CompleteRing == ASSUME TypeOK, RingInv, ReadFits, Complete PROVE RingInv'
<1> DEFINE completion == [head |-> worker.batch[1].head, len |-> worker.got,
                          room |-> worker.batch[1].len]
<1>1. /\ worker'.batch = Tail(worker.batch) /\ worker'.pc = "chain"
      /\ worker'.event_idx = worker.event_idx
      /\ UNCHANGED <<avail, posted, signalled, kick, notify>>
  BY RingTypes DEF Complete, WorkerState, guest
<1>2. \/ used' = Append(used, completion) /\ failed' = failed
      \/ used' = used /\ failed' = failed + 1
  BY DEF Complete
<1>3. worker.batch # <<>> /\ worker.pc = "read"
  BY DEF Complete, ReadFits
<1>4. /\ Len(worker.batch) \in Nat /\ Len(worker.batch) > 0 /\ DOMAIN worker.batch = 1..Len(worker.batch)
      /\ Len(worker'.batch) = Len(worker.batch) - 1 /\ DOMAIN worker'.batch = 1..(Len(worker.batch) - 1)
      /\ \A i \in 1..(Len(worker.batch) - 1) : worker'.batch[i] = worker.batch[i + 1]
  BY <1>1, <1>3, RingTypes
<1>5. Done \in Nat /\ Done' = Done + 1
  <2>1. Done \in Nat /\ Len(used) \in Nat /\ failed \in Nat
    BY RingLengths, RingTypes
  <2>2. CASE used' = Append(used, completion) /\ failed' = failed
    <3>1. Len(used') = Len(used) + 1
      BY <2>2, RingTypes
    <3> QED BY <2>1, <2>2, <3>1 DEF Done
  <2>3. CASE used' = used /\ failed' = failed + 1
    BY <2>1, <2>3 DEF Done
  <2> QED BY <1>2, <2>1, <2>2, <2>3
<1>6. worker.batch[1].head = Done + 1
  <2>1. 1 \in DOMAIN worker.batch
    BY <1>4
  <2> QED BY <1>3, <2>1 DEF RingInv, InOrder
<1>7. Done' + Len(worker'.batch) = Done + Len(worker.batch)
  <2>1. Done' = Done + 1 /\ Len(worker'.batch) = Len(worker.batch) - 1
    BY <1>4, <1>5
  <2>2. (Done + 1) + (Len(worker.batch) - 1) = Done + Len(worker.batch)
    BY <1>4, <1>5, Counting
  <2> QED BY <2>1, <2>2, Zenon
<1>8. /\ \A i \in DOMAIN used' : used'[i].head <= Done'
      /\ \A i, j \in DOMAIN used' : i < j => used'[i].head < used'[j].head
  <2>0. ASSUME NEW i \in DOMAIN used PROVE used[i].head \in Nat /\ used[i].head <= Done
    <3> DEFINE S == [head : 1..MaxPosts, len : Nat, room : Lengths]
    <3>1. used \in Seq(S)
      BY RingTypes
    <3> HIDE DEF S
    <3>2. used[i] \in S
      BY <3>1
    <3>3. used[i].head \in 1..MaxPosts
      BY <3>2 DEF S
    <3> QED BY <1>3, <3>3, RngAssumption DEF RingInv, InOrder
  <2>1. CASE used' = used
    BY <1>5, <2>0, <2>1 DEF RingInv, InOrder
  <2>2. CASE used' = Append(used, completion)
    <3>1. /\ Len(used) \in Nat /\ DOMAIN used = 1..Len(used)
          /\ DOMAIN used' = 1..(Len(used) + 1) /\ used'[Len(used) + 1] = completion
          /\ \A i \in 1..Len(used) : used'[i] = used[i]
      BY <2>2, RingTypes
    <3>2. completion.head = Done + 1
      BY <1>6
    <3> HIDE DEF completion
    <3>3. ASSUME NEW i \in DOMAIN used'
          PROVE  \/ i \in DOMAIN used /\ used'[i] = used[i]
                 \/ i = Len(used) + 1 /\ used'[i].head = Done + 1
      BY <3>1, <3>2
    <3>4. \A i \in DOMAIN used' : used'[i].head <= Done'
      BY <1>5, <2>0, <3>3
    <3>5. ASSUME NEW i \in DOMAIN used', NEW j \in DOMAIN used', i < j
          PROVE  used'[i].head < used'[j].head
      <4>1. i \in DOMAIN used /\ used'[i] = used[i]
        BY <3>1, <3>5
      <4>2. CASE j \in DOMAIN used /\ used'[j] = used[j]
        BY <3>5, <4>1, <4>2 DEF RingInv, InOrder
      <4>3. CASE used'[j].head = Done + 1
        BY <1>5, <2>0, <4>1, <4>3
      <4> QED BY <3>3, <4>2, <4>3
    <3> QED BY <3>4, <3>5
  <2> QED BY <1>2, <2>1, <2>2
<1>9. ASSUME NEW i \in DOMAIN worker'.batch PROVE worker'.batch[i].head = Done' + i
  <2>1. i \in 1..(Len(worker.batch) - 1)
    BY <1>4
  <2>2. i + 1 \in DOMAIN worker.batch /\ i \in Nat
    BY <1>4, <2>1
  <2>3. worker'.batch[i].head = Done + (i + 1)
    <3>1. worker'.batch[i] = worker.batch[i + 1]
      BY <1>4, <2>1
    <3> QED BY <1>3, <2>2, <3>1 DEF RingInv, InOrder
  <2> QED BY <1>5, <2>2, <2>3, Counting
<1>10. InOrder'
  BY <1>1, <1>3, <1>7, <1>8, <1>9 DEF RingInv, InOrder
<1>11. BatchIsDone' /\ KicksArrive'
  BY <1>1, <1>3 DEF RingInv, BatchIsDone, KicksArrive
<1> QED BY <1>10, <1>11 DEF RingInv

\* A step that moves no buffer.
LEMMA StillInOrder ==
  ASSUME InOrder, worker.pc # "dead", UNCHANGED <<posted, ring, avail>>, worker'.batch = worker.batch
  PROVE  InOrder'
BY DEF InOrder, Done, ring

\* What a dead worker had in hand is not counted any more.
LEMMA DieRing ==
  ASSUME TypeOK, RingInv, Die, UNCHANGED <<guest, ring, kick, notify>>
  PROVE  RingInv'
<1>1. worker'.pc = "dead" /\ worker'.event_idx = worker.event_idx
  BY RingTypes DEF Die, WorkerState
<1> QED BY <1>1 DEF RingInv, InOrder, BatchIsDone, KicksArrive, ring, guest

LEMMA NextRing == ASSUME RngInv, RingInv, [Next]_vars PROVE RingInv'
<1>0. TypeOK /\ ReadFits
  BY DEF RngInv
<1> USE <1>0, RingTypes
<1>1. CASE UNCHANGED <<worker, ring, avail, posted, signalled, kick, notify>>
  BY <1>1 DEF RingInv, InOrder, BatchIsDone, KicksArrive, Done, ring
<1>2. CASE Serve \/ HandleEvent \/ SignalUsed \/ EnableNotification
  <2>1. PICK label \in {"idle", "pop", "enable"} : Goto(label)
    BY <1>2 DEF Serve, HandleEvent, SignalUsed, EnableNotification
  <2>2. worker'.batch = worker.batch /\ worker'.pc = label /\ worker'.event_idx = worker.event_idx
    BY <2>1 DEF Goto, WorkerState
  <2>3. UNCHANGED <<ring, used, avail, posted>> /\ worker.pc # "dead"
    BY <1>2 DEF Serve, HandleEvent, SignalUsed, EnableNotification, guest, ring
  <2>4. BatchIsDone' /\ KicksArrive'
    <3>1. CASE Serve
      BY <2>2, <2>3, <3>1 DEF Serve, Goto, WorkerState, guest, RingInv, BatchIsDone, KicksArrive
    <3>2. CASE HandleEvent
      BY <2>2, <2>3, <3>2 DEF HandleEvent, Goto, WorkerState, guest, RingInv, BatchIsDone, KicksArrive
    <3>3. CASE SignalUsed
      BY <2>2, <2>3, <3>3 DEF SignalUsed, Goto, WorkerState, RingInv, BatchIsDone, KicksArrive
    <3>4. CASE EnableNotification
      <4>1. /\ worker.pc = "enable" /\ notify' = (avail = <<>>)
            /\ worker'.pc = IF avail = <<>> THEN "idle" ELSE "pop"
            /\ UNCHANGED <<signalled, kick>>
        BY <3>4 DEF EnableNotification, Goto, WorkerState, guest
      <4>2. /\ worker.batch = <<>> /\ signalled = Len(used)
            /\ worker.event_idx
        BY <4>1 DEF RingInv, BatchIsDone, KicksArrive
      <4>3. CASE avail = <<>>
        BY <2>2, <2>3, <4>1, <4>2, <4>3 DEF BatchIsDone, KicksArrive
      <4>4. CASE avail # <<>>
        BY <2>2, <2>3, <4>1, <4>2, <4>4 DEF BatchIsDone, KicksArrive
      <4> QED BY <4>3, <4>4
    <3> QED BY <1>2, <3>1, <3>2, <3>3, <3>4
  <2> QED BY <2>2, <2>3, <2>4, StillInOrder DEF RingInv
<1>3. CASE (CheckChain /\ ~Die) \/ Awake \/ ReadSource
  <2>1. /\ worker'.batch = worker.batch /\ worker'.event_idx = worker.event_idx
        /\ worker'.pc \in {"signal", "sleep", "read"}
        /\ worker'.pc = "signal" => worker.batch = <<>>
        /\ worker.pc \in {"chain", "sleep", "read"}
    <3>1. CASE CheckChain /\ ~Die
      <4>1. /\ worker.pc = "chain"
            /\ \/ worker.batch = <<>> /\ Goto("signal")
               \/ Goto("sleep") \/ ReadUpTo(MaxBytes) \/ ReadUpTo(timer.quota)
        BY <3>1 DEF CheckChain
      <4> QED BY <4>1 DEF ReadUpTo, Goto, WorkerState
    <3>2. CASE Awake
      BY <3>2 DEF Awake, ReadUpTo, Goto, WorkerState
    <3>3. CASE ReadSource
      BY <3>3 DEF ReadSource, WorkerState
    <3> QED BY <1>3, <3>1, <3>2, <3>3
  <2>2. UNCHANGED <<ring, used, avail, posted, signalled, kick, notify>>
    BY <1>3 DEF CheckChain, Awake, ReadSource, guest, ring
  <2> QED BY <2>1, <2>2, StillInOrder DEF RingInv, BatchIsDone, KicksArrive
<1>4. CASE (CheckChain /\ Die) \/ WorkerFails
  BY <1>4, DieRing DEF CheckChain, WorkerFails
<1>5. \/ \E len \in Lengths, ok \in BOOLEAN : Post(len, ok)
      \/ PopAll \/ Complete
      \/ Serve \/ HandleEvent \/ SignalUsed \/ EnableNotification \/ WorkerFails
      \/ CheckChain \/ Awake \/ ReadSource
      \/ UNCHANGED <<worker, ring, avail, posted, signalled, kick, notify>>
  BY RngAssumption DEF Next, vars, guest, Worker, Tick, PumpStart, Pump, PumpOpen, Fetch,
         FetchFails, Write, PumpKilled, ServerChanges
<1> QED BY <1>1, <1>2, <1>3, <1>4, <1>5, PostRing, PopRing, CompleteRing

-----------------------------------------------------------------------------
(* Theorems *)

\* The inductive invariant of the backend and the pump that feeds it.
THEOREM RngInvariant == Spec => []RngInv
<1>1. RngInv /\ [Next]_vars => RngInv'
  <2> SUFFICES ASSUME RngInv, [Next]_vars PROVE RngInv'
    OBVIOUS
  <2>1. CASE UNCHANGED vars
    <3>1. TypeOK'
      BY <2>1 DEF vars, guest, ring, remote, RngInv, TypeOK
    <3> QED BY <2>1, <3>1, QuietInv DEF vars, ring
  <2> QED BY <2>1, OutsideInv, WorkerInv, RngAssumption DEF Next
<1> QED BY <1>1, InitInv, PTL DEF Spec

\* Every variable keeps its type: the quota stays between zero and max_bytes
\* however requests straddle its periods (process_requests).
THEOREM RngTypeCorrect == Spec => []TypeOK
<1>1. RngInv => TypeOK
  BY DEF RngInv
<1> QED BY <1>1, RngInvariant, PTL

\* No completion from a FIFO is empty, though the pump and its server come and
\* go (open_source).
THEOREM EntropyNeverEmpty == Spec => []NoEmptyEntropy
<1>1. RngInv => NoEmptyEntropy
  BY DEF RngInv
<1> QED BY <1>1, RngInvariant, PTL

\* The rate limit, for any quota and period: in no Period ticks, wherever they
\* begin, are more than two quotas served (process_requests).
THEOREM RateBounded == Spec => []RateIsBounded
<1>1. Init => WindowInv
  <2> SUFFICES ASSUME Init PROVE WindowInv
    OBVIOUS
  <2>1. timer.quota = MaxBytes /\ timer.elapsed = 0 /\ served = [t \in 0..Period |-> 0]
    BY DEF Init
  <2> QED BY <2>1, RngAssumption DEF WindowInv, Base
<1>2. TypeOK /\ WindowInv /\ [Next]_vars => WindowInv'
  BY NextWindow
<1>3. TypeOK /\ WindowInv => RateIsBounded
  BY WindowBounds
<1> QED BY <1>1, <1>2, <1>3, RngTypeCorrect, PTL DEF Spec

\* No request is lost or answered twice, whatever the order of posts, kicks and
\* notifications and with EVENT_IDX or without: a worker that waits with no kick
\* pending has answered everything but what the ring did not take back
\* (handle_event, process_queue).
THEOREM AllAnswered == Spec => []NothingForgotten
<1>1. Init => RingInv
  <2> SUFFICES ASSUME Init PROVE RingInv
    OBVIOUS
  <2>1. /\ posted = 0 /\ signalled = 0 /\ used = <<>> /\ avail = <<>> /\ worker.batch = <<>>
        /\ failed = 0 /\ notify /\ worker.pc = "off"
    BY DEF Init
  <2> QED BY <2>1 DEF RingInv, InOrder, BatchIsDone, KicksArrive, Done
<1>2. RngInv /\ RingInv /\ [Next]_vars => RingInv'
  BY NextRing
<1>3. RngInv /\ RingInv => NothingForgotten
  BY RingForgetsNothing DEF RngInv
<1> QED BY <1>1, <1>2, <1>3, RngInvariant, PTL DEF Spec
=============================================================================
