----------------------------- MODULE RngBackend -----------------------------
(***************************************************************************)
(* The virtio-rng backend (vhost/rng.rs) between a guest's virtqueue and   *)
(* an entropy source, and the remote entropy stub (vhost/entropy.rs) that  *)
(* feeds the source when it is a FIFO: the guest posts buffers, the        *)
(* backend's worker pops and fills them under a rate limit, the pump       *)
(* fetches chunks from a server on another host.                           *)
(*                                                                         *)
(* External, as the code uses them: the virtqueue and its notifications    *)
(* (an error from handle_event ends the worker thread), the kernel's FIFO, *)
(* and read_volatile_from, which reads until the buffer is full or the     *)
(* source ends.  Time is counted in ticks since the period began.          *)
(***************************************************************************)
EXTENDS Integers, Sequences

CONSTANTS
  Period,      \* period_ms, in ticks
  MaxBytes,    \* max_bytes per period; nothing refuses 0
  Chunk,       \* bytes the pump asks for at a time
  FifoBytes,   \* capacity of the FIFO
  FileBytes,   \* bytes of a regular file given as source
  Lengths,     \* buffer lengths the guest posts; nothing refuses 0
  BadLengths,  \* lengths of what is not one write-only descriptor
  MaxPosts     \* bound on the buffers posted

\* RngConfig::validate and entropy_pump refuse a zero period or chunk.
ASSUME RngAssumption ==
  /\ Period \in Nat \ {0} /\ Chunk \in Nat \ {0} /\ FifoBytes \in Nat \ {0}
  /\ MaxBytes \in Nat /\ FileBytes \in Nat /\ MaxPosts \in Nat
  /\ Lengths \subseteq Nat /\ BadLengths \subseteq Lengths

VARIABLES
  avail,      \* the guest's buffers that are not popped: [head, len, ok]
  used,       \* completions: [head, len], and room, the buffer's own length
  failed,     \* buffers whose completion could not be put on the ring
  signalled,  \* completions the guest was interrupted for
  posted,     \* buffers posted so far
  kick,       \* the queue's eventfd
  notify,     \* the guest must kick for a new buffer
  worker,     \* [pc, event_idx, batch, want, got]
  timer,      \* TimerConfig: [elapsed, quota]
  served,     \* history: bytes completed in all, as of 0 to Period ticks ago
  source,     \* [kind, bytes]
  pump,       \* entropy_pump: [pc, have]
  server      \* entropy_serve on the other host

guest == <<avail, signalled, posted>>
remote == <<pump, server>>
ring == <<used, failed>>
vars == <<guest, ring, kick, notify, worker, timer, served, source, remote>>

Init ==
  /\ avail = <<>> /\ used = <<>> /\ failed = 0 /\ signalled = 0 /\ posted = 0
  /\ kick = FALSE /\ notify = TRUE
  /\ worker \in [pc : {"off"}, event_idx : BOOLEAN, batch : {<<>>}, want : {0}, got : {0}]
  /\ timer = [elapsed |-> 0, quota |-> MaxBytes]
  /\ served = [t \in 0..Period |-> 0]
  /\ source \in {[kind |-> "none", bytes |-> 0], [kind |-> "file", bytes |-> FileBytes]}
  /\ pump = [pc |-> "off", have |-> 0]
  /\ server = "up"

-----------------------------------------------------------------------------
(* The guest and the clock *)

\* A buffer is one write-only descriptor, unless the driver is at fault.
Post(len, ok) ==
  /\ worker.pc # "off"
  /\ posted < MaxPosts
  /\ avail' = Append(avail, [head |-> posted + 1, len |-> len, ok |-> ok])
  /\ posted' = posted + 1
  /\ kick' = (kick \/ notify)
  /\ UNCHANGED <<signalled, ring, notify, worker, timer, served, source, remote>>

\* Ticks past the end of a period make no difference.
Tick ==
  /\ timer' = [timer EXCEPT !.elapsed = IF @ < Period THEN @ + 1 ELSE @]
  /\ served' = [t \in 0..Period |-> IF t = 0 THEN served[0] ELSE served[t - 1]]
  /\ UNCHANGED <<guest, ring, kick, notify, worker, source, remote>>

-----------------------------------------------------------------------------
(* The backend: serve_rng, handle_event, process_queue, process_requests *)

Goto(label) == worker' = [worker EXCEPT !.pc = label]

\* An error leaves handle_event, and what the thread had in hand is gone.
Die == worker' = [worker EXCEPT !.pc = "dead", !.batch = <<>>, !.want = 0, !.got = 0]

\* open_source needs the path to exist.
Serve ==
  /\ worker.pc = "off"
  /\ source.kind # "none"
  /\ Goto("idle")
  /\ UNCHANGED <<guest, ring, kick, notify, timer, served, source, remote>>

HandleEvent ==
  /\ worker.pc = "idle"
  /\ kick
  /\ kick' = FALSE
  /\ notify' = IF worker.event_idx THEN FALSE ELSE notify
  /\ Goto("pop")
  /\ UNCHANGED <<guest, ring, timer, served, source, remote>>

\* process_queue takes every available chain before it serves the first.
PopAll ==
  /\ worker.pc = "pop"
  /\ worker' = [worker EXCEPT !.pc = "chain", !.batch = avail]
  /\ avail' = <<>>
  /\ UNCHANGED <<signalled, posted, ring, kick, notify, timer, served, source, remote>>

Refill == [elapsed |-> 0, quota |-> MaxBytes]

\* Variant: the quota is checked for the request and not for the period.
AllowanceWhole(len, quota) == len

\* A request is cut to what is left of the quota.
Allowance(len, quota) == IF quota < len THEN quota ELSE len

ReadUpTo(quota) ==
  worker' = [worker EXCEPT !.pc = "read", !.got = 0,
                           !.want = Allowance(worker.batch[1].len, quota)]

\* A chain that is not one write-only descriptor is an error, which leaves the
\* rest of the batch behind; an empty batch is done.
CheckChain ==
  /\ worker.pc = "chain"
  /\ \/ worker.batch = <<>> /\ Goto("signal") /\ UNCHANGED timer
     \/ worker.batch # <<>> /\ ~worker.batch[1].ok /\ Die /\ UNCHANGED timer
     \/ /\ worker.batch # <<>> /\ worker.batch[1].ok
        /\ timer.elapsed >= Period
        /\ timer' = Refill
        /\ ReadUpTo(MaxBytes)
     \/ /\ worker.batch # <<>> /\ worker.batch[1].ok
        /\ timer.elapsed < Period /\ timer.quota = 0
        /\ Goto("sleep") /\ UNCHANGED timer
     \/ /\ worker.batch # <<>> /\ worker.batch[1].ok
        /\ timer.elapsed < Period /\ timer.quota > 0
        /\ ReadUpTo(timer.quota) /\ UNCHANGED timer
  /\ UNCHANGED <<guest, ring, kick, notify, served, source, remote>>

\* The worker sleeps out the period.
Awake ==
  /\ worker.pc = "sleep"
  /\ timer.elapsed >= Period
  /\ timer' = Refill
  /\ ReadUpTo(MaxBytes)
  /\ UNCHANGED <<guest, ring, kick, notify, served, source, remote>>

Taken == IF source.bytes < worker.want - worker.got THEN source.bytes
         ELSE worker.want - worker.got

\* A read takes what is there and waits for more.
ReadSource ==
  /\ worker.pc = "read"
  /\ Taken > 0
  /\ worker' = [worker EXCEPT !.got = @ + Taken]
  /\ source' = [source EXCEPT !.bytes = @ - Taken]
  /\ UNCHANGED <<guest, ring, kick, notify, timer, served, remote>>

\* Variant: the FIFO is opened for reading only, and ends when no writer has
\* it open.
SourceEndedReadOnly ==
  /\ source.bytes = 0
  /\ source.kind = "file" \/ pump.pc \notin {"fetch", "write"}

\* The backend holds a FIFO open for writing as well: it never ends.
SourceEnded == source.kind = "file" /\ source.bytes = 0

\* Variant: the completion is not charged.
ChargeNothing(len) == timer

Charge(len) == [timer EXCEPT !.quota = @ - len]

\* The request is done and charged; add_used may fail, which is only logged.
Complete ==
  /\ worker.pc = "read"
  /\ worker.got = worker.want \/ SourceEnded
  /\ \/ /\ used' = Append(used, [head |-> worker.batch[1].head, len |-> worker.got,
                                room |-> worker.batch[1].len])
        /\ UNCHANGED failed
     \/ failed' = failed + 1 /\ UNCHANGED used
  /\ timer' = Charge(worker.got)
  /\ served' = [served EXCEPT ![0] = @ + worker.got]
  /\ worker' = [worker EXCEPT !.pc = "chain", !.batch = Tail(@), !.want = 0, !.got = 0]
  /\ UNCHANGED <<guest, kick, notify, source, remote>>

\* The ring, the clock, the source or the interrupt reports an error: the
\* worker ends.
WorkerFails ==
  /\ worker.pc \in {"pop", "chain", "read", "signal", "enable"}
  /\ Die
  /\ UNCHANGED <<guest, ring, kick, notify, timer, served, source, remote>>

SignalUsed ==
  /\ worker.pc = "signal"
  /\ signalled' = Len(used)
  /\ Goto(IF worker.event_idx THEN "enable" ELSE "idle")
  /\ UNCHANGED <<avail, posted, ring, kick, notify, timer, served, source, remote>>

\* Variant: one call of process_queue, with EVENT_IDX too.
EnableOnce ==
  /\ worker.pc = "enable"
  /\ notify' = TRUE
  /\ Goto("idle")
  /\ UNCHANGED <<guest, ring, kick, timer, served, source, remote>>

\* Notifications are on again; if a buffer came meanwhile they go off and the
\* queue is processed once more.
EnableNotification ==
  /\ worker.pc = "enable"
  /\ notify' = (avail = <<>>)
  /\ Goto(IF avail = <<>> THEN "idle" ELSE "pop")
  /\ UNCHANGED <<guest, ring, kick, timer, served, source, remote>>

Worker ==
  \/ HandleEvent \/ PopAll \/ CheckChain \/ Awake \/ ReadSource \/ Complete
  \/ SignalUsed \/ EnableNotification

-----------------------------------------------------------------------------
(* The remote stub: entropy_pump, entropy_fetch, serve_conn *)

\* The pump makes the FIFO if it is not there.
PumpStart ==
  /\ pump.pc = "off"
  /\ source.kind # "file"
  /\ source' = [source EXCEPT !.kind = "fifo"]
  /\ pump' = [pump EXCEPT !.pc = "open"]
  /\ UNCHANGED <<guest, ring, kick, notify, worker, timer, served, server>>

\* Opening a FIFO for writing waits for a reader.
PumpOpen ==
  /\ pump.pc = "open"
  /\ worker.pc # "off"
  /\ pump' = [pump EXCEPT !.pc = "fetch"]
  /\ UNCHANGED <<guest, ring, kick, notify, worker, timer, served, source, server>>

\* One connection per chunk; the server sends exactly what was asked.
Fetch ==
  /\ pump.pc = "fetch"
  /\ server = "up"
  /\ pump' = [pc |-> "write", have |-> Chunk]
  /\ UNCHANGED <<guest, ring, kick, notify, worker, timer, served, source, server>>

\* A server that cannot be reached or does not answer within the deadline
\* ends the pump.
FetchFails ==
  /\ pump.pc = "fetch"
  /\ pump' = [pump EXCEPT !.pc = "off"]
  /\ UNCHANGED <<guest, ring, kick, notify, worker, timer, served, source, server>>

\* Variant: a chunk is written whole or not at all.
WrittenWhole == IF FifoBytes - source.bytes < pump.have THEN 0 ELSE pump.have

Written == IF FifoBytes - source.bytes < pump.have THEN FifoBytes - source.bytes ELSE pump.have

\* write_all fills the FIFO and waits for room.
Write ==
  /\ pump.pc = "write"
  /\ Written > 0
  /\ source' = [source EXCEPT !.bytes = @ + Written]
  /\ pump' = [pc |-> IF pump.have = Written THEN "fetch" ELSE "write",
              have |-> pump.have - Written]
  /\ UNCHANGED <<guest, ring, kick, notify, worker, timer, served, server>>

\* The pump is killed, perhaps with a part of its chunk written.
PumpKilled ==
  /\ pump.pc # "off"
  /\ pump' = [pc |-> "off", have |-> 0]
  /\ UNCHANGED <<guest, ring, kick, notify, worker, timer, served, source, server>>

ServerChanges ==
  /\ server' = IF server = "up" THEN "down" ELSE "up"
  /\ UNCHANGED <<guest, ring, kick, notify, worker, timer, served, source, pump>>

Pump == PumpOpen \/ Fetch \/ FetchFails \/ Write

Next ==
  \/ \E len \in Lengths : Post(len, TRUE)
  \/ \E len \in BadLengths : Post(len, FALSE)
  \/ Tick \/ Serve \/ Worker \/ WorkerFails
  \/ PumpStart \/ Pump \/ PumpKilled \/ ServerChanges

Spec == Init /\ [][Next]_vars

\* The worker's and the pump's threads run and time passes; nobody has to
\* start a pump or a server, or post a buffer.
FairSpec == Spec /\ WF_vars(Worker) /\ WF_vars(Tick) /\ WF_vars(Pump)

-----------------------------------------------------------------------------
(* Properties *)

Chain == [head : 1..MaxPosts, len : Lengths, ok : BOOLEAN]

TypeOK ==
  /\ avail \in Seq(Chain)
  /\ used \in Seq([head : 1..MaxPosts, len : Nat, room : Lengths])
  /\ failed \in Nat
  /\ signalled \in Nat /\ posted \in 0..MaxPosts
  /\ kick \in BOOLEAN /\ notify \in BOOLEAN
  /\ worker \in [pc : {"off", "idle", "pop", "chain", "sleep", "read", "signal",
                       "enable", "dead"},
                 event_idx : BOOLEAN, batch : Seq(Chain), want : Nat, got : Nat]
  /\ timer \in [elapsed : 0..Period, quota : 0..MaxBytes]
  /\ served \in [0..Period -> Nat]
  /\ source \in [kind : {"none", "file", "fifo"}, bytes : Nat]
  /\ pump \in [pc : {"off", "open", "fetch", "write"}, have : 0..Chunk]
  /\ server \in {"up", "down"}

\* The rate limit: over any Period ticks, wherever they begin and however the
\* quota is refilled or slept for in between, at most two quotas are served
\* (process_requests).
RateIsBounded == served[0] - served[Period] <= 2 * MaxBytes

\* No request is lost or answered twice: completions come in the order of the
\* posts, and a worker that waits for a kick that has not come has answered and
\* signalled every buffer there is, with EVENT_IDX and without, but for those
\* the ring did not take back (the loop of handle_event, process_queue).
NothingForgotten ==
  /\ \A i, j \in DOMAIN used : i < j => used[i].head < used[j].head
  /\ worker.pc = "idle" /\ ~kick => signalled + failed = posted

\* "the guest never sees a zero-byte entropy completion": served from a FIFO
\* with a quota, every completion of a buffer with room carries entropy, though
\* the pump and its server come and go (open_source).
NoEmptyEntropy ==
  source.kind = "fifo" /\ MaxBytes > 0 =>
    \A i \in DOMAIN used : used[i].room > 0 => used[i].len > 0

Waiting == signalled + failed < posted

Stalled == worker.pc = "read" /\ source.bytes = 0

\* Every buffer posted is completed and signalled, or lost to a ring that does
\* not take it back, however posts and notifications interleave, unless the
\* worker has ended or waits for entropy (the loop of handle_event).
RequestsEnd == Waiting ~> (~Waiting \/ worker.pc = "dead" \/ Stalled)

\* A stalled read resumes: while a pump runs and its server stays up, a worker
\* that waits for entropy gets it (entropy_pump).
StallsEnd ==
  <>[](server = "up" /\ pump.pc # "off") =>
    ((worker.pc = "read") ~> (worker.pc # "read"))
=============================================================================
