----------------------------- MODULE AgentNode -----------------------------
(***************************************************************************)
(* Agents of a fleet and the files they leave (agent_serve, its key and    *)
(* address files, and fleet in nauti.rs).  An agent loads its identity or  *)
(* creates it, listens, and announces its address in a file; a controller  *)
(* reads the address files and probes every node.                          *)
(*                                                                         *)
(* A process may be killed between any two steps and started again, and    *)
(* two may run for one node.  An endpoint is named by its identity, a      *)
(* number no two generated keys share.                                     *)
(***************************************************************************)
EXTENDS Naturals

CONSTANTS
  Nodes,
  Procs,     \* agent processes
  NodeOf,    \* the node each is started for
  MaxIds     \* bound on the keys ever generated

ASSUME AgentAssumption ==
  /\ MaxIds \in Nat
  /\ NodeOf \in [Procs -> Nodes]

VARIABLES
  proc,       \* [pc, id, kept]: the identity, and whether it is the key file's
  keyFile,    \* absent, short, or the identity of 32 bytes
  addrFile,   \* absent, torn, or the identity its address names
  ids,        \* keys generated so far
  fleet,      \* the controller: [pc, raw, report]
  strayed     \* history: nodes an agent listened for under a key not kept

files == <<keyFile, addrFile>>
vars == <<proc, files, ids, fleet, strayed>>

Ids == 1..MaxIds

\* States of a file that hold no identity.
Absent == 0
Cut == MaxIds + 1

FileState == Ids \union {Absent, Cut}

Off == [pc |-> "off", id |-> 0, kept |-> FALSE]

Idle == [pc |-> "idle", raw |-> [n \in Nodes |-> Absent], report |-> [n \in Nodes |-> "none"]]

Init ==
  /\ proc = [p \in Procs |-> Off]
  /\ keyFile = [n \in Nodes |-> Absent]
  /\ addrFile = [n \in Nodes |-> Absent]
  /\ ids = 0
  /\ fleet = Idle
  /\ strayed = {}

Goto(p, label) == proc' = [proc EXCEPT ![p].pc = label]

-----------------------------------------------------------------------------
(* agent_serve *)

Start(p) ==
  /\ proc[p].pc = "off"
  /\ Goto(p, "key")
  /\ UNCHANGED <<files, ids, fleet, strayed>>

\* A key that cannot be loaded or kept: the warning, and an ephemeral one.
Ephemeral(p) ==
  /\ ids < MaxIds
  /\ ids' = ids + 1
  /\ proc' = [proc EXCEPT ![p] = [pc |-> "bind", id |-> ids + 1, kept |-> FALSE]]

\* Variant: the bytes read are the key, however many there are.
ReadKeyAnyLength(p) ==
  /\ proc[p].pc = "key"
  /\ \/ /\ keyFile[NodeOf[p]] # Absent
        /\ proc' = [proc EXCEPT ![p] = [pc |-> "bind", id |-> keyFile[NodeOf[p]], kept |-> TRUE]]
        /\ UNCHANGED ids
     \/ /\ ids < MaxIds
        /\ ids' = ids + 1
        /\ proc' = [proc EXCEPT ![p] = [pc |-> "create", id |-> ids + 1, kept |-> FALSE]]
  /\ UNCHANGED <<files, fleet, strayed>>

\* Variant: a short file is read again until its writer is done.
ReadKeyWaits(p) ==
  /\ proc[p].pc = "key"
  /\ \/ /\ keyFile[NodeOf[p]] \in Ids
        /\ proc' = [proc EXCEPT ![p] = [pc |-> "bind", id |-> keyFile[NodeOf[p]], kept |-> TRUE]]
        /\ UNCHANGED ids
     \/ /\ ids < MaxIds /\ keyFile[NodeOf[p]] = Absent
        /\ ids' = ids + 1
        /\ proc' = [proc EXCEPT ![p] = [pc |-> "create", id |-> ids + 1, kept |-> FALSE]]
  /\ UNCHANGED <<files, fleet, strayed>>

\* load_or_create_key_at: a file that reads must hold 32 bytes; one that does
\* not read, for whatever reason, is taken for absent.
ReadKey(p) ==
  /\ proc[p].pc = "key"
  /\ \/ /\ keyFile[NodeOf[p]] \in Ids
        /\ proc' = [proc EXCEPT ![p] = [pc |-> "bind", id |-> keyFile[NodeOf[p]], kept |-> TRUE]]
        /\ UNCHANGED ids
     \/ /\ keyFile[NodeOf[p]] = Cut
        /\ Ephemeral(p)
     \/ /\ ids < MaxIds
        /\ ids' = ids + 1
        /\ proc' = [proc EXCEPT ![p] = [pc |-> "create", id |-> ids + 1, kept |-> FALSE]]
  /\ UNCHANGED <<files, fleet, strayed>>

\* Variant: the file is created or truncated.
CreateKeyOver(p) ==
  /\ proc[p].pc = "create"
  /\ keyFile' = [keyFile EXCEPT ![NodeOf[p]] = Cut]
  /\ Goto(p, "write") /\ UNCHANGED ids
  /\ UNCHANGED <<addrFile, fleet, strayed>>

\* Variant: the generated key is used though another process made the file.
CreateKeyLost(p) ==
  /\ proc[p].pc = "create" /\ UNCHANGED ids
  /\ \/ /\ keyFile[NodeOf[p]] = Absent
        /\ keyFile' = [keyFile EXCEPT ![NodeOf[p]] = Cut]
        /\ Goto(p, "write")
     \/ /\ keyFile[NodeOf[p]] # Absent
        /\ proc' = [proc EXCEPT ![p].pc = "bind", ![p].kept = TRUE]
        /\ UNCHANGED keyFile
  /\ UNCHANGED <<addrFile, fleet, strayed>>

\* create_new succeeds for one process at most; the directory may be missing.
CreateKey(p) ==
  /\ proc[p].pc = "create"
  /\ \/ /\ keyFile[NodeOf[p]] = Absent
        /\ keyFile' = [keyFile EXCEPT ![NodeOf[p]] = Cut]
        /\ Goto(p, "write") /\ UNCHANGED ids
     \/ Ephemeral(p) /\ UNCHANGED keyFile
  /\ UNCHANGED <<addrFile, fleet, strayed>>

\* Variant: the result of the write is not looked at.
WriteKeyUnchecked(p) ==
  /\ proc[p].pc = "write"
  /\ proc' = [proc EXCEPT ![p].pc = "bind", ![p].kept = TRUE]
  /\ \/ keyFile' = [keyFile EXCEPT ![NodeOf[p]] = proc[p].id]
     \/ UNCHANGED keyFile
  /\ UNCHANGED <<addrFile, ids, fleet, strayed>>

\* The 32 bytes are written, or the disk is full and the short file stays.
WriteKey(p) ==
  /\ proc[p].pc = "write"
  /\ \/ /\ keyFile' = [keyFile EXCEPT ![NodeOf[p]] = proc[p].id]
        /\ proc' = [proc EXCEPT ![p].pc = "bind", ![p].kept = TRUE]
        /\ UNCHANGED ids
     \/ Ephemeral(p) /\ UNCHANGED keyFile
  /\ UNCHANGED <<addrFile, fleet, strayed>>

\* serve_with_identity
Listen(p) ==
  /\ proc[p].pc = "bind"
  /\ Goto(p, "announce")
  /\ strayed' = IF proc[p].kept THEN strayed ELSE strayed \union {NodeOf[p]}
  /\ UNCHANGED <<files, ids, fleet>>

\* persist_addr: fs::write truncates and then writes, and each may fail, which
\* is a warning.
TruncateAddr(p) ==
  /\ proc[p].pc = "announce"
  /\ \/ Goto(p, "addr") /\ addrFile' = [addrFile EXCEPT ![NodeOf[p]] = Cut]
     \/ Goto(p, "up") /\ UNCHANGED addrFile
  /\ UNCHANGED <<keyFile, ids, fleet, strayed>>

\* The write goes into the file as it is by now: over what another agent wrote
\* since the truncation, of which a longer one leaves its tail, and writes in
\* pieces mix.  One that fails leaves what is there, or part of its own.
WriteAddr(p) ==
  /\ proc[p].pc = "addr"
  /\ Goto(p, "up")
  /\ \/ addrFile' = [addrFile EXCEPT ![NodeOf[p]] = proc[p].id]
     \/ addrFile' = [addrFile EXCEPT ![NodeOf[p]] = Cut]
     \/ UNCHANGED addrFile
  /\ UNCHANGED <<keyFile, ids, fleet, strayed>>

\* Ctrl-C, a failed bind, or a kill at any step.
Stop(p) ==
  /\ proc[p].pc # "off"
  /\ proc' = [proc EXCEPT ![p] = Off]
  /\ UNCHANGED <<files, ids, fleet, strayed>>

Agent(p) ==
  ReadKey(p) \/ CreateKey(p) \/ WriteKey(p) \/ Listen(p) \/ TruncateAddr(p) \/ WriteAddr(p)

Listening(p) == proc[p].pc \in {"announce", "addr", "up"}

-----------------------------------------------------------------------------
(* fleet *)

\* fleet_addr_files reads every address file there is, one after another.
ReadAddrs(n) ==
  /\ fleet.pc \in {"idle", "read"}
  /\ fleet.report[n] = "none"
  /\ fleet' = [fleet EXCEPT !.pc = "read", !.raw[n] = addrFile[n],
                            !.report[n] = IF addrFile[n] = Absent THEN "unknown" ELSE "read"]
  /\ UNCHANGED <<proc, files, ids, strayed>>

AddrsRead ==
  /\ fleet.pc = "read"
  /\ \A n \in Nodes : fleet.report[n] # "none"
  /\ fleet' = [fleet EXCEPT !.pc = "probe"]
  /\ UNCHANGED <<proc, files, ids, strayed>>

\* probe_node: a file that does not parse is an offline node, as is one that
\* does not answer; the probe itself is RpcSession.
ProbeNode(n) ==
  /\ fleet.pc = "probe"
  /\ fleet.report[n] = "read"
  /\ \/ fleet' = [fleet EXCEPT !.report[n] = "offline", !.raw[n] = Absent]
     \/ \E p \in Procs :
          /\ fleet.raw[n] \in Ids
          /\ Listening(p) /\ proc[p].id = fleet.raw[n]
          /\ fleet' = [fleet EXCEPT !.report[n] = "online", !.raw[n] = Absent]
  /\ UNCHANGED <<proc, files, ids, strayed>>

\* Variant: the report waits for every node to answer.
ReportAllOnline ==
  /\ fleet.pc = "probe"
  /\ \A n \in Nodes : fleet.report[n] \in {"online", "unknown"}
  /\ fleet' = Idle
  /\ UNCHANGED <<proc, files, ids, strayed>>

\* The totals are summed and the view is written; the next call starts anew.
ReportFleet ==
  /\ fleet.pc = "probe"
  /\ \A n \in Nodes : fleet.report[n] # "read"
  /\ fleet' = Idle
  /\ UNCHANGED <<proc, files, ids, strayed>>

Controller ==
  \/ \E n \in Nodes : fleet.pc = "read" /\ ReadAddrs(n)
  \/ AddrsRead
  \/ \E n \in Nodes : ProbeNode(n)
  \/ ReportFleet

Next ==
  \/ \E p \in Procs : Start(p) \/ Agent(p) \/ Stop(p)
  \/ \E n \in Nodes : fleet.pc = "idle" /\ ReadAddrs(n)
  \/ Controller

Spec == Init /\ [][Next]_vars

\* Both programs run on once started: their file operations end and every
\* probe is under a time limit.  Nobody has to start an agent or a controller.
FairSpec == Spec /\ WF_vars(Controller) /\ \A p \in Procs : WF_vars(Agent(p))

-----------------------------------------------------------------------------
(* Properties *)

TypeOK ==
  /\ proc \in [Procs -> [pc : {"off", "key", "create", "write", "bind", "announce", "addr", "up"},
                         id : Ids \union {0}, kept : BOOLEAN]]
  /\ keyFile \in [Nodes -> FileState]
  /\ addrFile \in [Nodes -> FileState]
  /\ ids \in 0..MaxIds
  /\ fleet \in [pc : {"idle", "read", "probe"}, raw : [Nodes -> FileState],
                report : [Nodes -> {"none", "unknown", "read", "online", "offline"}]]
  /\ strayed \subseteq Nodes

\* A whole key is a node's identity for good: no start, crash or race of two
\* starts ever changes the file again (create_new in load_or_create_key_at).
KeyIsKept ==
  [][\A n \in Nodes : keyFile[n] \in Ids => keyFile'[n] = keyFile[n]]_vars

\* An address file left behind by a dead agent still finds the next one: while
\* every agent of a node has listened under its kept key, a whole address
\* names the key in the key file (persist_addr after load_or_create_agent_key).
AddressOutlivesAgent ==
  \A n \in Nodes : n \notin strayed /\ addrFile[n] \in Ids => addrFile[n] = keyFile[n]

\* Agents of a node that say they kept their key have the same one, whichever
\* created the file and whichever found it (create_new in load_or_create_key_at).
KeptIsShared ==
  \A p, q \in Procs :
    proc[p].kept /\ proc[q].kept /\ NodeOf[p] = NodeOf[q] => proc[p].id = proc[q].id

\* `nauti fleet` reports, whatever the agents and their files do meanwhile.
FleetReports == (fleet.pc # "idle") ~> (fleet.pc = "idle")

\* An agent that is started comes up or stops: no state of its files, left by
\* whatever crash, keeps it from serving.
AgentComesUp ==
  \A p \in Procs : (proc[p].pc = "key") ~> (proc[p].pc \in {"up", "off"} \/ ids = MaxIds)
=============================================================================
