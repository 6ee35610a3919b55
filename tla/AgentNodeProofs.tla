--------------------------- MODULE AgentNodeProofs ---------------------------
(***************************************************************************)
(* Proofs about AgentNode, for any number of nodes and processes, however  *)
(* they are assigned, and any number of keys: whole keys are never changed, *)
(* and kept keys and announced addresses agree with them.                  *)
(***************************************************************************)
EXTENDS AgentNode, TLAPS

Labels == {"off", "key", "create", "write", "bind", "announce", "addr", "up"}

ProcState == [pc : Labels, id : Ids \union {0}, kept : BOOLEAN]

FleetState ==
  [pc : {"idle", "read", "probe"}, raw : [Nodes -> FileState],
   report : [Nodes -> {"none", "unknown", "read", "online", "offline"}]]

\* A process that has its identity from the key file still finds it there.
KeptIsTheFile ==
  \A p \in Procs : proc[p].kept => proc[p].id \in Ids /\ proc[p].id = keyFile[NodeOf[p]]

\* A process on its way to write a key has generated one.
CreatorsHaveKeys ==
  \A p \in Procs : proc[p].pc \in {"create", "write"} => proc[p].id \in Ids

\* A file being written is short, and one process writes it.
WritersAreAlone ==
  \A p \in Procs : proc[p].pc = "write" =>
    /\ keyFile[NodeOf[p]] = Cut
    /\ \A q \in Procs : proc[q].pc = "write" /\ NodeOf[q] = NodeOf[p] => p = q

\* A process that listens under a key that is not the file's is on record.
StraysAreKnown ==
  \A p \in Procs : Listening(p) => proc[p].kept \/ NodeOf[p] \in strayed

AgentInv ==
  /\ TypeOK
  /\ KeptIsTheFile
  /\ CreatorsHaveKeys
  /\ WritersAreAlone
  /\ StraysAreKnown
  /\ AddressOutlivesAgent

-----------------------------------------------------------------------------
(* Type correctness *)

LEMMA IdsAreNotCut == Cut \notin Ids /\ Absent \notin Ids /\ Cut # Absent
BY AgentAssumption DEF Cut, Ids, Absent

LEMMA InitType == Init => TypeOK
BY AgentAssumption DEF Init, TypeOK, Off, Idle, FileState, Ids, Absent

LEMMA NewId == ASSUME ids \in 0..MaxIds, ids < MaxIds PROVE ids + 1 \in Ids /\ ids + 1 \in 0..MaxIds
BY AgentAssumption DEF Ids

LEMMA AgentType ==
  ASSUME TypeOK, NEW p \in Procs, Start(p) \/ Agent(p) \/ Stop(p)
  PROVE  TypeOK'
<1> USE AgentAssumption
<1>0. /\ proc \in [Procs -> ProcState] /\ NodeOf[p] \in Nodes
      /\ keyFile \in [Nodes -> FileState] /\ addrFile \in [Nodes -> FileState]
      /\ ids \in 0..MaxIds /\ fleet \in FleetState /\ strayed \subseteq Nodes
  BY DEF TypeOK, ProcState, Labels, FleetState
<1>a. ASSUME /\ proc' \in [Procs -> ProcState]
             /\ keyFile' \in [Nodes -> FileState] /\ addrFile' \in [Nodes -> FileState]
             /\ ids' \in 0..MaxIds /\ fleet' = fleet /\ strayed' \subseteq Nodes
      PROVE  TypeOK'
  BY <1>0, <1>a DEF TypeOK, ProcState, Labels, FleetState
<1>b. ASSUME NEW label \in Labels, Goto(p, label) PROVE proc' \in [Procs -> ProcState]
  BY <1>0, <1>b DEF Goto, ProcState
<1>c. ASSUME Ephemeral(p) PROVE proc' \in [Procs -> ProcState] /\ ids' \in 0..MaxIds
  BY <1>0, <1>c, NewId DEF Ephemeral, ProcState, Labels
<1>d. Cut \in FileState /\ Ids \subseteq FileState
  BY DEF FileState
<1>1. CASE Start(p)
  BY <1>1, <1>0, <1>a, <1>b DEF Start, files, Labels
<1>2. CASE ReadKey(p)
  <2>1. UNCHANGED <<keyFile, addrFile, fleet, strayed>>
    BY <1>2 DEF ReadKey, files
  <2>2. proc' \in [Procs -> ProcState] /\ ids' \in 0..MaxIds
    <3>1. CASE /\ keyFile[NodeOf[p]] \in Ids
               /\ proc' = [proc EXCEPT ![p] = [pc |-> "bind", id |-> keyFile[NodeOf[p]], kept |-> TRUE]]
               /\ UNCHANGED ids
      BY <3>1, <1>0 DEF ProcState, Labels
    <3>2. CASE Ephemeral(p)
      BY <3>2, <1>c
    <3>3. CASE /\ ids < MaxIds /\ ids' = ids + 1
               /\ proc' = [proc EXCEPT ![p] = [pc |-> "create", id |-> ids + 1, kept |-> FALSE]]
      BY <3>3, <1>0, NewId DEF ProcState, Labels
    <3> QED BY <1>2, <3>1, <3>2, <3>3 DEF ReadKey
  <2> QED BY <1>0, <1>a, <2>1, <2>2
<1>3. CASE CreateKey(p)
  <2>1. UNCHANGED <<addrFile, fleet, strayed>> /\ keyFile' \in [Nodes -> FileState]
    BY <1>3, <1>0, <1>d DEF CreateKey
  <2>2. proc' \in [Procs -> ProcState] /\ ids' \in 0..MaxIds
    BY <1>3, <1>0, <1>b, <1>c DEF CreateKey, Labels
  <2> QED BY <1>0, <1>a, <2>1, <2>2
<1>4. CASE WriteKey(p)
  <2>1. UNCHANGED <<addrFile, fleet, strayed>>
    BY <1>4 DEF WriteKey
  <2>3. CASE Ephemeral(p) /\ UNCHANGED keyFile
    BY <2>3, <2>1, <1>0, <1>a, <1>c
  <2>4. CASE /\ keyFile' = [keyFile EXCEPT ![NodeOf[p]] = proc[p].id]
             /\ proc' = [proc EXCEPT ![p].pc = "bind", ![p].kept = TRUE]
             /\ UNCHANGED ids
    <3>1. proc[p].id \in FileState
      BY <1>0 DEF ProcState, FileState, Absent
    <3>2. proc' \in [Procs -> ProcState]
      BY <2>4, <1>0 DEF ProcState, Labels
    <3> QED BY <2>4, <2>1, <3>1, <3>2, <1>0, <1>a
  <2> QED BY <1>4, <2>3, <2>4 DEF WriteKey
<1>5. CASE Listen(p)
  BY <1>5, <1>0, <1>a, <1>b DEF Listen, files, Labels
<1>6. CASE TruncateAddr(p)
  BY <1>6, <1>0, <1>a, <1>b, <1>d DEF TruncateAddr, Labels
<1>7. CASE WriteAddr(p)
  <2>1. proc[p].id \in FileState
    BY <1>0 DEF ProcState, FileState, Absent
  <2> QED BY <1>7, <1>0, <1>a, <1>b, <1>d, <2>1 DEF WriteAddr, Labels
<1>8. CASE Stop(p)
  BY <1>8, <1>0, <1>a DEF Stop, files, Off, ProcState, Labels
<1> QED BY <1>1, <1>2, <1>3, <1>4, <1>5, <1>6, <1>7, <1>8 DEF Agent

\* The controller only looks: what it keeps are copies of the address files.
LEMMA FleetType ==
  ASSUME TypeOK, Controller \/ \E n \in Nodes : ReadAddrs(n)
  PROVE  TypeOK' /\ UNCHANGED <<proc, keyFile, addrFile, ids, strayed>>
<1>0. addrFile \in [Nodes -> FileState] /\ fleet \in FleetState /\ Absent \in FileState
  BY DEF TypeOK, FleetState, FileState
<1>1. UNCHANGED <<proc, keyFile, addrFile, ids, strayed>>
  BY DEF Controller, ReadAddrs, AddrsRead, ProbeNode, ReportFleet, files
<1>2. ASSUME NEW n \in Nodes, ReadAddrs(n) PROVE fleet' \in FleetState
  <2>1. \E r \in {"unknown", "read"} :
          fleet' = [fleet EXCEPT !.pc = "read", !.raw[n] = addrFile[n], !.report[n] = r]
    BY <1>2 DEF ReadAddrs
  <2>2. PICK r \in {"unknown", "read"} :
          fleet' = [fleet EXCEPT !.pc = "read", !.raw = [@ EXCEPT ![n] = addrFile[n]],
                                 !.report = [@ EXCEPT ![n] = r]]
    BY <2>1
  <2>3. /\ [fleet.report EXCEPT ![n] = r] \in [Nodes -> {"none", "unknown", "read", "online", "offline"}]
        /\ [fleet.raw EXCEPT ![n] = addrFile[n]] \in [Nodes -> FileState]
    BY <1>0 DEF FleetState
  <2> QED BY <1>0, <2>2, <2>3 DEF FleetState
<1>3. ASSUME AddrsRead PROVE fleet' \in FleetState
  BY <1>0, <1>3 DEF AddrsRead, FleetState
<1>4. ASSUME NEW n \in Nodes, ProbeNode(n) PROVE fleet' \in FleetState
  <2>1. \E r \in {"online", "offline"} : fleet' = [fleet EXCEPT !.report[n] = r, !.raw[n] = Absent]
    BY <1>4 DEF ProbeNode
  <2>2. PICK r \in {"online", "offline"} :
          fleet' = [fleet EXCEPT !.report = [@ EXCEPT ![n] = r], !.raw = [@ EXCEPT ![n] = Absent]]
    BY <2>1
  <2>3. /\ [fleet.report EXCEPT ![n] = r] \in [Nodes -> {"none", "unknown", "read", "online", "offline"}]
        /\ [fleet.raw EXCEPT ![n] = Absent] \in [Nodes -> FileState]
    BY <1>0 DEF FleetState
  <2> QED BY <1>0, <2>2, <2>3 DEF FleetState
<1>5. ASSUME ReportFleet PROVE fleet' \in FleetState
  BY <1>0, <1>5 DEF ReportFleet, Idle, FleetState
<1>6. fleet' \in FleetState
  BY <1>2, <1>3, <1>4, <1>5 DEF Controller
<1> QED BY <1>1, <1>6 DEF TypeOK, FleetState

-----------------------------------------------------------------------------
(* The inductive invariant *)

\* A step that leaves the files and the record of strays alone preserves the
\* invariant if the process it moves neither writes nor listens, and has a
\* kept identity only from the file.
LEMMA QuietAgentStep ==
  ASSUME AgentInv, TypeOK', NEW p \in Procs,
         UNCHANGED <<keyFile, addrFile, strayed>>,
         \A q \in Procs : q # p => proc'[q] = proc[q],
         proc'[p].pc \in {"off", "key", "create", "bind"},
         proc'[p].pc = "create" => proc'[p].id \in Ids,
         proc'[p].kept => proc'[p].id \in Ids /\ proc'[p].id = keyFile[NodeOf[p]]
  PROVE  AgentInv'
<1>1. KeptIsTheFile'
  BY DEF AgentInv, KeptIsTheFile
<1>2. WritersAreAlone'
  BY DEF AgentInv, WritersAreAlone
<1>3. StraysAreKnown'
  BY DEF AgentInv, StraysAreKnown, Listening
<1>4. AddressOutlivesAgent'
  BY DEF AgentInv, AddressOutlivesAgent
<1>5. CreatorsHaveKeys'
  BY DEF AgentInv, CreatorsHaveKeys
<1> QED BY <1>1, <1>2, <1>3, <1>4, <1>5 DEF AgentInv

LEMMA AgentStep ==
  ASSUME AgentInv, NEW p \in Procs, Start(p) \/ Agent(p) \/ Stop(p)
  PROVE  AgentInv'
<1> USE AgentAssumption
<1>0. /\ TypeOK /\ TypeOK' /\ KeptIsTheFile /\ WritersAreAlone /\ StraysAreKnown
      /\ AddressOutlivesAgent /\ CreatorsHaveKeys
  BY AgentType DEF AgentInv
<1>t. /\ proc \in [Procs -> ProcState] /\ NodeOf \in [Procs -> Nodes] /\ NodeOf[p] \in Nodes
      /\ keyFile \in [Nodes -> FileState] /\ addrFile \in [Nodes -> FileState]
      /\ ids \in 0..MaxIds
  BY <1>0 DEF TypeOK, ProcState, Labels
<1>e. ASSUME Ephemeral(p)
      PROVE  /\ \A q \in Procs : q # p => proc'[q] = proc[q]
             /\ proc'[p].pc = "bind" /\ ~proc'[p].kept
  BY <1>t, <1>e DEF Ephemeral
<1>1. CASE Start(p)
  <2>1. /\ \A q \in Procs : q # p => proc'[q] = proc[q]
        /\ proc'[p].pc = "key" /\ proc'[p].id = proc[p].id /\ proc'[p].kept = proc[p].kept
    BY <1>1, <1>t DEF Start, Goto, ProcState
  <2>2. UNCHANGED <<keyFile, addrFile, strayed>>
    BY <1>1 DEF Start, files
  <2> QED BY <1>0, <2>1, <2>2, QuietAgentStep DEF KeptIsTheFile
<1>2. CASE ReadKey(p)
  <2>1. UNCHANGED <<keyFile, addrFile, strayed>>
    BY <1>2 DEF ReadKey, files
  <2>2. /\ \A q \in Procs : q # p => proc'[q] = proc[q]
        /\ proc'[p].pc \in {"create", "bind"}
        /\ proc'[p].pc = "create" => proc'[p].id \in Ids
        /\ proc'[p].kept => proc'[p].id \in Ids /\ proc'[p].id = keyFile[NodeOf[p]]
    <3>1. CASE /\ keyFile[NodeOf[p]] \in Ids
               /\ proc' = [proc EXCEPT ![p] = [pc |-> "bind", id |-> keyFile[NodeOf[p]], kept |-> TRUE]]
      BY <3>1, <1>t
    <3>2. CASE Ephemeral(p)
      BY <3>2, <1>e
    <3>3. CASE /\ ids < MaxIds
               /\ proc' = [proc EXCEPT ![p] = [pc |-> "create", id |-> ids + 1, kept |-> FALSE]]
      BY <3>3, <1>t, NewId
    <3> QED BY <1>2, <3>1, <3>2, <3>3 DEF ReadKey
  <2> QED BY <1>0, <2>1, <2>2, QuietAgentStep
<1>3. CASE CreateKey(p)
  <2>1. UNCHANGED <<addrFile, strayed>>
    BY <1>3 DEF CreateKey
  <2>2. CASE Ephemeral(p) /\ UNCHANGED keyFile
    BY <1>0, <1>e, <2>1, <2>2, QuietAgentStep
  <2>3. CASE /\ keyFile[NodeOf[p]] = Absent
             /\ keyFile' = [keyFile EXCEPT ![NodeOf[p]] = Cut]
             /\ Goto(p, "write")
    <3>1. /\ \A q \in Procs : q # p => proc'[q] = proc[q]
          /\ proc'[p].pc = "write" /\ proc'[p].id = proc[p].id /\ proc'[p].kept = proc[p].kept
      BY <2>3, <1>t DEF Goto, ProcState
    <3>2. /\ keyFile'[NodeOf[p]] = Cut
          /\ \A n \in Nodes : n # NodeOf[p] => keyFile'[n] = keyFile[n]
      BY <2>3, <1>t
    <3>3. \A q \in Procs : NodeOf[q] = NodeOf[p] => ~proc[q].kept /\ proc[q].pc # "write"
      BY <1>0, <1>t, <2>3, IdsAreNotCut DEF KeptIsTheFile, WritersAreAlone
    <3>4. KeptIsTheFile'
      BY <1>0, <1>t, <3>1, <3>2, <3>3 DEF KeptIsTheFile
    <3>5. WritersAreAlone'
      BY <1>0, <1>t, <3>1, <3>2, <3>3 DEF WritersAreAlone
    <3>6. StraysAreKnown'
      BY <1>0, <1>t, <2>1, <3>1 DEF StraysAreKnown, Listening
    <3>7. AddressOutlivesAgent'
      BY <1>0, <1>t, <2>1, <2>3, <3>2, IdsAreNotCut DEF AddressOutlivesAgent
    <3>8. CreatorsHaveKeys'
      BY <1>0, <1>3, <3>1 DEF CreatorsHaveKeys, CreateKey
    <3> QED BY <1>0, <3>4, <3>5, <3>6, <3>7, <3>8 DEF AgentInv
  <2> QED BY <1>3, <2>2, <2>3 DEF CreateKey
<1>4. CASE WriteKey(p)
  <2>1. UNCHANGED <<addrFile, strayed>> /\ proc[p].pc = "write"
    BY <1>4 DEF WriteKey
  <2>2. CASE Ephemeral(p) /\ UNCHANGED keyFile
    BY <1>0, <1>e, <2>1, <2>2, QuietAgentStep
  <2>3. CASE /\ keyFile' = [keyFile EXCEPT ![NodeOf[p]] = proc[p].id]
             /\ proc' = [proc EXCEPT ![p].pc = "bind", ![p].kept = TRUE]
    <3>1. /\ \A q \in Procs : q # p => proc'[q] = proc[q]
          /\ proc'[p].pc = "bind" /\ proc'[p].id = proc[p].id /\ proc'[p].kept
      BY <2>3, <1>t DEF ProcState
    <3>2. /\ keyFile'[NodeOf[p]] = proc[p].id
          /\ \A n \in Nodes : n # NodeOf[p] => keyFile'[n] = keyFile[n]
      BY <2>3, <1>t
    <3>3. keyFile[NodeOf[p]] = Cut /\ proc[p].id \in Ids
      BY <1>0, <2>1 DEF WritersAreAlone, CreatorsHaveKeys
    <3>4. \A q \in Procs : q # p /\ NodeOf[q] = NodeOf[p] => ~proc[q].kept /\ proc[q].pc # "write"
      BY <1>0, <1>t, <2>1, <3>3, IdsAreNotCut DEF KeptIsTheFile, WritersAreAlone
    <3>5. KeptIsTheFile'
      BY <1>0, <1>t, <3>1, <3>2, <3>3, <3>4 DEF KeptIsTheFile
    <3>6. WritersAreAlone'
      BY <1>0, <1>t, <3>1, <3>2, <3>4 DEF WritersAreAlone
    <3>7. StraysAreKnown'
      BY <1>0, <1>t, <2>1, <3>1 DEF StraysAreKnown, Listening
    <3>8. AddressOutlivesAgent'
      BY <1>0, <1>t, <2>1, <3>2, <3>3, IdsAreNotCut DEF AddressOutlivesAgent
    <3>9. CreatorsHaveKeys'
      BY <1>0, <3>1 DEF CreatorsHaveKeys
    <3> QED BY <1>0, <3>5, <3>6, <3>7, <3>8, <3>9 DEF AgentInv
  <2> QED BY <1>4, <2>2, <2>3 DEF WriteKey
<1>5. CASE Listen(p)
  <2>1. UNCHANGED <<keyFile, addrFile>> /\ strayed \subseteq strayed'
        /\ (proc[p].kept \/ NodeOf[p] \in strayed')
    BY <1>5 DEF Listen, files
  <2>2. Goto(p, "announce")
    BY <1>5 DEF Listen
  <2>3. /\ \A q \in Procs : q # p => proc'[q] = proc[q]
        /\ proc'[p].pc = "announce" /\ proc'[p].id = proc[p].id /\ proc'[p].kept = proc[p].kept
    BY <2>2, <1>t DEF Goto, ProcState
  <2>4. KeptIsTheFile'
    BY <1>0, <2>1, <2>3 DEF KeptIsTheFile
  <2>5. WritersAreAlone'
    BY <1>0, <2>1, <2>3 DEF WritersAreAlone
  <2>6. StraysAreKnown'
    BY <1>0, <2>1, <2>3 DEF StraysAreKnown, Listening
  <2>7. AddressOutlivesAgent'
    BY <1>0, <2>1 DEF AddressOutlivesAgent
  <2>8. CreatorsHaveKeys'
    BY <1>0, <2>3 DEF CreatorsHaveKeys
  <2> QED BY <1>0, <2>4, <2>5, <2>6, <2>7, <2>8 DEF AgentInv
<1>6. CASE TruncateAddr(p) \/ WriteAddr(p)
  <2>1. UNCHANGED <<keyFile, strayed>>
    BY <1>6 DEF TruncateAddr, WriteAddr
  <2>2. Listening(p) /\ \E label \in {"addr", "up"} : Goto(p, label)
    BY <1>6 DEF TruncateAddr, WriteAddr, Listening
  <2>3. \/ UNCHANGED addrFile
        \/ addrFile' = [addrFile EXCEPT ![NodeOf[p]] = Cut]
        \/ addrFile' = [addrFile EXCEPT ![NodeOf[p]] = proc[p].id]
    BY <1>6 DEF TruncateAddr, WriteAddr
  <2>4. /\ \A q \in Procs : q # p => proc'[q] = proc[q]
        /\ proc'[p].pc \in {"addr", "up"} /\ proc'[p].id = proc[p].id
        /\ proc'[p].kept = proc[p].kept
    BY <2>2, <1>t DEF Goto, ProcState
  <2>5. KeptIsTheFile'
    BY <1>0, <2>1, <2>4 DEF KeptIsTheFile
  <2>6. WritersAreAlone'
    BY <1>0, <2>1, <2>4 DEF WritersAreAlone
  <2>7. StraysAreKnown'
    BY <1>0, <2>1, <2>2, <2>4 DEF StraysAreKnown, Listening
  <2>8. AddressOutlivesAgent'
    <3>1. NodeOf[p] \in strayed \/ proc[p].id = keyFile[NodeOf[p]]
      BY <1>0, <2>2 DEF StraysAreKnown, KeptIsTheFile
    <3> QED BY <1>0, <1>t, <2>1, <2>3, <3>1, IdsAreNotCut DEF AddressOutlivesAgent
  <2>9. CreatorsHaveKeys'
    BY <1>0, <2>4 DEF CreatorsHaveKeys
  <2> QED BY <1>0, <2>5, <2>6, <2>7, <2>8, <2>9 DEF AgentInv
<1>7. CASE Stop(p)
  <2>1. UNCHANGED <<keyFile, addrFile, strayed>>
    BY <1>7 DEF Stop, files
  <2>2. /\ \A q \in Procs : q # p => proc'[q] = proc[q]
        /\ proc'[p].pc = "off" /\ ~proc'[p].kept
    BY <1>7, <1>t DEF Stop, Off
  <2> QED BY <1>0, <2>1, <2>2, QuietAgentStep
<1> QED BY <1>1, <1>2, <1>3, <1>4, <1>5, <1>6, <1>7 DEF Agent

LEMMA AgentInvStep == AgentInv /\ [Next]_vars => AgentInv'
<1> SUFFICES ASSUME AgentInv, [Next]_vars PROVE AgentInv'
  OBVIOUS
<1>1. ASSUME NEW p \in Procs, Start(p) \/ Agent(p) \/ Stop(p) PROVE AgentInv'
  BY <1>1, AgentStep
<1>2. CASE Controller \/ \E n \in Nodes : ReadAddrs(n)
  <2>1. TypeOK' /\ UNCHANGED <<proc, keyFile, addrFile, ids, strayed>>
    BY <1>2, FleetType DEF AgentInv
  <2> QED
    BY <2>1 DEF AgentInv, KeptIsTheFile, CreatorsHaveKeys, WritersAreAlone, StraysAreKnown, Listening,
                AddressOutlivesAgent
<1>3. CASE UNCHANGED vars
  BY <1>3 DEF AgentInv, TypeOK, KeptIsTheFile, CreatorsHaveKeys, WritersAreAlone, StraysAreKnown, Listening,
              AddressOutlivesAgent, vars, files
<1> QED BY <1>1, <1>2, <1>3 DEF Next

-----------------------------------------------------------------------------
(* The theorems *)

\* The inductive invariant: a process has a kept identity only as long as the
\* key file holds it, a file is written by one process at a time, and every
\* address in the files was announced under one of these.
THEOREM AgentInvariant == Spec => []AgentInv
<1>1. Init => AgentInv
  <2> SUFFICES ASSUME Init PROVE AgentInv
    OBVIOUS
  <2>1. TypeOK
    BY InitType
  <2>2. \A p \in Procs : proc[p].pc = "off" /\ ~proc[p].kept
    BY DEF Init, Off
  <2>3. \A n \in Nodes : addrFile[n] \notin Ids
    BY IdsAreNotCut DEF Init
  <2> QED
    BY <2>1, <2>2, <2>3 DEF AgentInv, KeptIsTheFile, CreatorsHaveKeys, WritersAreAlone, StraysAreKnown, Listening,
                            AddressOutlivesAgent
<1> QED BY <1>1, AgentInvStep, PTL DEF Spec

\* Every variable keeps its type: a short file is never taken for an identity.
THEOREM AgentTypeCorrect == Spec => []TypeOK
BY AgentInvariant, PTL DEF AgentInv

\* A whole address file of a node whose agents kept their key names that key,
\* through any number of crashes and restarts (persist_addr).
THEOREM AddressKept == Spec => []AddressOutlivesAgent
BY AgentInvariant, PTL DEF AgentInv

\* Agents of one node that kept their key share it (load_or_create_key_at).
THEOREM KeptShared == Spec => []KeptIsShared
<1>1. AgentInv => KeptIsShared
  BY DEF AgentInv, KeptIsTheFile, KeptIsShared
<1> QED BY <1>1, AgentInvariant, PTL

\* No step changes a whole key: create_new gives the file to one process, and
\* only that process writes it, once (load_or_create_key_at).
THEOREM KeyKept == Spec => KeyIsKept
<1>1. ASSUME AgentInv, [Next]_vars
      PROVE  \A n \in Nodes : keyFile[n] \in Ids => keyFile'[n] = keyFile[n]
  <2>0. TypeOK /\ WritersAreAlone
    BY <1>1 DEF AgentInv
  <2>1. ASSUME NEW p \in Procs, CreateKey(p) \/ WriteKey(p), NEW n \in Nodes, keyFile[n] \in Ids
        PROVE  keyFile'[n] = keyFile[n]
    <3>1. \/ keyFile[NodeOf[p]] = Absent /\ keyFile' = [keyFile EXCEPT ![NodeOf[p]] = Cut]
          \/ proc[p].pc = "write" /\ keyFile' = [keyFile EXCEPT ![NodeOf[p]] = proc[p].id]
          \/ UNCHANGED keyFile
      BY <2>1 DEF CreateKey, WriteKey
    <3>2. proc[p].pc = "write" => keyFile[NodeOf[p]] = Cut
      BY <2>0 DEF WritersAreAlone
    <3> QED BY <2>0, <2>1, <3>1, <3>2, IdsAreNotCut, AgentAssumption DEF TypeOK
  <2>2. CASE \E p \in Procs : CreateKey(p) \/ WriteKey(p)
    BY <2>1, <2>2
  <2>3. CASE \E p \in Procs : Start(p) \/ ReadKey(p) \/ Listen(p) \/ TruncateAddr(p)
                              \/ WriteAddr(p) \/ Stop(p)
    BY <2>3 DEF Start, ReadKey, Listen, TruncateAddr, WriteAddr, Stop, files
  <2>4. CASE Controller \/ \E n \in Nodes : ReadAddrs(n)
    BY <2>0, <2>4, FleetType
  <2>5. CASE UNCHANGED vars
    BY <2>5 DEF vars, files
  <2> QED BY <1>1, <2>2, <2>3, <2>4, <2>5 DEF Next, Agent
<1> QED BY <1>1, AgentInvariant, PTL DEF Spec, KeyIsKept
=============================================================================
