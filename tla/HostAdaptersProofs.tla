------------------------- MODULE HostAdaptersProofs -------------------------
(***************************************************************************)
(* Proofs about HostAdapters, for any slots, ports, cards and operator's   *)
(* resources and any number of changes and leases: what an attach hands    *)
(* out was in order at some moment of the call, and nothing but resources  *)
(* under their own ids gets into the registry.                             *)
(***************************************************************************)
EXTENDS HostAdapters, TLAPS

\* An attach in progress has seen every state of its device since it began.
SeenIsCurrent ==
  /\ call = [pc |-> call.pc, res |-> call.res, seen |-> call.seen]
  /\ call.pc # "idle" => call.res \in Ids /\ Device(host, call.res) \subseteq call.seen

\* Past its look at the device, it has seen the device in order.
FoundIsSeen ==
  /\ call.pc \in {"gid", "address"} => "active" \in call.seen
  /\ call.pc = "open" => "vfio" \in call.seen

AdapterInv ==
  /\ SeenIsCurrent
  /\ FoundIsSeen

-----------------------------------------------------------------------------
(* The parts of a step *)

LEMMA InitInv == Init => AdapterInv
BY DEF Init, AdapterInv, SeenIsCurrent, FoundIsSeen, NoCall

\* The hardware changes: an attach in progress takes note.
LEMMA ChangeInv ==
  ASSUME AdapterInv, NEW h, Change(h)
  PROVE  AdapterInv' /\ last' = last
<1>1. last' = last /\ host' = h
  BY DEF Change
<1>2. call' = IF call.pc = "idle" THEN call ELSE [call EXCEPT !.seen = @ \union Device(h, call.res)]
  BY DEF Change
<1>3. /\ call'.pc = call.pc /\ call'.res = call.res
      /\ call.seen \subseteq call'.seen
      /\ call' = [pc |-> call'.pc, res |-> call'.res, seen |-> call'.seen]
      /\ call.pc # "idle" => Device(h, call.res) \subseteq call'.seen
  BY <1>2 DEF AdapterInv, SeenIsCurrent
<1>4. SeenIsCurrent'
  <2>1. Device(host, call.res)' = Device(h, call.res)
    BY <1>1, <1>3 DEF Device, Address
  <2> QED BY <1>3, <2>1 DEF AdapterInv, SeenIsCurrent
<1> QED BY <1>1, <1>3, <1>4 DEF AdapterInv, FoundIsSeen

LEMMA HardwareInv == ASSUME AdapterInv, Hardware PROVE AdapterInv' /\ last' = last
BY ChangeInv DEF Hardware, ChangeSlot, ChangePort, ChangeDrm

\* A step that leaves the host and the attach in progress alone.
LEMMA QuietInv ==
  ASSUME AdapterInv, UNCHANGED <<host, call>>
  PROVE  AdapterInv'
BY DEF AdapterInv, SeenIsCurrent, FoundIsSeen, Device, Address

-----------------------------------------------------------------------------
(* The adapters *)

\* A port is offered when it is active now, whatever the registry says.
LEMMA RdmaIsActive ==
  ASSUME NEW r \in Ports, Lookup(RdmaPorts(host), r).state = "available"
  PROVE  host.port[r] = "active"
<1>1. CASE host.port[r] = "gone"
  <2>1. r \notin DOMAIN RdmaPorts(host)
    BY <1>1 DEF RdmaPorts
  <2> QED BY <2>1 DEF Lookup, Missing
<1>2. CASE host.port[r] # "gone"
  <2>1. /\ r \in DOMAIN RdmaPorts(host)
        /\ RdmaPorts(host)[r].state = IF host.port[r] = "active" THEN "available" ELSE "unavailable"
    BY <1>2 DEF RdmaPorts, Entry
  <2> QED BY <2>1 DEF Lookup
<1> QED BY <1>1, <1>2

\* The claim of AttachIsFresh about one step.
Fresh ==
  last' # last =>
    /\ last'.adapter = "rdma" => "active" \in call.seen
    /\ last'.adapter = "gpu-vfio" => "vfio" \in call.seen

\* An adapter that decides at once is neither of the two that need a device.
LEMMA DecideInv ==
  ASSUME AdapterInv, NEW r \in Ids, NEW a, NEW accepts, Decide(r, a, accepts),
         a # "rdma", a # "gpu-vfio"
  PROVE  AdapterInv' /\ Fresh
<1>1. last' = [res |-> r, adapter |-> a] /\ UNCHANGED <<host, call>>
  BY DEF Decide, Accept, Still
<1>2. Fresh
  BY <1>1 DEF Fresh
<1> QED BY <1>1, <1>2, QuietInv

\* An attach that begins has seen its device as it is.
LEMMA BeginInv ==
  ASSUME NEW r \in Ids, NEW a, NEW accepts, NEW pc, Begin(r, a, accepts, pc),
         pc \in {"gid", "address"} => "active" \in Device(host, r),
         pc = "open" => "vfio" \in Device(host, r)
  PROVE  AdapterInv' /\ Fresh
<1>1. /\ call' = [pc |-> pc, res |-> r, seen |-> Device(host, r)]
      /\ last' = NoAttachment /\ host' = host
  BY DEF Begin, Still
<1>2. call'.pc = pc /\ call'.res = r /\ call'.seen = Device(host, r)
  BY <1>1
<1>3. Device(host, r)' = Device(host, r)
  BY <1>1 DEF Device, Address
<1>4. SeenIsCurrent' /\ FoundIsSeen'
  BY <1>1, <1>2, <1>3 DEF SeenIsCurrent, FoundIsSeen, Device, Address
<1> QED BY <1>1, <1>4 DEF AdapterInv, Fresh, NoAttachment

LEMMA AttachInv ==
  ASSUME AdapterInv, NEW r \in Ids, Attach(r)
  PROVE  AdapterInv' /\ Fresh
<1>1. CASE LocalResource(r) \/ NetworkResource(r) \/ WgpuRemote(r) \/ FabricStore(r) \/ GpuReattach(r)
  BY <1>1, DecideInv DEF LocalResource, NetworkResource, WgpuRemote, FabricStore, GpuReattach
<1>2. CASE RdmaAttach(r)
  <2>1. r \in Ports /\ Lookup(RdmaPorts(host), r).state = "available"
    BY <1>2 DEF RdmaAttach, Begin
  <2>2. host.port[r] = "active"
    BY <2>1, RdmaIsActive
  <2>3. "active" \in Device(host, r)
    BY <2>1, <2>2, HostAssumption DEF Device, Address
  <2> QED BY <1>2, <2>3, BeginInv DEF RdmaAttach
<1>3. CASE GpuLocal(r) \/ LemonadeAttach(r)
  BY <1>3, BeginInv DEF GpuLocal, LemonadeAttach
<1>4. CASE VfioAttach(r)
  <2>1. VfioState(Address(r)) = "Available"
    BY <1>4 DEF VfioAttach, Begin
  <2>2. Address(r) \in Slots /\ host.slot[Address(r)].mode = "vfio"
    BY <2>1 DEF VfioState
  <2>3. "vfio" \in Device(host, r)
    BY <2>2 DEF Device
  <2> QED BY <1>4, <2>3, BeginInv DEF VfioAttach
<1> QED BY <1>1, <1>2, <1>3, <1>4 DEF Attach

\* The steps of an attach in progress.
LEMMA AdapterStepInv ==
  ASSUME AdapterInv, Adapter
  PROVE  AdapterInv' /\ Fresh
<1>1. CASE RdmaGid
  <2>1. /\ call' = [pc |-> "address", res |-> call.res, seen |-> call.seen]
        /\ call.pc = "gid" /\ UNCHANGED <<host, last>>
    BY <1>1 DEF RdmaGid, Still, AdapterInv, SeenIsCurrent
  <2> QED BY <2>1 DEF AdapterInv, SeenIsCurrent, FoundIsSeen, Device, Address, Fresh
<1>2. ASSUME call' = NoCall PROVE AdapterInv'
  BY <1>2 DEF AdapterInv, SeenIsCurrent, FoundIsSeen, NoCall
<1>3. CASE RdmaAccept
  <2>1. last' = [res |-> call.res, adapter |-> "rdma"] /\ call.pc = "address" /\ call' = NoCall
    BY <1>3 DEF RdmaAccept, Accept
  <2> QED BY <1>2, <2>1 DEF AdapterInv, FoundIsSeen, Fresh
<1>4. CASE GpuReserve
  <2>1. last' = [res |-> call.res, adapter |-> "gpu-local"] /\ call' = NoCall
    BY <1>4 DEF GpuReserve, Accept
  <2> QED BY <1>2, <2>1 DEF Fresh
<1>5. CASE LemonadeAccept
  <2>1. last' = [res |-> call.res, adapter |-> "lemonade"] /\ call' = NoCall
    BY <1>5 DEF LemonadeAccept, Accept
  <2> QED BY <1>2, <2>1 DEF Fresh
<1>6. CASE VfioOpen
  <2>1. /\ last' = last \/ last' = [res |-> call.res, adapter |-> "gpu-vfio"]
        /\ call.pc = "open" /\ call' = NoCall
    BY <1>6 DEF VfioOpen, Accept
  <2> QED BY <1>2, <2>1 DEF AdapterInv, FoundIsSeen, Fresh
<1> QED BY <1>1, <1>3, <1>4, <1>5, <1>6 DEF Adapter

LEMMA NextInv == ASSUME AdapterInv, [Next]_vars PROVE AdapterInv' /\ Fresh
<1>1. CASE Hardware
  BY <1>1, HardwareInv DEF Fresh
<1>2. CASE RefreshLocal \/ Discovery \/ UNCHANGED vars
  <2>1. UNCHANGED <<host, call, last>>
    BY <1>2 DEF RefreshLocal, Discovery, ReadGpus, ReadHardware, RefreshCompare, RegisterNext,
                UnregisterCheck, UnregisterRemove, Unmoved, vars
  <2> QED BY <2>1, QuietInv DEF Fresh
<1>3. ASSUME NEW r \in Ids, LeaseExclusive(r) \/ EndLease(r)
      PROVE  AdapterInv' /\ Fresh
  <2>1. UNCHANGED <<host, call>> /\ (last' = last \/ last' = NoAttachment)
    BY <1>3 DEF LeaseExclusive, EndLease
  <2> QED BY <2>1, QuietInv DEF Fresh, NoAttachment
<1>4. ASSUME NEW r \in Ids, Attach(r) PROVE AdapterInv' /\ Fresh
  BY <1>4, AttachInv
<1>5. CASE Adapter
  BY <1>5, AdapterStepInv
<1> QED BY <1>1, <1>2, <1>3, <1>4, <1>5 DEF Next

-----------------------------------------------------------------------------
(* Types *)

PortStates == {"gone", "down", "active"}

HostState ==
  [slot : [Slots -> [mode : Modes, card : Cards]], port : [Ports -> PortStates],
   drm : BOOLEAN]

\* What discovery may find, and never under the id of an operator's resource.
IsInventory(f) ==
  /\ DOMAIN f \subseteq Ids \ {"extra"}
  /\ \A r \in DOMAIN f : f[r] \in Entries

\* A refresh in progress.
IsTask(t) ==
  /\ t = [pc |-> t.pc, found |-> t.found, drop |-> t.drop, id |-> t.id]
  /\ t.pc \in {"idle", "gpus", "hardware", "compare", "register", "unregister", "remove"}
  /\ IsInventory(t.found)
  /\ t.drop \subseteq Ids /\ t.id \in t.drop \union {"none"}

\* A call in progress is that of an adapter that was asked for.
CallIsAnAdapters ==
  /\ call.pc \in {"gid", "address"} => "rdma" \in Adapters
  /\ call.pc = "reserve" => "gpu-local" \in Adapters
  /\ call.pc = "status" => "lemonade" \in Adapters
  /\ call.pc = "open" => "gpu-vfio" \in Adapters

\* The types of what discovery and the hardware change, and of what leases and
\* attaches change.
InventoryTypes ==
  /\ host \in HostState
  /\ changes \in 0..MaxChanges
  /\ registry \in [Ids -> Entries]
  /\ IsTask(task)

LeaseTypes ==
  /\ lease \in [Ids -> 0..MaxLeases]
  /\ issued \in 0..MaxLeases
  /\ reserved \in [Ids -> 0..MaxLeases]
  /\ call.pc \in {"idle", "gid", "address", "reserve", "status", "open"}
  /\ call.res \in Ids \union {"none"}
  /\ last.res \in Ids \union {"none"} /\ last.adapter \in Adapters \union {"none"}
  /\ CallIsAnAdapters

LEMMA TypesSuffice == InventoryTypes /\ LeaseTypes => TypeOK
BY DEF InventoryTypes, LeaseTypes, TypeOK, HostState, PortStates, IsTask, IsInventory

LEMMA PlusInventory ==
  ASSUME NEW f, IsInventory(f), NEW g, IsInventory(g)
  PROVE  IsInventory(Plus(f, g))
BY DEF IsInventory, Plus

LEMMA RestIsTask ==
  ASSUME NEW f, IsInventory(f), NEW D \in SUBSET Ids
  PROVE  IsTask(Rest(f, D)) /\ IsTask(Idle)
<1>1. IsInventory(<<>>)
  BY DEF IsInventory
<1>2. IsTask(Idle)
  BY <1>1 DEF Idle, Task, IsTask
<1>3. IsTask(Task("register", f, D, "none"))
  BY DEF Task, IsTask
<1>4. IsTask(Task("unregister", <<>>, D, "none"))
  BY <1>1 DEF Task, IsTask
<1> QED BY <1>2, <1>3, <1>4 DEF Rest

\* Each part of discovery, on any host, finds resources of its own ids.
LEMMA PartsAreInventories ==
  ASSUME NEW h \in HostState
  PROVE  IsInventory(HostInventory) /\ IsInventory(Gpus(h)) /\ IsInventory(RdmaPorts(h))
<1>1. "extra" \notin Slots /\ "extra" \notin Ports /\ "extra" \notin Fixed
  BY HostAssumption
<1>2. IsInventory(HostInventory)
  <2>1. DOMAIN HostInventory \subseteq Ids \ {"extra"}
    BY <1>1 DEF HostInventory, Ids
  <2>2. ASSUME NEW r \in Fixed PROVE HostInventory[r] \in Entries
    <3>1. r \in {"store", "wgpu", "research", "shared"}
      BY HostAssumption
    <3>2. CASE r = "store"
      <4>1. HostInventory[r] = Entry("storage", "local", {"bind", "path"}, "available", "none")
        BY <3>2 DEF HostInventory
      <4> QED BY <4>1 DEF Entry, Entries
    <3>3. CASE r = "wgpu"
      <4>1. HostInventory[r] = Entry("gpu", "local", {}, "available", "none")
        BY <3>3 DEF HostInventory
      <4> QED BY <4>1 DEF Entry, Entries
    <3>4. CASE r = "research"
      <4>1. HostInventory[r] = Entry("memory", "local", {}, "unavailable", "none")
        BY <3>4 DEF HostInventory, Research
      <4> QED BY <4>1 DEF Entry, Entries
    <3>5. CASE r = "shared"
      <4>1. HostInventory[r] = Entry("other", "local", {}, "available", "none")
        BY <3>5 DEF HostInventory, Shared
      <4> QED BY <4>1 DEF Entry, Entries
    <3> QED BY <3>1, <3>2, <3>3, <3>4, <3>5
  <2>3. DOMAIN HostInventory = Fixed
    BY DEF HostInventory
  <2> QED BY <2>1, <2>2, <2>3 DEF IsInventory
<1>3. IsInventory(Gpus(h))
  <2>1. DOMAIN Gpus(h) \subseteq Slots
    BY DEF Gpus
  <2>2. ASSUME NEW s \in Slots PROVE GpuEntry(h, s) \in Entries
    <3>1. h.slot[s].card \in Cards
      BY DEF HostState
    <3>2. {"pci_bdf"} \union Uuid(h, s) \in SUBSET {"bind", "path", "pci_bdf", "uuid", "rdma"}
      BY DEF Uuid
    <3> QED BY <3>1, <3>2 DEF GpuEntry, Entry, Entries
  <2>3. \A s \in DOMAIN Gpus(h) : Gpus(h)[s] = GpuEntry(h, s)
    BY DEF Gpus
  <2> QED BY <1>1, <2>1, <2>2, <2>3 DEF IsInventory, Ids
<1>4. IsInventory(RdmaPorts(h))
  <2>1. DOMAIN RdmaPorts(h) \subseteq Ports
    BY DEF RdmaPorts
  <2>2. ASSUME NEW p \in DOMAIN RdmaPorts(h) PROVE RdmaPorts(h)[p] \in Entries
    <3>1. PICK st \in {"available", "unavailable"} :
            RdmaPorts(h)[p] = Entry("network", "local", {"rdma"}, st, "none")
      BY DEF RdmaPorts
    <3> QED BY <3>1 DEF Entry, Entries
  <2> QED BY <1>1, <2>1, <2>2 DEF IsInventory, Ids
<1> QED BY <1>2, <1>3, <1>4

LEMMA InitTypes == Init => InventoryTypes /\ LeaseTypes
<1> SUFFICES ASSUME Init PROVE InventoryTypes /\ LeaseTypes
  OBVIOUS
<1>1. InOrder \in HostState
  BY HostAssumption DEF InOrder, HostState, Modes, PortStates
<1>2. host \in HostState
  BY <1>1 DEF Init
<1>3. IsInventory(Everything(InOrder))
  BY <1>1, PartsAreInventories, PlusInventory DEF Everything
<1>4. registry \in [Ids -> Entries]
  <2>1. PICK extra \in Operator :
          registry = [r \in Ids |-> IF r = "extra" THEN extra ELSE Lookup(Everything(InOrder), r)]
    BY DEF Init
  <2>2. extra \in Entries /\ Missing \in Entries
    BY DEF Entries
  <2>3. \A r : Lookup(Everything(InOrder), r) \in Entries
    BY <1>3, <2>2 DEF Lookup, IsInventory
  <2> QED BY <2>1, <2>2, <2>3
<1>5. IsTask(task)
  <2>1. IsInventory(<<>>)
    BY DEF IsInventory
  <2> QED BY <2>1, RestIsTask DEF Init
<1>6. InventoryTypes
  BY <1>2, <1>4, <1>5, HostAssumption DEF Init, InventoryTypes
<1>7. LeaseTypes
  BY HostAssumption DEF Init, LeaseTypes, NoCall, NoAttachment, CallIsAnAdapters
<1> QED BY <1>6, <1>7

LEMMA NextInventoryTypes == ASSUME InventoryTypes, [Next]_vars PROVE InventoryTypes'
<1>1. CASE Hardware
  <2>1. PICK h : Change(h) /\ h \in HostState
    <3>1. host \in HostState
      BY DEF InventoryTypes
    <3>2. ASSUME NEW s \in Slots, ChangeSlot(s) PROVE \E h : Change(h) /\ h \in HostState
      <4>1. PICK m \in Modes, c \in Cards :
              Change([host EXCEPT !.slot[s] = [mode |-> m, card |-> c]])
        BY <3>2 DEF ChangeSlot
      <4>2. [host EXCEPT !.slot[s] = [mode |-> m, card |-> c]] \in HostState
        BY <3>1 DEF HostState
      <4> QED BY <4>1, <4>2
    <3>3. ASSUME NEW p \in Ports, ChangePort(p) PROVE \E h : Change(h) /\ h \in HostState
      <4>1. PICK st \in {"gone", "down", "active"} : Change([host EXCEPT !.port[p] = st])
        BY <3>3 DEF ChangePort
      <4>2. [host EXCEPT !.port[p] = st] \in HostState
        BY <3>1 DEF HostState, PortStates
      <4> QED BY <4>1, <4>2
    <3>4. ASSUME ChangeDrm PROVE \E h : Change(h) /\ h \in HostState
      <4>1. [host EXCEPT !.drm = ~@] \in HostState
        BY <3>1 DEF HostState
      <4> QED BY <3>4, <4>1 DEF ChangeDrm
    <3> QED BY <1>1, <3>2, <3>3, <3>4 DEF Hardware
  <2> QED BY <2>1, HostAssumption DEF Change, InventoryTypes
<1>2. CASE RefreshLocal \/ ReadGpus \/ ReadHardware
  <2>1. UNCHANGED <<host, changes, registry>>
    BY <1>2 DEF RefreshLocal, ReadGpus, ReadHardware, Unmoved
  <2>2. IsInventory(HostInventory) /\ IsInventory(Gpus(host)) /\ IsInventory(RdmaPorts(host))
    BY PartsAreInventories DEF InventoryTypes
  <2>3. IsTask(task')
    <3>1. CASE RefreshLocal
      <4>1. task' = [pc |-> "gpus", found |-> HostInventory, drop |-> {}, id |-> "none"]
        BY <3>1 DEF RefreshLocal, Task
      <4> QED BY <2>2, <4>1 DEF IsTask
    <3>2. CASE ReadGpus
      <4>1. /\ task' = [pc |-> "hardware", found |-> Plus(task.found, Gpus(host)), drop |-> task.drop, id |-> task.id]
            /\ IsTask(task)
        BY <3>2 DEF ReadGpus, InventoryTypes, IsTask
      <4>2. IsInventory(Plus(task.found, Gpus(host)))
        BY <2>2, <4>1, PlusInventory DEF IsTask
      <4> QED BY <4>1, <4>2 DEF IsTask
    <3>3. CASE ReadHardware
      <4>1. /\ task' = [pc |-> "compare", found |-> Plus(task.found, RdmaPorts(host)), drop |-> task.drop, id |-> task.id]
            /\ IsTask(task)
        BY <3>3 DEF ReadHardware, InventoryTypes, IsTask
      <4>2. IsInventory(Plus(task.found, RdmaPorts(host)))
        BY <2>2, <4>1, PlusInventory DEF IsTask
      <4> QED BY <4>1, <4>2 DEF IsTask
    <3> QED BY <1>2, <3>1, <3>2, <3>3
  <2> QED BY <2>1, <2>3 DEF InventoryTypes
<1>3. CASE RefreshCompare
  <2> DEFINE known == {r \in Ids : registry[r] # Missing}
             new == [r \in DOMAIN task.found \ known |-> task.found[r]]
             gone == known \ DOMAIN task.found
  <2>1. UNCHANGED <<host, changes, registry>> /\ task' = Rest(new, gone)
    BY <1>3 DEF RefreshCompare, Unmoved
  <2>2. IsInventory(new) /\ gone \in SUBSET Ids
    BY DEF InventoryTypes, IsTask, IsInventory
  <2>3. IsTask(Rest(new, gone))
    BY <2>2, RestIsTask
  <2> QED BY <2>1, <2>3 DEF InventoryTypes
<1>4. CASE RegisterNext
  <2>1. PICK r \in DOMAIN task.found :
          /\ registry' = [registry EXCEPT ![r] = task.found[r]]
          /\ task' = Rest([q \in DOMAIN task.found \ {r} |-> task.found[q]], task.drop)
    BY <1>4 DEF RegisterNext
  <2> DEFINE rest == [q \in DOMAIN task.found \ {r} |-> task.found[q]]
  <2>2. r \in Ids /\ task.found[r] \in Entries /\ task.drop \in SUBSET Ids
    BY DEF InventoryTypes, IsTask, IsInventory
  <2>3. IsInventory(rest)
    BY DEF InventoryTypes, IsTask, IsInventory
  <2>4. IsTask(task')
    BY <2>1, <2>2, <2>3, RestIsTask
  <2>5. registry' \in [Ids -> Entries]
    BY <2>1, <2>2 DEF InventoryTypes
  <2> QED BY <1>4, <2>4, <2>5 DEF RegisterNext, Unmoved, InventoryTypes
<1>5. CASE UnregisterCheck
  <2>1. PICK r \in task.drop :
          task' = IF lease[r] # 0 THEN Rest(<<>>, task.drop \ {r})
                  ELSE Task("remove", <<>>, task.drop, r)
    BY <1>5 DEF UnregisterCheck
  <2>2. IsInventory(<<>>) /\ IsTask(task) /\ task.drop \ {r} \in SUBSET Ids
    BY DEF InventoryTypes, IsTask, IsInventory
  <2>3. IsTask(Rest(<<>>, task.drop \ {r}))
    BY <2>2, RestIsTask
  <2>4. IsTask(Task("remove", <<>>, task.drop, r))
    BY <2>2 DEF Task, IsTask
  <2> QED BY <1>5, <2>1, <2>3, <2>4 DEF UnregisterCheck, Unmoved, InventoryTypes
<1>6. CASE UnregisterRemove
  <2>1. /\ registry' = [registry EXCEPT ![task.id] = Missing]
        /\ task' = Rest(<<>>, task.drop \ {task.id}) /\ UNCHANGED <<host, changes>>
    BY <1>6 DEF UnregisterRemove, Unmoved
  <2>2. IsInventory(<<>>) /\ task.drop \ {task.id} \in SUBSET Ids
    BY DEF InventoryTypes, IsTask, IsInventory
  <2>3. IsTask(task')
    BY <2>1, <2>2, RestIsTask
  <2>4. registry' \in [Ids -> Entries]
    <3>1. Missing \in Entries
      BY DEF Entries
    <3> QED BY <2>1, <3>1 DEF InventoryTypes
  <2> QED BY <2>1, <2>3, <2>4 DEF InventoryTypes
<1>7. CASE UNCHANGED <<host, changes, registry, task>>
  BY <1>7 DEF InventoryTypes
<1>8. ASSUME NEW r \in Ids, LeaseExclusive(r) \/ EndLease(r) \/ Attach(r)
      PROVE  UNCHANGED <<host, changes, registry, task>>
  BY <1>8 DEF LeaseExclusive, EndLease, Attach, LocalResource, NetworkResource, WgpuRemote, FabricStore,
              GpuReattach, RdmaAttach, GpuLocal, LemonadeAttach, VfioAttach, Decide, Begin, Still
<1>9. ASSUME Adapter PROVE UNCHANGED <<host, changes, registry, task>>
  BY <1>9 DEF Adapter, RdmaGid, RdmaAccept, GpuReserve, LemonadeAccept, VfioOpen, Still
<1>10. UNCHANGED vars => UNCHANGED <<host, changes, registry, task>>
  BY DEF vars
<1> QED BY <1>1, <1>2, <1>3, <1>4, <1>5, <1>6, <1>7, <1>8, <1>9, <1>10 DEF Next, Discovery

LEMMA NextLeaseTypes == ASSUME AdapterInv, LeaseTypes, [Next]_vars PROVE LeaseTypes'
<1>1. CASE Hardware
  <2>1. PICK h : Change(h)
    BY <1>1 DEF Hardware, ChangeSlot, ChangePort, ChangeDrm
  <2>2. call'.pc = call.pc /\ call'.res = call.res /\ UNCHANGED <<lease, issued, reserved, last>>
    BY <2>1 DEF Change, AdapterInv, SeenIsCurrent
  <2> QED BY <2>2 DEF LeaseTypes, CallIsAnAdapters
<1>2. CASE UNCHANGED <<lease, issued, call, last, reserved>>
  BY <1>2 DEF LeaseTypes, CallIsAnAdapters
<1>3. ASSUME NEW r \in Ids, LeaseExclusive(r) PROVE LeaseTypes'
  BY <1>3, HostAssumption DEF LeaseExclusive, LeaseTypes, CallIsAnAdapters
<1>4. ASSUME NEW r \in Ids, EndLease(r) PROVE LeaseTypes'
  BY <1>4, HostAssumption DEF EndLease, LeaseTypes, CallIsAnAdapters, NoAttachment
<1>5. ASSUME NEW r \in Ids, NEW a, NEW accepts, Decide(r, a, accepts) PROVE LeaseTypes'
  BY <1>5 DEF Decide, MayAttach, Accept, Still, LeaseTypes, CallIsAnAdapters
<1>6. ASSUME NEW r \in Ids, NEW a, NEW accepts, NEW pc, Begin(r, a, accepts, pc),
             <<a, pc>> \in {<<"rdma", "gid">>, <<"gpu-local", "reserve">>, <<"lemonade", "status">>,
                            <<"gpu-vfio", "open">>}
      PROVE  LeaseTypes'
  <2>1. /\ call' = [pc |-> pc, res |-> r, seen |-> Device(host, r)] /\ last' = NoAttachment
        /\ a \in Adapters /\ UNCHANGED <<lease, issued, reserved>>
    BY <1>6 DEF Begin, MayAttach, Still
  <2> QED BY <1>6, <2>1 DEF LeaseTypes, CallIsAnAdapters, NoAttachment
<1>7. ASSUME NEW r \in Ids, Attach(r) PROVE LeaseTypes'
  <2>1. CASE LocalResource(r) \/ NetworkResource(r) \/ WgpuRemote(r) \/ FabricStore(r) \/ GpuReattach(r)
    BY <1>5, <2>1 DEF LocalResource, NetworkResource, WgpuRemote, FabricStore, GpuReattach
  <2>2. CASE RdmaAttach(r) \/ GpuLocal(r) \/ LemonadeAttach(r) \/ VfioAttach(r)
    BY <1>6, <2>2 DEF RdmaAttach, GpuLocal, LemonadeAttach, VfioAttach
  <2> QED BY <1>7, <2>1, <2>2 DEF Attach
<1>8. CASE RdmaGid
  <2>1. call'.pc = "address" /\ call'.res = call.res /\ call.pc = "gid"
    BY <1>8 DEF RdmaGid, AdapterInv, SeenIsCurrent
  <2> QED BY <1>8, <2>1 DEF RdmaGid, Still, LeaseTypes, CallIsAnAdapters
<1>9. CASE RdmaAccept \/ GpuReserve \/ LemonadeAccept \/ VfioOpen
  <2>1. call.res \in Ids /\ call' = NoCall /\ UNCHANGED <<lease, issued>>
    BY <1>9 DEF RdmaAccept, GpuReserve, LemonadeAccept, VfioOpen, Still, AdapterInv, SeenIsCurrent
  <2>2. reserved' = reserved \/ reserved' = [reserved EXCEPT ![call.res] = lease[call.res]]
    BY <1>9 DEF RdmaAccept, GpuReserve, LemonadeAccept, VfioOpen
  <2>3. last' = last \/ \E a \in Adapters : last' = [res |-> call.res, adapter |-> a]
    BY <1>9 DEF RdmaAccept, GpuReserve, LemonadeAccept, VfioOpen, Accept, LeaseTypes, CallIsAnAdapters
  <2> QED BY <2>1, <2>2, <2>3 DEF LeaseTypes, CallIsAnAdapters, NoCall
<1>10. RefreshLocal \/ Discovery \/ UNCHANGED vars => UNCHANGED <<lease, issued, call, last, reserved>>
  BY DEF RefreshLocal, Discovery, ReadGpus, ReadHardware, RefreshCompare, RegisterNext, UnregisterCheck,
         UnregisterRemove, Unmoved, vars
<1> QED BY <1>1, <1>2, <1>3, <1>4, <1>7, <1>8, <1>9, <1>10 DEF Next, Adapter

-----------------------------------------------------------------------------
(* Theorems *)

\* The inductive invariant of the adapters on a host that changes under them.
THEOREM AdapterInvariant == Spec => []AdapterInv
<1>1. AdapterInv /\ [Next]_vars => AdapterInv'
  BY NextInv
<1> QED BY <1>1, InitInv, PTL DEF Spec

\* An adapter hands out a device only if it was in order at some moment of the
\* call (RdmaAdapter, VfioGpuAdapter).
THEOREM AttachesFresh == Spec => AttachIsFresh
<1>1. AdapterInv /\ [Next]_vars => [Fresh]_vars
  BY NextInv
<1>2. [Fresh]_vars => [last' # last =>
       /\ last'.adapter = "rdma" => "active" \in call.seen
       /\ last'.adapter = "gpu-vfio" => "vfio" \in call.seen]_vars
  BY DEF Fresh
<1> QED BY <1>1, <1>2, AdapterInvariant, PTL DEF Spec, AttachIsFresh

\* Every variable keeps its type: nothing but Resource values of their own ids
\* gets into the registry, whatever a discovery finds in pieces on a host that
\* changes meanwhile (refresh_local).
THEOREM HostTypeCorrect == Spec => []TypeOK
<1>1. InventoryTypes /\ [Next]_vars => InventoryTypes'
  BY NextInventoryTypes
<1>2. AdapterInv /\ LeaseTypes /\ [Next]_vars => LeaseTypes'
  BY NextLeaseTypes
<1> QED BY <1>1, <1>2, InitTypes, TypesSuffice, AdapterInvariant, PTL DEF Spec
=============================================================================
