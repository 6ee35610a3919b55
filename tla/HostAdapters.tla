---------------------------- MODULE HostAdapters ----------------------------
(***************************************************************************)
(* A host whose hardware changes under its inventory (HostInventory,       *)
(* gpu/discover.rs, hwinfo.rs, refresh_local) and the adapters that decide *)
(* an attach (adapters.rs, store.rs, memory.rs, gpu/, vmm/vfio.rs).        *)
(*                                                                         *)
(* A refresh reads the host in several steps and changes the registry one  *)
(* id at a time; an attach works on a copy of the registered resource and  *)
(* reads the host again.  Leasing is Fabric's: here a lease is a number,   *)
(* and the leases lock is held for the whole of an attach.                 *)
(***************************************************************************)
EXTENDS Naturals

CONSTANTS
  Slots,       \* PCI slots a graphics card may sit in
  Ports,       \* RDMA ports
  Cards,       \* physical cards
  Tagged,      \* those a management library knows the UUID of
  Fixed,       \* resources every host has
  Operator,    \* resources an operator may register by hand
  OperatorAt,  \* the slot an operator's card names, or "nowhere"
  Adapters,
  MaxLeases,   \* bound on the leases granted
  MaxChanges   \* bound on the changes of the hardware

\* Ways a slot can be found in sysfs.
Modes == {"empty", "drm", "display", "nogroup", "vfio", "nonode", "dead"}

AllAdapters ==
  {"local-resource", "network-resource", "lemonade", "fabric-store",
   "rdma", "gpu-local", "gpu-vfio", "gpu-wgpu-remote"}

Ids == Slots \union Ports \union Fixed \union {"extra"}

ASSUME HostAssumption ==
  /\ Tagged \subseteq Cards /\ Cards # {}
  /\ "extra" \notin Slots \union Ports /\ Slots \intersect Ports = {}
  /\ OperatorAt \in Slots \union {"nowhere"} /\ "nowhere" \notin Ids
  /\ Fixed \subseteq {"store", "wgpu", "research", "shared"}
  /\ Adapters \subseteq AllAdapters
  /\ MaxLeases \in Nat /\ MaxChanges \in Nat

VARIABLES
  host,       \* [slot, port, drm]: what sysfs would say
  changes,    \* changes of it so far
  registry,   \* Fabric.resources
  task,       \* the refresh in progress: [pc, found, drop, id]
  lease,      \* the lease of each resource, 0 for none
  issued,     \* leases granted so far
  call,       \* the attach in progress, of an adapter that takes several steps
  last,       \* the attachment handed out last
  reserved    \* GpuLocalAdapter.reservations

vars == <<host, changes, registry, task, lease, issued, call, last, reserved>>

Missing == [kind |-> "none", node |-> "none", attrs |-> {}, state |-> "none", card |-> "none"]

\* Resource.  The card is what its attributes say of the device behind a slot.
\* The node is "local" unless the environment names another.
Entry(kind, node, attrs, state, card) ==
  [kind |-> kind, node |-> node, attrs |-> attrs, state |-> state, card |-> card]

-----------------------------------------------------------------------------
(* What discovery makes of the host *)

\* ResearchMemoryReport::as_resource: one resource, whatever was found, that no
\* lease is granted for; what was found is text.
Research == Entry("memory", "local", {}, "unavailable", "none")

\* Processors, memory, disks, interfaces and NUMA nodes: never leased.
Shared == Entry("other", "local", {}, "available", "none")

\* HostInventory::discover
HostInventory ==
  [r \in Fixed |->
     CASE r = "store"    -> Entry("storage", "local", {"bind", "path"}, "available", "none")
       [] r = "wgpu"     -> Entry("gpu", "local", {}, "available", "none")
       [] r = "research" -> Research
       [] r = "shared"   -> Shared]

\* read_drm_card: a card bound to vfio-pci has no DRM node, one that fell off
\* the bus still has, and answers with another vendor.
Listed(h, s) == h.drm /\ h.slot[s].mode \in {"drm", "nogroup", "dead"}

\* nvml_by_bdf: the management library answers for the cards it knows and can
\* still reach.
Uuid(h, s) == {a \in {"uuid"} : h.slot[s].mode # "dead" /\ h.slot[s].card \in Tagged}

\* GpuDiscoveryResult::discover and as_resources: display-only controllers are
\* left out.
GpuEntry(h, s) ==
  Entry("gpu", "local", {"pci_bdf"} \union Uuid(h, s),
        "available",
        IF h.slot[s].mode = "dead" THEN "none" ELSE h.slot[s].card)

Gpus(h) == [s \in {t \in Slots : Listed(h, t)} |-> GpuEntry(h, s)]

\* Variant: the port's own word for its state is taken over.
RdmaPortsRaw(h) ==
  [p \in {q \in Ports : h.port[q] # "gone"} |-> Entry("network", "local", {"rdma"}, h.port[p], "none")]

\* rdma_resources
RdmaPorts(h) ==
  [p \in {q \in Ports : h.port[q] # "gone"} |->
     Entry("network", "local", {"rdma"}, IF h.port[p] = "active" THEN "available" ELSE "unavailable", "none")]

\* The PCI address a resource names: an operator's card any, a slot its own.
Address(r) == IF r = "extra" THEN OperatorAt ELSE r

\* classify_gpu and discover_vfio_state
VfioState(s) ==
  IF s \notin Slots \/ host.slot[s].mode \in {"empty", "dead"} THEN "NotPresent"
  ELSE IF host.slot[s].mode \in {"nogroup", "nonode"} THEN "NoIommu"
  ELSE IF host.slot[s].mode = "vfio" THEN "Available"
  ELSE "NotBound"

Plus(f, g) == [r \in DOMAIN f \union DOMAIN g |-> IF r \in DOMAIN g THEN g[r] ELSE f[r]]

Everything(h) == Plus(HostInventory, Plus(Gpus(h), RdmaPorts(h)))

Lookup(f, r) == IF r \in DOMAIN f THEN f[r] ELSE Missing

-----------------------------------------------------------------------------
Task(pc, found, drop, id) == [pc |-> pc, found |-> found, drop |-> drop, id |-> id]

Idle == Task("idle", <<>>, {}, "none")

NoCall == [pc |-> "idle", res |-> "none", seen |-> {}]

NoAttachment == [res |-> "none", adapter |-> "none"]

InOrder ==
  [slot |-> [s \in Slots |-> [mode |-> "drm", card |-> CHOOSE c \in Cards : TRUE]],
   port |-> [p \in Ports |-> "active"], drm |-> TRUE]

\* discover_local registered a host in order, and the operator added something.
Init ==
  /\ host = InOrder
  /\ \E extra \in Operator :
       registry = [r \in Ids |-> IF r = "extra" THEN extra ELSE Lookup(Everything(InOrder), r)]
  /\ changes = 0
  /\ task = Idle
  /\ lease = [r \in Ids |-> 0]
  /\ issued = 0
  /\ call = NoCall
  /\ last = NoAttachment
  /\ reserved = [r \in Ids |-> 0]

-----------------------------------------------------------------------------
(* The hardware *)

\* What an attach of the resource depends on.
Device(h, r) ==
  IF Address(r) \in Slots THEN {h.slot[Address(r)].mode} ELSE IF r \in Ports THEN {h.port[r]} ELSE {}

Change(h) ==
  /\ changes < MaxChanges
  /\ h # host
  /\ host' = h
  /\ changes' = changes + 1
  /\ call' = IF call.pc = "idle" THEN call ELSE [call EXCEPT !.seen = @ \union Device(h, call.res)]
  /\ UNCHANGED <<registry, task, lease, issued, last, reserved>>

\* A card is pulled, swapped, rebound or lost; a port goes away and comes back;
\* /sys/class/drm cannot be read.
ChangeSlot(s) == \E m \in Modes, c \in Cards : Change([host EXCEPT !.slot[s] = [mode |-> m, card |-> c]])

ChangePort(p) == \E st \in {"gone", "down", "active"} : Change([host EXCEPT !.port[p] = st])

ChangeDrm == Change([host EXCEPT !.drm = ~@])

Hardware ==
  \/ \E s \in Slots : ChangeSlot(s)
  \/ \E p \in Ports : ChangePort(p)
  \/ ChangeDrm

-----------------------------------------------------------------------------
(* refresh_local *)

Unmoved == UNCHANGED <<host, changes, lease, issued, call, last, reserved>>

RefreshLocal ==
  /\ task.pc = "idle"
  /\ task' = Task("gpus", HostInventory, {}, "none")
  /\ Unmoved /\ UNCHANGED registry

ReadGpus ==
  /\ task.pc = "gpus"
  /\ task' = [task EXCEPT !.pc = "hardware", !.found = Plus(@, Gpus(host))]
  /\ Unmoved /\ UNCHANGED registry

\* discover_hardware
ReadHardware ==
  /\ task.pc = "hardware"
  /\ task' = [task EXCEPT !.pc = "compare", !.found = Plus(@, RdmaPorts(host))]
  /\ Unmoved /\ UNCHANGED registry

\* The rest of a refresh: what is still to register, then what is to take out.
Rest(found, drop) ==
  IF DOMAIN found # {} THEN Task("register", found, drop, "none")
  ELSE IF drop # {} THEN Task("unregister", <<>>, drop, "none")
  ELSE Idle

\* The ids found are held against the ids known at this moment.
RefreshCompare ==
  /\ task.pc = "compare"
  /\ LET known == {r \in Ids : registry[r] # Missing}
     IN  task' = Rest([r \in DOMAIN task.found \ known |-> task.found[r]], known \ DOMAIN task.found)
  /\ Unmoved /\ UNCHANGED registry

\* Fabric::register, for one of the new resources.
RegisterNext ==
  /\ task.pc = "register"
  /\ \E r \in DOMAIN task.found :
       /\ registry' = [registry EXCEPT ![r] = task.found[r]]
       /\ task' = Rest([q \in DOMAIN task.found \ {r} |-> task.found[q]], task.drop)
  /\ Unmoved


\* Fabric::unregister for one of the ids that are gone: one that is leased is
\* left, which takes the leases lock to see ...
UnregisterCheck ==
  /\ task.pc = "unregister"
  /\ call.pc = "idle"
  /\ \E r \in task.drop :
       task' = IF lease[r] # 0 THEN Rest(<<>>, task.drop \ {r})
               ELSE Task("remove", <<>>, task.drop, r)
  /\ Unmoved /\ UNCHANGED registry

\* ... and the lock is given back before the resource is removed.
UnregisterRemove ==
  /\ task.pc = "remove"
  /\ registry' = [registry EXCEPT ![task.id] = Missing]
  /\ task' = Rest(<<>>, task.drop \ {task.id})
  /\ Unmoved

Discovery ==
  ReadGpus \/ ReadHardware \/ RefreshCompare \/ RegisterNext \/ UnregisterCheck \/ UnregisterRemove

-----------------------------------------------------------------------------
(* Leases, as far as the adapters see them *)

LeaseExclusive(r) ==
  /\ call.pc = "idle"
  /\ issued < MaxLeases
  /\ registry[r].state = "available" /\ r # "shared"
  /\ lease[r] = 0
  /\ issued' = issued + 1
  /\ lease' = [lease EXCEPT ![r] = issued + 1]
  /\ UNCHANGED <<host, changes, registry, task, call, last, reserved>>

\* A release, or the end of its time.
EndLease(r) ==
  /\ call.pc = "idle"
  /\ lease[r] # 0
  /\ lease' = [lease EXCEPT ![r] = 0]
  /\ last' = IF last.res = r THEN NoAttachment ELSE last
  /\ UNCHANGED <<host, changes, registry, task, issued, call, reserved>>

-----------------------------------------------------------------------------
(* ResourceAdapter::attach *)

Still == UNCHANGED <<host, changes, registry, task, lease, issued>>

\* Fabric::attach takes the leases lock, and hands the adapter a copy of the
\* registered resource.
MayAttach(r, a) ==
  /\ a \in Adapters
  /\ call.pc = "idle"
  /\ lease[r] # 0 /\ registry[r] # Missing

Accept(r, a) == last' = [res |-> r, adapter |-> a]

\* An adapter that decides at once.
Decide(r, a, accepts) ==
  /\ MayAttach(r, a)
  /\ accepts
  /\ Accept(r, a)
  /\ Still /\ UNCHANGED <<call, reserved>>

\* One that goes on with another step: nothing is handed out yet.
Begin(r, a, accepts, pc) ==
  /\ MayAttach(r, a)
  /\ accepts
  /\ call' = [pc |-> pc, res |-> r, seen |-> Device(host, r)]
  /\ last' = NoAttachment
  /\ Still /\ UNCHANGED reserved

LocalResource(r) == Decide(r, "local-resource", registry[r].node = "local")

NetworkResource(r) ==
  Decide(r, "network-resource", registry[r].node # "local" /\ {"endpoint", "protocol"} \subseteq registry[r].attrs)

\* ResearchMemoryAdapter refuses every resource: no step.

WgpuRemote(r) == Decide(r, "gpu-wgpu-remote", registry[r].kind = "gpu")

\* StoreKind::parse: a store that names no kind is a bind store, one that names
\* an unknown kind is an error.
StoreKind(e) ==
  LET named == e.attrs \intersect {"bind", "virtio-fs", "nfs", "unknown-kind"}
  IN  IF named = {} THEN "bind" ELSE CHOOSE kind \in named : TRUE

\* StoreResolution::from_resource
Resolves(e) ==
  /\ e.kind = "storage"
  /\ StoreKind(e) # "unknown-kind"
  /\ "path" \in e.attrs
  /\ StoreKind(e) = "nfs" => "nfs_export" \in e.attrs
  /\ StoreKind(e) = "virtio-fs" => "socket" \in e.attrs

\* FabricStoreAdapter::attach; ensure_dir may fail, which is a refusal, and the
\* map of live stores is Fabric's.
FabricStore(r) == Decide(r, "fabric-store", Resolves(registry[r]))

\* Variant: the registered state is believed.
RdmaAttachCached(r) == Begin(r, "rdma", r \in Ports /\ registry[r].state = "available", "gid")

\* RdmaAdapter::attach reads the ports again ...
RdmaAttach(r) ==
  Begin(r, "rdma", r \in Ports /\ Lookup(RdmaPorts(host), r).state = "available", "gid")

\* ... looks for a GID among the port's files, which it can do without ...
RdmaGid ==
  /\ call.pc = "gid"
  /\ call' = [call EXCEPT !.pc = "address"]
  /\ Still /\ UNCHANGED <<last, reserved>>

\* ... and for the addresses of its interface.  Neither read looks at the state
\* of the port again.
RdmaAccept ==
  /\ call.pc = "address"
  /\ Accept(call.res, "rdma")
  /\ call' = NoCall
  /\ Still /\ UNCHANGED reserved

\* GpuLocalAdapter::attach.  Discovery names the address gpu.pci_bdf, so of the
\* cards it found those with no UUID are refused.
NamesGpu(e) == e.kind = "gpu" /\ e.attrs \intersect {"uuid", "pci_bus_id"} # {}

\* The lookup under the reservations lock: this lease's reservation is enough.
GpuReattach(r) == Decide(r, "gpu-local", NamesGpu(registry[r]) /\ reserved[r] = lease[r])

\* No reservation of it, or another lease's, which stays for good: there is no
\* detach.  The lock is given back.
GpuLocal(r) == Begin(r, "gpu-local", NamesGpu(registry[r]) /\ reserved[r] # lease[r], "reserve")

\* It is taken again to insert the reservation, over any other.
GpuReserve ==
  /\ call.pc = "reserve"
  /\ reserved' = [reserved EXCEPT ![call.res] = lease[call.res]]
  /\ Accept(call.res, "gpu-local")
  /\ call' = NoCall
  /\ Still

\* LemonadeAdapter::status asks four times; what is not answered, or says that
\* no server runs, is left out of the report ...
LemonadeAttach(r) == Begin(r, "lemonade", TRUE, "status")

\* ... and whatever came back, attach accepts.
LemonadeAccept ==
  /\ call.pc = "status"
  /\ Accept(call.res, "lemonade")
  /\ call' = NoCall
  /\ Still /\ UNCHANGED reserved

\* VfioGpuAdapter::attach classifies the device first ...
VfioAttach(r) ==
  Begin(r, "gpu-vfio",
        /\ registry[r].kind = "gpu" /\ registry[r].attrs \intersect {"pci_bdf", "pci_bus_id"} # {}
        /\ VfioState(Address(r)) = "Available", "open")

\* open_passthrough asks for the file of the group, which may go with the
\* device's binding, or stay for another device of the group.
OpenRefused == host.slot[Address(call.res)].mode # "vfio"

\* ... and then asks for its group.
VfioOpen ==
  /\ call.pc = "open"
  /\ call' = NoCall
  /\ \/ Accept(call.res, "gpu-vfio")
     \/ OpenRefused /\ UNCHANGED last
  /\ Still /\ UNCHANGED reserved

Attach(r) ==
  \/ LocalResource(r) \/ NetworkResource(r) \/ WgpuRemote(r) \/ FabricStore(r) \/ GpuReattach(r)
  \/ RdmaAttach(r) \/ GpuLocal(r) \/ LemonadeAttach(r) \/ VfioAttach(r)

Adapter == RdmaGid \/ RdmaAccept \/ GpuReserve \/ LemonadeAccept \/ VfioOpen

-----------------------------------------------------------------------------
Next ==
  \/ Hardware
  \/ RefreshLocal \/ Discovery
  \/ \E r \in Ids : LeaseExclusive(r) \/ EndLease(r) \/ Attach(r)
  \/ Adapter

Spec == Init /\ [][Next]_vars

\* A call that runs goes on; nobody has to start one.
FairSpec == Spec /\ WF_vars(Discovery) /\ WF_vars(Adapter)

-----------------------------------------------------------------------------
(* Properties *)

Entries ==
  {Missing} \union Operator \union
  [kind : {"gpu", "storage", "network", "memory", "other"}, node : {"local"},
   attrs : SUBSET {"bind", "path", "pci_bdf", "uuid", "rdma"},
   state : {"available", "unavailable"}, card : Cards \union {"none"}]

TypeOK ==
  /\ host \in [slot : [Slots -> [mode : Modes, card : Cards]],
               port : [Ports -> {"gone", "down", "active"}], drm : BOOLEAN]
  /\ changes \in 0..MaxChanges
  /\ registry \in [Ids -> Entries]
  /\ task.pc \in {"idle", "gpus", "hardware", "compare", "register", "unregister", "remove"}
  /\ DOMAIN task.found \subseteq Ids \ {"extra"}
  /\ task.drop \subseteq Ids /\ task.id \in task.drop \union {"none"}
  /\ lease \in [Ids -> 0..MaxLeases]
  /\ issued \in 0..MaxLeases
  /\ call.pc \in {"idle", "gid", "address", "reserve", "status", "open"}
  /\ call.res \in Ids \union {"none"}
  /\ last.res \in Ids \union {"none"} /\ last.adapter \in Adapters \union {"none"}
  /\ reserved \in [Ids -> 0..MaxLeases]

\* Whatever the inventory says, an adapter that needs a device hands it out only
\* if the device was in order at some moment of the call: an active port, a card
\* bound to vfio-pci (RdmaAdapter::attach re-reads sysfs, VfioGpuAdapter
\* "reflects the current state").
AttachIsFresh ==
  [][last' # last =>
       /\ last'.adapter = "rdma" => "active" \in call.seen
       /\ last'.adapter = "gpu-vfio" => "vfio" \in call.seen]_vars

\* A device that discovery is for: a card with a DRM node, a port.
Present(r) ==
  IF r \in Slots THEN host.slot[r].mode \in {"drm", "nogroup", "dead"} ELSE host.port[r] # "gone"

=============================================================================
