------------------------------- MODULE VmHost -------------------------------
(***************************************************************************)
(* The Cloud Hypervisor adapter (vmm/cloud_hypervisor.rs) and the host it  *)
(* acts on: VM processes, their API socket files and tap devices.          *)
(*                                                                         *)
(* Attaches of one process follow one another, under the lease table's     *)
(* lock (see Fabric); reconcile runs beside them.  VMs outlive the process *)
(* that started them, which may exit and start again with an empty map, as *)
(* every `nauti vm launch` does.  A socket file is named by the VM that    *)
(* bound it: it is stale once that VM is gone.  The VMM, ch-remote and ip  *)
(* are external, and each call of them may fail.                           *)
(***************************************************************************)
EXTENDS Naturals, FiniteSets

CONSTANTS
  Resources,     \* resource ids of Device resources
  Descriptors,   \* what the resources may be described as: see Descriptor
  Sockets, Taps, Names,
  None,          \* no attribute, no entry, no file
  MaxVms         \* bound on the VMs ever started

Backends == {"user_device", "fs", "vsock"}

Flags == Backends \union
  {"shared", "virtio_blk", "device", "initramfs", "cmdline", "watchdog"}

\* A Resource: its id and kind, and the vmm.* attributes of
\* VmResourceSpec::into_attributes.
Descriptor ==
  [id : Resources, device : BOOLEAN, socket : Sockets \union {None}, bootable : BOOLEAN,
   vm_name : Names, net : Taps \union {None, "no tap"},
   flags : SUBSET Flags]

\* ManagedVm
Entry == [resource : Resources, socket : Sockets, vm_name : Names]

ASSUME VmAssumption ==
  /\ MaxVms \in Nat
  /\ Descriptors \subseteq Descriptor
  /\ None \notin Sockets \union Taps \union Names \union Resources \union (1..MaxVms)
  /\ None \notin Descriptors \union Entry

VARIABLES
  attach,      \* the attach under way: [pc, resource, descriptor]
  reconcile,   \* the reconcile under way: [pc, todo, current]
  managed,     \* the adapter's map of the VMs it has launched or adopted
  vms,         \* live VM processes: [id, socket, tap, owner, flags]
  file,        \* the VM that bound each API socket file, or None
  tap,         \* tap devices: none, down, up
  started,     \* VMs started so far
  misprobed,   \* history: sockets of live VMs whose probe failed
  escaped      \* history: VMs that run after a launch that returned an error,
               \* and those that a second name of their resource put aside

host == <<vms, file, tap, started>>
history == <<misprobed, escaped>>
vars == <<attach, reconcile, managed, host, history>>

Vm == [id : 1..MaxVms, socket : Sockets, tap : Taps \union {None},
       owner : Resources \union {None}, flags : SUBSET Flags]

IdleReconcile == [pc |-> "idle", todo |-> {}, current |-> None]

Idle == [pc |-> "idle", resource |-> None, descriptor |-> None]

Init ==
  /\ attach = Idle
  /\ reconcile = IdleReconcile
  /\ managed = [r \in Resources |-> None]
  /\ vms = {}
  /\ file = [s \in Sockets |-> None]
  /\ tap = [t \in Taps |-> "none"]
  /\ started = 0
  /\ misprobed = {} /\ escaped = {}

Live(id) == \E vm \in vms : vm.id = id

\* The VM that answers on a socket.
Serves(vm, s) == vm.socket = s /\ file[s] = vm.id

\* build_argv: every optional attribute is a flag, and a vhost-user, virtio-fs
\* or vsock backend forces shared memory.
BuildArgv(d) ==
  IF d.flags \intersect Backends # {} THEN d.flags \union {"shared"} ELSE d.flags

\* A VM process starts: it binds its API socket, which must not exist.
StartVm(s, t, owner, flags) ==
  /\ started < MaxVms
  /\ file[s] = None
  /\ started' = started + 1
  /\ vms' = vms \union {[id |-> started + 1, socket |-> s, tap |-> t,
                         owner |-> owner, flags |-> flags]}
  /\ file' = [file EXCEPT ![s] = started + 1]

-----------------------------------------------------------------------------
(* CloudHypervisorAdapter::attach *)

Socket == attach.descriptor.socket

Goto(label) == attach' = [attach EXCEPT !.pc = label]

Return == attach' = Idle

\* Variant: the socket attribute is not required.
AttachBeginUnchecked(r, d) ==
  /\ attach.pc = "idle"
  /\ d.device
  /\ managed[r] # None => managed[r].vm_name # d.vm_name
  /\ attach' = [pc |-> "probe", resource |-> r, descriptor |-> d]
  /\ UNCHANGED <<reconcile, managed, host, history>>

\* Refusals before anything is touched: the kind, the binary, the socket.
\* An entry under the same name is success without a look at the VM.
AttachBegin(r, d) ==
  /\ attach.pc = "idle"
  /\ \/ UNCHANGED attach
     \/ /\ d.device /\ d.socket # None
        /\ managed[r] # None => managed[r].vm_name # d.vm_name
        /\ attach' = [pc |-> "probe", resource |-> r, descriptor |-> d]
  /\ UNCHANGED <<reconcile, managed, host, history>>

\* Variant: the file of a VM that does answer is removed too.
ProbeAlwaysClears ==
  /\ attach.pc = "probe"
  /\ Goto(IF file[Socket] = None THEN "net" ELSE "clear")
  /\ UNCHANGED <<reconcile, managed, host, history>>

\* vm_is_running: no file is no VM; otherwise `ch-remote info` decides, and a
\* probe that cannot be run says what a dead VM says.
Probe ==
  /\ attach.pc = "probe"
  /\ \/ /\ file[Socket] = None
        /\ Goto("net") /\ UNCHANGED misprobed
     \/ /\ file[Socket] # None /\ Live(file[Socket])
        /\ Goto("record") /\ UNCHANGED misprobed
     \/ /\ file[Socket] # None
        /\ Goto("clear")
        /\ misprobed' = IF Live(file[Socket]) THEN misprobed \union {Socket} ELSE misprobed
  /\ UNCHANGED <<reconcile, managed, host, escaped>>

\* The stale file goes, or stays: nobody looks whether the removal worked.
ClearSocket ==
  /\ attach.pc = "clear"
  /\ \/ file' = [file EXCEPT ![Socket] = None]
     \/ UNCHANGED file
  /\ Goto("net")
  /\ UNCHANGED <<reconcile, managed, vms, tap, started, history>>

\* Without vmm.net there is nothing to provision; a spec without tap= is
\* refused; a tap that exists is taken as it is.
Provision ==
  /\ attach.pc = "net"
  /\ \/ /\ attach.descriptor.net \in Taps
        /\ tap[attach.descriptor.net] = "none"
        /\ Goto("link")
     \/ /\ \/ attach.descriptor.net = None
           \/ attach.descriptor.net \in Taps /\ tap[attach.descriptor.net] # "none"
        /\ Goto("launch")
     \/ /\ attach.descriptor.net # None
        /\ attach.descriptor.net \notin Taps
        /\ Return
  /\ UNCHANGED <<reconcile, managed, host, history>>

\* `ip tuntap add` and then `ip link set up`; each may fail, the second with
\* the tap already there.
AddTap ==
  /\ attach.pc = "link"
  /\ \/ Return /\ UNCHANGED tap
     \/ Return /\ tap' = [tap EXCEPT ![attach.descriptor.net] = "down"]
     \/ Goto("launch") /\ tap' = [tap EXCEPT ![attach.descriptor.net] = "up"]
  /\ UNCHANGED <<reconcile, managed, vms, file, started, history>>

\* An argv needs kernel and rootfs.  The VMM may not be spawned, or exit at
\* once, as it does where the socket exists; it may have bound its socket by
\* then, and the file stays.  A VMM that cannot be polled runs on although the
\* attach fails.
Launch ==
  /\ attach.pc = "launch"
  /\ \/ Return /\ UNCHANGED <<host, escaped>>
     \/ /\ attach.descriptor.bootable
        /\ started < MaxVms /\ file[Socket] = None
        /\ file' = [file EXCEPT ![Socket] = started + 1]
        /\ started' = started + 1
        /\ Return /\ UNCHANGED <<vms, tap, escaped>>
     \/ /\ attach.descriptor.bootable
        /\ StartVm(Socket, attach.descriptor.net, attach.resource,
                   BuildArgv(attach.descriptor))
        /\ \/ Goto("record") /\ UNCHANGED escaped
           \/ Return /\ escaped' = escaped \union {started + 1}
        /\ UNCHANGED tap
  /\ UNCHANGED <<reconcile, managed, misprobed>>

\* A reconcile has an entry of the resource on its list or in its hands.
Reconciling(r) ==
  \/ \E e \in reconcile.todo : e.resource = r
  \/ reconcile.pc = "drop" /\ reconcile.current.resource = r

\* The VMs put aside by an entry that replaces one under another name: those
\* of the resource on another socket, and those that a reconcile which read
\* the first entry is going to drop with the second.
PutAside(r) ==
  {vm.id : vm \in {v \in vms : v.owner = r /\ (v.socket # Socket \/ Reconciling(r))}}

\* record_managed: managed.insert
Record(entry) ==
  /\ attach.pc = "record"
  /\ managed' = [managed EXCEPT ![attach.resource] = entry]
  /\ escaped' = IF managed[attach.resource] = None THEN escaped
                ELSE escaped \union PutAside(attach.resource)
  /\ Return
  /\ UNCHANGED <<reconcile, host, misprobed>>

NewEntry ==
  [resource |-> attach.resource, socket |-> Socket, vm_name |-> attach.descriptor.vm_name]

\* Variant: only a VM that the attach found running is recorded.
RecordAdopted ==
  Record(IF \E vm \in vms : Serves(vm, Socket) /\ vm.owner = attach.resource
         THEN managed[attach.resource] ELSE NewEntry)

RecordManaged == Record(NewEntry)

Attach == Probe \/ ClearSocket \/ Provision \/ AddTap \/ Launch \/ RecordManaged

-----------------------------------------------------------------------------
(* CloudHypervisorAdapter::reconcile *)

ReconcileBegin ==
  /\ reconcile.pc = "idle"
  /\ reconcile' = [pc |-> "remove", current |-> None,
                   todo |-> {managed[r] : r \in Resources} \ {None}]
  /\ UNCHANGED <<attach, managed, host, history>>

\* remove_vm: the VM that answers on the socket goes, with its file, or the
\* call fails and the entry stays.
RemoveVm ==
  /\ reconcile.pc = "remove"
  /\ \E e \in reconcile.todo :
       \/ /\ reconcile' = [reconcile EXCEPT !.todo = @ \ {e}]
          /\ UNCHANGED host
       \/ \E vm \in vms :
            /\ Serves(vm, e.socket)
            /\ vms' = vms \ {vm}
            /\ file' = [file EXCEPT ![e.socket] = None]
            /\ reconcile' = [pc |-> "drop", current |-> e, todo |-> reconcile.todo \ {e}]
            /\ UNCHANGED <<tap, started>>
  /\ UNCHANGED <<attach, managed, history>>

\* The entry is dropped by resource id, whatever it says by now.
DropManaged ==
  /\ reconcile.pc = "drop"
  /\ managed' = [managed EXCEPT ![reconcile.current.resource] = None]
  /\ reconcile' = [reconcile EXCEPT !.pc = "remove", !.current = None]
  /\ UNCHANGED <<attach, host, history>>

\* Variant: reconcile tries until every VM of its list is removed.
ReconcileEndAllRemoved ==
  /\ reconcile.pc = "remove"
  /\ reconcile.todo = {}
  /\ \A r \in Resources : managed[r] = None
  /\ reconcile' = IdleReconcile
  /\ UNCHANGED <<attach, managed, host, history>>

ReconcileEnd ==
  /\ reconcile.pc = "remove"
  /\ reconcile.todo = {}
  /\ reconcile' = IdleReconcile
  /\ UNCHANGED <<attach, managed, host, history>>

Reconcile == RemoveVm \/ DropManaged \/ ReconcileEnd

-----------------------------------------------------------------------------
(* The host *)

\* A VM dies, late in its start or at any time: its socket file stays.
VmCrash ==
  /\ \E vm \in vms : vms' = vms \ {vm}
  /\ UNCHANGED <<attach, reconcile, managed, file, tap, started, history>>

\* The operator starts a VM by hand on a free socket.
OperatorStart(s) ==
  /\ StartVm(s, None, None, {})
  /\ UNCHANGED <<attach, reconcile, managed, tap, history>>

\* The process ends at any point and another begins: it manages nothing, and
\* the VMs run on as anybody's.
Restart ==
  /\ attach' = Idle
  /\ reconcile' = IdleReconcile
  /\ managed' = [r \in Resources |-> None]
  /\ vms' = {[vm EXCEPT !.owner = None] : vm \in vms}
  /\ escaped' = {}
  /\ UNCHANGED <<file, tap, started, misprobed>>

Next ==
  \/ \E d \in Descriptors : AttachBegin(d.id, d)
  \/ Attach
  \/ ReconcileBegin
  \/ Reconcile
  \/ VmCrash
  \/ \E s \in Sockets : OperatorStart(s)
  \/ Restart

Spec == Init /\ [][Next]_vars

\* Each call of an external tool ends, so the threads in attach and reconcile
\* go on; nobody has to call them, and no VM has to die.
FairSpec == Spec /\ WF_vars(Attach) /\ WF_vars(Reconcile)

-----------------------------------------------------------------------------
(* Properties *)

TypeOK ==
  /\ attach \in [pc : {"idle", "probe", "clear", "net", "link", "launch", "record"},
                resource : Resources \union {None}, descriptor : Descriptors \union {None}]
  /\ attach.pc # "idle" =>
       /\ attach.resource # None /\ attach.descriptor # None
       /\ attach.descriptor.socket # None
  /\ reconcile \in [pc : {"idle", "remove", "drop"}, todo : SUBSET Entry,
                   current : Entry \union {None}]
  /\ reconcile.pc = "drop" => reconcile.current # None
  /\ managed \in [Resources -> Entry \union {None}]
  /\ vms \subseteq Vm
  /\ file \in [Sockets -> 1..MaxVms \union {None}]
  /\ tap \in [Taps -> {"none", "down", "up"}]
  /\ started \in 0..MaxVms
  /\ misprobed \subseteq Sockets
  /\ escaped \subseteq 1..MaxVms

\* Two live VMs never share an API socket, and so a kernel and a disk, through
\* crashes, restarts, adoption and an operator's own VMs, unless a probe
\* failed on a VM that was running (vm_is_running, then launch_vm).
OneVmPerSocket ==
  \A v, w \in vms : v.socket = w.socket /\ v.socket \notin misprobed => v = w

\* A VM that this process launched and that still runs is one that reconcile
\* will find: its resource is managed under its socket, or the attach that
\* launched it is about to record it.  What reconcile drops from the map by
\* resource id is never such a VM (record_managed, reconcile).  Out of sight
\* are exactly: a VM on a socket whose probe failed with a VM running, one
\* whose launch could not be polled, and one that a second vm_name of its resource put aside,
\* with another socket or under a reconcile of the first (PutAside).
LaunchedIsManaged ==
  \A vm \in vms :
    vm.owner # None /\ vm.socket \notin misprobed /\ vm.id \notin escaped =>
      \/ managed[vm.owner] # None /\ managed[vm.owner].socket = vm.socket
      \/ attach.pc = "record" /\ attach.resource = vm.owner /\ Socket = vm.socket

\* An attach and a reconcile always return to their callers, whatever the
\* tools answer and whatever VMs die under them.
CallsReturn ==
  /\ (attach.pc # "idle") ~> (attach.pc = "idle")
  /\ (reconcile.pc # "idle") ~> (reconcile.pc = "idle")

\* A guest with a network has its tap up: "a missing tap must fail the attach
\* synchronously, never leave a booted-but-unreachable guest behind".
GuestIsReachable == \A vm \in vms : vm.tap # None => tap[vm.tap] = "up"
=============================================================================
