---------------------------- MODULE VmHostProofs ----------------------------
(***************************************************************************)
(* Proofs about VmHost, for any sets of resources, descriptors, sockets    *)
(* and taps and any number of VMs: an API socket has one live VM, and what *)
(* reconcile forgets is never a VM that this process launched.             *)
(***************************************************************************)
EXTENDS VmHost, TLAPS

\* A VM has a number that was handed out, and no other VM has it; a socket file
\* has the number of the VM that bound it.
VmsAreNumbered ==
  /\ \A vm \in vms : vm.id <= started
  /\ \A v, w \in vms : v.id = w.id => v = w
  /\ \A s \in Sockets : file[s] # None => file[s] <= started

\* The socket file of a live VM is the one it bound.
FileIsTheVms ==
  \A vm \in vms : vm.socket \notin misprobed => file[vm.socket] = vm.id

\* What an attach is about to remove is the file of a VM that is gone.
ClearsWrecks ==
  attach.pc = "clear" /\ Socket \notin misprobed => file[Socket] # None /\ ~Live(file[Socket])

\* An attach gets to the launch with a tap it knows or with none.
TapIsKnown ==
  /\ attach.pc = "link" => attach.descriptor.net \in Taps
  /\ attach.pc = "launch" => attach.descriptor.net \in Taps \union {None}

\* The map's entries are under their own resources.
EntriesAreKeyed ==
  \A r \in Resources : managed[r] # None => managed[r].resource = r

\* A VM of the resource that reconcile may lose sight of.
Known(vm) == vm.socket \notin misprobed /\ vm.id \notin escaped

\* The attach under way launched or found the VM and is about to record it.
AboutToRecord(vm) ==
  attach.pc = "record" /\ attach.resource = vm.owner /\ Socket = vm.socket

\* A resource that reconcile works on is managed, under whatever entry.
ReconciledIsManaged ==
  /\ \A e \in reconcile.todo : managed[e.resource] # None
  /\ reconcile.pc = "drop" => managed[reconcile.current.resource] # None

\* The snapshot of reconcile has one entry per resource.
TodoIsKeyed ==
  /\ \A e, g \in reconcile.todo : e.resource = g.resource => e = g
  /\ reconcile.pc = "drop" =>
       \A e \in reconcile.todo : e.resource # reconcile.current.resource

\* The snapshot of reconcile is what the map says, or what was recorded since
\* has put the resource's VMs aside.
TodoIsManaged ==
  \A e \in reconcile.todo :
    \/ managed[e.resource] = e
    \/ \A vm \in vms : vm.owner = e.resource /\ Known(vm) => AboutToRecord(vm)

\* The VM of the entry that reconcile is about to drop is gone.
DropIsDead ==
  reconcile.pc = "drop" =>
    \A vm \in vms :
      vm.owner = reconcile.current.resource /\ Known(vm) => AboutToRecord(vm)

SocketInv == VmsAreNumbered /\ FileIsTheVms /\ ClearsWrecks

MapInv ==
  /\ EntriesAreKeyed /\ ReconciledIsManaged /\ TodoIsKeyed /\ TodoIsManaged /\ DropIsDead
  /\ LaunchedIsManaged

VmInv == TypeOK /\ TapIsKnown /\ SocketInv /\ MapInv

-----------------------------------------------------------------------------
(* Type correctness *)

\* The shape of the state that the steps below rely on.
LEMMA AttachShape ==
  ASSUME TypeOK, attach.pc # "idle"
  PROVE  /\ attach.resource \in Resources /\ attach.descriptor \in Descriptor
         /\ attach.descriptor \in Descriptors
         /\ Socket \in Sockets /\ attach.descriptor.vm_name \in Names
BY VmAssumption DEF TypeOK, Descriptor, Socket

LEMMA InitInv == Init => VmInv
<1> SUFFICES ASSUME Init PROVE VmInv
  OBVIOUS
<1> USE VmAssumption DEF Init, Idle, IdleReconcile
<1>1. TypeOK
  BY DEF TypeOK
<1>2. TapIsKnown /\ SocketInv
  BY DEF TapIsKnown, SocketInv, VmsAreNumbered, FileIsTheVms, ClearsWrecks
<1>3. MapInv
  BY DEF MapInv, EntriesAreKeyed, ReconciledIsManaged, TodoIsKeyed, TodoIsManaged, DropIsDead,
         LaunchedIsManaged
<1> QED BY <1>1, <1>2, <1>3 DEF VmInv

\* A VM that starts has the type of one.
LEMMA StartType ==
  ASSUME TypeOK, NEW s \in Sockets, NEW t \in Taps \union {None},
         NEW owner \in Resources \union {None}, NEW flags \in SUBSET Flags,
         StartVm(s, t, owner, flags)
  PROVE  /\ vms' \subseteq Vm
         /\ file' \in [Sockets -> 1..MaxVms \union {None}]
         /\ started' \in 0..MaxVms
<1>1. started \in 0..MaxVms /\ started < MaxVms /\ started' = started + 1
  BY DEF StartVm, TypeOK
<1>2. started + 1 \in 1..MaxVms /\ started' \in 0..MaxVms
  BY <1>1, VmAssumption
<1>3. [id |-> started + 1, socket |-> s, tap |-> t, owner |-> owner, flags |-> flags] \in Vm
  BY <1>2 DEF Vm
<1> QED BY <1>2, <1>3 DEF StartVm, TypeOK

LEMMA ArgvType == ASSUME NEW d \in Descriptor PROVE BuildArgv(d) \in SUBSET Flags
BY DEF BuildArgv, Descriptor, Flags

\* An attach that moves on to another label, or returns, keeps its type.
LEMMA GotoType ==
  ASSUME TypeOK, attach.pc # "idle",
         \/ Return
         \/ \E label \in {"probe", "clear", "net", "link", "launch", "record"} : Goto(label)
  PROVE  /\ attach' \in [pc : {"idle", "probe", "clear", "net", "link", "launch", "record"},
                resource : Resources \union {None}, descriptor : Descriptors \union {None}]
         /\ attach'.pc # "idle" => attach'.resource # None /\ attach'.descriptor # None
                                   /\ attach'.descriptor.socket # None
BY DEF TypeOK, Return, Goto, Idle

LEMMA AttachTypes == ASSUME TypeOK, TapIsKnown, Attach PROVE TypeOK'
<1>1. CASE Probe
  <2>1. attach.pc # "idle" /\ Socket \in Sockets
    BY <1>1, AttachShape DEF Probe
  <2>2. \E label \in {"probe", "clear", "net", "link", "launch", "record"} : Goto(label)
    BY <1>1 DEF Probe
  <2>3. misprobed' \subseteq Sockets
    BY <1>1, <2>1 DEF Probe, TypeOK
  <2> QED BY <1>1, <2>1, <2>2, <2>3, GotoType DEF Probe, TypeOK, host
<1>2. CASE ClearSocket
  <2>1. attach.pc # "idle" /\ Socket \in Sockets /\ Goto("net")
    BY <1>2, AttachShape DEF ClearSocket
  <2> QED BY <1>2, <2>1, GotoType DEF ClearSocket, TypeOK, history
<1>3. CASE Provision
  <2>1. attach.pc # "idle" /\ (Return \/ Goto("link") \/ Goto("launch"))
    BY <1>3 DEF Provision
  <2> QED BY <1>3, <2>1, GotoType DEF Provision, TypeOK, host, history
<1>4. CASE AddTap
  <2>1. attach.pc # "idle" /\ (Return \/ Goto("launch"))
    BY <1>4 DEF AddTap
  <2>2. tap' \in [Taps -> {"none", "down", "up"}]
    BY <1>4 DEF AddTap, TypeOK, TapIsKnown
  <2> QED BY <1>4, <2>1, <2>2, GotoType DEF AddTap, TypeOK, history
<1>5. CASE Launch
  <2>1. attach.pc # "idle" /\ (Return \/ Goto("record"))
    BY <1>5 DEF Launch
  <2>2. /\ vms' \subseteq Vm
        /\ file' \in [Sockets -> 1..MaxVms \union {None}]
        /\ started' \in 0..MaxVms
    <3>1. CASE UNCHANGED host
      BY <3>1 DEF host, TypeOK
    <3>2. CASE StartVm(Socket, attach.descriptor.net, attach.resource, BuildArgv(attach.descriptor))
      <4>1. /\ Socket \in Sockets /\ attach.resource \in Resources
            /\ attach.descriptor.net \in Taps \union {None}
            /\ BuildArgv(attach.descriptor) \in SUBSET Flags
        BY <1>5, <2>1, AttachShape, ArgvType DEF Launch, TapIsKnown
      <4> QED BY <3>2, <4>1, StartType
    <3>3. CASE /\ started < MaxVms /\ UNCHANGED vms
               /\ file' = [file EXCEPT ![Socket] = started + 1] /\ started' = started + 1
      <4>1. /\ started + 1 \in 1..MaxVms /\ started + 1 \in 0..MaxVms
            /\ file \in [Sockets -> 1..MaxVms \union {None}] /\ vms \subseteq Vm
        BY <3>3, VmAssumption DEF TypeOK
      <4>2. file' \in [Sockets -> 1..MaxVms \union {None}]
        BY <3>3, <4>1
      <4> QED BY <3>3, <4>1, <4>2
    <3> QED BY <1>5, <3>1, <3>2, <3>3 DEF Launch
  <2>3. escaped' \subseteq 1..MaxVms
    <3>1. started \in Nat /\ (started < MaxVms => started + 1 \in 1..MaxVms)
      BY VmAssumption DEF TypeOK
    <3> QED BY <1>5, <3>1 DEF Launch, StartVm, TypeOK
  <2>4. UNCHANGED <<reconcile, managed, misprobed, tap>>
    BY <1>5 DEF Launch, host
  <2> QED BY <2>1, <2>2, <2>3, <2>4, GotoType DEF TypeOK
<1>6. CASE RecordManaged
  <2>1. attach.pc # "idle" /\ Return
    BY <1>6 DEF RecordManaged, Record
  <2>2. [resource |-> attach.resource, socket |-> Socket,
         vm_name |-> attach.descriptor.vm_name] \in Entry
    BY <2>1, AttachShape DEF Entry
  <2>3. managed' \in [Resources -> Entry \union {None}]
    BY <1>6, <2>2 DEF RecordManaged, Record, NewEntry, TypeOK
  <2>4. escaped' \subseteq 1..MaxVms
    BY <1>6 DEF RecordManaged, Record, PutAside, TypeOK, Vm
  <2>5. UNCHANGED <<reconcile, vms, file, tap, started, misprobed>>
    BY <1>6 DEF RecordManaged, Record, host
  <2> QED BY <2>1, <2>3, <2>4, <2>5, GotoType DEF TypeOK
<1> QED BY <1>1, <1>2, <1>3, <1>4, <1>5, <1>6 DEF Attach

LEMMA NextType == ASSUME TypeOK, TapIsKnown, [Next]_vars PROVE TypeOK'
<1>1. ASSUME NEW d \in Descriptors, AttachBegin(d.id, d) PROVE TypeOK'
  <2>1. None # d /\ d.id \in Resources
    BY VmAssumption DEF Descriptor
  <2> QED BY <1>1, <2>1, VmAssumption DEF AttachBegin, TypeOK, host, history
<1>2. CASE Attach
  BY <1>2, AttachTypes
<1>3. CASE ReconcileBegin
  BY <1>3 DEF ReconcileBegin, TypeOK, host, history
<1>4. CASE Reconcile
  <2>1. CASE RemoveVm
    <3>1. PICK e \in reconcile.todo :
            \/ /\ reconcile' = [reconcile EXCEPT !.todo = @ \ {e}]
               /\ UNCHANGED host
            \/ \E vm \in vms :
                 /\ Serves(vm, e.socket)
                 /\ vms' = vms \ {vm}
                 /\ file' = [file EXCEPT ![e.socket] = None]
                 /\ reconcile' = [pc |-> "drop", current |-> e, todo |-> reconcile.todo \ {e}]
                 /\ UNCHANGED <<tap, started>>
      BY <2>1 DEF RemoveVm
    <3>2. e \in Entry /\ e # None /\ reconcile.pc = "remove"
      BY <2>1, VmAssumption DEF TypeOK, RemoveVm
    <3> QED BY <2>1, <3>1, <3>2 DEF RemoveVm, TypeOK, host, history, Entry
  <2>2. CASE DropManaged
    <3>1. reconcile.current \in Entry /\ reconcile.current.resource \in Resources
      BY <2>2 DEF DropManaged, TypeOK, Entry
    <3> QED BY <2>2, <3>1 DEF DropManaged, TypeOK, host, history
  <2>3. CASE ReconcileEnd
    BY <2>3 DEF ReconcileEnd, TypeOK, host, history, IdleReconcile
  <2> QED BY <1>4, <2>1, <2>2, <2>3 DEF Reconcile
<1>5. CASE VmCrash
  BY <1>5 DEF VmCrash, TypeOK, history
<1>6. ASSUME NEW s \in Sockets, OperatorStart(s) PROVE TypeOK'
  <2>1. StartVm(s, None, None, {}) /\ {} \in SUBSET Flags
    BY <1>6 DEF OperatorStart
  <2>2. /\ vms' \subseteq Vm
        /\ file' \in [Sockets -> 1..MaxVms \union {None}]
        /\ started' \in 0..MaxVms
    BY <2>1, StartType
  <2> QED BY <1>6, <2>2 DEF OperatorStart, TypeOK, history
<1>7. CASE Restart
  <2>1. {[vm EXCEPT !.owner = None] : vm \in vms} \subseteq Vm
    BY DEF TypeOK, Vm
  <2> QED BY <1>7, <2>1 DEF Restart, TypeOK, Idle, IdleReconcile
<1>8. CASE UNCHANGED vars
  BY <1>8 DEF vars, host, history, TypeOK
<1> QED BY <1>1, <1>2, <1>3, <1>4, <1>5, <1>6, <1>7, <1>8 DEF Next

LEMMA NextTap == ASSUME TypeOK, TapIsKnown, [Next]_vars PROVE TapIsKnown'
<1>1. CASE UNCHANGED attach
  BY <1>1 DEF TapIsKnown
<1>2. CASE attach'.pc \notin {"link", "launch"}
  BY <1>2 DEF TapIsKnown
<1>3. CASE Provision
  BY <1>3 DEF Provision, TapIsKnown, TypeOK, Goto, Return, Idle
<1>4. CASE AddTap
  BY <1>4 DEF AddTap, TapIsKnown, TypeOK, Goto, Return, Idle
<1> QED
  <2>1. UNCHANGED attach \/ attach'.pc \notin {"link", "launch"} \/ Provision \/ AddTap
    <3>1. ASSUME NEW d \in Descriptors, AttachBegin(d.id, d)
          PROVE  UNCHANGED attach \/ attach'.pc = "probe"
      BY <3>1 DEF AttachBegin
    <3>2. CASE Attach
      BY <3>2 DEF Attach, Probe, ClearSocket, Launch, RecordManaged, Record, Goto, Return, Idle, TypeOK
    <3>3. CASE ReconcileBegin \/ Reconcile \/ VmCrash \/ UNCHANGED vars
      BY <3>3 DEF ReconcileBegin, Reconcile, RemoveVm, DropManaged, ReconcileEnd, VmCrash, vars
    <3>4. ASSUME NEW s \in Sockets, OperatorStart(s) PROVE UNCHANGED attach
      BY <3>4 DEF OperatorStart
    <3>5. CASE Restart
      BY <3>5 DEF Restart, Idle
    <3> QED BY <3>1, <3>2, <3>3, <3>4, <3>5 DEF Next
  <2> QED BY <2>1, <1>1, <1>2, <1>3, <1>4

-----------------------------------------------------------------------------
(* One VM per socket *)

\* A VM that starts on a free socket is the only one there.
LEMMA StartSockets ==
  ASSUME TypeOK, SocketInv, NEW s \in Sockets, NEW t, NEW owner, NEW flags,
         StartVm(s, t, owner, flags), misprobed' = misprobed
  PROVE  /\ VmsAreNumbered' /\ FileIsTheVms'
         /\ \A vm \in vms' : vm \in vms \/ vm.id = started + 1
         /\ \A q \in Sockets \ {s} : file'[q] = file[q]
<1> DEFINE new == [id |-> started + 1, socket |-> s, tap |-> t, owner |-> owner, flags |-> flags]
<1>1. /\ vms' = vms \union {new} /\ started' = started + 1
      /\ file' = [file EXCEPT ![s] = started + 1] /\ file[s] = None
      /\ file \in [Sockets -> 1..MaxVms \union {None}]
      /\ started \in Nat /\ started < MaxVms
  BY VmAssumption DEF StartVm, TypeOK
<1>2. new.id = started + 1 /\ new.socket = s
  OBVIOUS
<1> HIDE DEF new
<1>3. \A vm \in vms : vm.id \in Nat /\ vm.id <= started /\ vm.socket \in Sockets /\ vm.id \in 1..MaxVms
  BY VmAssumption DEF TypeOK, Vm, SocketInv, VmsAreNumbered
<1>4. VmsAreNumbered'
  <2>1. \A vm \in vms' : vm.id <= started'
    BY <1>1, <1>2, <1>3
  <2>2. ASSUME NEW v \in vms', NEW w \in vms', v.id = w.id PROVE v = w
    <3>1. CASE v \in vms /\ w \in vms
      BY <3>1, <2>2 DEF SocketInv, VmsAreNumbered
    <3>2. CASE v = new \/ w = new
      BY <3>2, <2>2, <1>1, <1>2, <1>3
    <3> QED BY <3>1, <3>2, <1>1
  <2>3. \A q \in Sockets : file'[q] # None => file'[q] <= started'
    BY <1>1, VmAssumption DEF SocketInv, VmsAreNumbered
  <2> QED BY <2>1, <2>2, <2>3 DEF VmsAreNumbered
<1>5. FileIsTheVms'
  <2> SUFFICES ASSUME NEW vm \in vms', vm.socket \notin misprobed PROVE file'[vm.socket] = vm.id
    BY DEF FileIsTheVms
  <2>1. CASE vm = new
    BY <2>1, <1>1, <1>2
  <2>2. CASE vm \in vms
    <3>1. file[vm.socket] = vm.id /\ vm.id \in 1..MaxVms /\ vm.socket \in Sockets
      BY <2>2, <1>3 DEF SocketInv, FileIsTheVms
    <3>2. vm.socket # s
      BY <3>1, <1>1, VmAssumption
    <3> QED BY <3>1, <3>2, <1>1
  <2> QED BY <2>1, <2>2, <1>1
<1>6. \A vm \in vms' : vm \in vms \/ vm.id = started + 1
  BY <1>1, <1>2
<1> QED BY <1>1, <1>4, <1>5, <1>6

\* A step that starts, kills and unbinds nothing.
LEMMA QuietSockets ==
  ASSUME SocketInv, UNCHANGED <<vms, file, started, misprobed>>,
         attach' = attach \/ attach'.pc # "clear"
  PROVE  SocketInv'
BY DEF SocketInv, VmsAreNumbered, FileIsTheVms, ClearsWrecks, Live, Socket

LEMMA AttachSockets == ASSUME TypeOK, TapIsKnown, SocketInv, Attach PROVE SocketInv'
<1>1. CASE Probe
  <2>1. CASE UNCHANGED misprobed /\ (Goto("net") \/ Goto("record"))
    BY <1>1, <2>1, QuietSockets DEF Probe, host, Goto, TypeOK
  <2>2. CASE /\ file[Socket] # None
             /\ Goto("clear")
             /\ misprobed' = IF Live(file[Socket]) THEN misprobed \union {Socket} ELSE misprobed
    <3>1. UNCHANGED <<vms, file, started>> /\ misprobed \subseteq misprobed' /\ Socket' = Socket
      BY <1>1, <2>2 DEF Probe, host, Goto, TypeOK, Socket
    <3>2. VmsAreNumbered' /\ FileIsTheVms'
      BY <3>1 DEF SocketInv, VmsAreNumbered, FileIsTheVms
    <3>3. ClearsWrecks'
      BY <3>1, <2>2 DEF ClearsWrecks, Live
    <3> QED BY <3>2, <3>3 DEF SocketInv
  <2> QED BY <1>1, <2>1, <2>2 DEF Probe
<1>2. CASE ClearSocket
  <2>1. /\ UNCHANGED <<vms, started, misprobed>>
        /\ file' = file \/ file' = [file EXCEPT ![Socket] = None]
        /\ Socket \in Sockets /\ attach.pc = "clear" /\ file \in [Sockets -> 1..MaxVms \union {None}]
    BY <1>2, AttachShape DEF ClearSocket, TypeOK, history
  <2>2. attach'.pc # "clear"
    BY <1>2 DEF ClearSocket, Goto, TypeOK
  <2>3. FileIsTheVms'
    <3> SUFFICES ASSUME NEW vm \in vms, vm.socket \notin misprobed PROVE file'[vm.socket] = vm.id
      BY <2>1 DEF FileIsTheVms
    <3>1. file[vm.socket] = vm.id /\ vm.socket \in Sockets
      BY DEF SocketInv, FileIsTheVms, TypeOK, Vm
    <3>2. vm.socket # Socket
      BY <3>1, <2>1 DEF SocketInv, ClearsWrecks, Live
    <3> QED BY <3>1, <3>2, <2>1
  <2> QED BY <2>1, <2>2, <2>3 DEF SocketInv, VmsAreNumbered, ClearsWrecks, TypeOK
<1>3. CASE Provision
  BY <1>3, QuietSockets DEF Provision, host, history, Goto, Return, Idle, TypeOK
<1>4. CASE AddTap
  BY <1>4, QuietSockets DEF AddTap, history, Goto, Return, Idle, TypeOK
<1>5. CASE Launch
  <2>1. attach'.pc # "clear" /\ UNCHANGED misprobed /\ Socket \in Sockets
    BY <1>5, AttachShape DEF Launch, Goto, Return, Idle, TypeOK
  <2>2. CASE UNCHANGED host
    BY <2>1, <2>2, QuietSockets DEF host
  <2>3. CASE StartVm(Socket, attach.descriptor.net, attach.resource, BuildArgv(attach.descriptor))
    BY <2>1, <2>3, StartSockets DEF SocketInv, ClearsWrecks
  <2>4. CASE /\ started < MaxVms /\ file[Socket] = None /\ UNCHANGED vms
             /\ file' = [file EXCEPT ![Socket] = started + 1] /\ started' = started + 1
    <3>1. /\ started \in Nat /\ file \in [Sockets -> 1..MaxVms \union {None}]
          /\ \A vm \in vms : vm.id \in 1..MaxVms /\ vm.socket \in Sockets
      BY VmAssumption DEF TypeOK, Vm
    <3>2. VmsAreNumbered'
      BY <2>4, <3>1, VmAssumption DEF SocketInv, VmsAreNumbered
    <3>3. FileIsTheVms'
      BY <2>1, <2>4, <3>1, VmAssumption DEF SocketInv, FileIsTheVms
    <3> QED BY <2>1, <3>2, <3>3 DEF SocketInv, ClearsWrecks
  <2> QED BY <1>5, <2>2, <2>3, <2>4 DEF Launch
<1>6. CASE RecordManaged
  BY <1>6, QuietSockets DEF RecordManaged, Record, host, Return, Idle
<1> QED BY <1>1, <1>2, <1>3, <1>4, <1>5, <1>6 DEF Attach

\* VMs that go, with their files or without, or that pass to another process.
LEMMA FewerSockets ==
  ASSUME TypeOK, SocketInv, UNCHANGED <<attach, started, misprobed>>,
         NEW s \in Sockets, NEW gone \in vms, vms' = vms \ {gone},
         \/ file' = file
         \/ Serves(gone, s) /\ file' = [file EXCEPT ![s] = None]
  PROVE  SocketInv'
<1>1. VmsAreNumbered'
  BY DEF SocketInv, VmsAreNumbered, TypeOK
<1>2. CASE file' = file
  BY <1>1, <1>2 DEF SocketInv, FileIsTheVms, ClearsWrecks, Live, Socket
<1>3. CASE Serves(gone, s) /\ file' = [file EXCEPT ![s] = None]
  <2>1. gone.socket = s /\ file[s] = gone.id /\ file \in [Sockets -> 1..MaxVms \union {None}]
    BY <1>3 DEF Serves, TypeOK
  <2>2. FileIsTheVms'
    <3> SUFFICES ASSUME NEW vm \in vms, vm # gone, vm.socket \notin misprobed
                 PROVE  file'[vm.socket] = vm.id
      BY DEF FileIsTheVms
    <3>1. file[vm.socket] = vm.id /\ vm.id # gone.id /\ vm.socket \in Sockets
      BY DEF SocketInv, FileIsTheVms, VmsAreNumbered, TypeOK, Vm
    <3> QED BY <3>1, <2>1, <1>3
  <2>3. ClearsWrecks'
    <3> SUFFICES ASSUME attach.pc = "clear", Socket \notin misprobed
                 PROVE  file'[Socket] # None /\ \A vm \in vms' : vm.id # file'[Socket]
      BY DEF ClearsWrecks, Live, Socket
    <3>1. file[Socket] # None /\ ~Live(file[Socket]) /\ Socket \in Sockets
      BY AttachShape DEF SocketInv, ClearsWrecks
    <3>2. Socket # s
      BY <3>1, <2>1 DEF Live
    <3> QED BY <3>1, <3>2, <2>1, <1>3 DEF Live
  <2> QED BY <1>1, <2>2, <2>3 DEF SocketInv
<1> QED BY <1>2, <1>3

LEMMA NextSockets == ASSUME TypeOK, TapIsKnown, SocketInv, [Next]_vars PROVE SocketInv'
<1>1. ASSUME NEW d \in Descriptors, AttachBegin(d.id, d) PROVE SocketInv'
  BY <1>1, QuietSockets DEF AttachBegin, host, history
<1>2. CASE Attach
  BY <1>2, AttachSockets
<1>3. CASE ReconcileBegin \/ DropManaged \/ ReconcileEnd \/ UNCHANGED vars
  BY <1>3, QuietSockets DEF ReconcileBegin, DropManaged, ReconcileEnd, vars, host, history
<1>4. CASE RemoveVm
  <2>1. CASE UNCHANGED host
    BY <1>4, <2>1, QuietSockets DEF RemoveVm, host, history
  <2>2. ASSUME NEW e \in reconcile.todo, NEW vm \in vms, Serves(vm, e.socket),
               vms' = vms \ {vm}, file' = [file EXCEPT ![e.socket] = None],
               UNCHANGED <<tap, started>>
        PROVE  SocketInv'
    <3>1. e.socket \in Sockets
      BY DEF TypeOK, Entry
    <3> QED BY <1>4, <2>2, <3>1, FewerSockets DEF RemoveVm, history
  <2> QED BY <1>4, <2>1, <2>2 DEF RemoveVm
<1>5. CASE VmCrash
  <2>1. PICK vm \in vms : vms' = vms \ {vm}
    BY <1>5 DEF VmCrash
  <2>2. vm.socket \in Sockets
    BY DEF TypeOK, Vm
  <2> QED BY <1>5, <2>1, <2>2, FewerSockets DEF VmCrash, history
<1>6. ASSUME NEW s \in Sockets, OperatorStart(s) PROVE SocketInv'
  <2>1. StartVm(s, None, None, {}) /\ UNCHANGED <<attach, misprobed>> /\ file[s] = None
    BY <1>6 DEF OperatorStart, StartVm, history
  <2>2. VmsAreNumbered' /\ FileIsTheVms' /\ (\A vm \in vms' : vm \in vms \/ vm.id = started + 1)
        /\ \A q \in Sockets \ {s} : file'[q] = file[q]
    BY <2>1, StartSockets
  <2>3. ClearsWrecks'
    <3> SUFFICES ASSUME attach.pc = "clear", Socket \notin misprobed
                 PROVE  file'[Socket] # None /\ \A vm \in vms' : vm.id # file'[Socket]
      BY <2>1 DEF ClearsWrecks, Live, Socket
    <3>1. file[Socket] # None /\ ~Live(file[Socket]) /\ Socket \in Sockets
      BY AttachShape DEF SocketInv, ClearsWrecks
    <3>2. file'[Socket] = file[Socket]
      BY <3>1, <2>1, <2>2
    <3>3. file[Socket] # started + 1
      BY <3>1, VmAssumption DEF SocketInv, VmsAreNumbered, TypeOK
    <3> QED BY <3>1, <3>2, <3>3, <2>2 DEF Live
  <2> QED BY <2>2, <2>3 DEF SocketInv
<1>7. CASE Restart
  <2>1. \A vm \in vms' : \E old \in vms : vm.id = old.id /\ vm.socket = old.socket
                                         /\ vm = [old EXCEPT !.owner = None]
    BY <1>7 DEF Restart, TypeOK, Vm
  <2>2. UNCHANGED <<file, started, misprobed>> /\ attach'.pc # "clear"
    BY <1>7 DEF Restart, Idle
  <2>3. VmsAreNumbered'
    BY <2>1, <2>2 DEF SocketInv, VmsAreNumbered
  <2>4. FileIsTheVms'
    BY <2>1, <2>2 DEF SocketInv, FileIsTheVms
  <2> QED BY <2>2, <2>3, <2>4 DEF SocketInv, ClearsWrecks
<1> QED BY <1>1, <1>2, <1>3, <1>4, <1>5, <1>6, <1>7 DEF Next, Reconcile

LEMMA OneVm == ASSUME SocketInv PROVE OneVmPerSocket
BY DEF SocketInv, FileIsTheVms, VmsAreNumbered, OneVmPerSocket

-----------------------------------------------------------------------------
(* The map of managed VMs *)

\* A step that leaves the map and reconcile alone: a VM that starts is not this
\* process's own, or has escaped, or is about to be recorded.
LEMMA QuietMap ==
  ASSUME TypeOK, MapInv, UNCHANGED <<reconcile, managed>>,
         escaped \subseteq escaped', misprobed \subseteq misprobed',
         \A vm \in vms : AboutToRecord(vm) => AboutToRecord(vm)',
         \A vm \in vms' : vm \in vms \/ vm.owner = None \/ vm.id \in escaped'
                                     \/ AboutToRecord(vm)'
  PROVE  MapInv'
<1>1. EntriesAreKeyed' /\ ReconciledIsManaged' /\ TodoIsKeyed'
  BY DEF MapInv, EntriesAreKeyed, ReconciledIsManaged, TodoIsKeyed
<1>2. ASSUME NEW vm \in vms', vm.owner # None, Known(vm)'
      PROVE  AboutToRecord(vm)' \/ (vm \in vms /\ Known(vm))
  BY <1>2 DEF Known
<1>3. TodoIsManaged'
  <2> SUFFICES ASSUME NEW e \in reconcile.todo, managed[e.resource] # e,
                      NEW vm \in vms', vm.owner = e.resource, Known(vm)'
               PROVE  AboutToRecord(vm)'
    BY DEF TodoIsManaged
  <2>1. vm.owner # None
    BY VmAssumption DEF TypeOK, Entry
  <2> QED BY <2>1, <1>2 DEF MapInv, TodoIsManaged
<1>4. DropIsDead'
  <2> SUFFICES ASSUME reconcile.pc = "drop",
                      NEW vm \in vms', vm.owner = reconcile.current.resource, Known(vm)'
               PROVE  AboutToRecord(vm)'
    BY DEF DropIsDead
  <2>1. vm.owner # None
    BY VmAssumption DEF TypeOK, Entry
  <2> QED BY <2>1, <1>2 DEF MapInv, DropIsDead
<1>5. LaunchedIsManaged'
  <2> SUFFICES ASSUME NEW vm \in vms', vm.owner # None, Known(vm)'
               PROVE  \/ managed[vm.owner] # None /\ managed[vm.owner].socket = vm.socket
                      \/ AboutToRecord(vm)'
    BY DEF LaunchedIsManaged, Known, AboutToRecord
  <2>1. CASE AboutToRecord(vm)'
    BY <2>1
  <2>2. CASE vm \in vms /\ Known(vm)
    <3>1. \/ managed[vm.owner] # None /\ managed[vm.owner].socket = vm.socket
          \/ AboutToRecord(vm)
      BY <2>2 DEF MapInv, LaunchedIsManaged, Known, AboutToRecord
    <3> QED BY <3>1, <2>2
  <2> QED BY <2>1, <2>2, <1>2
<1> QED BY <1>1, <1>3, <1>4, <1>5 DEF MapInv

\* A step of attach before the launch: nothing is about to be recorded yet.
LEMMA QuietAttach ==
  ASSUME TypeOK, MapInv, UNCHANGED <<reconcile, managed, escaped>>, vms' \subseteq vms,
         misprobed \subseteq misprobed', attach' = attach \/ attach.pc # "record"
  PROVE  MapInv'
<1>1. \A vm \in vms : AboutToRecord(vm) => AboutToRecord(vm)'
  BY DEF AboutToRecord, Socket
<1> QED BY <1>1, QuietMap

LEMMA LaunchMap ==
  ASSUME TypeOK, MapInv, Launch
  PROVE  MapInv'
<1>1. /\ attach.pc = "launch" /\ UNCHANGED <<reconcile, managed, misprobed>>
      /\ escaped \subseteq escaped'
  BY DEF Launch
<1>2. \A vm \in vms : AboutToRecord(vm) => AboutToRecord(vm)'
  BY <1>1 DEF AboutToRecord
<1>3. ASSUME NEW vm \in vms', vm \notin vms PROVE vm.id \in escaped' \/ AboutToRecord(vm)'
  <2>1. /\ StartVm(Socket, attach.descriptor.net, attach.resource, BuildArgv(attach.descriptor))
        /\ Goto("record") \/ escaped' = escaped \union {started + 1}
    BY <1>3 DEF Launch, host
  <2>2. vm.id = started + 1 /\ vm.owner = attach.resource /\ vm.socket = Socket
    BY <2>1, <1>3 DEF StartVm
  <2>3. CASE Goto("record")
    BY <2>2, <2>3, <1>1 DEF Goto, TypeOK, AboutToRecord, Socket
  <2> QED BY <2>1, <2>2, <2>3
<1> QED BY <1>1, <1>2, <1>3, QuietMap

\* An entry recorded over another puts aside the VMs it takes out of sight.
LEMMA RecordMap ==
  ASSUME TypeOK, MapInv, RecordManaged
  PROVE  MapInv'
<1> DEFINE r == attach.resource
           entry == [resource |-> r, socket |-> Socket, vm_name |-> attach.descriptor.vm_name]
<1>1. /\ UNCHANGED <<reconcile, vms, misprobed>> /\ attach'.pc = "idle"
      /\ attach.pc = "record" /\ r \in Resources /\ managed' = [managed EXCEPT ![r] = entry]
      /\ managed \in [Resources -> Entry \union {None}]
      /\ escaped' = IF managed[r] = None THEN escaped ELSE escaped \union PutAside(r)
  BY AttachShape DEF RecordManaged, Record, NewEntry, host, Return, Idle, TypeOK
<1>2. entry.resource = r /\ entry.socket = Socket /\ entry # None
  <2>1. entry \in Entry
    BY <1>1, AttachShape DEF Entry
  <2> QED BY <2>1, VmAssumption
<1> HIDE DEF entry
<1>3. \A vm \in vms : Known(vm)' => Known(vm)
  BY <1>1 DEF Known
<1>4. ASSUME Reconciling(r), NEW vm \in vms, vm.owner = r PROVE ~Known(vm)'
  <2>1. managed[r] # None
    BY <1>4 DEF MapInv, ReconciledIsManaged, Reconciling
  <2> QED BY <2>1, <1>1, <1>4 DEF PutAside, Known
<1>5. \A vm \in vms : vm.owner # r => ~AboutToRecord(vm)
  BY DEF AboutToRecord
<1>6. EntriesAreKeyed' /\ ReconciledIsManaged' /\ TodoIsKeyed'
  <2>1. \A e \in reconcile.todo : e.resource \in Resources
    BY DEF TypeOK, Entry
  <2>2. reconcile.pc = "drop" => reconcile.current.resource \in Resources
    BY DEF TypeOK, Entry
  <2> QED BY <1>1, <1>2, <2>1, <2>2 DEF MapInv, EntriesAreKeyed, ReconciledIsManaged, TodoIsKeyed
<1>7. TodoIsManaged'
  <2> SUFFICES ASSUME NEW e \in reconcile.todo, managed'[e.resource] # e,
                      NEW vm \in vms, vm.owner = e.resource, Known(vm)'
               PROVE  FALSE
    BY <1>1 DEF TodoIsManaged
  <2>1. e.resource # r
    BY <1>4 DEF Reconciling
  <2>2. managed'[e.resource] = managed[e.resource]
    BY <2>1, <1>1 DEF TypeOK, Entry
  <2> QED BY <2>1, <2>2, <1>3, <1>5 DEF MapInv, TodoIsManaged
<1>8. DropIsDead'
  <2> SUFFICES ASSUME reconcile.pc = "drop",
                      NEW vm \in vms, vm.owner = reconcile.current.resource, Known(vm)'
               PROVE  FALSE
    BY <1>1 DEF DropIsDead
  <2>1. vm.owner # r
    BY <1>4 DEF Reconciling
  <2> QED BY <2>1, <1>3, <1>5 DEF MapInv, DropIsDead
<1>9. LaunchedIsManaged'
  <2> SUFFICES ASSUME NEW vm \in vms, vm.owner # None, Known(vm)'
               PROVE  managed'[vm.owner] # None /\ managed'[vm.owner].socket = vm.socket
    BY <1>1 DEF LaunchedIsManaged, Known
  <2>1. vm.owner \in Resources
    BY DEF TypeOK, Vm
  <2>2. \/ managed[vm.owner] # None /\ managed[vm.owner].socket = vm.socket
        \/ vm.owner = r /\ vm.socket = Socket
    BY <1>3 DEF MapInv, LaunchedIsManaged, Known
  <2>3. CASE vm.owner = r /\ vm.socket = Socket
    BY <2>1, <2>3, <1>1, <1>2
  <2>4. CASE vm.owner # r
    BY <2>1, <2>2, <2>4, <1>1
  <2>5. CASE vm.owner = r /\ vm.socket # Socket
    BY <2>2, <2>5, <1>1 DEF PutAside, Known
  <2> QED BY <2>3, <2>4, <2>5
<1> QED BY <1>6, <1>7, <1>8, <1>9 DEF MapInv

LEMMA RemoveMap ==
  ASSUME TypeOK, SocketInv, MapInv, RemoveVm
  PROVE  MapInv'
<1>1. UNCHANGED <<attach, managed, history>> /\ reconcile.pc = "remove"
  BY DEF RemoveVm
<1>2. PICK e \in reconcile.todo :
        \/ /\ reconcile' = [reconcile EXCEPT !.todo = @ \ {e}]
           /\ UNCHANGED host
        \/ \E vm \in vms :
             /\ Serves(vm, e.socket)
             /\ vms' = vms \ {vm}
             /\ file' = [file EXCEPT ![e.socket] = None]
             /\ reconcile' = [pc |-> "drop", current |-> e, todo |-> reconcile.todo \ {e}]
             /\ UNCHANGED <<tap, started>>
  BY DEF RemoveVm
<1>3. e \in Entry /\ e # None /\ e.resource \in Resources /\ e.resource # None
  BY VmAssumption DEF TypeOK, Entry
<1>4. /\ vms' \subseteq vms /\ reconcile'.todo = reconcile.todo \ {e}
      /\ reconcile'.pc = "remove" \/ (reconcile'.pc = "drop" /\ reconcile'.current = e)
  BY <1>1, <1>2 DEF host, TypeOK
<1>5. \A vm : (Known(vm)' <=> Known(vm)) /\ (AboutToRecord(vm)' <=> AboutToRecord(vm))
  BY <1>1 DEF Known, AboutToRecord, Socket, history
<1>6. EntriesAreKeyed' /\ ReconciledIsManaged' /\ TodoIsKeyed'
  BY <1>1, <1>4 DEF MapInv, EntriesAreKeyed, ReconciledIsManaged, TodoIsKeyed
<1>7. TodoIsManaged'
  BY <1>1, <1>4, <1>5 DEF MapInv, TodoIsManaged
<1>8. LaunchedIsManaged'
  BY <1>1, <1>4 DEF MapInv, LaunchedIsManaged, Socket, history
<1>9. DropIsDead'
  <2>1. CASE reconcile' = [reconcile EXCEPT !.todo = @ \ {e}]
    BY <2>1, <1>1 DEF DropIsDead, TypeOK
  <2>2. ASSUME NEW vm \in vms, Serves(vm, e.socket), vms' = vms \ {vm}
        PROVE  DropIsDead'
    <3> SUFFICES ASSUME reconcile'.pc = "drop", reconcile'.current = e,
                        NEW w \in vms \ {vm}, w.owner = e.resource, Known(w)
                 PROVE  AboutToRecord(w)
      BY <2>2, <1>4, <1>5 DEF DropIsDead
    <3>1. CASE managed[e.resource] # e
      BY <3>1 DEF MapInv, TodoIsManaged
    <3>2. CASE managed[e.resource] = e /\ ~AboutToRecord(w)
      <4>1. w.socket = e.socket /\ w.socket \notin misprobed
        BY <3>2, <1>3 DEF MapInv, LaunchedIsManaged, AboutToRecord, Known
      <4> QED BY <4>1, <2>2, OneVm DEF OneVmPerSocket, Serves
    <3> QED BY <3>1, <3>2
  <2> QED BY <1>2, <2>1, <2>2
<1> QED BY <1>6, <1>7, <1>8, <1>9 DEF MapInv

LEMMA DropMap ==
  ASSUME TypeOK, MapInv, DropManaged
  PROVE  MapInv'
<1> DEFINE c == reconcile.current
<1>1. /\ UNCHANGED <<attach, vms, history>> /\ reconcile.pc = "drop"
      /\ managed' = [managed EXCEPT ![c.resource] = None]
      /\ managed \in [Resources -> Entry \union {None}]
      /\ reconcile'.pc = "remove" /\ reconcile'.todo = reconcile.todo
      /\ c \in Entry /\ c.resource \in Resources
  BY DEF DropManaged, host, TypeOK, Entry
<1>2. \A vm : (Known(vm)' <=> Known(vm)) /\ (AboutToRecord(vm)' <=> AboutToRecord(vm))
  BY <1>1 DEF Known, AboutToRecord, Socket, history
<1>3. \A e \in reconcile.todo : e.resource \in Resources /\ managed'[e.resource] = managed[e.resource]
  BY <1>1 DEF MapInv, TodoIsKeyed, TypeOK, Entry
<1>4. EntriesAreKeyed' /\ ReconciledIsManaged' /\ TodoIsKeyed' /\ DropIsDead'
  BY <1>1, <1>3 DEF MapInv, EntriesAreKeyed, ReconciledIsManaged, TodoIsKeyed, DropIsDead
<1>5. TodoIsManaged'
  BY <1>1, <1>2, <1>3 DEF MapInv, TodoIsManaged
<1>6. LaunchedIsManaged'
  <2> SUFFICES ASSUME NEW vm \in vms, vm.owner # None, Known(vm), ~AboutToRecord(vm)
               PROVE  managed'[vm.owner] # None /\ managed'[vm.owner].socket = vm.socket
    BY <1>1, <1>2 DEF LaunchedIsManaged, Known, AboutToRecord, history
  <2>1. vm.owner # c.resource
    BY <1>1 DEF MapInv, DropIsDead
  <2>2. vm.owner \in Resources
    BY DEF TypeOK, Vm
  <2>3. managed[vm.owner] # None /\ managed[vm.owner].socket = vm.socket
    BY DEF MapInv, LaunchedIsManaged, Known, AboutToRecord
  <2> QED BY <2>1, <2>2, <2>3, <1>1
<1> QED BY <1>4, <1>5, <1>6 DEF MapInv

LEMMA NextMap == ASSUME TypeOK, SocketInv, MapInv, [Next]_vars PROVE MapInv'
<1>1. ASSUME NEW d \in Descriptors, AttachBegin(d.id, d) PROVE MapInv'
  BY <1>1, QuietAttach DEF AttachBegin, host, history
<1>2. CASE Attach
  <2>1. CASE Probe
    BY <2>1, QuietAttach DEF Probe, host
  <2>2. CASE ClearSocket
    BY <2>2, QuietAttach DEF ClearSocket, history
  <2>3. CASE Provision
    BY <2>3, QuietAttach DEF Provision, host, history
  <2>4. CASE AddTap
    BY <2>4, QuietAttach DEF AddTap, history
  <2> QED BY <1>2, <2>1, <2>2, <2>3, <2>4, LaunchMap, RecordMap DEF Attach
<1>3. CASE ReconcileBegin
  <2>1. /\ UNCHANGED <<attach, managed, vms, history>> /\ reconcile'.pc = "remove"
        /\ reconcile'.todo = {managed[r] : r \in Resources} \ {None}
    BY <1>3 DEF ReconcileBegin, host
  <2>2. ReconciledIsManaged' /\ TodoIsKeyed' /\ TodoIsManaged' /\ DropIsDead'
    BY <2>1 DEF MapInv, EntriesAreKeyed, ReconciledIsManaged, TodoIsKeyed, TodoIsManaged, DropIsDead
  <2> QED BY <2>1, <2>2 DEF MapInv, EntriesAreKeyed, LaunchedIsManaged, Socket, history
<1>4. CASE Reconcile
  <2>1. CASE ReconcileEnd
    BY <2>1 DEF ReconcileEnd, IdleReconcile, host, history, MapInv, EntriesAreKeyed,
                ReconciledIsManaged, TodoIsKeyed, TodoIsManaged, DropIsDead, LaunchedIsManaged, Socket
  <2> QED BY <1>4, <2>1, RemoveMap, DropMap DEF Reconcile
<1>5. CASE VmCrash
  BY <1>5, QuietAttach DEF VmCrash, history
<1>6. ASSUME NEW s \in Sockets, OperatorStart(s) PROVE MapInv'
  <2>1. \A vm \in vms' : vm \in vms \/ vm.owner = None
    BY <1>6 DEF OperatorStart, StartVm
  <2>2. UNCHANGED <<attach, reconcile, managed, history>>
    BY <1>6 DEF OperatorStart
  <2>3. \A vm \in vms : AboutToRecord(vm) => AboutToRecord(vm)'
    BY <2>2 DEF AboutToRecord, Socket
  <2> QED BY <2>1, <2>2, <2>3, QuietMap DEF history
<1>7. CASE Restart
  <2>1. \A vm \in vms' : vm.owner = None
    BY <1>7 DEF Restart, TypeOK, Vm
  <2> QED BY <1>7, <2>1 DEF Restart, Idle, IdleReconcile, MapInv, EntriesAreKeyed,
            ReconciledIsManaged, TodoIsKeyed, TodoIsManaged, DropIsDead, LaunchedIsManaged
<1>8. CASE UNCHANGED vars
  BY <1>8, QuietAttach DEF vars, host, history
<1> QED BY <1>1, <1>2, <1>3, <1>4, <1>5, <1>6, <1>7, <1>8 DEF Next

-----------------------------------------------------------------------------
(* Theorems *)

\* The inductive invariant of the adapter and its host, through every crash,
\* restart and failure of a tool.
THEOREM VmInvariant == Spec => []VmInv
<1>1. VmInv /\ [Next]_vars => VmInv'
  BY NextType, NextTap, NextSockets, NextMap DEF VmInv
<1> QED BY <1>1, InitInv, PTL DEF Spec

\* Every variable keeps its type: an attach that goes on has a socket, and a VM
\* is launched with a tap that is known or none (attach, provision).
THEOREM VmTypeCorrect == Spec => []TypeOK
<1>1. VmInv => TypeOK
  BY DEF VmInv
<1> QED BY <1>1, VmInvariant, PTL

\* No two live VMs share an API socket unless a probe failed on a running VM:
\* what attach removes before it launches is a wreck (vm_is_running, launch_vm).
THEOREM OneVmEach == Spec => []OneVmPerSocket
<1>1. VmInv => OneVmPerSocket
  BY OneVm DEF VmInv
<1> QED BY <1>1, VmInvariant, PTL

\* A VM that this process launched stays known to it while it lives, however
\* attaches interleave with a reconcile that works on a snapshot of the map,
\* except on a socket where the probe of a live VM failed, after a launch that
\* could not be polled, or when a second vm_name of its resource has put it
\* aside, with another socket or under a reconcile (record_managed, reconcile).
THEOREM LaunchedKnown == Spec => []LaunchedIsManaged
<1>1. VmInv => LaunchedIsManaged
  BY DEF VmInv, MapInv
<1> QED BY <1>1, VmInvariant, PTL
=============================================================================
