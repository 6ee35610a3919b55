\* One slot, which an operator's card may name too, one card, one RDMA port, two
\* leases, and two changes of the hardware: a device may go and come back.
CONSTANTS
  Slots = {s1}
  Ports = {p1}
  Cards = {c1}
  Tagged = {c1}
  Fixed = {"research"}
  Operator <- Hand
  OperatorAt = s1
  Adapters = {"local-resource", "network-resource", "lemonade", "fabric-store", "rdma", "gpu-local", "gpu-vfio", "gpu-wgpu-remote"}
  MaxLeases = 2
  MaxChanges = 2
SPECIFICATION FairSpec
INVARIANT TypeOK
PROPERTIES AttachIsFresh 
