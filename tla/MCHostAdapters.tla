--------------------------- MODULE MCHostAdapters ---------------------------
(***************************************************************************)
(* Instance of HostAdapters.  What an operator registers by hand is a      *)
(* peer's store that both the store and the network adapter take, or a     *)
(* card of this host under a name of its own, by the address NVML gives.   *)
(***************************************************************************)
EXTENDS HostAdapters

Hand == {
  Entry("storage", "peer", {"virtio-fs", "path", "socket", "endpoint", "protocol"}, "available", "none"),
  Entry("gpu", "local", {"pci_bus_id"}, "available", "none") }
=============================================================================
