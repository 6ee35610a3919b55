------------------------------ MODULE MCVmHost ------------------------------
(* Instance of VmHost: a resource that changes its name and its socket, and one
   that names the same socket. *)
EXTENDS VmHost

CONSTANTS r1, r2, s1, s2, n1, n2, t1

Plain ==
  [id |-> r1, device |-> TRUE, socket |-> s1, bootable |-> TRUE, vm_name |-> n1,
   net |-> None, flags |-> {}]

Networked == [Plain EXCEPT !.net = t1, !.flags = {"fs"}]

AllDescriptors ==
  {Networked,
   [Plain EXCEPT !.vm_name = n2, !.socket = s2],
   [Plain EXCEPT !.bootable = FALSE, !.net = "no tap"],
   [Plain EXCEPT !.id = r2],
   [Plain EXCEPT !.id = r2, !.socket = None]}

NetDescriptors == {Networked}
=============================================================================
