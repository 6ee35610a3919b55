\* A resource that changes its name and socket, one that shares the socket, a tap,
\* crashes, restarts and an operator who starts VMs; at most two VMs in all.
CONSTANTS
  r1 = r1
  r2 = r2
  s1 = s1
  s2 = s2
  n1 = n1
  n2 = n2
  t1 = t1
  Resources = {r1, r2}
  Sockets = {s1, s2}
  Taps = {t1}
  Names = {n1, n2}
  None = None
  MaxVms = 2
  Descriptors <- AllDescriptors
SPECIFICATION FairSpec
INVARIANTS TypeOK OneVmPerSocket LaunchedIsManaged
PROPERTY CallsReturn
