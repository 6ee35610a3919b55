CONSTANTS
  r1 = r1  r2 = r2  n1 = n1  t1 = t1  t2 = t2
  store = store  unknown = unknown
  Absent = Absent  NoResource = NoResource  NoAdapter = NoAdapter
  NoThread = NoThread
  Thread = {t1, t2}
  Store = store
  Resource = {r1, r2}
  Node = {n1}
  Descriptor <- OneDescriptor
  Inventory <- AllExclusive
  Discoverable = {}
  Adapter = {store}
  Registered = {store}
  Ttl = {0, 2}
  StaleAfter = 1
  Ops = {"lease_exclusive", "renew_lease", "attach", "release"}
  MaxCalls = 5
  MaxTime = 2
SPECIFICATION Spec
SYMMETRY FullSymmetry
INVARIANTS TypeOK ValidLeaseIsKept AtMostOneHolder AttachUnderLease DetachNeverRefused
PROPERTY ImplementsLeasing
