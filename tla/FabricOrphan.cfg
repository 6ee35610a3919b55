CONSTANTS
  r1 = r1  r2 = r2  n1 = n1  t1 = t1  t2 = t2
  store = store  unknown = unknown
  Absent = Absent  NoResource = NoResource  NoAdapter = NoAdapter
  NoThread = NoThread
  Thread = {t1, t2}
  Store = store
  Resource = {r1}
  Node = {n1}
  Descriptor <- OneDescriptor
  Inventory <- AllExclusive
  Discoverable = {}
  Adapter = {store}
  Registered = {store}
  Ttl = {1}
  StaleAfter = 1
  Ops = {"lease_exclusive", "unregister"}
  MaxCalls = 3
  MaxTime = 1
SPECIFICATION Spec
INVARIANT NoOrphanedLease
