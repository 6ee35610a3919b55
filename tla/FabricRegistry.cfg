CONSTANTS
  r1 = r1  r2 = r2  n1 = n1  t1 = t1  t2 = t2
  store = store  unknown = unknown
  Absent = Absent  NoResource = NoResource  NoAdapter = NoAdapter
  NoThread = NoThread
  Thread = {t1, t2}
  Store = store
  Resource = {r1}
  Node = {n1}
  Descriptor <- AnyDescriptor
  Inventory <- Alike
  Discoverable = {{}, {r1}}
  Adapter = {store, unknown}
  Registered = {store}
  Ttl = {1}
  StaleAfter = 0
  Ops = {"lease_exclusive", "renew_lease", "attach", "release", "register", "unregister", "heartbeat", "discover_local", "refresh_local", "evict_stale_nodes"}
  MaxCalls = 3
  MaxTime = 1
SPECIFICATION FairSpec
INVARIANT ValidLeaseIsKept
PROPERTIES CallsReturn ReleaseEndsLease
