\* One resource with a tap: the retry after a tap that could not be brought up.
CONSTANTS
  r1 = r1
  r2 = r2
  s1 = s1
  s2 = s2
  n1 = n1
  n2 = n2
  t1 = t1
  Resources = {r1}
  Sockets = {s1}
  Taps = {t1}
  Names = {n1}
  None = None
  MaxVms = 1
  Descriptors <- NetDescriptors
SPECIFICATION Spec
INVARIANT GuestIsReachable
