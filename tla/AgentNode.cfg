\* Two agents started for one node, over and over, and four keys in all.
CONSTANTS
  n1 = n1
  n2 = n2
  Nodes = {n1, n2}
  Procs = {p1, p2}
  NodeOf <- Assignment
  MaxIds = 4
SPECIFICATION FairSpec
INVARIANTS TypeOK AddressOutlivesAgent KeptIsShared
PROPERTIES KeyIsKept FleetReports AgentComesUp
