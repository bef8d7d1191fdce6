SPECIFICATION FairSpec
CONSTANTS
  Nodes = {n1, n2}
  Names = {a}
  Subnets = {s1}
  Reqs = {r1, r2}
  Deletes = TRUE
  vlanCount = 2
  Hosts = 1
  MaxReqs = 2
  MaxFaults = 1
INVARIANT GatewaysMarked
PROPERTIES NodesFollow PrunesUnused
CHECK_DEADLOCK FALSE
