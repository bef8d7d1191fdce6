SPECIFICATION FairSpec
CONSTANTS
  Nodes = {n1, n2}
  Names = {a}
  Subnets = {s1}
  Reqs = {r1, r2}
  Deletes = FALSE
  vlanCount = 2
  Hosts = 2
  MaxReqs = 2
  MaxFaults = 0
PROPERTY NodesConverge
CHECK_DEADLOCK FALSE
