SPECIFICATION Spec
CONSTANTS
  Nodes = {n1}
  Names = {a, b}
  Subnets = {s1}
  Reqs = {r1, r2}
  Deletes = TRUE
  vlanCount = 2
  Hosts = 2
  MaxReqs = 3
  MaxFaults = 1
SYMMETRY Symmetry
INVARIANTS TypeOK UniqueVNI GatewaysMarked
PROPERTIES WritesOwnVNI NetworksImmutable
CHECK_DEADLOCK FALSE
