SPECIFICATION FairSpec
CONSTANTS
  Nodes = {n0, n1, n2}
  Self = n0
  MyIP = n0
  MaxReqs = 2
  MaxChanges = 2
  MaxStarts = 1
  MaxFaults = 1
INVARIANTS TypeOK BridgeFirst NotifiedHasTunnel TunnelsKnown
PROPERTIES MembersReached ClusterServed
CHECK_DEADLOCK FALSE
