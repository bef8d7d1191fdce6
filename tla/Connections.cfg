SPECIFICATION FairSpec
CONSTANTS
  Containers = {c1, c2}
  MaxReqs = 2
  Hosts = 3
  Chosen = {2}
  MaxConns = 2
  MaxDels = 2
  MaxPid = 2
  MaxStarts = 1
  MaxFaults = 1
INVARIANTS TypeOK Connected NothingLost WaitingIsServed
PROPERTY Answered
CHECK_DEADLOCK FALSE
