SPECIFICATION Spec
CONSTANTS
  Containers = {c1}
  MaxReqs = 1
  Hosts = 4
  Chosen = {}
  MaxConns = 1
  MaxDels = 1
  MaxPid = 1
  MaxStarts = 0
  MaxFaults = 0
INVARIANT MonitorStops
CHECK_DEADLOCK FALSE
