SPECIFICATION Spec
CONSTANTS
  Reqs = {q1, q2}
  Values = {v1}
  Default = v0
  Empty = none
  MaxReqs = 3
  MaxConns = 2
  MaxFaults = 1
INVARIANTS TypeOK NotedIsInstalled AddsDoNotMix AddInstallsBoth
CHECK_DEADLOCK FALSE
