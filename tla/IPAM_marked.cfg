SPECIFICATION Spec
CONSTANTS
  Procs = {p1, p2}
  IPCount = 4
  ByteBits = 4
  Chosen = {}
  MaxOps = 2
  MaxFaults = 0
INVARIANT UsedIsMarked
CHECK_DEADLOCK FALSE
