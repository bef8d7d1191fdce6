SPECIFICATION FairSpec
CONSTANTS
  Procs = {p1, p2, p3}
  IPCount = 2
  ByteBits = 2
  Chosen = {1}
  MaxOps = 4
  MaxFaults = 1
INVARIANTS TypeOK CallInv Exclusive NoLeak
PROPERTIES WritesOwnBit ImplementsPool CallsReturn
CHECK_DEADLOCK FALSE
