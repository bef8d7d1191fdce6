SPECIFICATION MCSpec
CONSTANTS
  ByteBits = 5
  NBytes = 2
  Width = 3
  gatewayAddrs <- Candidates
  MaxRoutes = 2
  MaxFaults = 1
INVARIANTS TypeOK AvailableIsFree
PROPERTY ImplementsBitSet
CHECK_DEADLOCK FALSE
