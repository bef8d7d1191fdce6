SPECIFICATION FairSpec
CONSTANTS
  Names = {a, b}
  Reqs = {r1}
  NoName = none
  MaxReqs = 4
  MaxFaults = 1
INVARIANTS TypeOK Isolated
PROPERTY RulesFollow
CHECK_DEADLOCK FALSE
