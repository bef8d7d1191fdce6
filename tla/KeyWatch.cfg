SPECIFICATION FairSpec
CONSTANTS
  Listeners = {l1, l2}
  Calls = {c1, c2}
  NoListener = none
  MaxWrites = 3
  MaxOthers = 1
INVARIANTS TypeOK CaughtUp
PROPERTIES ToldInOrder ToldLatest
CHECK_DEADLOCK FALSE
