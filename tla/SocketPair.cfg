SPECIFICATION FairSpec
CONSTANTS
  N = 4
  MaxKills = 2
  MaxForkFails = 1
INVARIANT PairInv
PROPERTIES AllAnswered ParentStuckOnlyOnKilled
CHECK_DEADLOCK FALSE
