SPECIFICATION FairSpec
CONSTANTS
  File <- Files
  Root = "root"
  NAME_MAX = 4
  PATH_MAX = 13
  FdLimit = 2
  Tree <- Trees
  MaxChanges = 1
INVARIANTS FtwInv EntryFound CompleteWalk
PROPERTY EndsWell
CHECK_DEADLOCK FALSE
