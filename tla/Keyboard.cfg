SPECIFICATION FairSpec
CONSTANTS
  Press = {"a"}
  Release = {"A", "E"}
  Known = {"A"}
  MaxKeys = 3
  MaxFails = 1
  MaxLoads = 2
INVARIANTS KbInv LastCodeNotLost
PROPERTIES LastReleasePrinted UnloadFinishes
CHECK_DEADLOCK FALSE
