SPECIFICATION FairSpec
CONSTANTS
  Pid = {1, 2, 3}
  Files <- FourFiles
  Links = {"exe"}
  MaxOthers = 2
  MaxFails = 1
INVARIANTS ReaderInv Told NoneLeft
PROPERTY ScriptEnds
CHECK_DEADLOCK FALSE
