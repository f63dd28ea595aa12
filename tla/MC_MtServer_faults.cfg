SPECIFICATION Spec
CONSTANTS
  c1 = c1
  c2 = c2
  Client <- TwoClients
  Worker <- Four
  Iter = 2
  SeInit = 2
  R = 3
  FdLimit = 3
  MaxSignals = 1
  MaxKills = 1
  MaxCrashes = 1
INVARIANTS RepliesNeverGoBack ServerInv OneLetterPerKill
CHECK_DEADLOCK FALSE
