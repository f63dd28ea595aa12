SPECIFICATION FairSpec
CONSTANTS
  c1 = c1
  c2 = c2
  Client <- TwoClients
  Worker <- Four
  Iter = 3
  SeInit = 2
  R = 3
  FdLimit = 5
  MaxSignals = 1
  MaxKills = 0
  MaxCrashes = 0
INVARIANTS OwnReply LetterComing
PROPERTIES RequestsFinish NoticedInterruptStops
CHECK_DEADLOCK FALSE
