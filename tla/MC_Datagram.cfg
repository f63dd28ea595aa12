SPECIFICATION FairSpec
CONSTANTS
  Client = {"c1", "c2", "c3"}
  NameLen <- Lengths
  QueueLen = 2
  MaxSignals = 1
  MaxKills = 1
  MaxLives = 2
INVARIANTS DgramInv FailureHasCause
PROPERTY WaitingEnds
CHECK_DEADLOCK FALSE
