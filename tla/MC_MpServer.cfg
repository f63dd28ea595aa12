SPECIFICATION FairSpec
CONSTANTS
  c1 = c1
  c2 = c2
  Client <- TwoClients
  Conn <- Five
  Iter = 4
  Burst = 1
  N = 2
  R = 2
  MaxEvents = 2
  MaxSignals = 1
  MaxKills = 1
  MaxCrashes = 1
INVARIANT MpInv
PROPERTIES ImplementsService EveryConnectionClosed NoticedInterruptStops
CHECK_DEADLOCK FALSE
