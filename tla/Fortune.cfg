SPECIFICATION Spec
CONSTANTS
  Reader = {"r"}
  Writer = {"w"}
  POT_SIZE = 6
  MaxLen = 3
  MaxFaults = 1
  MaxLoads = 2
INVARIANTS FortuneInv WholeCookies
PROPERTY ToldInOrder
CHECK_DEADLOCK FALSE
