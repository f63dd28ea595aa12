SPECIFICATION FileFairSpec
CONSTANTS
  Size = 6
  BufSize = 4
  MaxCreateFails = 1
INVARIANTS FileInv AllPrinted SecondWriterWins
PROPERTY ProgramEnds
CHECK_DEADLOCK FALSE
