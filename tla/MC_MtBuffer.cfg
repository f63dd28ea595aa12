SPECIFICATION BufferSpec
CONSTANTS
  w1 = w1
  w2 = w2
  w3 = w3
  w4 = w4
  w5 = w5
  Worker <- Threads
  SeInit = 3
  R = 2
SYMMETRY ThreadSymmetry
INVARIANT BufferInv
PROPERTY ImplementsStream
