SPECIFICATION VfsSpec
CONSTANTS
  ELEM_NUM = 4
  Mounter = {"m1", "m2", "m3"}
  MaxFails = 3
  MaxLoads = 3
INVARIANTS VfsInv MountedIsLoaded
CHECK_DEADLOCK FALSE
