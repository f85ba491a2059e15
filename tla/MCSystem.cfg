SPECIFICATION MCSpec
CONSTANTS
  Threads = {f1, f2}
  NoThread = NoThread
  N = 2
  Threshold = 0
  MaxPending = 2
  Cores = {c0, c1}
  Own = c0
  NoFile = NoFile
VIEW SystemView
SYMMETRY FileSymmetry
INVARIANTS SystemTypeOK CallbackHasInstances NoForeignRecords
PROPERTIES OnlyOwnerConsumes
CHECK_DEADLOCK FALSE
