SPECIFICATION Spec
CONSTANTS
  Threads = {t1, t2}
  NoThread = NoThread
  N = 4
  Threshold = 1
  MaxPending = 3
SYMMETRY ThreadSymmetry
INVARIANT NeverCatches
