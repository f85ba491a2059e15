SPECIFICATION StreamSpec
CONSTANTS
  Threads = {t1, t2}
  NoThread = NoThread
  N = 3
  Threshold = 0
  MaxPending = 2
  MaxRecords = 4
SYMMETRY ThreadSymmetry
INVARIANTS TypeOK StoreHasRoom ReadWithinLog WakeupDue CaptureInv StreamTypeOK ReadsInOrder FlushComplete
PROPERTIES CopyUndisturbed RefinesBoundedLog
