SPECIFICATION PowerFairSpec
CONSTANTS
  CoreNums = {1, 2}
  Slots = 2
  MaxRecords = 3
  MaxLives = 2
INVARIANTS PowerTypeOK WalkInMemory SnapshotInMemory SuspendStops
PROPERTIES FromTheFirst CatchesUpAgain
