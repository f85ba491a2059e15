SPECIFICATION PowerSpec
CONSTANTS
  CoreNums = {2}
  Slots = 2
  MaxRecords = 1
  MaxLives = 1
INVARIANT InfoIsRegion
