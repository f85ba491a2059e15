SPECIFICATION ScanFairSpec
CONSTANTS
  c0 = c0
  c1 = c1
  Cores <- TwoCores
  Slots = 3
  SeqSpan = 256
  WrapGap = 240
  JumpGap = 15
  FirstSeqs = {0, 253, 254}
  MaxRecords = 8
  MaxStarts = 2
INVARIANTS ScanTypeOK
PROPERTIES TakenInOrder TakenWithoutGap RecordsOnly CallbackEndsUnlessWrapped CatchesUp
