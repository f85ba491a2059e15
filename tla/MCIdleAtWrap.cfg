SPECIFICATION ScanFairSpec
CONSTANTS
  c0 = c0
  c1 = c1
  Cores <- TwoCores
  Slots = 3
  SeqSpan = 256
  WrapGap = 240
  JumpGap = 15
  FirstSeqs = {253}
  MaxRecords = 5
  MaxStarts = 1
PROPERTY CallbackEnds
