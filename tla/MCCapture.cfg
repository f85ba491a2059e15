SPECIFICATION FairSpec
CONSTANTS
  Threads = {t1, t2}
  NoThread = NoThread
  N = 3
  Threshold = 0
  MaxPending = 2
VIEW CaptureView
PROPERTIES ReaderWoken StopReturns
