SPECIFICATION ModuleSpec
CONSTANTS
  Files = {f1, f2, f3}
  NoFile = NoFile
  Cores = {c0}
INVARIANTS NothingLeft GoesCleanly
PROPERTIES RefinesRegistry
CHECK_DEADLOCK FALSE
