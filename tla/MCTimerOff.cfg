SPECIFICATION RegistrySpec
CONSTANTS
  Files = {f1, f2, f3}
  NoFile = NoFile
  Cores = {c0, c1}
SYMMETRY RegistrySymmetry
INVARIANT RunsWhenAllStarted
