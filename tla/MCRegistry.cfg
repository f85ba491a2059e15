SPECIFICATION RegistryFairSpec
CONSTANTS
  Files = {f1, f2}
  NoFile = NoFile
  Cores = {c0, c1}
INVARIANTS RegistryTypeOK TimerServesAll NoDanglingContext OwnerCanRelease
PROPERTIES OwnershipKept CloseFrees
