\* Snapshots that may be kept for a shorter time than they travel.
CONSTANTS
  Contents = {a, b}
  MaxParts = 2
  Keep = 1
  InitEvery = 1
  RecoverEvery = 2
  MaxErrors = 1
  MaxDelay = 1
  MaxResets = 0
  Takeovers = FALSE
  None = None
SYMMETRY Symmetric
SPECIFICATION CasesSpec
INVARIANT ContentRight
PROPERTY ViewForward
