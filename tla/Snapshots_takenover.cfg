CONSTANTS
  Contents = {a, b}
  MaxParts = 1
  Keep = 2
  InitEvery = 1
  RecoverEvery = 2
  MaxErrors = 1
  MaxDelay = 1
  MaxResets = 1
  Takeovers = TRUE
  None = None
SPECIFICATION Spec
INVARIANT ContentRight
