\* The client is sent to another world once.
CONSTANTS
  NumWorlds = 2
  NumChunks = 2
  Offered = {}
  MaxChanges = 1
  MaxRejoins = 0
  Nil = Nil
SPECIFICATION Spec
INVARIANT OnlineIsLoaded
CHECK_DEADLOCK FALSE
