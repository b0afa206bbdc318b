\* Maps are offered over HTTP, the client has some of them on its disk.
CONSTANTS
  NumWorlds = 2
  NumChunks = 2
  Offered = {0, 1}
  MaxChanges = 3
  MaxRejoins = 0
  Nil = Nil
SPECIFICATION Spec
INVARIANT LastMapIsOwn
CHECK_DEADLOCK FALSE
