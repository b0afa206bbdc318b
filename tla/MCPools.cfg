\* Disciplined callers of the database queue; three jobs and two workers; a
\* ring of three slots, one of which stays free, and six queries; three ids,
\* and a quarantine that is, as in the code, more than twice what an int holds.
CONSTANTS
  Names = {n1, n2}
  Closures = {c1, c2, c3}
  NoClosure = NoClosure
  MaxRequests = 4
  Disciplined = TRUE
  Jobs = {j1, j2, j3}
  Workers = {w1, w2}
  Reads = {r1}
  Writes = {q1, q2}
  Modes = {"READ", "WRITE", "WRITE_BACKUP"}
  RingSize = 3
  MaxWaiting = 2
  MaxIds = 3
  Quarantine = 5
  IntLimit = 2
  MaxNow = 6
  Nil = Nil
SPECIFICATION PoolsSpec
INVARIANTS JobsKept PointerIsLive ListsComplete
PROPERTIES
  QueueIsFifo JobsDone DestroyReturns NothingLost RingIsFifo ShutdownEnds
  ImplementsAllocator
