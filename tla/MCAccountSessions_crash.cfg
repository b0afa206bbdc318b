CONSTANTS
  Slots = {s1, s2}
  Users = {u1}
  Logins = {l1}
  Ids = {a1}
  NumericNames = {}
  ExpGains = {125}
  MaxLevel = 2
  MaxSpent = 2
  MaxRequests = 5
  NoUser = NoUser
  NoSession = NoSession
  NoRow = NoRow
  NoClosure = NoClosure
SPECIFICATION FairCrashSpec
INVARIANTS PointsBounded TablesExistWhenNeeded
PROPERTY SaveIsStored
