CONSTANTS
  Slots = {s1, s2}
  Users = {u1, u2}
  Logins = {l1}
  Ids = {a1, a2}
  NumericNames = {u2}
  ExpGains = {125}
  MaxLevel = 2
  MaxSpent = 2
  MaxRequests = 5
  NoUser = NoUser
  NoSession = NoSession
  NoRow = NoRow
  NoClosure = NoClosure
SPECIFICATION Spec
SYMMETRY SlotSymmetry
INVARIANTS PointsConserved ExpBelowThreshold NamesUnique InGameIsLoggedIn RowsComplete
