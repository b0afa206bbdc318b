\* One mob, one work item or rains, two places for what is spawned.
CONSTANTS
  Entities = {m1, w1, e1, e2}
  Mobs = {m1}
  WorkItems = {w1}
  Clients = {c1, c2}
  Ids = {i1, i2, i3, i4}
  SegmentIds = 0
  MobTicks = 2
  ItemTicks = 2
  HammerTicks = 1
  LuaReloads = FALSE
  Spells = FALSE
  Deaths = TRUE
  None = None
SYMMETRY Symmetric
SPECIFICATION CasesSpec
INVARIANTS NoSharedIds ListsExact RewardedOnce MissedMovedUp
