\* One client, one mob and two places for what he shoots and casts.
CONSTANTS
  Entities = {m1, e1, e2}
  Mobs = {m1}
  WorkItems = {}
  Clients = {c1}
  Ids = {i1, i2, i3}
  SegmentIds = 0
  MobTicks = 2
  ItemTicks = 2
  HammerTicks = 1
  LuaReloads = FALSE
  Spells = FALSE
  Deaths = TRUE
  None = None
SPECIFICATION FairSpec
PROPERTY NoStarvation
