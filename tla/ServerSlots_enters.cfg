\* One client, one slot.
CONSTANTS
  Persons = {{b1}}
  NumSlots = 1
  MaxConnects = 2
  MaxReloads = 0
  Nil = Nil
SPECIFICATION FairSpec
PROPERTY EveryoneEnters
CHECK_DEADLOCK FALSE
