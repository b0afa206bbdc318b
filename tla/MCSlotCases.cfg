\* Two slots; three connects, or two of them and a reload.
CONSTANTS
  a1 = a1
  b1 = b1
  Persons <- TwoPeople
  NumSlots = 2
  MaxConnects = 2
  MaxReloads = 0
  Nil = Nil
SPECIFICATION CasesSpec
INVARIANTS OneSlot LayersAgree PlayersPeers
SYMMETRY Symmetric
CHECK_DEADLOCK FALSE
