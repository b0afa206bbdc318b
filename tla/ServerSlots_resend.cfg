\* One person with two addresses, two slots, timeout protection.
CONSTANTS
  Persons = {{a1, a2}}
  NumSlots = 2
  MaxConnects = 3
  MaxReloads = 0
  Nil = Nil
SPECIFICATION Spec
INVARIANT ResentAsSent
CHECK_DEADLOCK FALSE
