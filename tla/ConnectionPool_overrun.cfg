\* The same ring, when the main thread submits whatever it likes.
CONSTANTS
  Reads = {r1, r2, r3}
  Writes = {w1}
  Modes = {"WRITE"}
  RingSize = 2
  MaxWaiting = 5
  Nil = Nil
SPECIFICATION Spec
INVARIANT AllWorkedThrough
