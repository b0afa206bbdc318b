\* Times outgrow an int, as nanoseconds do after two seconds.
CONSTANTS
  MaxIds = 2
  Quarantine = 5
  IntLimit = 2
  MaxNow = 6
SPECIFICATION Spec
PROPERTY QuarantineKept
