\* Two files of up to two whole chunks; two worlds; two slots and up to three
\* connects; snapshots that are not delayed, with a takeover.
CONSTANTS
  util = util
  init = init
  Names = {util, init}
  First <- TwoFiles
  MaxSize = 2
  MaxEdits = 2
  MaxReloads = 2
  NumWorlds = 2
  NumChunks = 2
  MaxChanges = 2
  MaxRejoins = 1
  Bob = Bob
  NumSlots = 2
  MaxConnects = 3
  Contents = {a, b}
  MaxParts = 1
  Keep = 1
  InitEvery = 1
  RecoverEvery = 2
  MaxErrors = 1
  MaxDelay = 0
  MaxResets = 1
  Nil = Nil
  None = None
SPECIFICATION ClientSpec
INVARIANTS CopiesInOrder StartedComplete MapsAreOwn
PROPERTIES Resolves SlotsFreed FilesEnd SeesItsWorld KeepsUp
CHECK_DEADLOCK FALSE
