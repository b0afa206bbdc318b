\* A buffer of two chunks; six chunks one way, or one each way, or two.
CONSTANTS
  MaxSequence = 6
  BufferSlots = 2
  PacketChunks = 2
  ServerSends = 6
  ClientSends = 1
  MaxSent <- MCMaxSent
  MaxFlight = 2
  Overflows = FALSE
  Endings = TRUE
SPECIFICATION CasesSpec
INVARIANT Recoverable
PROPERTIES ImplementsChannel OldWasTaken
CHECK_DEADLOCK FALSE
