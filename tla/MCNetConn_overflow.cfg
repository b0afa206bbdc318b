\* More chunks than the resend buffer holds.
CONSTANTS
  MaxSequence = 6
  BufferSlots = 2
  PacketChunks = 1
  ClientSends = 0
  ServerSends = 3
  MaxSent <- MCMaxSent
  MaxFlight = 1
  Overflows = TRUE
  Endings = TRUE
SPECIFICATION Spec
PROPERTY OldWasTaken
CHECK_DEADLOCK FALSE
