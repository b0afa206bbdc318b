\* The network is large enough to hold every packet of the instance.
CONSTANTS
  MaxSequence = 6
  BufferSlots = 2
  PacketChunks = 1
  ClientSends = 0
  ServerSends = 2
  MaxSent <- MCMaxSent
  MaxFlight = 8
  Overflows = FALSE
  Endings = FALSE
SPECIFICATION LiveSpec
PROPERTY AllAcknowledged
