CONSTANTS
  BufferSize = 8
  PacketLengths <- MCPacketLengths
  MaxLength = 6
  SeedSize = 2
  Hellos <- MCHellos
  Packets <- MCPackets
  TxSpace = 7
  MaxSent = 2
  MaxSends = 3
SPECIFICATION Spec
INVARIANTS BuffersAgree CompressionSound
PROPERTIES  Outgoing PacketsDelivered BlockedWriteResumes
CHECK_DEADLOCK FALSE
