\* The stream ends after MaxBytes: not a deadlock.
SPECIFICATION AssemblerSpec
CHECK_DEADLOCK FALSE
CONSTANTS
  PacketSize <- MCPacketSize
  MaxRead <- MCMaxRead
  MaxBytes <- MCMaxBytes
INVARIANTS
  AssemblerTypeOK
  BufferedBytesInOrder
  TimelyDelivery
  NoOverrun
PROPERTIES
  ImplementsPacketStream
