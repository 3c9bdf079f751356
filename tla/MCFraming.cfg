\* The line falls silent when MaxBytes have arrived: not a deadlock.
SPECIFICATION FramingSpec
CHECK_DEADLOCK FALSE
CONSTANTS
  PacketSize <- MCPacketSize
  MaxRead <- MCMaxRead
  MaxBytes <- MCMaxBytes
  MagicSize = 1
  LengthSize = 1
  DataSize = 2
  MaxLost = 5
INVARIANTS
  FramingTypeOK
  LosslessLineIsErrorFree
  AcceptedInOrder
PROPERTIES
  FramingNeverRecovers
