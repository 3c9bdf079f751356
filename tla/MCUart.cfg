SPECIFICATION UartSpec
CONSTANTS
  Size <- MCSize
  ByteBase = 3
  MaxOut = 7
  MaxIn = 7
INVARIANTS
  UartTypeOK
  OutputAligned
  InputAligned
PROPERTIES
  ExactBelowHalf
  BufferedIsSent
