SPECIFICATION DriveSpec
CONSTANTS
  Distances <- MCDistances
  Angles <- MCAngles
  ByteBase = 8
  MaxCommands = 3
  MaxTicks = 3
PROPERTIES
  MovesTheDistanceAsked
