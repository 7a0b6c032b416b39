SPECIFICATION Spec
CONSTANTS
  Word = 2
  Base = 256
  Multiplier = 8
  MaxBlockSize = 16
  HexBuf = 2
  BinFiles <- MCBinFiles
  HexFiles <- MCHexFiles
  Ds8Files <- MCDs8Files
  BlockArgs = {4, 8, 9}
  ServerBlocks = {8, 16}
  SocketCounts = {1, 2}
  MaxFiles = 3
  MaxBlocks = 3
CHECK_DEADLOCK FALSE
INVARIANTS Faithful Ds8WellFormed NoOverrun NoFalseEnd
PROPERTIES ConversionEnds TransferEnds
