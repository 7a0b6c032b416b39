SPECIFICATION Spec
CONSTANTS
  Word = 2
  Words = 4
  SocketCounts = {1, 2}
  Kinds = {"tcpio", "data", "bin", "hex", "badHex", "quick"}
  Lengths = {0, 1, 3, 4, 5, 8, 10}
  Rooms = {3, 8, 12, 16, 18}
  FirstBlocks = 2
  MaxExchanges = 2
  MaxPipe = 2
CHECK_DEADLOCK FALSE
INVARIANTS RoundTrip NoOverrun LeftOver MalformedHex
PROPERTIES ExchangeEnds
