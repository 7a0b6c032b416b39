SPECIFICATION Spec
CONSTANTS
  Word = 8
  Words = 16
  SocketCounts = {1}
  Kinds = {"tcpio"}
  Lengths = {12}
  Rooms = {19}
  FirstBlocks = 10
  MaxExchanges = 1
  MaxPipe = 1
CHECK_DEADLOCK FALSE
INVARIANTS RoomSuffices
