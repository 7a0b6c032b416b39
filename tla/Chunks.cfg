SPECIFICATION Spec
CONSTANTS
  Word = 4
  Base = 16
  Files = 2
  Setups <- MCSetups
CHECK_DEADLOCK FALSE
INVARIANTS SenderStream DeliveredInOrder NothingReceived
PROPERTIES NeedSpins SendEnds
