SPECIFICATION Spec
CONSTANTS
  N = 1
  Blocks = 2
  Terminates = 1
  Cap = 1
  Setups <- MCFin
CHECK_DEADLOCK FALSE
PROPERTIES ReceiveReturns
