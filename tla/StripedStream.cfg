SPECIFICATION FairSpec
CONSTANTS
  N = 3
  L = 2
  MaxBlocks = 4
CHECK_DEADLOCK FALSE
INVARIANTS TypeOK InOrder StreamInv
PROPERTIES ImplementsFifo AllArrive
