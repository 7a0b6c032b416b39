SPECIFICATION Spec
CONSTANTS
  N = 2
  Blocks = 2
  Terminates = 2
  Cap = 1
  Setups <- MCSetups
CHECK_DEADLOCK FALSE
INVARIANTS NoSilentTruncation OutputFileStaysOpen ErrorClosesAll
PROPERTIES SessionEnds ImplementsStream TransferCompletes
