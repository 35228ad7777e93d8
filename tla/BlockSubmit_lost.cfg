SPECIFICATION Spec
CONSTANTS
  B1 = B1
  F1 = F1
  F2 = F2
  Blocks <- MCBlocks
  Finds <- MCOneFind
  Attempts = 1
  MaxStops = 1
  NodeErrors = FALSE
CHECK_DEADLOCK FALSE
INVARIANT UnconfirmedIsArchived
