SPECIFICATION FairSpec
CONSTANTS
  B1 = B1
  F1 = F1
  F2 = F2
  Blocks <- MCBlocks
  Finds <- MCTwoFinds
  Attempts = 2
  MaxStops = 2
  NodeErrors = FALSE
CHECK_DEADLOCK FALSE
INVARIANT TypeOK
PROPERTIES KeepsPromise KeepsOnlyCopy ArchivedReachesNode
