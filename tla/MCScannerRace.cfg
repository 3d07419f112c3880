\* A pass and a sync at once.
CONSTANTS
  CHECKPOINT_DEPTH = 3
  PoolOf <- MCPoolOf
  Names <- MCNames
  Deposits = {1}
  Confirmations = 2
  TreeLag = 1
  MaxBlocks = 2
  Exclusions = {FALSE}
  MaxReorg = 1
  MaxReorgs = 0
  MaxPayouts = 0
  MaxReseeds <- NoReseed
  MaxFailures = 0
  MaxHeight = 4
SPECIFICATION Spec
INVARIANTS
  NothingPassedOver
CHECK_DEADLOCK FALSE
