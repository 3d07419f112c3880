\* A deposit at an issued address, and nothing that goes wrong.
CONSTANTS
  CHECKPOINT_DEPTH = 3
  PoolOf <- MCPoolOf
  Names <- MCNames
  Deposits = {3}
  Confirmations = 2
  TreeLag = 1
  MaxBlocks = 2
  Exclusions = {TRUE}
  MaxReorg = 1
  MaxReorgs = 0
  MaxPayouts = 0
  MaxReseeds <- NoReseed
  MaxFailures = 0
  MaxHeight = 4
SPECIFICATION FairSpec
PROPERTIES
  ConfirmedIsCredited
CHECK_DEADLOCK FALSE
