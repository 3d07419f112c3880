\* A reseed that fails between the pools.
CONSTANTS
  CHECKPOINT_DEPTH = 3
  PoolOf <- MCPoolOf
  Names <- MCNames
  Deposits = {1, 2}
  Confirmations = 2
  TreeLag = 1
  MaxBlocks = 2
  Exclusions = {TRUE}
  MaxReorg = 1
  MaxReorgs = 0
  MaxPayouts = 0
  MaxReseeds <- OneIfExclusive
  MaxFailures = 1
  MaxHeight = 4
SPECIFICATION Spec
INVARIANTS
  NoBlockTwice
CHECK_DEADLOCK FALSE
