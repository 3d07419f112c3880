\* Two deposits, a payout, and everything that may go wrong once: a reorganisation,
\* the node, a reseed, whole or stopped half-way (if passes and syncs exclude each other).
CONSTANTS
  CHECKPOINT_DEPTH = 3
  PoolOf <- MCPoolOf
  Names <- MCNames
  Deposits = {1, 2}
  Confirmations = 2
  TreeLag = 1
  MaxBlocks = 2
  Exclusions = {TRUE, FALSE}
  MaxReorg = 1
  MaxReorgs = 1
  MaxPayouts = 1
  MaxReseeds <- OneIfExclusive
  MaxFailures = 1
  MaxHeight = 4
SPECIFICATION FairSpec
INVARIANTS
  TypeOK
  TreesAreTheChains
  HeldIsUnspent
  OwnPayoutsAreKnown
PROPERTIES
  ImplementsDepositLedger
  ConfirmedIsCredited
CHECK_DEADLOCK FALSE
