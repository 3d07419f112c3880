\* Two watchers, reorganisations shallower than the confirmations, restarts.
CONSTANTS
  v = v
  w = w
  alice = alice
  bob = bob
  nobody = nobody
  nft = nft
  Watchers = {v, w}
  Confirmations = 3
  Txs = {1, 2, 3}
  Outputs <- MCOutputs
  Nobody = nobody
  MaxReorg = 2
  MaxReorgs = 2
  MaxFailures = 0
  MaxRestarts = 2
  MaxHeight = 5
SYMMETRY WatcherSymmetry
SPECIFICATION Spec
INVARIANTS
  TypeOK
  IndicesDense
  CreditsCovered
PROPERTIES
  ImplementsDepositLedger
CHECK_DEADLOCK FALSE
