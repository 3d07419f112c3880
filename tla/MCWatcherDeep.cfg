\* One watcher that is not restarted, reorganisations of any depth, failed views.
CONSTANTS
  v = v
  w = w
  alice = alice
  bob = bob
  nobody = nobody
  nft = nft
  Watchers = {w}
  Confirmations = 2
  Txs = {1, 2}
  Outputs <- MCOutputs
  Nobody = nobody
  MaxReorg = 5
  MaxReorgs = 3
  MaxFailures = 2
  MaxRestarts = 0
  MaxHeight = 5
SPECIFICATION Spec
INVARIANTS
  CreditedOnce
  AuditIsExact
CHECK_DEADLOCK FALSE
