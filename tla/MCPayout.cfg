\* Two payments, three payouts, and blocks until the first ones have expired.
CONSTANTS
  p = p
  q = q
  CHECKPOINT_DEPTH = 1
  Wants = {p, q}
  Owed <- MCOwed
  Shielded <- MCShielded
  Transparent <- MCTransparent
  Wallets <- MCWallets
  CrossAddress = {TRUE, FALSE}
  MARGINAL_FEE = 2
  EXPIRY_DELTA = 2
  MaxBuilds = 3
  MaxHeight = 5
SPECIFICATION Spec
INVARIANTS
  TypeOK
  Conserved
  FeeIsDue
  PaidOnce
  InFlightIsPending
CHECK_DEADLOCK FALSE
