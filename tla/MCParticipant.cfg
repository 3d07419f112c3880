\* One holder, payouts of zero to two actions: nonces, shapes, messages,
\* randomizers and the deadline.
CONSTANTS
  h1 = h1
  h2 = h2
  r1 = r1
  r2 = r2
  m1 = m1
  m2 = m2
  a1 = a1
  a2 = a2
  Holders = {h1}
  RequestIds = {r1, r2}
  Sighashes = {m1, m2}
  Threshold = 2
  AlphaVectors <- MCAlphaVectors
  CommitmentMaps <- MCCommitmentMaps
  PackageLists <- MCPackageLists
  REQUEST_TTL_SECS = 2
  MaxNonces = 4
  MaxTime = 3
SYMMETRY CallSymmetry
SPECIFICATION Spec
INVARIANTS
  TypeOK
  NonceSignsOnce
  ShareKeepsCommitment
  AllSharesOrNone
PROPERTIES
  LostNonceStaysLost
  RequestsKeptUntilDeadline
CHECK_DEADLOCK FALSE
