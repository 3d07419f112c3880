\* A payout and its retry through a RemoteQuorum: a custodian lost, late frames, and
\* a clock that passes the deadline.  A payout over the participants of one process.
\* Two treasury actions whose caller used one request id.  The custodians are not
\* asked in the order of their ids.
CONSTANTS
  p = p
  q = q
  id = id
  m = m
  a1 = a1
  a2 = a2
  N = 3
  Threshold = 2
  Attempts = {p, q}
  Request <- MCRequest
  Sighash <- MCSighash
  AlphasOf <- MCAlphasOf
  Addresses <- Backwards
  Drivers = {"remote", "local", "treasury"}
  REQUEST_TTL_SECS = 1
  MaxNonces = 2
  MaxLost <- MCMaxLost
  Horizon <- MCHorizon
SPECIFICATION FairSpec
INVARIANTS
  TypeOK
  OnlyChosenContribute
  FailsForCause
PROPERTIES
  ImplementsThresholdSigning
  AttemptEnds
CHECK_DEADLOCK FALSE
