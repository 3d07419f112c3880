CONSTANTS
  N = 3
  MaxRuns = 2
  MaxFaults = 1
SPECIFICATION FairSpec
INVARIANTS
  TypeOK
  MutualView
  SameAsInMemory
PROPERTIES
  RunEnds
  Completes
CHECK_DEADLOCK FALSE
