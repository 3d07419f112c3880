CONSTANTS
  N = 3
  MaxRuns = 2
  MaxFaults = 1
SPECIFICATION Spec
INVARIANTS
  Agreement
CHECK_DEADLOCK FALSE
