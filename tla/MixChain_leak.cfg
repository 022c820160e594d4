SPECIFICATION Spec
CONSTANTS
  N = 2
  MaxRound = 0
  MaxFaults = 1
CHECK_DEADLOCK FALSE
INVARIANTS LockedMeansBusy
