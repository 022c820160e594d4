SPECIFICATION FairSpec
CONSTANTS
  N = 3
  MaxRound = 1
  MaxFaults = 0
INVARIANTS IdleDriven
PROPERTIES ReleaseAfterHandoff RoundsComplete ConvoReclaimed
