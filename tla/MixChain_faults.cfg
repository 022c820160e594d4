SPECIFICATION Spec
CONSTANTS
  N = 2
  MaxRound = 1
  MaxFaults = 1
CHECK_DEADLOCK FALSE
INVARIANTS IngestExclusive IdleHeld CallsFindRound DownstreamDone NoOvertaking
PROPERTY ImplementsPipeline
