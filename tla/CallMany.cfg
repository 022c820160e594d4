SPECIFICATION FairSpec
CONSTANTS
  MaxCalls = 4
  Conns = 2
  ChanCap = 2
INVARIANTS NilMeansAll NoSendOnClosed
PROPERTY AllGoroutinesEnd
