SPECIFICATION NoiseSpec
CONSTANTS
  NumCPU = 2
  MaxN = 3
  Chunks = 1
  MinStep = 2
  Goroutine = {1, 2}
  Cores = 2
  BufLen = 3
  Free = Free
  DropLen = 1
  MsgLen = 1
  KeyLen = 1
  MaxReads = 8
INVARIANTS EachOnce AllDone NoByteTwice FakesApart
PROPERTY Terminates
