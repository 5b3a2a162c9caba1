CONSTANTS
  Batches = {b1}
  Inputs <- Lists
  FailOn <- FailThree
  Timers = {k1}
  BlockingThreads = 1
  Word = 16
  Multiplier = 13
  Increment = 13
  Iterations = 2
  MaxFaults = 1
  LoopThread = loop
  Nobody = Nobody
SPECIFICATION FairSpec
INVARIANT TypeOK
INVARIANT PanicsAreRaised
INVARIANT NoneLeftBehind
PROPERTY KeepsContract
PROPERTY BatchReturns
