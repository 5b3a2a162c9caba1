CONSTANTS
  Threads = {main, worker}
  MainThread = main
  Runners = {r1, r2}
  MaxNest = 2
  Initial <- Handlers
  Uses = {{}, {r1}}
  MaxInterrupts = 2
  MaxDepth = 2
  MaxSets = 1
SPECIFICATION Spec
INVARIANT TypeOK
INVARIANT RestoredAfterUse
INVARIANT InterruptibleWhileRunning
INVARIANT LossIsReported
