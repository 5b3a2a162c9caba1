CONSTANTS
  Threads = {m}
  MainThread = m
  Runners = {r}
  Initial = {"custom"}
  Cpus = 1
  MaxRuns = 2
  MaxSleeps = 2
  MaxInterrupts = 1
  None = None
SPECIFICATION RunSpec
INVARIANT RunTypeOK
INVARIANT AllUndone
INVARIANT OwnOutcome
INVARIANT LoopsUndone
PROPERTY ClosedLoopRests
PROPERTY CallReturns
CHECK_DEADLOCK FALSE
