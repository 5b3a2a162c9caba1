CONSTANTS
  Threads = {main}
  MainThread = main
  MaxRuns = 1
  MaxSleeps = 1
  MaxInterrupts = 0
  None = None
SPECIFICATION Spec
INVARIANT NoTaskAbandoned
CHECK_DEADLOCK FALSE
