CONSTANTS
  Threads = {main}
  MainThread = main
  Runners = {r1}
  MaxNest = 2
  Initial <- FromPython
  Uses = {{r1}}
  MaxInterrupts = 0
  MaxDepth = 2
  MaxSets = 0
SPECIFICATION Spec
INVARIANT RestoredHowever
