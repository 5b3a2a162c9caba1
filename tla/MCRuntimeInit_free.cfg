CONSTANTS
  Threads = {main, t1, t2}
  MainThread = main
  Requests <- MCRequests
  Cpus = 2
  Gil = FALSE
  MaxFaults = 1
  None = None
SPECIFICATION Spec
INVARIANT TypeOK
INVARIANT LockFollowsBlock
INVARIANT HandleIsGlobal
PROPERTY CellsWrittenOnce
SYMMETRY OtherThreads
