CONSTANTS
  Threads = {main, t1, t2}
  MainThread = main
  Requests <- MCRequests
  Cpus = 2
  Gil = TRUE
  MaxFaults = 2
  None = None
SPECIFICATION FairSpec
INVARIANT OnePool
INVARIANT NoPoolLeaked
PROPERTY RuntimeIsOnce
PROPERTY CallsReturn
