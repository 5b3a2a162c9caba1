CONSTANTS
  Threads = {t1, t2}
  Modules = {m1}
  Deliberate = {}
  Frozen = {}
  Serial = FALSE
  MaxCalls = 3
SPECIFICATION Spec
INVARIANT Restored
CHECK_DEADLOCK FALSE
