CONSTANTS
  Threads = {t1, t2}
  Modules = {m1, m2, md, mf}
  Deliberate = {md}
  Frozen = {mf}
  Serial = TRUE
  MaxCalls = 4
SPECIFICATION Spec
INVARIANT TypeOK
INVARIANT AllHooked
INVARIANT Restored
PROPERTY ReboundWithEntry
SYMMETRY Callers
CHECK_DEADLOCK FALSE
