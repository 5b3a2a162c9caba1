CONSTANTS
  Tasks = {m, t}
  Main = m
  MaxOps = 2
  Pool = 1
  MaxTimeouts = 1
  MaxLoops = 2
  AutoLoop = TRUE
  None = None
SPECIFICATION Spec
INVARIANT TypeOK
INVARIANT OwnWake
PROPERTY AwaitsEnd
PROPERTY OpenLoopsHanded
CHECK_DEADLOCK FALSE
