CONSTANTS
  Tasks = {c1, c2, c3}
  Parent = parent
  Outsider = outsider
  Eager = {c1, c2}
  AwaitedBy = TRUE
  MaxCancels = 2
SPECIFICATION Spec
INVARIANT TypeOK
INVARIANT NoOrphan
INVARIANT NoErrorLost
INVARIANT AbortReachesAll
INVARIANT CancelNotSwallowed
INVARIANT NoStrayCancel
PROPERTY KeepsContract
SYMMETRY Coroutines
