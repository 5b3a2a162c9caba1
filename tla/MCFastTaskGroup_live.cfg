CONSTANTS
  Tasks = {c1, c2}
  Parent = parent
  Outsider = outsider
  Eager = {c1, c2}
  AwaitedBy = FALSE
  MaxCancels = 1
SPECIFICATION CleanupSpec
PROPERTY ExitCompletes
PROPERTY AbortCompletes
