SPECIFICATION Spec
CONSTANTS
  Tracker = {t1}
  NULL = NULL
  TotalPages = 2
  WordBits = 2
  BatchLimit = 2
  Converged = 1
  MaxIterations = 2
  U64 = 8
INVARIANTS
  NoWriteLost
