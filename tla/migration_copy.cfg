SPECIFICATION Spec
CONSTANTS
  Tracker = {t1, t2}
  NULL = NULL
  TotalPages = 3
  WordBits = 2
  BatchLimit = 2
  Converged = 1
  MaxIterations = 1
  U64 = 8
INVARIANTS
  TypeOK
  FirstCopyPending
  EveryPageCopied
  RaceFreeExact
PROPERTY PrecopyEnds
