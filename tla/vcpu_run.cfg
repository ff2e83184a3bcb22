SPECIFICATION NestedSpec
CONSTANTS
  MaxCalls = 2
  Ctx = {x, y}
  Record = {p, q}
  NULL = NULL
INVARIANTS
  TypeOK
  StatisticsExact
  L2Exact
PROPERTY StopEndsLoop
CHECK_DEADLOCK FALSE
