SPECIFICATION BalanceSpec
CONSTANTS
  VCpu = {v1, v2, v3}
  Thread = {t1, t2, t3}
  NULL = NULL
  MaxCpu = 2
  U32 = 16
INVARIANTS
  QueuesWhole
  Conserved
PROPERTIES
  CallsKeepReturning
