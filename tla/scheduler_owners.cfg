SPECIFICATION OwnerSpec
CONSTANTS
  VCpu = {v1, v2}
  Thread = {t1, t2}
  NULL = NULL
  MaxCpu = 2
  U32 = 16
SYMMETRY Interchangeable
INVARIANTS
  TypeOK
  QueuesWhole
  Conserved
PROPERTIES
  RefinesRunQueues
