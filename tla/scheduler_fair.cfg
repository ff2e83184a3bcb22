SPECIFICATION OwnerSpec
CONSTANTS
  VCpu = {v1, v2}
  Thread = {t1}
  NULL = NULL
  MaxCpu = 1
  U32 = 16
PROPERTIES
  FairPick
