SPECIFICATION DisciplinedSpec
CONSTANTS
  vmA = vmA
  vmB = vmB
  a0 = a0
  a1 = a1
  NULL = NULL
  VM = {vmA}
  VCpu = {a0}
  VmOf <- MCVmOf
  VcpuId <- MCVcpuId
  VcpuCount <- MCVcpuCount
  CpuCount = 1
  MaxVmId = 1
  MaxSessions = 1
INVARIANT NoRunAfterFree
