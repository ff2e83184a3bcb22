SPECIFICATION DisciplinedSpec
CONSTANTS
  vmA = vmA
  vmB = vmB
  a0 = a0
  a1 = a1
  NULL = NULL
  VM = {vmA, vmB}
  VCpu = {a0, a1}
  VmOf <- MCVmOf
  VcpuId <- MCVcpuId
  VcpuCount <- MCVcpuCount
  CpuCount = 2
  MaxVmId = 2
  MaxSessions = 1
INVARIANTS
  TypeOK
  QueueIntegrity
  QueuesHoldStarted
  RunningIsStarted
  VmListExact
  ShutdownLeavesNothing
PROPERTY CallReturns
