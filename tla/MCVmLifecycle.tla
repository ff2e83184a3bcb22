--------------------------- MODULE MCVmLifecycle ---------------------------
(* VmLifecycle for TLC: vmA with vCPUs a0 and a1, as far as the            *)
(* configuration names them, and vmB with none.                            *)
EXTENDS VmLifecycle

CONSTANTS vmA, vmB, a0, a1

MCVmOf      == [v \in VCpu |-> vmA]
MCVcpuId    == [v \in VCpu |-> IF v = a1 THEN 1 ELSE 0]
MCVcpuCount == [vm \in VM |-> Cardinality({v \in VCpu : MCVmOf[v] = vm})]
=============================================================================
