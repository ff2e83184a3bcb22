------------------------- MODULE VmLifecycleProofs -------------------------
(***************************************************************************)
(* Proofs about VmLifecycle, for every number of VMs, vCPUs and CPUs:      *)
(* type correctness and the VM list under any caller, the run queues under *)
(* the disciplined caller.                                                 *)
(***************************************************************************)
EXTENDS VmLifecycle, LinkedListProofs, FiniteSetTheorems

\* The call in progress works on a live VM, inside the bounds of its loops.
CallOK ==
    call.op # "idle" => /\ up
                        /\ call.vm \in LiveVMs
                        /\ call.i <= VcpuCount[call.vm]
                        /\ call.lim <= VcpuCount[call.vm]

\* No VM outlives the hypervisor.
DownOK == ~up => LiveVMs = {} /\ ~sweeping

\* Ids already given are below the next one; a VM not yet allocated has the
\* null prev pointer that calloc will give it.
FreshOK ==
    /\ \A vm \in LiveVMs : id[vm] < next_vm_id
    /\ \A vm \in VM : state[vm] = "UNALLOCATED" => prev[vm] = NULL

\* hypervisor_shutdown: the VMs that are left are the one being destroyed
\* and those from the cursor on.
SweepOK ==
    sweeping =>
       /\ call.op # "idle" => call.op = "free" \/ (call.op = "stop" /\ call.destroy)
       /\ IF cursor = NULL
          THEN \A w \in LiveVMs : call.op # "idle" /\ w = call.vm
          ELSE /\ cursor \in LiveVMs
               /\ call.op # "idle" => call.vm # cursor
               /\ \A w \in LiveVMs : \/ id[w] <= id[cursor]
                                     \/ call.op # "idle" /\ w = call.vm

\* The allocated vCPUs are those of the live VMs, less the ones vm_destroy
\* has already freed.
AliveOK ==
    \A v \in VCpu :
        alive[v] <=> /\ VmOf[v] \in LiveVMs
                     /\ ~(call.op = "free" /\ call.vm = VmOf[v] /\ VcpuId[v] < call.i)

\* The inductive invariant of the VM list.
ListInv == /\ TypeOK /\ VmListExact
           /\ CallOK /\ DownOK /\ FreshOK /\ SweepOK /\ AliveOK

\* VmListExact and FreshOK do not see a step that keeps the list, the
\* counters and the set of live VMs.
LEMMA ListFrame ==
    ASSUME TypeOK, VmListExact, FreshOK,
           UNCHANGED <<vms, vm_count, next_vm_id, id, next, prev>>,
           LiveVMs' = LiveVMs,
           \A vm \in VM : state'[vm] = "UNALLOCATED" => state[vm] = "UNALLOCATED"
    PROVE  VmListExact' /\ FreshOK'
  BY DEF VmListExact, FreshOK, TypeOK

\* The initial state satisfies the invariant of the VM list.
LEMMA InitList == Init => ListInv
  <1> SUFFICES ASSUME Init PROVE ListInv
    OBVIOUS
  <1>1. LiveVMs = {}
    BY DEF Init, LiveVMs, Live
  <1>2. TypeOK
    <2>1. rq \in Heap(Node, NULL)
      BY InitConsistent DEF Init, Node
    <2>2. call \in Call
      BY DEF Init, Call, Returned
    <2>3. 0 \in Cpu /\ 1 \in 1 .. (MaxVmId + 1) /\ 0 \in 0..MaxSessions
      BY ConstantsAssumption DEF Cpu
    <2> QED
      BY <2>1, <2>2, <2>3 DEF Init, TypeOK, VmState, Heaps, Heap
  <1>3. VmListExact
    BY <1>1, FS_EmptySet DEF Init, VmListExact
  <1> QED
    BY <1>1, <1>2, <1>3 DEF Init, ListInv, CallOK, DownOK, FreshOK, SweepOK, AliveOK, Returned

-----------------------------------------------------------------------------
(* The steps that change the VM list.                                      *)

\* vm_create puts a VM with a fresh id at the head of the list.
LEMMA CreateList ==
    ASSUME ListInv, NEW vm \in VM, vm_create(vm)
    PROVE  ListInv'
  <1> USE DEF ListInv
  <1>1. LiveVMs' = LiveVMs \cup {vm} /\ vm \notin LiveVMs
    BY DEF vm_create, LiveVMs, Live, TypeOK
  <1>2. TypeOK'
    <2>1. \A v \in VCpu : VcpuId[v] % CpuCount \in Cpu
      BY ConstantsAssumption DEF Cpu
    <2>2. physical_cpu' \in [VCpu -> Cpu]
      BY <2>1 DEF vm_create, TypeOK
    <2>3. alive' \in [VCpu -> BOOLEAN]
      BY DEF vm_create
    <2>4. next_vm_id' \in 1 .. (MaxVmId + 1) /\ id' \in [VM -> Nat] /\ vm_count' \in Nat
      BY ConstantsAssumption DEF vm_create, TypeOK
    <2>5. /\ next' \in [VM -> VM \cup {NULL}] /\ prev' \in [VM -> VM \cup {NULL}]
          /\ vms' \in VM \cup {NULL} /\ state' \in [VM -> VmState]
      BY DEF vm_create, TypeOK, VmState
    <2> QED
      BY <2>2, <2>3, <2>4, <2>5 DEF vm_create, TypeOK, sweepVars
  <1>3. call.op = "idle" /\ ~sweeping /\ up /\ call' = call /\ sweeping' = sweeping /\ up' = up
    BY DEF vm_create, Idle, sweepVars
  <1>4. vm_count' = Cardinality(LiveVMs')
    <2>1. IsFiniteSet(LiveVMs)
      BY ConstantsAssumption, FS_Subset DEF LiveVMs
    <2> QED
      BY <2>1, <1>1, FS_AddElement DEF VmListExact, vm_create
  <1>5. VmListExact'
    BY <1>1, <1>3, <1>4, ConstantsAssumption DEF VmListExact, vm_create, TypeOK, FreshOK, LiveVMs
  <1>6. FreshOK'
    <2>1. \A w \in LiveVMs' : id'[w] < next_vm_id'
      BY <1>1, <1>2 DEF FreshOK, vm_create, TypeOK, LiveVMs
    <2>2. \A w \in VM : state'[w] = "UNALLOCATED" => prev'[w] = NULL
      BY ConstantsAssumption DEF FreshOK, vm_create, TypeOK, VmListExact, LiveVMs, Live
    <2> QED
      BY <2>1, <2>2 DEF FreshOK
  <1>7. AliveOK'
    BY <1>1, <1>3 DEF AliveOK, vm_create, TypeOK
  <1> QED
    BY <1>2, <1>3, <1>5, <1>6, <1>7 DEF CallOK, DownOK, SweepOK

\* The end of vm_destroy takes a VM out of the list, wherever it is.
LEMMA UnlinkList ==
    ASSUME ListInv, vm_unlink
    PROVE  ListInv'
  <1> USE DEF ListInv
  <1> DEFINE vm == call.vm
  <1>0. vm \in LiveVMs /\ vm \in VM /\ call.op = "free" /\ up
    BY DEF vm_unlink, CallOK, LiveVMs
  <1>1. LiveVMs' = LiveVMs \ {vm}
    BY <1>0 DEF vm_unlink, LiveVMs, Live, TypeOK
  <1>2. vm_count' = Cardinality(LiveVMs') /\ vm_count' \in Nat
    <2>1. IsFiniteSet(LiveVMs)
      BY ConstantsAssumption, FS_Subset DEF LiveVMs
    <2>2. /\ Cardinality(LiveVMs \ {vm}) = Cardinality(LiveVMs) - 1
          /\ Cardinality(LiveVMs \ {vm}) \in Nat
      BY <2>1, <1>0, FS_RemoveElement, FS_CardinalityType
    <2> QED
      BY <2>2, <1>1 DEF VmListExact, vm_unlink
  <1>3. TypeOK'
    <2>1. call' \in Call /\ call'.op = "idle"
      BY DEF vm_unlink, Call, Returned
    <2>2. /\ next' \in [VM -> VM \cup {NULL}] /\ prev' \in [VM -> VM \cup {NULL}]
          /\ vms' \in VM \cup {NULL} /\ state' \in [VM -> VmState]
      BY <1>0 DEF vm_unlink, TypeOK, VmState
    <2> QED
      BY <1>2, <2>1, <2>2 DEF vm_unlink, TypeOK, vcpuVars, sweepVars
  <1>4. VmListExact'
    <2> DEFINE L == LiveVMs \ {vm}
    <2>0. /\ id' = id /\ NULL \notin VM /\ LiveVMs \subseteq VM
          /\ id \in [VM -> Nat]
      BY ConstantsAssumption DEF vm_unlink, LiveVMs, TypeOK
    <2>1. \A w \in L : next'[w] = IF w = prev[vm] THEN next[vm] ELSE next[w]
      BY <1>0, <2>0 DEF vm_unlink, TypeOK
    <2>2. \A w \in L : prev'[w] = IF w = next[vm] THEN prev[vm] ELSE prev[w]
      BY <1>0, <2>0 DEF vm_unlink, TypeOK
    <2>3. vms' = IF prev[vm] = NULL THEN next[vm] ELSE vms
      BY DEF vm_unlink
    <2>4. IF vms' = NULL THEN L = {} ELSE vms' \in L /\ \A w \in L : id[w] <= id[vms']
      BY <1>0, <2>0, <2>3 DEF VmListExact
    <2>5. ASSUME NEW w \in L
          PROVE  IF next'[w] = NULL THEN \A x \in L : id[w] <= id[x]
                 ELSE /\ next'[w] \in L
                      /\ prev'[next'[w]] = w
                      /\ id[next'[w]] < id[w]
                      /\ \A x \in L : id[x] < id[w] => id[x] <= id[next'[w]]
      <3>1. CASE w = prev[vm]
        <4>1. next'[w] = next[vm] /\ next[w] = vm
          BY <1>0, <2>0, <2>1, <3>1 DEF VmListExact
        <4> QED
          BY <1>0, <2>0, <2>2, <3>1, <4>1 DEF VmListExact
      <3>2. CASE w # prev[vm]
        <4>1. next'[w] = next[w] /\ next[w] # vm
          BY <1>0, <2>0, <2>1, <3>2 DEF VmListExact
        <4>2. next[w] # NULL => prev'[next[w]] = w
          BY <1>0, <2>0, <2>2, <4>1 DEF VmListExact
        <4> QED
          BY <1>0, <2>0, <4>1, <4>2 DEF VmListExact
      <3> QED
        BY <3>1, <3>2
    <2>6. ASSUME NEW w \in L
          PROVE  IF prev'[w] = NULL THEN vms' = w
                 ELSE prev'[w] \in L /\ next'[prev'[w]] = w
      <3>1. CASE w = next[vm]
        <4>1. prev'[w] = prev[vm] /\ prev[w] = vm
          BY <1>0, <2>0, <2>2, <3>1 DEF VmListExact
        <4> QED
          BY <1>0, <2>0, <2>1, <2>3, <3>1, <4>1 DEF VmListExact
      <3>2. CASE w # next[vm]
        <4>1. prev'[w] = prev[w] /\ prev[w] # vm
          BY <1>0, <2>0, <2>2, <3>2 DEF VmListExact
        <4>2. prev[w] # NULL => next'[prev[w]] = w
          BY <1>0, <2>0, <2>1, <4>1 DEF VmListExact
        <4>3. prev[w] = NULL => vms' = w
          BY <1>0, <2>0, <2>3 DEF VmListExact
        <4> QED
          BY <1>0, <2>0, <4>1, <4>2, <4>3 DEF VmListExact
      <3> QED
        BY <3>1, <3>2
    <2>7. \A w, x \in L : id[w] = id[x] => w = x
      BY DEF VmListExact
    <2> HIDE DEF vm
    <2> QED
      BY <1>1, <1>2, <2>0, <2>4, <2>5, <2>6, <2>7 DEF VmListExact
  <1>5. FreshOK'
    BY <1>0, <1>1, ConstantsAssumption
    DEF FreshOK, vm_unlink, TypeOK, LiveVMs, Live, VmListExact
  <1>6. AliveOK'
    BY <1>0, <1>1, ConstantsAssumption
    DEF AliveOK, vm_unlink, TypeOK, LiveVMs, vcpuVars, Returned
  <1>7. SweepOK'
    BY <1>0, <1>1 DEF SweepOK, vm_unlink, Returned, sweepVars, TypeOK, LiveVMs
  <1> QED
    BY <1>0, <1>1, <1>3, <1>4, <1>5, <1>6, <1>7
    DEF CallOK, DownOK, vm_unlink, Returned, sweepVars

\* hypervisor_init starts with an empty list.
LEMMA InitHypervisorList ==
    ASSUME ListInv, hypervisor_init
    PROVE  ListInv'
  <1> USE DEF ListInv
  <1>1. LiveVMs = {} /\ LiveVMs' = {} /\ ~sweeping /\ call.op = "idle"
    BY DEF hypervisor_init, DownOK, CallOK, LiveVMs, Live
  <1>2. TypeOK'
    <2>1. rq' \in Heap(Node, NULL)
      BY InitConsistent DEF hypervisor_init, Node
    <2>2. 1 \in 1 .. (MaxVmId + 1)
      BY ConstantsAssumption
    <2> QED
      BY <2>1, <2>2 DEF hypervisor_init, TypeOK, Heaps, Heap, vmVars, vcpuVars, sweepVars
  <1>3. VmListExact'
    BY <1>1, FS_EmptySet DEF hypervisor_init, VmListExact
  <1> QED
    BY <1>1, <1>2, <1>3
    DEF hypervisor_init, CallOK, DownOK, FreshOK, SweepOK, AliveOK, vmVars, vcpuVars, sweepVars

\* The steps of hypervisor_shutdown outside the calls it makes.
LEMMA ShutdownList ==
    ASSUME ListInv, hypervisor_shutdown \/ shutdown_vm \/ shutdown_ends
    PROVE  ListInv'
  <1> USE DEF ListInv, hvVars, vmVars, vcpuVars
  <1>1. LiveVMs' = LiveVMs
    BY DEF hypervisor_shutdown, shutdown_vm, shutdown_ends, LiveVMs, Live
  <1>2. VmListExact' /\ FreshOK'
    BY <1>1, ListFrame DEF hypervisor_shutdown, shutdown_vm, shutdown_ends
  <1>3. CASE hypervisor_shutdown
    BY <1>1, <1>2, <1>3
    DEF hypervisor_shutdown, TypeOK, Idle, CallOK, DownOK, AliveOK, SweepOK, VmListExact
  <1>4. CASE shutdown_vm
    <2>1. cursor \in LiveVMs /\ cursor \in VM /\ call.op = "idle" /\ up /\ sweeping
      BY <1>4 DEF shutdown_vm, SweepOK, DownOK, LiveVMs
    <2>2. /\ call' \in Call /\ call'.vm = cursor /\ call'.i = 0 /\ call'.lim = 0
          /\ call'.op = "free" \/ (call'.op = "stop" /\ call'.destroy)
      BY <1>4, <2>1 DEF shutdown_vm, DestroyCall, Begin, Call
    <2>3. TypeOK'
      BY <1>4, <2>1, <2>2 DEF shutdown_vm, TypeOK
    <2>4. SweepOK'
      <3>1. /\ NULL \notin VM /\ LiveVMs \subseteq VM /\ id \in [VM -> Nat]
            /\ cursor' = next[cursor] /\ UNCHANGED <<id, sweeping>>
        BY <1>4, ConstantsAssumption DEF shutdown_vm, TypeOK, LiveVMs
      <3>2. /\ next[cursor] = NULL => \A w \in LiveVMs : id[cursor] <= id[w]
            /\ next[cursor] # NULL =>
                  /\ next[cursor] \in LiveVMs
                  /\ id[next[cursor]] < id[cursor]
                  /\ \A w \in LiveVMs : id[w] < id[cursor] => id[w] <= id[next[cursor]]
            /\ \A w, x \in LiveVMs : id[w] = id[x] => w = x
        BY <2>1 DEF VmListExact
      <3>3. \A w \in LiveVMs : id[w] \in Nat /\ id[w] <= id[cursor]
        BY <2>1, <3>1 DEF SweepOK
      <3> QED
        BY <1>1, <2>1, <2>2, <3>1, <3>2, <3>3 DEF SweepOK
    <2>5. AliveOK'
      BY <1>1, <1>4, <2>1, <2>2, ConstantsAssumption DEF shutdown_vm, AliveOK
    <2>6. CallOK' /\ DownOK'
      BY <1>1, <1>4, <2>1, <2>2, ConstantsAssumption DEF shutdown_vm, CallOK, DownOK, LiveVMs
    <2> QED
      BY <1>2, <2>3, <2>4, <2>5, <2>6
  <1>5. CASE shutdown_ends
    BY <1>1, <1>2, <1>5
    DEF shutdown_ends, TypeOK, CallOK, DownOK, AliveOK, SweepOK
  <1> QED
    BY <1>3, <1>4, <1>5

-----------------------------------------------------------------------------
(* The steps that leave the VM list alone.                                 *)

\* Such a step preserves the invariant if it keeps the types and the live
\* VMs, works on a live VM, and neither begins nor ends a call of a
\* hypervisor_shutdown.
LEMMA QuietStep ==
    ASSUME ListInv, TypeOK', CallOK', AliveOK',
           UNCHANGED <<up, vms, vm_count, next_vm_id, id, next, prev, sweeping, cursor>>,
           LiveVMs' = LiveVMs,
           \A vm \in VM : state'[vm] = "UNALLOCATED" => state[vm] = "UNALLOCATED",
           sweeping => /\ (call'.op = "idle") <=> (call.op = "idle")
                       /\ call'.vm = call.vm
                       /\ call.op # "idle" =>
                             call'.op = "free" \/ (call'.op = "stop" /\ call'.destroy)
    PROVE  ListInv'
  <1>1. VmListExact' /\ FreshOK'
    BY ListFrame DEF ListInv
  <1>2. SweepOK'
    BY DEF ListInv, SweepOK
  <1> QED
    BY <1>1, <1>2 DEF ListInv, DownOK

\* AliveOK is kept by a step that frees no vCPU and enters no freeing loop
\* past its start.
LEMMA AliveFrame ==
    ASSUME AliveOK, alive' = alive, LiveVMs' = LiveVMs,
           call' = call \/ (call.op # "free" /\ (call'.op = "free" => call'.i = 0))
    PROVE  AliveOK'
  BY ConstantsAssumption DEF AliveOK

\* Whatever a queue call leaves behind is a heap.
LEMMA RelinksType ==
    ASSUME NEW h \in Heap(Node, NULL), NEW protected, Relinks(h, protected)
    PROVE  rq' \in Heap(Node, NULL)
  BY DEF Relinks, Heaps, Heap

\* vcpu_stop keeps the types.
LEMMA VcpuStopsType ==
    ASSUME TypeOK, NEW v \in VCpu, VcpuStops(v)
    PROVE  running' \in [VCpu -> BOOLEAN] /\ rq' \in Heap(Node, NULL)
  <1>1. v \in Node /\ rq \in Heap(Node, NULL)
    BY DEF TypeOK, Heaps, Node, Heap
  <1>2. list_del(rq, v) \in Heap(Node, NULL)
    BY <1>1, MacrosType
  <1>3. rq' \in Heap(Node, NULL)
    BY <1>1, <1>2, RelinksType DEF VcpuStops, scheduler_remove_vcpu
  <1> QED
    BY <1>3 DEF TypeOK, VcpuStops

\* vcpu_start keeps the types.
LEMMA VcpuStartsType ==
    ASSUME TypeOK, NEW v \in VCpu, VcpuStarts(v)
    PROVE  /\ running' \in [VCpu -> BOOLEAN] /\ initialized' \in [VCpu -> BOOLEAN]
           /\ sched_entity' \in [VCpu -> BOOLEAN] /\ rq' \in Heap(Node, NULL)
  <1>1. v \in Node /\ physical_cpu[v] \in Node /\ rq \in Heap(Node, NULL)
    BY DEF TypeOK, Heaps, Node, Heap
  <1>2. rq' \in Heap(Node, NULL)
    <2>1. list_add_tail(rq, v, physical_cpu[v]) \in Heap(Node, NULL)
      BY <1>1, MacrosType
    <2> QED
      BY <1>1, <2>1, RelinksType DEF VcpuStarts, scheduler_add_vcpu
  <1>3. sched_entity' \in [VCpu -> BOOLEAN]
    BY DEF TypeOK, VcpuStarts, scheduler_add_vcpu
  <1>4. running' \in [VCpu -> BOOLEAN] /\ initialized' \in [VCpu -> BOOLEAN]
    BY DEF TypeOK, VcpuStarts
  <1> QED
    BY <1>2, <1>3, <1>4

\* The calls that only set vm->state, and the beginnings of the others.
LEMMA CallList ==
    ASSUME ListInv, NEW vm \in VM,
           \/ vm_destroy(vm) \/ vm_start(vm) \/ vm_stop(vm) \/ vm_pause(vm)
           \/ vm_resume(vm) \/ vm_reset(vm) \/ migration_start(vm)
           \/ migration_end(vm) \/ snapshot_create(vm)
    PROVE  ListInv'
  <1> USE DEF ListInv, hvVars, vmVars, vcpuVars, sweepVars
  <1>0. /\ Idle /\ Live(vm) /\ vm \in LiveVMs
        /\ UNCHANGED <<hvVars, vmVars, vcpuVars, sweepVars>>
    BY DEF vm_destroy, vm_start, vm_stop, vm_pause, vm_resume, vm_reset,
           migration_start, migration_end, snapshot_create, Live, LiveVMs
  <1>1. /\ \A w \in VM : w # vm => state'[w] = state[w]
        /\ state'[vm] \in {"INITIALIZED", "RUNNING", "PAUSED", "SUSPENDED",
                           "MIGRATING", "SHUTDOWN"}
        /\ state' \in [VM -> VmState]
    BY <1>0 DEF vm_destroy, vm_start, vm_stop, vm_pause, vm_resume, vm_reset,
           migration_start, migration_end, snapshot_create, TypeOK, Live, VmState
  <1>2. LiveVMs' = LiveVMs
    BY <1>0, <1>1 DEF LiveVMs, Live
  <1>3. /\ call' \in Call
        /\ call' = call \/ (call'.op # "idle" /\ call'.vm = vm /\ call'.i = 0 /\ call'.lim = 0)
    <2>1. \/ call' = call
          \/ \E op \in {"start", "stop", "free", "snapshot"}, d \in BOOLEAN :
                call' = Begin(op, vm, d)
      BY DEF vm_destroy, vm_start, vm_stop, vm_pause, vm_resume, vm_reset, DestroyCall,
             migration_start, migration_end, snapshot_create
    <2> QED
      BY <2>1 DEF TypeOK, Call, Begin
  <1>4. running' \in [VCpu -> BOOLEAN] /\ rq' = rq
    BY DEF vm_destroy, vm_start, vm_stop, vm_pause, vm_resume, vm_reset,
           migration_start, migration_end, snapshot_create, TypeOK
  <1>5. sessions' \in [VM -> 0..MaxSessions]
    <2>1. CASE migration_start(vm)
      BY <2>1, ConstantsAssumption DEF migration_start, TypeOK
    <2>2. CASE migration_end(vm)
      BY <2>2, ConstantsAssumption DEF migration_end, TypeOK
    <2>3. CASE ~migration_start(vm) /\ ~migration_end(vm)
      BY <2>3 DEF vm_destroy, vm_start, vm_stop, vm_pause, vm_resume, vm_reset,
                  snapshot_create, TypeOK
    <2> QED
      BY <2>1, <2>2, <2>3
  <1>6. TypeOK'
    BY <1>0, <1>1, <1>3, <1>4, <1>5 DEF TypeOK
  <1>7. CallOK'
    BY <1>0, <1>2, <1>3, ConstantsAssumption DEF CallOK, Idle, LiveVMs
  <1>8. AliveOK'
    BY <1>0, <1>2, <1>3, AliveFrame DEF Idle
  <1> QED
    BY <1>0, <1>1, <1>2, <1>6, <1>7, <1>8, QuietStep DEF Idle

\* The vCPU threads, and vcpu_start and vcpu_stop called directly.
LEMMA VcpuList ==
    ASSUME ListInv, NEW v \in VCpu, AnyVcpuCall(v) \/ GuestStep(v)
    PROVE  ListInv'
  <1> USE DEF ListInv, hvVars, vmVars, vcpuVars, sweepVars
  <1>1. UNCHANGED <<up, vms, vm_count, next_vm_id, id, next, prev, state, sessions,
                    alive, call, sweeping, cursor>>
    BY DEF AnyVcpuCall, GuestStep, vcpu_start, vcpu_stop, scheduler_yield,
           scheduler_wake, vcpu_migrate, vcpu_run, VmExitLeaves
  <1>2. LiveVMs' = LiveVMs
    BY <1>1 DEF LiveVMs, Live
  <1>3. TypeOK'
    <2>0. v \in Node /\ physical_cpu[v] \in Node /\ rq \in Heap(Node, NULL)
      BY DEF TypeOK, Heaps, Node, Heap
    <2>1. CASE vcpu_start(v)
      BY <2>1, VcpuStartsType DEF vcpu_start, TypeOK, Heaps, Heap
    <2>2. CASE vcpu_stop(v)
      BY <2>2, VcpuStopsType DEF vcpu_stop, TypeOK, Heaps, Heap
    <2>3. CASE scheduler_yield(v) \/ scheduler_wake(v)
      <3>1. rq' \in Heap(Node, NULL)
        <4>1. list_del(rq, v) \in Heap(Node, NULL)
          BY <2>0, MacrosType
        <4>2. /\ list_add_tail(list_del(rq, v), v, physical_cpu[v]) \in Heap(Node, NULL)
              /\ list_add(list_del(rq, v), v, physical_cpu[v]) \in Heap(Node, NULL)
          BY <2>0, <4>1, MacrosType
        <4> QED
          BY <2>3, <4>2, RelinksType DEF scheduler_yield, scheduler_wake
      <3> QED
        BY <2>3, <3>1 DEF scheduler_yield, scheduler_wake, TypeOK, Heaps, Heap
    <2>4. CASE \E c \in 0..CpuCount : vcpu_migrate(v, c)
      BY <2>4 DEF vcpu_migrate, TypeOK
    <2>5. CASE vcpu_run(v) \/ VmExitLeaves(v)
      BY <2>5 DEF vcpu_run, VmExitLeaves, TypeOK
    <2> QED
      BY <2>1, <2>2, <2>3, <2>4, <2>5 DEF AnyVcpuCall, GuestStep
  <1>4. CallOK' /\ AliveOK'
    BY <1>1, <1>2, AliveFrame DEF CallOK
  <1> QED
    BY <1>1, <1>2, <1>3, <1>4, QuietStep DEF SweepOK

\* How the call record changes: a loop goes on, turns back, or the call ends,
\* vm_stop's perhaps in the freeing loop of vm_destroy.
Advances == /\ call'.op = call.op /\ call'.vm = call.vm /\ call'.lim = call.lim
            /\ call'.i = call.i + 1 /\ call'.destroy = call.destroy
TurnsBack == /\ call'.op = "unwind" /\ call'.vm = call.vm
             /\ call'.i = 0 /\ call'.lim = call.i
StartsFreeing == /\ call'.op = "free" /\ call'.vm = call.vm
                 /\ call'.i = 0 /\ call'.lim = 0

\* What each step of a call does to the call record.
LEMMA CallChanges ==
    ASSUME TypeOK, call.vm \in VM
    PROVE  /\ vcpu_destroy \/ vm_stop_vcpu =>
                 call.i < VcpuCount[call.vm] /\ call' \in Call /\ Advances
           /\ vm_start_vcpu => /\ call.i < VcpuCount[call.vm] /\ call' \in Call
                               /\ Advances \/ TurnsBack
           /\ vm_start_unwinds => /\ call' \in Call
                                  /\ \/ call.i < call.lim /\ Advances
                                     \/ call' = Returned
           /\ vm_stop_ends => /\ call' \in Call
                              /\ IF call.destroy THEN StartsFreeing ELSE call' = Returned
           /\ vm_start_ends \/ snapshot_ends => call' = Returned
           /\ Returned \in Call /\ Returned.op = "idle"
  <1>0. call \in Call
    BY DEF TypeOK
  <1>1. ASSUME call' = [call EXCEPT !.i = @ + 1]
        PROVE  call' \in Call /\ Advances
    BY <1>0, <1>1 DEF Call, Advances
  <1>2. ASSUME call' = [call EXCEPT !.op = "unwind", !.i = 0, !.lim = call.i]
        PROVE  call' \in Call /\ TurnsBack
    BY <1>0, <1>2 DEF Call, TurnsBack
  <1>3. ASSUME call' = Begin("free", call.vm, FALSE)
        PROVE  call' \in Call /\ StartsFreeing
    BY <1>3 DEF Call, Begin, StartsFreeing
  <1>4. Returned \in Call /\ Returned.op = "idle"
    BY DEF Call, Returned
  <1>5. vcpu_destroy \/ vm_stop_vcpu =>
           call.i < VcpuCount[call.vm] /\ call' = [call EXCEPT !.i = @ + 1]
    BY DEF vcpu_destroy, vm_stop_vcpu
  <1>6. vm_start_vcpu =>
           /\ call.i < VcpuCount[call.vm]
           /\ \/ call' = [call EXCEPT !.i = @ + 1]
              \/ call' = [call EXCEPT !.op = "unwind", !.i = 0, !.lim = call.i]
    BY DEF vm_start_vcpu
  <1>7. vm_start_unwinds => \/ call.i < call.lim /\ call' = [call EXCEPT !.i = @ + 1]
                            \/ call' = Returned
    BY DEF vm_start_unwinds
  <1>8. vm_stop_ends => call' = IF call.destroy THEN Begin("free", call.vm, FALSE)
                                ELSE Returned
    BY DEF vm_stop_ends
  <1>9. vm_start_ends \/ snapshot_ends => call' = Returned
    BY DEF vm_start_ends, snapshot_ends
  <1> QED
    BY <1>1, <1>2, <1>3, <1>4, <1>5, <1>6, <1>7, <1>8, <1>9

\* The loops and ends of the calls, vm_unlink and the shutdown excepted.
LEMMA LoopList ==
    ASSUME ListInv,
           \/ vcpu_destroy \/ vm_start_vcpu \/ vm_start_ends \/ vm_start_unwinds
           \/ vm_stop_vcpu \/ vm_stop_ends \/ snapshot_ends
    PROVE  ListInv'
  <1> USE DEF ListInv, hvVars, vmVars, vcpuVars, sweepVars
  <1> DEFINE vm == call.vm
  <1>0. /\ call.op # "idle" /\ up /\ vm \in LiveVMs /\ vm \in VM /\ call \in Call
        /\ call.i <= VcpuCount[vm] /\ call.lim <= VcpuCount[vm]
        /\ VcpuCount[vm] \in Nat /\ call.i \in Nat /\ call.lim \in Nat
    <2>1. call.op # "idle"
      BY DEF vcpu_destroy, vm_start_vcpu, vm_start_ends, vm_start_unwinds, vm_stop_vcpu,
             vm_stop_ends, snapshot_ends
    <2>2. call \in Call /\ call.i \in Nat /\ call.lim \in Nat
      BY DEF TypeOK, Call
    <2> QED
      BY <2>1, <2>2, ConstantsAssumption DEF CallOK, LiveVMs
  <1>1. UNCHANGED <<up, vms, vm_count, next_vm_id, id, next, prev, sessions,
                    physical_cpu, in_run, sweeping, cursor>>
    BY DEF vcpu_destroy, vm_start_vcpu, vm_start_ends, vm_start_unwinds, vm_stop_vcpu,
           vm_stop_ends, snapshot_ends
  <1>2. /\ \A w \in VM : w # vm => state'[w] = state[w]
        /\ state'[vm] \in {state[vm], "RUNNING", "SHUTDOWN"}
        /\ state' \in [VM -> VmState]
    BY <1>0
    DEF vcpu_destroy, vm_start_vcpu, vm_start_ends, vm_start_unwinds, vm_stop_vcpu,
        vm_stop_ends, snapshot_ends, TypeOK, VmState
  <1>3. LiveVMs' = LiveVMs
    BY <1>0, <1>2 DEF LiveVMs, Live
  <1>4. /\ call' \in Call
        /\ call'.op # "idle" => /\ call'.vm = vm
                                /\ call'.i <= VcpuCount[vm] /\ call'.lim <= VcpuCount[vm]
    BY <1>0, CallChanges DEF Advances, TurnsBack, StartsFreeing
  <1>5. TypeOK'
    <2>1. CASE vcpu_destroy
      <3>1. PICK v \in VCpu : /\ alive' = [alive EXCEPT ![v] = FALSE]
                              /\ VcpuStops(v) \/ UNCHANGED <<running, rq>>
        BY <2>1 DEF vcpu_destroy, VcpusOf
      <3>2. running' \in [VCpu -> BOOLEAN] /\ rq' \in Heap(Node, NULL)
        BY <3>1, VcpuStopsType DEF TypeOK, Heaps, Heap
      <3> QED
        BY <1>1, <1>2, <1>4, <2>1, <3>1, <3>2 DEF vcpu_destroy, TypeOK, Heaps, Heap
    <2>2. CASE vm_start_vcpu
      <3>1. PICK v \in VCpu : \/ VcpuStarts(v)
                              \/ UNCHANGED <<running, initialized, sched_entity, rq>>
        BY <2>2 DEF vm_start_vcpu, VcpusOf
      <3>2. /\ running' \in [VCpu -> BOOLEAN] /\ initialized' \in [VCpu -> BOOLEAN]
            /\ sched_entity' \in [VCpu -> BOOLEAN] /\ rq' \in Heap(Node, NULL)
        BY <3>1, VcpuStartsType DEF TypeOK, Heaps, Heap
      <3> QED
        BY <1>1, <1>2, <1>4, <2>2, <3>2 DEF vm_start_vcpu, TypeOK, Heaps, Heap
    <2>3. CASE vm_start_unwinds \/ vm_stop_vcpu
      <3>1. \/ \E v \in VCpu : VcpuStops(v)
            \/ UNCHANGED <<running, rq>>
        BY <2>3 DEF vm_start_unwinds, vm_stop_vcpu, VcpusOf
      <3>2. running' \in [VCpu -> BOOLEAN] /\ rq' \in Heap(Node, NULL)
        BY <3>1, VcpuStopsType DEF TypeOK, Heaps, Heap
      <3> QED
        BY <1>1, <1>2, <1>4, <2>3, <3>2 DEF vm_start_unwinds, vm_stop_vcpu, TypeOK, Heaps, Heap
    <2>4. CASE vm_start_ends \/ vm_stop_ends \/ snapshot_ends
      BY <1>1, <1>2, <1>4, <2>4 DEF vm_start_ends, vm_stop_ends, snapshot_ends, TypeOK
    <2> QED
      BY <2>1, <2>2, <2>3, <2>4
  <1>6. CallOK'
    BY <1>0, <1>1, <1>3, <1>4 DEF CallOK
  <1>7. AliveOK'
    <2>1. CASE vcpu_destroy
      <3>1. PICK v \in VCpu : /\ VmOf[v] = vm /\ VcpuId[v] = call.i
                              /\ alive' = [alive EXCEPT ![v] = FALSE]
        BY <2>1 DEF vcpu_destroy, VcpusOf
      <3>2. /\ call.op = "free" /\ call'.op = "free" /\ call'.vm = vm
            /\ call'.i = call.i + 1
        BY <1>0, <2>1 DEF vcpu_destroy, Call
      <3>3. \A w \in VCpu : alive'[w] <=> alive[w] /\ w # v
        BY <3>1 DEF TypeOK
      <3>4. \A w \in VCpu : VmOf[w] = vm =>
               (VcpuId[w] < call.i + 1 <=> VcpuId[w] < call.i \/ w = v)
        <4>1. \A w \in VCpu : VcpuId[w] \in Nat
          BY ConstantsAssumption
        <4>2. \A w \in VCpu : VmOf[w] = vm /\ VcpuId[w] = call.i => w = v
          BY <3>1, ConstantsAssumption
        <4>3. \A n, i \in Nat : n < i + 1 <=> n < i \/ n = i
          OBVIOUS
        <4>4. call.i \in Nat
          BY <3>1, <4>1
        <4> HIDE DEF vm
        <4> QED
          BY <3>1, <4>1, <4>2, <4>3, <4>4
      <3> HIDE DEF vm
      <3> QED
        BY <1>3, <3>1, <3>2, <3>3, <3>4 DEF AliveOK, vm
    <2>2. CASE ~vcpu_destroy
      <3>1. alive' = alive
        BY <2>2 DEF vm_start_vcpu, vm_start_ends, vm_start_unwinds, vm_stop_vcpu,
                    vm_stop_ends, snapshot_ends
      <3>2. call.op # "free" /\ (call'.op = "free" => call'.i = 0)
        <4>1. call.op # "free"
          BY <2>2 DEF vm_start_vcpu, vm_start_ends, vm_start_unwinds, vm_stop_vcpu,
                      vm_stop_ends, snapshot_ends
        <4> QED
          BY <1>0, <2>2, <4>1, CallChanges DEF Advances, TurnsBack, StartsFreeing
      <3> QED
        BY <1>3, <3>1, <3>2, AliveFrame
    <2> QED
      BY <2>1, <2>2
  <1>8. sweeping => /\ call'.op = "free" \/ (call'.op = "stop" /\ call'.destroy)
                    /\ call'.vm = call.vm
    <2>1. sweeping => \/ vcpu_destroy /\ call.op = "free"
                      \/ (vm_stop_vcpu \/ vm_stop_ends) /\ call.op = "stop" /\ call.destroy
      BY <1>0
      DEF SweepOK, vcpu_destroy, vm_start_vcpu, vm_start_ends, vm_start_unwinds,
          vm_stop_vcpu, vm_stop_ends, snapshot_ends
    <2> QED
      BY <1>0, <2>1, CallChanges DEF Advances, StartsFreeing
  <1> HIDE DEF vm
  <1>9. \A w \in VM : state'[w] = "UNALLOCATED" => state[w] = "UNALLOCATED"
    BY <1>0, <1>2 DEF LiveVMs, Live, vm
  <1> QED
    BY <1>0, <1>1, <1>3, <1>5, <1>6, <1>7, <1>8, <1>9, QuietStep

\* A vm_create that fails spends an id and changes nothing else.
LEMMA CreateFailsList ==
    ASSUME ListInv, vm_create_fails
    PROVE  ListInv'
  <1> USE DEF ListInv, vmVars, vcpuVars, sweepVars
  <1>1. LiveVMs' = LiveVMs
    BY DEF vm_create_fails, LiveVMs, Live
  <1>2. TypeOK'
    BY ConstantsAssumption DEF vm_create_fails, TypeOK
  <1>3. VmListExact'
    BY <1>1 DEF vm_create_fails, VmListExact
  <1>4. FreshOK'
    BY <1>1 DEF vm_create_fails, FreshOK, TypeOK, LiveVMs
  <1> QED
    BY <1>1, <1>2, <1>3, <1>4 DEF vm_create_fails, CallOK, DownOK, SweepOK, AliveOK

\* ListInv is inductive, whoever calls.
LEMMA NextList ==
    ASSUME ListInv, [Next]_vars
    PROVE  ListInv'
  <1>1. CASE hypervisor_init
    BY <1>1, InitHypervisorList
  <1>2. CASE vm_create_fails
    BY <1>2, CreateFailsList
  <1>3. CASE hypervisor_shutdown \/ shutdown_vm \/ shutdown_ends
    BY <1>3, ShutdownList
  <1>4. CASE vm_unlink
    BY <1>4, UnlinkList
  <1>5. CASE CallStep /\ ~vm_unlink /\ ~shutdown_vm /\ ~shutdown_ends
    BY <1>5, LoopList DEF CallStep
  <1>6. CASE \E vm \in VM : AnyCall(vm)
    BY <1>6, CreateList, CallList DEF AnyCall
  <1>7. CASE \E v \in VCpu : AnyVcpuCall(v) \/ GuestStep(v)
    BY <1>7, VcpuList
  <1>8. CASE UNCHANGED vars
    BY <1>8
    DEF vars, hvVars, vmVars, vcpuVars, sweepVars, ListInv, TypeOK, VmListExact, CallOK,
        DownOK, FreshOK, SweepOK, AliveOK, LiveVMs, Live
  <1> QED
    BY <1>1, <1>2, <1>3, <1>4, <1>5, <1>6, <1>7, <1>8 DEF Next

\* Whoever calls, every variable keeps its type: in particular vm_count never
\* underflows and no call works on a VM that is not allocated.
THEOREM TypeCorrect == Spec => []TypeOK
  <1>1. Init => ListInv
    BY InitList
  <1>2. ListInv /\ [Next]_vars => ListInv'
    BY NextList
  <1>3. ListInv => TypeOK
    BY DEF ListInv
  <1> QED
    BY <1>1, <1>2, <1>3, PTL DEF Spec

\* Whoever calls, vm_create and vm_destroy keep the VM list exact.
THEOREM VmListCorrect == Spec => []VmListExact
  <1>1. Init => ListInv
    BY InitList
  <1>2. ListInv /\ [Next]_vars => ListInv'
    BY NextList
  <1>3. ListInv => VmListExact
    BY DEF ListInv
  <1> QED
    BY <1>1, <1>2, <1>3, PTL DEF Spec

\* Whoever calls, hypervisor_shutdown leaves no VM and no vCPU behind.
THEOREM ShutdownCorrect == Spec => []ShutdownLeavesNothing
  <1>1. Init => ListInv
    BY InitList
  <1>2. ListInv /\ [Next]_vars => ListInv'
    BY NextList
  <1>3. ListInv => ShutdownLeavesNothing
    BY DEF ListInv, DownOK, AliveOK, ShutdownLeavesNothing
  <1> QED
    BY <1>1, <1>2, <1>3, PTL DEF Spec

-----------------------------------------------------------------------------
(* The run queues under the disciplined caller.                            *)

\* The state of the VM a call works on.
CallStateOK ==
    /\ call.op \in {"start", "unwind", "free"} =>
          state[call.vm] \in {"INITIALIZED", "SHUTDOWN"}
    /\ call.op = "stop" => state[call.vm] = "RUNNING"
    /\ call.op = "snapshot" => state[call.vm] = "SUSPENDED"

\* A shutdown meets no VM that vm_destroy would leave queued.
SweepSettled == sweeping => \A vm \in LiveVMs : Settled(vm)

\* The disciplined caller is one of the callers.
LEMMA DisciplinedIsNext ==
    ASSUME DisciplinedNext
    PROVE  Next
  BY DEF DisciplinedNext, DisciplinedCall, DisciplinedVcpuCall, Next, AnyCall, AnyVcpuCall

\* Over the heap h the queue of every CPU c is one ring: its head and the
\* vCPUs that own maps to c.  Q are the vCPUs that are on some queue.
Nodes(c, own) == {c} \cup {v \in VCpu : own[v] = c}
RingsOf(h, Q, own) ==
    /\ own \in [VCpu -> Cpu \cup {NULL}]
    /\ Q = {v \in VCpu : own[v] # NULL}
    /\ \A c \in Cpu : Ring(h, c, Nodes(c, own))

\* The queues hold the queued vCPUs, each on the queue whose lock its calls
\* take.
Rings == \E own \in [VCpu -> Cpu \cup {NULL}] :
             /\ RingsOf(rq, Queued, own)
             /\ \A v \in Queued : own[v] = physical_cpu[v]

\* The inductive invariant of the run queues, beside ListInv.
QueueInv == Rings /\ RunningIsStarted /\ CallStateOK /\ SweepSettled

LEMMA NodesFacts ==
    ASSUME NEW own \in [VCpu -> Cpu \cup {NULL}]
    PROVE  /\ \A c \in Cpu : c \in Nodes(c, own) /\ Nodes(c, own) \in SUBSET Node
           /\ \A c, d \in Cpu : c # d => Nodes(c, own) \cap Nodes(d, own) = {}
           /\ \A c \in Cpu : c \notin VCpu /\ c # NULL
  BY ConstantsAssumption DEF Nodes, Node

\* One list macro on the rings.
LEMMA RingsDel ==
    ASSUME NEW h \in Heap(Node, NULL), NEW Q, NEW own, RingsOf(h, Q, own), NEW v \in Q
    PROVE  RingsOf(list_del(h, v), Q \ {v}, [own EXCEPT ![v] = NULL])
  <1> DEFINE o == [own EXCEPT ![v] = NULL]
             g == list_del(h, v)
             b == own[v]
             S == Nodes(b, own)
  <1>0. own \in [VCpu -> Cpu \cup {NULL}] /\ v \in VCpu /\ b \in Cpu /\ v \in S /\ v # b
    BY ConstantsAssumption DEF RingsOf, Nodes, Node
  <1>1. o \in [VCpu -> Cpu \cup {NULL}] /\ Q \ {v} = {w \in VCpu : o[w] # NULL}
    BY <1>0 DEF RingsOf
  <1>2. /\ Nodes(b, o) = S \ {v}
        /\ \A c \in Cpu : c # b => Nodes(c, o) = Nodes(c, own)
    BY <1>0, NodesFacts DEF Nodes
  <1>3. Ring(h, b, S) /\ S \in SUBSET Node
    BY <1>0, NodesFacts DEF RingsOf
  <1>4. Ring(g, b, S \ {v})
    <2> HIDE DEF S, b
    <2> QED BY <1>0, <1>3, DelRing
  <1>5. \A n \in Node \ S : g.next[n] = h.next[n] /\ g.prev[n] = h.prev[n]
    <2>1. h.next[v] \in S /\ h.prev[v] \in S
      BY <1>0, <1>3 DEF Ring, Consistent
    <2> HIDE DEF S
    <2> QED BY <1>0, <1>3, <2>1 DEF Heap, list_del, list_del_1, list_del_2
  <1>6. ASSUME NEW c \in Cpu, c # b PROVE Ring(g, c, Nodes(c, o))
    <2>1. Ring(h, c, Nodes(c, own)) /\ Nodes(c, own) \in SUBSET (Node \ S)
      BY <1>0, <1>6, NodesFacts DEF RingsOf
    <2> HIDE DEF g, S
    <2>2. Ring(g, c, Nodes(c, own))
      BY <1>5, <2>1, RingFrame
    <2> QED BY <1>2, <1>6, <2>2
  <1>7. \A c \in Cpu : Ring(g, c, Nodes(c, o))
    BY <1>2, <1>4, <1>6
  <1> QED
    BY <1>1, <1>7 DEF RingsOf

LEMMA RingsAdd ==
    ASSUME NEW h \in Heap(Node, NULL), NEW Q, NEW own, RingsOf(h, Q, own),
           NEW v \in VCpu \ Q, NEW b \in Cpu,
           NEW g, g = list_add_tail(h, v, b) \/ g = list_add(h, v, b)
    PROVE  RingsOf(g, Q \cup {v}, [own EXCEPT ![v] = b])
  <1> DEFINE o == [own EXCEPT ![v] = b]
             S == Nodes(b, own)
  <1>0. own \in [VCpu -> Cpu \cup {NULL}] /\ own[v] = NULL /\ v \in Node \ S
    BY NodesFacts DEF RingsOf, Nodes, Node
  <1>1. o \in [VCpu -> Cpu \cup {NULL}] /\ Q \cup {v} = {w \in VCpu : o[w] # NULL}
    BY <1>0, NodesFacts DEF RingsOf
  <1>2. /\ Nodes(b, o) = S \cup {v}
        /\ \A c \in Cpu : c # b => Nodes(c, o) = Nodes(c, own)
    BY <1>0, NodesFacts DEF Nodes
  <1>3. Ring(h, b, S) /\ S \in SUBSET Node /\ b \in S
    BY <1>0, NodesFacts DEF RingsOf
  <1>4. Ring(g, b, S \cup {v})
    <2> HIDE DEF S
    <2> QED BY <1>0, <1>3, AddTailRing, AddRing
  <1>5. \A n \in Node \ (S \cup {v}) : g.next[n] = h.next[n] /\ g.prev[n] = h.prev[n]
    <2>1. h.next[b] \in S /\ h.prev[b] \in S
      BY <1>3 DEF Ring, Consistent
    <2> HIDE DEF S
    <2> QED
      BY <1>0, <1>3, <2>1
      DEF Heap, list_add_tail, list_add_tail_1, list_add_tail_2, list_add, list_add_1,
          list_add_2
  <1>6. ASSUME NEW c \in Cpu, c # b PROVE Ring(g, c, Nodes(c, o))
    <2>1. Ring(h, c, Nodes(c, own))
      BY <1>0, <1>6 DEF RingsOf
    <2>2. Nodes(c, own) \in SUBSET (Node \ (S \cup {v}))
      <3>1. v \notin Nodes(c, own)
        BY <1>0, NodesFacts DEF Nodes
      <3> QED BY <1>0, <1>6, <3>1, NodesFacts
    <2> HIDE DEF S
    <2>3. Ring(g, c, Nodes(c, own))
      BY <1>5, <2>1, <2>2, RingFrame
    <2> QED BY <1>2, <1>6, <2>3
  <1>7. \A c \in Cpu : Ring(g, c, Nodes(c, o))
    BY <1>2, <1>4, <1>6
  <1> QED
    BY <1>1, <1>7 DEF RingsOf

\* INIT_LIST_HEAD of every queue: no vCPU is on one.
LEMMA RingsInit ==
    RingsOf(INIT_LIST_HEAD(Node, Cpu, NULL), {}, [v \in VCpu |-> NULL])
  <1> DEFINE own == [v \in VCpu |-> NULL]
  <1>1. \A c \in Cpu : Nodes(c, own) = {c}
    BY NodesFacts DEF Nodes
  <1>2. \A c \in Cpu : Ring(INIT_LIST_HEAD(Node, Cpu, NULL), c, {c})
    BY InitRing DEF Node
  <1> QED
    BY <1>1, <1>2 DEF RingsOf

\* There are finitely many vCPUs: finitely many VMs, each with finitely many.
LEMMA VCpuFinite == IsFiniteSet(VCpu) /\ IsFiniteSet(Node)
  <1> DEFINE of(vm) == {v \in VCpu : VmOf[v] = vm}
             Family == {of(vm) : vm \in VM}
             f      == [vm \in VM |-> of(vm)]
  <1>1. IsFiniteSet(Family)
    <2>1. f \in Surjection(VM, Family)
      BY DEF Surjection
    <2> HIDE DEF f, Family
    <2> QED
      BY <2>1, ConstantsAssumption, FS_Surjection
  <1>2. ASSUME NEW vm \in VM PROVE IsFiniteSet(of(vm))
    <2> DEFINE I == 0 .. (VcpuCount[vm] - 1)
               g == [v \in of(vm) |-> VcpuId[v]]
    <2>1. VcpuCount[vm] \in Nat /\ VcpuCount[vm] - 1 \in Int /\ 0 \in Int
      BY ConstantsAssumption
    <2>2. IsFiniteSet(I)
      BY <2>1, FS_Interval
    <2>3. g \in Injection(of(vm), I)
      BY <2>1, ConstantsAssumption DEF Injection, IsInjective
    <2> HIDE DEF g, I, of
    <2> QED
      BY <2>2, <2>3, FS_Injection
  <1>3. VCpu = UNION Family
    BY ConstantsAssumption
  <1>4. \A T \in Family : IsFiniteSet(T)
    BY <1>2
  <1>5. IsFiniteSet(VCpu)
    <2> HIDE DEF Family
    <2> QED BY <1>1, <1>3, <1>4, FS_UNION
  <1>6. IsFiniteSet(Cpu)
    <2>1. CpuCount - 1 \in Int /\ 0 \in Int
      BY ConstantsAssumption
    <2> QED BY <2>1, FS_Interval DEF Cpu
  <1>7. IsFiniteSet(Cpu \cup VCpu)
    BY <1>5, <1>6, FS_Union
  <1> QED
    BY <1>5, <1>7 DEF Node

\* Where every queue is a ring, every queue is sound, and a vCPU is on the
\* queue own says.
LEMMA RingsSound ==
    ASSUME NEW own, RingsOf(rq, Queued, own), rq \in Heap(Node, NULL)
    PROVE  /\ QueuesSound
           /\ \A c \in Cpu : Entries(c) = {v \in VCpu : own[v] = c}
  <1>0. own \in [VCpu -> Cpu \cup {NULL}] /\ IsFiniteSet(Node)
    BY VCpuFinite DEF RingsOf
  <1>1. ASSUME NEW c \in Cpu
        PROVE  /\ LoopEnds(rq, c)
               /\ Entries(c) = Nodes(c, own) \ {c}
               /\ Ring(rq, c, Nodes(c, own))
    <2>1. Ring(rq, c, Nodes(c, own)) /\ Nodes(c, own) \in SUBSET Node
      BY <1>0, NodesFacts DEF RingsOf
    <2> DEFINE S == Nodes(c, own)
               q == ListSeq(rq, c)
    <2>2. /\ rq \in Heap(Node, NULL) /\ IsFiniteSet(Node) /\ S \in SUBSET Node
          /\ Ring(rq, c, S)
      BY <1>0, <2>1
    <2>3. LoopEnds(rq, c) /\ {q[k] : k \in DOMAIN q} = S \ {c}
      <3> HIDE DEF S
      <3> QED BY <2>2, RingWalk
    <2> QED
      BY <2>1, <2>3 DEF Entries
  <1>2. ASSUME NEW c \in Cpu PROVE Entries(c) = {v \in VCpu : own[v] = c}
    <2>1. c \notin {v \in VCpu : own[v] = c}
      BY NodesFacts, <1>0
    <2> QED
      BY <1>1, <2>1 DEF Nodes
  <1>3. ASSUME NEW c \in Cpu PROVE Consistent(rq, {c} \cup Entries(c))
    <2>1. {c} \cup Entries(c) = Nodes(c, own)
      BY <1>0, <1>1, NodesFacts
    <2> QED
      BY <1>1, <2>1 DEF Ring
  <1> QED
    BY <1>1, <1>2, <1>3 DEF QueuesSound

\* Rings, in the next state.
LEMMA RingsNext ==
    ASSUME NEW own, NEW h, NEW Q, RingsOf(h, Q, own), rq' = h, Queued' = Q,
           \A v \in Q : own[v] = physical_cpu'[v]
    PROVE  Rings'
  BY DEF Rings, RingsOf, Ring, Consistent, Nodes

\* The queues are intact after a step that starts and stops no vCPU and moves
\* none that is queued, ...
LEMMA QueueFrame ==
    ASSUME Rings, UNCHANGED <<sched_entity, rq>>,
           \A v \in VCpu : Started(v)' <=> Started(v),
           \A v \in Queued : physical_cpu'[v] = physical_cpu[v]
    PROVE  Rings'
  <1>1. Queued' = Queued
    BY DEF Queued
  <1> QED
    BY <1>1, RingsNext DEF Rings

\* ... after vcpu_stop of a started vCPU, ...
LEMMA QueueStop ==
    ASSUME TypeOK, Rings, NEW v \in VCpu, Started(v), VcpuStops(v),
           UNCHANGED <<sched_entity, physical_cpu>>,
           \A w \in VCpu : Started(w)' <=> Started(w) /\ w # v
    PROVE  Rings'
  <1>0. PICK own : RingsOf(rq, Queued, own) /\ \A w \in Queued : own[w] = physical_cpu[w]
    BY DEF Rings
  <1>a. rq \in Heap(Node, NULL) /\ own \in [VCpu -> Cpu \cup {NULL}]
    BY <1>0 DEF RingsOf, TypeOK, Heaps, Heap
  <1>1. CASE sched_entity[v]
    <2>1. Queued' = Queued \ {v} /\ v \in Queued
      BY <1>1 DEF Queued
    <2>2. rq' = list_del(rq, v)
      <3>1. QueuesSound /\ AtHome(v)
        BY <1>0, <1>a, <2>1, RingsSound DEF AtHome, TypeOK
      <3> QED
        BY <1>1, <3>1 DEF VcpuStops, scheduler_remove_vcpu, Relinks
    <2>3. RingsOf(list_del(rq, v), Queued \ {v}, [own EXCEPT ![v] = NULL])
      BY <1>0, <1>a, <2>1, RingsDel
    <2>4. \A w \in Queued \ {v} : [own EXCEPT ![v] = NULL][w] = physical_cpu'[w]
      BY <1>0, <1>a DEF Queued
    <2> QED
      BY <2>1, <2>2, <2>3, <2>4, RingsNext
  <1>2. CASE ~sched_entity[v]
    <2>1. Queued' = Queued /\ rq' = rq
      BY <1>2 DEF Queued, VcpuStops, scheduler_remove_vcpu
    <2> QED
      BY <1>0, <2>1, RingsNext
  <1> QED
    BY <1>1, <1>2

\* ... and after vcpu_start of one that is neither started nor running.
LEMMA QueueStart ==
    ASSUME TypeOK, Rings, NEW v \in VCpu, ~Started(v), ~running[v], VcpuStarts(v),
           UNCHANGED physical_cpu,
           \A w \in VCpu : Started(w)' <=> Started(w) \/ w = v
    PROVE  Rings'
  <1>0. PICK own : RingsOf(rq, Queued, own) /\ \A w \in Queued : own[w] = physical_cpu[w]
    BY DEF Rings
  <1>1. /\ rq \in Heap(Node, NULL) /\ physical_cpu[v] \in Cpu /\ v \in VCpu \ Queued
        /\ own \in [VCpu -> Cpu \cup {NULL}] /\ own[v] = NULL
    BY <1>0 DEF TypeOK, Heaps, Heap, Queued, RingsOf
  <1>2. CASE ~sched_entity[v] /\ UNCHANGED <<sched_entity, rq>>
    <2>1. Queued' = Queued
      BY <1>2 DEF Queued
    <2> QED
      BY <1>0, <1>2, <2>1, RingsNext
  <1>3. CASE /\ sched_entity' = [sched_entity EXCEPT ![v] = TRUE]
             /\ Relinks(list_add_tail(rq, v, physical_cpu[v]), OnNoOther(v))
    <2>1. Queued' = Queued \cup {v}
      BY <1>3 DEF Queued, TypeOK
    <2>2. PICK g : g = list_add_tail(rq, v, physical_cpu[v])
      OBVIOUS
    <2>3. RingsOf(g, Queued \cup {v}, [own EXCEPT ![v] = physical_cpu[v]])
      BY <1>0, <1>1, <2>2, RingsAdd
    <2>4. rq' = g
      <3>1. QueuesSound /\ OnNoOther(v)
        BY <1>0, <1>1, RingsSound, NodesFacts DEF OnNoOther
      <3> QED
        BY <1>3, <2>2, <3>1 DEF Relinks
    <2>5. \A w \in Queued \cup {v} :
             [own EXCEPT ![v] = physical_cpu[v]][w] = physical_cpu'[w]
      BY <1>0, <1>1 DEF Queued
    <2> QED
      BY <2>1, <2>3, <2>4, <2>5, RingsNext
  <1> QED
    BY <1>2, <1>3 DEF VcpuStarts, scheduler_add_vcpu

\* scheduler_yield and scheduler_wake of a queued vCPU.
LEMMA QueueMoves ==
    ASSUME TypeOK, Rings, NEW v \in Queued, scheduler_yield(v) \/ scheduler_wake(v)
    PROVE  Rings'
  <1>0. PICK own : RingsOf(rq, Queued, own) /\ \A w \in Queued : own[w] = physical_cpu[w]
    BY DEF Rings
  <1>1. PICK c \in Cpu : c = physical_cpu[v]
    BY DEF TypeOK, Queued
  <1>2. /\ rq \in Heap(Node, NULL) /\ v \in Node /\ v \in VCpu
        /\ own \in [VCpu -> Cpu \cup {NULL}]
    BY <1>0 DEF TypeOK, Heaps, Heap, Queued, Node, RingsOf
  <1>3. PICK h \in Heap(Node, NULL) : h = list_del(rq, v)
    BY <1>2, MacrosType
  <1>4. PICK own2 : own2 = [own EXCEPT ![v] = NULL] /\ RingsOf(h, Queued \ {v}, own2)
    BY <1>0, <1>2, <1>3, RingsDel
  <1>5. PICK g : g = rq'
    OBVIOUS
  <1>6. g = list_add_tail(h, v, c) \/ g = list_add(h, v, c)
    <2>1. QueuesSound /\ AtHome(v)
      BY <1>0, <1>1, <1>2, RingsSound DEF AtHome
    <2> QED
      BY <1>1, <1>3, <1>5, <2>1 DEF scheduler_yield, scheduler_wake, Relinks
  <1>7. RingsOf(g, (Queued \ {v}) \cup {v}, [own2 EXCEPT ![v] = c])
    <2>1. v \in VCpu \ (Queued \ {v})
      BY <1>2
    <2> QED BY <1>4, <1>6, <2>1, RingsAdd
  <1>8. (Queued \ {v}) \cup {v} = Queued
    OBVIOUS
  <1>9. Queued' = Queued /\ physical_cpu' = physical_cpu
    BY DEF Queued, Started, scheduler_yield, scheduler_wake, vcpuVars
  <1>10. \A w \in Queued : [own2 EXCEPT ![v] = c][w] = physical_cpu'[w]
    BY <1>0, <1>1, <1>2, <1>4, <1>9 DEF Queued
  <1> QED
    BY <1>5, <1>7, <1>8, <1>9, <1>10, RingsNext

\* The initial state satisfies the invariant of the queues.
LEMMA InitQueue == Init => QueueInv
  <1> SUFFICES ASSUME Init PROVE QueueInv
    OBVIOUS
  <1>1. Queued = {}
    BY DEF Init, Queued
  <1>2. Rings
    <2>1. RingsOf(rq, Queued, [v \in VCpu |-> NULL])
      BY <1>1, RingsInit DEF Init
    <2> QED BY <1>1, <2>1 DEF Rings, RingsOf
  <1> QED
    BY <1>2 DEF Init, QueueInv, RunningIsStarted, CallStateOK, SweepSettled, Returned

\* The vCPUs keep running only where they did, and stay started: the part of
\* the invariant beside the queues.
LEMMA RunningFrame ==
    ASSUME RunningIsStarted, alive' = alive,
           \A v \in VCpu : running'[v] => running[v],
           \A v \in VCpu : Started(v) => Started(v)'
    PROVE  RunningIsStarted'
  BY DEF RunningIsStarted

\* The calls of the disciplined caller start and stop no vCPU before their loops.
LEMMA CallQueue ==
    ASSUME ListInv, ListInv', QueueInv, NEW vm \in VM, DisciplinedCall(vm)
    PROVE  QueueInv'
  <1> USE DEF hvVars, vmVars, vcpuVars, sweepVars
  <1>0. Idle /\ call.op = "idle" /\ ~sweeping /\ TypeOK /\ sweeping' = sweeping
    BY DEF DisciplinedCall, vm_create, vm_destroy, vm_start, vm_stop, vm_pause, vm_resume,
           vm_reset, migration_start, migration_end, snapshot_create, Idle, ListInv
  <1>1. UNCHANGED <<sched_entity, rq>>
    BY DEF DisciplinedCall, vm_create, vm_destroy, vm_start, vm_stop, vm_pause, vm_resume,
           vm_reset, migration_start, migration_end, snapshot_create
  <1>2. \/ /\ call' = call
           /\ \A w \in VM : \/ state'[w] = state[w]
                             \/ {state[w], state'[w]} \subseteq
                                   {"RUNNING", "PAUSED", "SUSPENDED", "MIGRATING"}
                             \/ {state[w], state'[w]} \subseteq
                                   {"UNALLOCATED", "INITIALIZED", "SHUTDOWN"}
        \/ /\ call' = Begin("stop", vm, call'.destroy)
           /\ state' = state /\ state[vm] = "RUNNING"
        \/ /\ call' = Begin("start", vm, FALSE) \/ call' = Begin("free", vm, FALSE)
           /\ state' = state /\ state[vm] \in {"INITIALIZED", "SHUTDOWN"}
        \/ /\ call' = Begin("snapshot", vm, FALSE)
           /\ state' = [state EXCEPT ![vm] = "SUSPENDED"]
           /\ state[vm] \in {"RUNNING", "SUSPENDED"}
    <2>1. CASE vm_create(vm)
      BY <2>1 DEF vm_create, TypeOK, ListInv
    <2>2. CASE Settled(vm) /\ vm_destroy(vm)
      BY <2>2 DEF vm_destroy, DestroyCall, Settled, Begin
    <2>3. CASE state[vm] # "PAUSED" /\ vm_start(vm)
      BY <2>3 DEF vm_start
    <2>4. CASE vm_stop(vm)
      BY <2>4 DEF vm_stop, Begin
    <2>5. CASE vm_pause(vm) \/ vm_resume(vm)
      BY <1>0, <2>5 DEF vm_pause, vm_resume, TypeOK
    <2>6. CASE Settled(vm) /\ vm_reset(vm)
      BY <1>0, <2>6 DEF vm_reset, Settled, TypeOK, Begin
    <2>7. CASE state[vm] = "RUNNING" /\ migration_start(vm)
      BY <1>0, <2>7 DEF migration_start, TypeOK
    <2>8. CASE migration_end(vm)
      BY <1>0, <2>8 DEF migration_end, TypeOK
    <2>9. CASE state[vm] \in {"RUNNING", "SUSPENDED"} /\ snapshot_create(vm)
      BY <2>9 DEF snapshot_create
    <2> QED
      BY <2>1, <2>2, <2>3, <2>4, <2>5, <2>6, <2>7, <2>8, <2>9 DEF DisciplinedCall
  <1>3. \A v \in VCpu : Started(v)' <=> Started(v)
    <2>1. \A v \in VCpu : VmOf[v] \in VM /\ VcpuId[v] \in Nat /\ 0 <= VcpuId[v]
      BY ConstantsAssumption
    <2> QED
      BY <1>0, <1>2, <2>1 DEF Started, Begin, TypeOK
  <1>4. Rings'
    <2>1. \A v \in Queued : physical_cpu'[v] = physical_cpu[v]
      <3>1. CASE vm_create(vm)
        <4>1. \A v \in Queued : v \in VCpu /\ VmOf[v] # vm
          BY <1>0, <3>1 DEF vm_create, Queued, Started
        <4> QED
          BY <3>1, <4>1 DEF vm_create
      <3>2. CASE ~vm_create(vm)
        BY <3>2 DEF DisciplinedCall, vm_destroy, vm_start, vm_stop, vm_pause, vm_resume,
                    vm_reset, migration_start, migration_end, snapshot_create
      <3> QED
        BY <3>1, <3>2
    <2> QED
      BY <1>1, <1>3, <2>1, QueueFrame DEF QueueInv
  <1>5. CallStateOK'
    BY <1>0, <1>2 DEF CallStateOK, Begin, TypeOK
  <1>6. RunningIsStarted'
    <2>1. CASE vm_resume(vm)
      <3>1. \A v \in VCpu : VmOf[v] = vm => alive'[v] /\ Started(v)'
        <4>1. state[vm] = "PAUSED" /\ alive' = alive /\ vm \in LiveVMs
          BY <2>1 DEF vm_resume, LiveVMs, Live
        <4>2. \A v \in VCpu : VmOf[v] = vm => Started(v)
          BY <1>0, <4>1 DEF Started
        <4> QED
          BY <1>0, <1>3, <4>1, <4>2 DEF ListInv, AliveOK
      <3>2. \A v \in VCpu : running'[v] => running[v] \/ VmOf[v] = vm
        BY <2>1 DEF vm_resume
      <3>3. alive' = alive
        BY <2>1 DEF vm_resume
      <3> QED
        BY <1>3, <3>1, <3>2, <3>3 DEF RunningIsStarted, QueueInv
    <2>2. CASE vm_create(vm)
      BY <1>3, <2>2 DEF vm_create, RunningIsStarted, QueueInv
    <2>3. CASE ~vm_resume(vm) /\ ~vm_create(vm)
      <3>1. alive' = alive /\ \A v \in VCpu : running'[v] => running[v]
        BY <2>3
        DEF DisciplinedCall, vm_destroy, vm_start, vm_stop, vm_pause, vm_reset,
            migration_start, migration_end, snapshot_create
      <3> QED
        BY <1>3, <3>1, RunningFrame DEF QueueInv
    <2> QED
      BY <2>1, <2>2, <2>3
  <1> QED
    BY <1>0, <1>4, <1>5, <1>6 DEF QueueInv, SweepSettled

\* One vCPU of vm_stop's loop and of the unwinding loop of vm_start.
LEMMA StopLoopQueue ==
    ASSUME ListInv, QueueInv,
           vm_stop_vcpu \/ (vm_start_unwinds /\ call.i < call.lim)
    PROVE  QueueInv'
  <1> USE DEF hvVars, vmVars, vcpuVars, sweepVars
  <1>0. /\ TypeOK /\ call.vm \in VM /\ call.i \in Nat /\ call.lim \in Nat
        /\ call.op \in {"stop", "unwind"}
        /\ call.op = "stop" => state[call.vm] = "RUNNING"
        /\ call.op = "unwind" => state[call.vm] \in {"INITIALIZED", "SHUTDOWN"}
    BY DEF vm_stop_vcpu, vm_start_unwinds, ListInv, CallOK, TypeOK, Call, LiveVMs,
           QueueInv, CallStateOK
  <1>1. Advances
    <2>1. call' = [call EXCEPT !.i = @ + 1]
      BY DEF vm_stop_vcpu, vm_start_unwinds
    <2> QED
      BY <1>0, <2>1 DEF TypeOK, Call, Advances
  <1>2. PICK v \in VCpu : VmOf[v] = call.vm /\ VcpuId[v] = call.i /\ VcpuStops(v)
    BY DEF vm_stop_vcpu, vm_start_unwinds, VcpusOf
  <1>3. UNCHANGED <<state, sched_entity, physical_cpu, alive, sweeping>>
    BY DEF vm_stop_vcpu, vm_start_unwinds
  <1>4. /\ Started(v)
        /\ \A w \in VCpu : Started(w)' <=> Started(w) /\ w # v
    <2>1. /\ \A w \in VCpu : VcpuId[w] \in Nat
          /\ \A w \in VCpu : VmOf[w] = call.vm /\ VcpuId[w] = call.i => w = v
      BY <1>2, ConstantsAssumption
    <2>2. call.op = "unwind" => call.i < call.lim
      BY DEF vm_stop_vcpu
    <2> QED
      BY <1>0, <1>1, <1>2, <1>3, <2>1, <2>2 DEF Started, Advances
  <1>5. Rings'
    BY <1>0, <1>2, <1>3, <1>4, QueueStop DEF QueueInv
  <1>6. RunningIsStarted'
    <2>1. \A w \in VCpu : running'[w] => running[w] /\ w # v
      BY <1>0, <1>2 DEF VcpuStops, TypeOK
    <2> QED
      BY <1>3, <1>4, <2>1 DEF RunningIsStarted, QueueInv
  <1>7. CallStateOK'
    BY <1>0, <1>1, <1>3 DEF CallStateOK, Advances
  <1>8. SweepSettled'
    BY <1>3 DEF SweepSettled, QueueInv, LiveVMs, Live, Settled
  <1> QED
    BY <1>5, <1>6, <1>7, <1>8 DEF QueueInv

\* One vCPU of vm_start's loop.
LEMMA StartLoopQueue ==
    ASSUME ListInv, QueueInv, vm_start_vcpu
    PROVE  QueueInv'
  <1> USE DEF hvVars, vmVars, vcpuVars, sweepVars
  <1>0. /\ TypeOK /\ call.vm \in VM /\ call.vm \in LiveVMs
        /\ call.i \in Nat /\ call.op = "start"
        /\ state[call.vm] \in {"INITIALIZED", "SHUTDOWN"}
    BY DEF vm_start_vcpu, ListInv, CallOK, TypeOK, Call, LiveVMs, QueueInv, CallStateOK
  <1>1. UNCHANGED <<state, physical_cpu, alive, sweeping>>
    BY DEF vm_start_vcpu
  <1>2. Advances \/ TurnsBack
    BY <1>0, CallChanges
  <1>3. CallStateOK' /\ SweepSettled'
    BY <1>0, <1>1, <1>2
    DEF CallStateOK, SweepSettled, QueueInv, LiveVMs, Live, Settled, Advances, TurnsBack
  <1>4. PICK v \in VCpu :
           /\ VmOf[v] = call.vm /\ VcpuId[v] = call.i
           /\ \/ VcpuStarts(v) /\ call' = [call EXCEPT !.i = @ + 1]
              \/ /\ call' = [call EXCEPT !.op = "unwind", !.i = 0, !.lim = call.i]
                 /\ UNCHANGED <<running, initialized, sched_entity, rq>>
    BY DEF vm_start_vcpu, VcpusOf
  <1>5. ~Started(v) /\ ~running[v] /\ alive[v]
    <2>1. ~Started(v)
      BY <1>0, <1>4, ConstantsAssumption DEF Started
    <2> QED
      BY <1>0, <1>4, <2>1 DEF RunningIsStarted, QueueInv, ListInv, AliveOK
  <1>6. CASE VcpuStarts(v) /\ call' = [call EXCEPT !.i = @ + 1]
    <2>1. Advances
      BY <1>0, <1>6 DEF TypeOK, Call, Advances
    <2>2. \A w \in VCpu : Started(w)' <=> Started(w) \/ w = v
      <3>1. /\ \A w \in VCpu : VcpuId[w] \in Nat
            /\ \A w \in VCpu : VmOf[w] = call.vm /\ VcpuId[w] = call.i => w = v
        BY <1>4, ConstantsAssumption
      <3> QED
        BY <1>0, <1>1, <1>4, <2>1, <3>1 DEF Started, Advances
    <2>3. Rings'
      BY <1>0, <1>1, <1>5, <1>6, <2>2, QueueStart DEF QueueInv
    <2>4. \A w \in VCpu : running'[w] => running[w] \/ w = v
      BY <1>0, <1>6 DEF VcpuStarts, TypeOK
    <2>5. RunningIsStarted'
      BY <1>1, <1>5, <2>2, <2>4 DEF RunningIsStarted, QueueInv
    <2> QED
      BY <1>3, <2>3, <2>5 DEF QueueInv
  <1>7. CASE /\ call' = [call EXCEPT !.op = "unwind", !.i = 0, !.lim = call.i]
             /\ UNCHANGED <<running, initialized, sched_entity, rq>>
    <2>1. TurnsBack
      BY <1>0, <1>7 DEF TypeOK, Call, TurnsBack
    <2>2. \A w \in VCpu : Started(w)' <=> Started(w)
      BY <1>0, <1>1, <2>1, ConstantsAssumption DEF Started, TurnsBack
    <2>3. Rings'
      BY <1>1, <1>7, <2>2, QueueFrame DEF QueueInv
    <2>4. RunningIsStarted'
      BY <1>1, <1>7, <2>2 DEF RunningIsStarted, QueueInv
    <2> QED
      BY <1>3, <2>3, <2>4 DEF QueueInv
  <1> QED
    BY <1>4, <1>6, <1>7

\* The ends of the calls, and vm_destroy's loop over vCPUs that have stopped.
LEMMA EndQueue ==
    ASSUME ListInv, QueueInv,
           \/ vcpu_destroy \/ vm_unlink \/ vm_start_ends \/ vm_stop_ends \/ snapshot_ends
           \/ (vm_start_unwinds /\ ~(call.i < call.lim))
    PROVE  QueueInv'
  <1> USE DEF hvVars, vmVars, vcpuVars, sweepVars
  <1>0. /\ TypeOK /\ call \in Call /\ call.vm \in VM /\ call.vm \in LiveVMs
        /\ call.i \in Nat /\ call.lim \in Nat /\ call.op # "idle"
    BY DEF vcpu_destroy, vm_unlink, vm_start_ends, vm_stop_ends, snapshot_ends,
           vm_start_unwinds, ListInv, CallOK, TypeOK, Call, LiveVMs
  <1>1. \A v \in VCpu : /\ VmOf[v] \in VM /\ VcpuId[v] \in Nat
                        /\ VcpuId[v] < VcpuCount[VmOf[v]]
    BY ConstantsAssumption
  <1>2. CASE vcpu_destroy
    <2>1. call.op = "free" /\ state[call.vm] \in {"INITIALIZED", "SHUTDOWN"} /\ Advances
      BY <1>0, <1>2, CallChanges DEF vcpu_destroy, QueueInv, CallStateOK
    <2>2. PICK v \in VCpu :
             /\ VmOf[v] = call.vm
             /\ alive' = [alive EXCEPT ![v] = FALSE]
             /\ IF running[v] THEN VcpuStops(v) ELSE UNCHANGED <<running, rq>>
      BY <1>2 DEF vcpu_destroy, VcpusOf
    <2>3. /\ ~running[v]
          /\ UNCHANGED <<running, rq, state, sched_entity, physical_cpu, sweeping>>
      <3>1. ~Started(v)
        BY <2>1, <2>2 DEF Started
      <3> QED
        BY <1>2, <2>2, <3>1 DEF RunningIsStarted, QueueInv, vcpu_destroy
    <2>4. \A w \in VCpu : Started(w)' <=> Started(w)
      BY <2>1, <2>3 DEF Started, Advances
    <2>5. Rings'
      BY <2>3, <2>4, QueueFrame DEF QueueInv
    <2>6. RunningIsStarted'
      BY <1>0, <2>2, <2>3, <2>4 DEF RunningIsStarted, QueueInv, TypeOK
    <2> QED
      BY <2>1, <2>3, <2>5, <2>6
      DEF QueueInv, CallStateOK, SweepSettled, Advances, LiveVMs, Live, Settled
  <1>3. CASE ~vcpu_destroy
    <2>1. UNCHANGED <<sched_entity, rq, running, alive, physical_cpu, sweeping>>
      BY <1>3 DEF vm_unlink, vm_start_ends, vm_stop_ends, snapshot_ends, vm_start_unwinds
    <2>2. call' = Returned \/ (vm_stop_ends /\ call'= Begin("free", call.vm, FALSE))
      BY <1>3 DEF vm_unlink, vm_start_ends, vm_stop_ends, snapshot_ends, vm_start_unwinds
    <2>3. \/ /\ call.op = "free" /\ state[call.vm] \in {"INITIALIZED", "SHUTDOWN"}
             /\ state' = [state EXCEPT ![call.vm] = "FREED"]
          \/ /\ call.op = "start" /\ call.i = VcpuCount[call.vm]
             /\ state' = [state EXCEPT ![call.vm] = "RUNNING"]
          \/ /\ call.op = "stop" /\ call.i = VcpuCount[call.vm]
             /\ state' = [state EXCEPT ![call.vm] = "SHUTDOWN"]
          \/ /\ call.op = "snapshot" /\ state[call.vm] = "SUSPENDED"
             /\ state' = state \/ state' = [state EXCEPT ![call.vm] = "RUNNING"]
          \/ /\ call.op = "unwind" /\ ~(call.i < call.lim) /\ state' = state
             /\ state[call.vm] \in {"INITIALIZED", "SHUTDOWN"}
      BY <1>3
      DEF vm_unlink, vm_start_ends, vm_stop_ends, snapshot_ends, vm_start_unwinds,
          QueueInv, CallStateOK
    <2>4. \A w \in VCpu : Started(w)' <=> Started(w)
      <3>1. call'.op \in {"idle", "free"}
        BY <2>2 DEF Returned, Begin
      <3> QED
        BY <1>0, <1>1, <2>3, <3>1 DEF Started, TypeOK
    <2>5. Rings'
      BY <2>1, <2>4, QueueFrame DEF QueueInv
    <2>6. RunningIsStarted'
      BY <2>1, <2>4 DEF RunningIsStarted, QueueInv
    <2>7. CallStateOK'
      <3>1. vm_stop_ends => state'[call.vm] = "SHUTDOWN"
        BY <1>0 DEF vm_stop_ends, TypeOK
      <3> QED
        BY <2>2, <3>1 DEF CallStateOK, Returned, Begin
    <2>8. SweepSettled'
      BY <1>0, <2>1, <2>3 DEF SweepSettled, QueueInv, LiveVMs, Live, Settled, TypeOK
    <2> QED
      BY <2>5, <2>6, <2>7, <2>8 DEF QueueInv
  <1> QED
    BY <1>2, <1>3

\* hypervisor_init, the steps of hypervisor_shutdown, and a vm_create that fails.
LEMMA HypervisorQueue ==
    ASSUME ListInv, QueueInv,
           \/ hypervisor_init \/ vm_create_fails \/ shutdown_vm \/ shutdown_ends
           \/ (\A vm \in LiveVMs : Settled(vm)) /\ hypervisor_shutdown
    PROVE  QueueInv'
  <1> USE DEF hvVars, vmVars, vcpuVars, sweepVars
  <1>0. /\ TypeOK /\ UNCHANGED <<state, sched_entity, running, alive, physical_cpu>>
        /\ \A v \in VCpu : VmOf[v] \in VM
    BY ConstantsAssumption
    DEF ListInv, hypervisor_init, vm_create_fails, shutdown_vm, shutdown_ends,
        hypervisor_shutdown
  <1>1. LiveVMs' = LiveVMs /\ \A vm \in VM : Settled(vm)' <=> Settled(vm)
    BY <1>0 DEF LiveVMs, Live, Settled
  <1>2. CASE hypervisor_init
    <2>1. LiveVMs = {} /\ ~sweeping /\ call.op = "idle" /\ UNCHANGED <<call, sweeping>>
      BY <1>2 DEF hypervisor_init, ListInv, DownOK, CallOK
    <2>2. \A v \in VCpu : ~Started(v) /\ ~Started(v)'
      BY <1>0, <2>1 DEF Started, LiveVMs, Live
    <2>3. Queued' = {}
      BY <2>2 DEF Queued
    <2>4. rq' = INIT_LIST_HEAD(Node, Cpu, NULL)
      BY <1>2 DEF hypervisor_init
    <2>5. Rings'
      BY <2>3, <2>4, RingsInit, RingsNext
    <2> QED
      BY <1>0, <2>1, <2>2, <2>5
      DEF QueueInv, RunningIsStarted, CallStateOK, SweepSettled
  <1>3. CASE shutdown_vm
    <2>1. /\ cursor \in LiveVMs /\ cursor \in VM /\ call.op = "idle"
          /\ sweeping /\ sweeping' = sweeping /\ rq' = rq
          /\ call' = DestroyCall(cursor)
      BY <1>3 DEF shutdown_vm, ListInv, SweepOK, LiveVMs
    <2>2. Settled(cursor)
      BY <2>1 DEF QueueInv, SweepSettled
    <2>3. \A v \in VCpu : Started(v)' <=> Started(v)
      BY <1>0, <2>1, <2>2, ConstantsAssumption DEF Started, DestroyCall, Begin, Settled
    <2>4. Rings' /\ RunningIsStarted'
      BY <1>0, <2>1, <2>3, QueueFrame, RunningFrame DEF QueueInv
    <2>5. CallStateOK'
      BY <1>0, <2>1, <2>2 DEF CallStateOK, DestroyCall, Begin, Settled
    <2>6. SweepSettled'
      BY <1>1, <2>1 DEF QueueInv, SweepSettled, LiveVMs
    <2> QED
      BY <2>4, <2>5, <2>6 DEF QueueInv
  <1>4. CASE ~hypervisor_init /\ ~shutdown_vm
    <2>1. /\ UNCHANGED <<call, rq>>
          /\ sweeping' => sweeping \/ \A vm \in LiveVMs : Settled(vm)
      BY <1>4 DEF vm_create_fails, shutdown_ends, hypervisor_shutdown
    <2>2. \A v \in VCpu : Started(v)' <=> Started(v)
      BY <1>0, <2>1 DEF Started
    <2>3. Rings' /\ RunningIsStarted'
      BY <1>0, <2>1, <2>2, QueueFrame, RunningFrame DEF QueueInv
    <2> QED
      BY <1>0, <1>1, <2>1, <2>3 DEF QueueInv, CallStateOK, SweepSettled, LiveVMs
  <1> QED
    BY <1>2, <1>3, <1>4

\* The vCPU threads: yielding, waking, moving and running start and stop no
\* vCPU.
LEMMA VcpuQueue ==
    ASSUME ListInv, QueueInv, NEW v \in VCpu, DisciplinedVcpuCall(v) \/ GuestStep(v)
    PROVE  QueueInv'
  <1> USE DEF hvVars, vmVars, vcpuVars, sweepVars
  <1>1. UNCHANGED <<state, call, sched_entity, alive, sweeping>>
    BY DEF DisciplinedVcpuCall, GuestStep, scheduler_yield, scheduler_wake, vcpu_migrate,
           vcpu_run, VmExitLeaves
  <1>2. \A w \in VCpu : Started(w)' <=> Started(w)
    BY <1>1 DEF Started
  <1>3. Rings'
    <2>1. CASE v \in Queued /\ (scheduler_yield(v) \/ scheduler_wake(v))
      BY <2>1, QueueMoves DEF ListInv, QueueInv
    <2>2. CASE GuestStep(v) \/ (v \notin Queued /\ \E c \in 0..CpuCount : vcpu_migrate(v, c))
      <3>1. rq' = rq
        BY <2>2 DEF GuestStep, vcpu_migrate, vcpu_run, VmExitLeaves
      <3>2. \A w \in Queued : physical_cpu'[w] = physical_cpu[w]
        BY <2>2 DEF GuestStep, vcpu_migrate, vcpu_run, VmExitLeaves, ListInv, TypeOK, Queued
      <3> QED
        BY <1>1, <1>2, <3>1, <3>2, QueueFrame DEF QueueInv
    <2> QED
      BY <2>1, <2>2 DEF DisciplinedVcpuCall
  <1>4. \A w \in VCpu : running'[w] => running[w]
    BY DEF DisciplinedVcpuCall, GuestStep, scheduler_yield, scheduler_wake, vcpu_migrate,
           vcpu_run, VmExitLeaves, ListInv, TypeOK
  <1>5. RunningIsStarted'
    BY <1>1, <1>2, <1>4, RunningFrame DEF QueueInv
  <1> QED
    BY <1>1, <1>3, <1>5
    DEF QueueInv, CallStateOK, SweepSettled, LiveVMs, Live, Settled

\* The two invariants together are inductive under the discipline.
LEMMA NextQueue ==
    ASSUME ListInv, QueueInv, [DisciplinedNext]_vars
    PROVE  ListInv' /\ QueueInv'
  <1>1. ListInv'
    BY NextList, DisciplinedIsNext
  <1>2. CASE \/ hypervisor_init \/ vm_create_fails \/ shutdown_vm \/ shutdown_ends
             \/ (\A vm \in LiveVMs : Settled(vm)) /\ hypervisor_shutdown
    BY <1>1, <1>2, HypervisorQueue
  <1>3. CASE CallStep /\ ~shutdown_vm /\ ~shutdown_ends
    BY <1>1, <1>3, StopLoopQueue, StartLoopQueue, EndQueue DEF CallStep
  <1>4. CASE \E vm \in VM : DisciplinedCall(vm)
    BY <1>1, <1>4, CallQueue
  <1>5. CASE \E v \in VCpu : DisciplinedVcpuCall(v) \/ GuestStep(v)
    BY <1>1, <1>5, VcpuQueue
  <1>6. CASE UNCHANGED vars
    <2>1. Rings'
      <3>1. UNCHANGED <<sched_entity, rq, physical_cpu>> /\ \A v \in VCpu : Started(v)' <=> Started(v)
        BY <1>6 DEF vars, hvVars, vmVars, vcpuVars, sweepVars, Started
      <3> QED BY <3>1, QueueFrame DEF QueueInv
    <2> QED
      BY <1>1, <1>6, <2>1
      DEF vars, hvVars, vmVars, vcpuVars, sweepVars, QueueInv, RunningIsStarted, Started,
          CallStateOK, SweepSettled, LiveVMs, Live, Settled
  <1> QED
    BY <1>1, <1>2, <1>3, <1>4, <1>5, <1>6 DEF DisciplinedNext

\* Rings are correctly linked.
LEMMA RingsIntact == Rings => QueueIntegrity
  <1> SUFFICES ASSUME NEW own, RingsOf(rq, Queued, own) PROVE QueueIntegrity
    BY DEF Rings
  <1>1. own \in [VCpu -> Cpu \cup {NULL}]
    BY DEF RingsOf
  <1>2. \A n \in Cpu \cup Queued : \E c \in Cpu : n \in Nodes(c, own)
    BY <1>1 DEF RingsOf, Nodes
  <1>3. \A c \in Cpu : Nodes(c, own) \in SUBSET (Cpu \cup Queued)
    BY <1>1, NodesFacts DEF RingsOf, Nodes
  <1>4. \A c \in Cpu : Consistent(rq, Nodes(c, own))
    BY DEF RingsOf, Ring
  <1> QED
    BY <1>2, <1>3, <1>4 DEF QueueIntegrity, Consistent

\* list_for_each over the queue of c visits, once each, the vCPUs on it.
LEMMA QueueVisits ==
    ASSUME TypeOK, NEW own, RingsOf(rq, Queued, own), NEW c \in Cpu
    PROVE  /\ LoopEnds(rq, c)
           /\ ListLength(rq, c) \in 0 .. Cardinality(VCpu)
           /\ {Walk(rq, c)[k] : k \in 1 .. ListLength(rq, c)} = {v \in VCpu : own[v] = c}
           /\ \A i, j \in 1 .. ListLength(rq, c) : Walk(rq, c)[i] = Walk(rq, c)[j] => i = j
  <1> DEFINE S == Nodes(c, own)
             q == ListSeq(rq, c)
             w == Walk(rq, c)
  <1>0. own \in [VCpu -> Cpu \cup {NULL}]
    BY DEF RingsOf
  <1>1. /\ rq \in Heap(Node, NULL) /\ IsFiniteSet(Node) /\ S \in SUBSET Node
        /\ Ring(rq, c, S)
    BY <1>0, VCpuFinite, NodesFacts DEF TypeOK, Heaps, Heap, RingsOf
  <1>2. S \ {c} = {v \in VCpu : own[v] = c}
    BY <1>0, NodesFacts DEF Nodes
  <1>3. /\ LoopEnds(rq, c) /\ q \in Seq(S) /\ {q[k] : k \in DOMAIN q} = S \ {c}
        /\ \A k \in DOMAIN q : w[k] = q[k]
        /\ \A i, j \in DOMAIN q : q[i] = q[j] => i = j
    <2> HIDE DEF S
    <2> QED BY <1>1, RingWalk
  <1>4. Len(q) \in Nat /\ DOMAIN q = 1..Len(q) /\ ListLength(rq, c) = Len(q)
    BY <1>3 DEF ListLength
  <1> HIDE DEF S, q, w
  <1>5. Len(q) <= Cardinality(VCpu)
    <2> DEFINE g == [k \in 1..Len(q) |-> q[k]]
    <2>1. \A k \in 1..Len(q) : q[k] \in VCpu
      BY <1>2, <1>3, <1>4
    <2>2. g \in Injection(1..Len(q), VCpu)
      BY <1>3, <1>4, <2>1 DEF Injection, IsInjective
    <2>3. PICK A : A = 1..Len(q)
      OBVIOUS
    <2>4. Cardinality(A) = Len(q)
      <3>1. 1 \in Int /\ Len(q) \in Int
        BY <1>4
      <3>2. Cardinality(1..Len(q)) = IF 1 > Len(q) THEN 0 ELSE Len(q) - 1 + 1
        BY <3>1, FS_Interval
      <3> QED BY <1>4, <2>3, <3>2
    <2> HIDE DEF g
    <2>5. g \in Injection(A, VCpu)
      BY <2>2, <2>3
    <2>6. Cardinality(A) <= Cardinality(VCpu)
      BY <2>5, VCpuFinite, FS_Injection
    <2> QED BY <2>4, <2>6
  <1>6. Len(q) \in 0 .. Cardinality(VCpu)
    <2>1. Cardinality(VCpu) \in Nat
      BY VCpuFinite, FS_CardinalityType
    <2> QED BY <1>4, <1>5, <2>1
  <1>7. {w[k] : k \in 1..Len(q)} = {v \in VCpu : own[v] = c}
    BY <1>2, <1>3, <1>4
  <1>8. \A i, j \in 1..Len(q) : w[i] = w[j] => i = j
    BY <1>3, <1>4
  <1> QED
    BY <1>3, <1>4, <1>6, <1>7, <1>8 DEF w

LEMMA RingsHoldStarted == TypeOK /\ Rings => QueuesHoldStarted
  <1> SUFFICES ASSUME TypeOK, NEW own, RingsOf(rq, Queued, own) PROVE QueuesHoldStarted
    BY DEF Rings
  <1> DEFINE N == Cardinality(VCpu)
             entries == {e \in Cpu \X (1..N) : e[2] <= ListLength(rq, e[1])}
             at(e) == Walk(rq, e[1])[e[2]]
  <1>0. /\ own \in [VCpu -> Cpu \cup {NULL}] /\ Queued = {v \in VCpu : own[v] # NULL}
        /\ N \in Nat
    BY VCpuFinite, FS_CardinalityType DEF RingsOf
  <1>1. \A c \in Cpu :
           /\ LoopEnds(rq, c)
           /\ ListLength(rq, c) \in 0..N
           /\ {Walk(rq, c)[k] : k \in 1 .. ListLength(rq, c)} = {v \in VCpu : own[v] = c}
           /\ \A i, j \in 1 .. ListLength(rq, c) :
                 Walk(rq, c)[i] = Walk(rq, c)[j] => i = j
    BY QueueVisits
  <1> HIDE DEF N
  <1>2. \A c, k : <<c, k>> \in entries <=> c \in Cpu /\ k \in 1 .. ListLength(rq, c)
    <2>1. SUFFICES ASSUME NEW c \in Cpu, NEW k
                   PROVE  k \in 1..N /\ k <= ListLength(rq, c)
                             <=> k \in 1 .. ListLength(rq, c)
      OBVIOUS
    <2>2. ListLength(rq, c) \in 0..N
      BY <1>1
    <2> QED BY <1>0, <2>2
  <1>3. \A e \in entries : e = <<e[1], e[2]>>
    OBVIOUS
  <1>4. \A e \in entries : at(e) \in VCpu /\ own[at(e)] = e[1] /\ e[1] \in Cpu
    <2>1. SUFFICES ASSUME NEW e \in entries
                   PROVE  at(e) \in VCpu /\ own[at(e)] = e[1] /\ e[1] \in Cpu
      OBVIOUS
    <2>2. e[1] \in Cpu /\ e[2] \in 1 .. ListLength(rq, e[1])
      BY <1>2, <1>3
    <2> QED BY <1>1, <2>2
  <1>5. {at(e) : e \in entries} = Queued
    <2>1. ASSUME NEW v \in Queued PROVE \E e \in entries : at(e) = v
      <3>1. PICK c \in Cpu : own[v] = c /\ v \in VCpu
        BY <1>0
      <3>2. PICK k \in 1 .. ListLength(rq, c) : Walk(rq, c)[k] = v
        BY <1>1, <3>1
      <3>3. <<c, k>> \in entries /\ at(<<c, k>>) = v
        BY <1>2, <3>2
      <3> QED BY <3>3
    <2>2. ASSUME NEW e \in entries PROVE at(e) \in Queued
      BY <1>0, <1>4, NodesFacts
    <2> HIDE DEF entries, at
    <2> QED BY <2>1, <2>2
  <1>6. ASSUME NEW e \in entries, NEW f \in entries, at(e) = at(f) PROVE e = f
    <2>1. e[1] = f[1]
      BY <1>4, <1>6
    <2>2. e[2] \in 1 .. ListLength(rq, e[1]) /\ f[2] \in 1 .. ListLength(rq, e[1])
      BY <1>2, <1>3, <2>1
    <2>3. e[1] \in Cpu
      BY <1>4
    <2>4. e[2] = f[2]
      BY <1>1, <1>6, <2>1, <2>2, <2>3
    <2> QED BY <1>3, <2>1, <2>4
  <1>7. \A c \in Cpu : LoopEnds(rq, c)
    BY <1>1
  <1> QED
    BY <1>5, <1>6, <1>7 DEF QueuesHoldStarted, N

\* Under the disciplined caller the run queues stay correctly linked.
THEOREM QueuesCorrect == DisciplinedSpec => []QueueIntegrity
  <1>1. Init => ListInv /\ QueueInv
    BY InitList, InitQueue
  <1>2. ListInv /\ QueueInv /\ [DisciplinedNext]_vars => ListInv' /\ QueueInv'
    BY NextQueue
  <1>3. QueueInv => QueueIntegrity
    BY RingsIntact DEF QueueInv
  <1> QED
    BY <1>1, <1>2, <1>3, PTL DEF DisciplinedSpec

\* Under the disciplined caller a vCPU is marked running only while it is
\* allocated and started.
THEOREM RunningCorrect == DisciplinedSpec => []RunningIsStarted
  <1>1. Init => ListInv /\ QueueInv
    BY InitList, InitQueue
  <1>2. ListInv /\ QueueInv /\ [DisciplinedNext]_vars => ListInv' /\ QueueInv'
    BY NextQueue
  <1>3. QueueInv => RunningIsStarted
    BY DEF QueueInv
  <1> QED
    BY <1>1, <1>2, <1>3, PTL DEF DisciplinedSpec

\* Under the disciplined caller every started vCPU that has an entity is on
\* exactly one run queue, once, nothing else is on any, and list_for_each over
\* each queue ends.
THEOREM StartedAreQueued == DisciplinedSpec => []QueuesHoldStarted
  <1>1. Init => ListInv /\ QueueInv
    BY InitList, InitQueue
  <1>2. ListInv /\ QueueInv /\ [DisciplinedNext]_vars => ListInv' /\ QueueInv'
    BY NextQueue
  <1>3. ListInv /\ QueueInv => QueuesHoldStarted
    BY RingsHoldStarted DEF ListInv, QueueInv
  <1> QED
    BY <1>1, <1>2, <1>3, PTL DEF DisciplinedSpec
=============================================================================
