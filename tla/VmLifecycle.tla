---------------------------- MODULE VmLifecycle ----------------------------
(***************************************************************************)
(* The virtual-machine lifecycle of src/src/hypervisor/hypervisor.c: the   *)
(* VM list, the state of every VM and vCPU, and the per-CPU run queues     *)
(* that vcpu_start and vcpu_stop reach through scheduler_add_vcpu and      *)
(* scheduler_remove_vcpu.                                                  *)
(*                                                                         *)
(* hypervisor.c takes no lock: VM operations come from one control thread, *)
(* whose call in progress is `call'.  The loops of vm_start, vm_stop and   *)
(* vm_destroy advance by one vCPU a step, so that the vCPU threads         *)
(* (vcpu_run and its exits, scheduler_yield, scheduler_wake, vcpu_migrate) *)
(* interleave with them.  A run-queue operation is one step here as long   *)
(* as the spinlock it takes protects the nodes it changes (Relinks), and   *)
(* may leave any pointers behind when it does not; module Scheduler splits *)
(* the operations themselves.                                              *)
(*                                                                         *)
(* A member of VM is one nexusvm_t allocation and a member of VCpu one     *)
(* nexusvcpu_t with the sched_entity_t it may come to own; neither is      *)
(* reused after free().  VmOf and VcpuId give the place of a vCPU in its   *)
(* VM's vcpus array.                                                       *)
(***************************************************************************)
EXTENDS LinkedList

CONSTANTS VM, VCpu, NULL,
          VmOf,        \* vcpu->vm
          VcpuId,      \* vcpu->vcpu_id
          VcpuCount,   \* vm->vcpu_count
          CpuCount,    \* hypervisor->online_cpu_count
          MaxVmId,     \* bound on next_vm_id
          MaxSessions  \* bound on the open migration sessions of a VM

Cpu  == 0 .. (CpuCount - 1)
Node == Cpu \cup VCpu

ASSUME ConstantsAssumption ==
    /\ CpuCount \in Nat \ {0}
    /\ MaxVmId \in Nat /\ MaxSessions \in Nat
    /\ IsFiniteSet(VM)
    /\ VmOf \in [VCpu -> VM]
    /\ VcpuId \in [VCpu -> Nat]
    /\ VcpuCount \in [VM -> Nat]
    /\ \A v \in VCpu : VcpuId[v] < VcpuCount[VmOf[v]]
    /\ \A vm \in VM : \A i \in 0 .. (VcpuCount[vm] - 1) :
          \E v \in VCpu : VmOf[v] = vm /\ VcpuId[v] = i
    /\ \A v, w \in VCpu :
          VmOf[v] = VmOf[w] /\ VcpuId[v] = VcpuId[w] => v = w
    /\ Cpu \cap VCpu = {}
    /\ NULL \notin VM \cup Node

VARIABLES
    up,           \* g_initialized
    vms, vm_count, next_vm_id,            \* the list head and counters of hypervisor_t
    state, id, next, prev,                \* of every nexusvm_t
    sessions,                             \* migration sessions open on a VM
    alive, running, initialized,          \* of every nexusvcpu_t
    sched_entity,                         \* is vcpu->sched_entity non-null?
    physical_cpu,
    in_run,       \* is a thread inside vcpu_run of this vCPU?
    rq,           \* next and prev of the queue heads and the entities
    call,         \* what the control thread is executing
    sweeping, cursor  \* hypervisor_shutdown's loop over the VM list

hvVars    == <<up, vms, vm_count, next_vm_id>>
vmVars    == <<id, next, prev>>
vcpuVars  == <<alive, initialized, sched_entity, physical_cpu, in_run>>
sweepVars == <<sweeping, cursor>>
vars == <<hvVars, vmVars, state, sessions, vcpuVars, running, rq, call, sweepVars>>

VmState == {"UNALLOCATED", "INITIALIZED", "RUNNING", "PAUSED", "SUSPENDED",
            "MIGRATING", "SHUTDOWN", "FREED"}

\* The pointers of the queue heads and the entities.
Heaps == [next : [Node -> Node \cup {NULL}], prev : [Node -> Node \cup {NULL}]]

Live(vm) == state[vm] \notin {"UNALLOCATED", "FREED"}
LiveVMs  == {vm \in VM : Live(vm)}
VcpusOf(vm) == {v \in VCpu : VmOf[v] = vm}

\* A call of the control thread: the function, its VM, the loop index, the
\* bound of the unwinding loop, and whether vm_destroy follows vm_stop.
Call == [op : {"idle", "start", "unwind", "stop", "free", "snapshot"},
         vm : VM \cup {NULL}, i : Nat, lim : Nat, destroy : BOOLEAN]

Returned == [op |-> "idle", vm |-> NULL, i |-> 0, lim |-> 0, destroy |-> FALSE]
Begin(op, vm, destroy) ==
    [op |-> op, vm |-> vm, i |-> 0, lim |-> 0, destroy |-> destroy]

TypeOK ==
    /\ up \in BOOLEAN
    /\ vms \in VM \cup {NULL}
    /\ vm_count \in Nat
    /\ next_vm_id \in 1 .. (MaxVmId + 1)
    /\ state \in [VM -> VmState]
    /\ id \in [VM -> Nat]
    /\ next \in [VM -> VM \cup {NULL}]
    /\ prev \in [VM -> VM \cup {NULL}]
    /\ sessions \in [VM -> 0..MaxSessions]
    /\ alive \in [VCpu -> BOOLEAN]
    /\ running \in [VCpu -> BOOLEAN]
    /\ initialized \in [VCpu -> BOOLEAN]
    /\ sched_entity \in [VCpu -> BOOLEAN]
    /\ physical_cpu \in [VCpu -> Cpu]
    /\ in_run \in [VCpu -> BOOLEAN]
    /\ rq \in Heaps
    /\ call \in Call
    /\ sweeping \in BOOLEAN
    /\ cursor \in VM \cup {NULL}

Init ==
    /\ up = FALSE
    /\ vms = NULL /\ vm_count = 0 /\ next_vm_id = 1
    /\ state = [vm \in VM |-> "UNALLOCATED"]
    /\ id = [vm \in VM |-> 0]
    /\ next = [vm \in VM |-> NULL] /\ prev = [vm \in VM |-> NULL]
    /\ sessions = [vm \in VM |-> 0]
    /\ alive = [v \in VCpu |-> FALSE]
    /\ running = [v \in VCpu |-> FALSE]
    /\ initialized = [v \in VCpu |-> FALSE]
    /\ sched_entity = [v \in VCpu |-> FALSE]
    /\ physical_cpu = [v \in VCpu |-> 0]
    /\ in_run = [v \in VCpu |-> FALSE]
    /\ rq = INIT_LIST_HEAD(Node, Cpu, NULL)
    /\ call = Returned
    /\ sweeping = FALSE /\ cursor = NULL

\* The control thread may enter an API function.
Idle == up /\ ~sweeping /\ call.op = "idle"

-----------------------------------------------------------------------------
(* The scheduler entry points of scheduler.c, as steps on the run queues.  *)

Entries(c) == LET s == ListSeq(rq, c) IN {s[k] : k \in DOMAIN s}

QueuesSound ==
    \A c \in Cpu : LoopEnds(rq, c) /\ Consistent(rq, {c} \cup Entries(c))

\* A call takes the lock of queue physical_cpu[v] and no other.  Where that
\* lock protects every node its macros change it leaves h; where it does not,
\* a call under another lock may change the same nodes meanwhile, and what is
\* left can be anything.
Relinks(h, protected) == rq' \in IF QueuesSound /\ protected THEN {h} ELSE Heaps

\* An entity that joins a queue must be on no other, ...
OnNoOther(v) == \A c \in Cpu \ {physical_cpu[v]} : v \notin Entries(c)

\* ... and one that is unlinked must be on the queue that is locked, which it
\* is not once vcpu_migrate has changed physical_cpu.
AtHome(v) == v \in Entries(physical_cpu[v])

\* The result is ignored by vcpu_start: a failed calloc of the entity leaves
\* a running vCPU on no queue.
scheduler_add_vcpu(v) ==
    \/ /\ ~sched_entity[v]
       /\ UNCHANGED <<sched_entity, rq>>
    \/ /\ sched_entity' = [sched_entity EXCEPT ![v] = TRUE]
       /\ Relinks(list_add_tail(rq, v, physical_cpu[v]), OnNoOther(v))

\* Unlinks the entity whether or not it is on a queue.
scheduler_remove_vcpu(v) ==
    IF sched_entity[v] THEN Relinks(list_del(rq, v), AtHome(v)) ELSE UNCHANGED rq

\* Mutant: re-queues without unlinking first.
MutYieldWithoutDel(v) ==
    /\ alive[v] /\ sched_entity[v]
    /\ rq' = list_add_tail(rq, v, physical_cpu[v])
    /\ UNCHANGED <<hvVars, vmVars, state, sessions, vcpuVars, running, call, sweepVars>>

scheduler_yield(v) ==
    /\ alive[v] /\ sched_entity[v]
    /\ Relinks(list_add_tail(list_del(rq, v), v, physical_cpu[v]), AtHome(v))
    /\ UNCHANGED <<hvVars, vmVars, state, sessions, vcpuVars, running, call, sweepVars>>

scheduler_wake(v) ==
    /\ alive[v] /\ sched_entity[v]
    /\ Relinks(list_add(list_del(rq, v), v, physical_cpu[v]), AtHome(v))
    /\ UNCHANGED <<hvVars, vmVars, state, sessions, vcpuVars, running, call, sweepVars>>

-----------------------------------------------------------------------------
(* The vCPU operations of hypervisor.c and the run loop of vmx.c.          *)

\* vcpu_start returning NEXUSVM_OK.
VcpuStarts(v) ==
    IF running[v] THEN UNCHANGED <<running, initialized, sched_entity, rq>>
    ELSE /\ initialized' = [initialized EXCEPT ![v] = TRUE]
         /\ running' = [running EXCEPT ![v] = TRUE]
         /\ scheduler_add_vcpu(v)

\* vcpu_start can fail only in vmx_vcpu_setup or svm_vcpu_setup.
VcpuSetupCanFail(v) == ~running[v] /\ ~initialized[v]

\* Mutant: forgets the scheduler.
MutStopLeavesQueued(v) ==
    /\ running' = [running EXCEPT ![v] = FALSE]
    /\ UNCHANGED rq

VcpuStops(v) ==
    /\ running' = [running EXCEPT ![v] = FALSE]
    /\ scheduler_remove_vcpu(v)

vcpu_start(v) ==
    /\ Idle /\ alive[v] /\ VcpuStarts(v)
    /\ UNCHANGED <<hvVars, vmVars, state, sessions, alive, physical_cpu, in_run,
                   call, sweepVars>>

vcpu_stop(v) ==
    /\ Idle /\ alive[v] /\ VcpuStops(v)
    /\ UNCHANGED <<hvVars, vmVars, state, sessions, vcpuVars, call, sweepVars>>

\* Leaves the entity on the queue it is on.
vcpu_migrate(v, target_cpu) ==
    /\ alive[v] /\ target_cpu \in Cpu
    /\ physical_cpu' = [physical_cpu EXCEPT ![v] = target_cpu]
    /\ UNCHANGED <<hvVars, vmVars, state, sessions, alive, running, initialized,
                   sched_entity, in_run, rq, call, sweepVars>>

\* A thread enters the run loop, which it leaves at once unless running.
vcpu_run(v) ==
    /\ alive[v] /\ initialized[v] /\ running[v] /\ ~in_run[v]
    /\ in_run' = [in_run EXCEPT ![v] = TRUE]
    /\ UNCHANGED <<hvVars, vmVars, state, sessions, alive, running, initialized,
                   sched_entity, physical_cpu, rq, call, sweepVars>>

\* An exit that ends the loop: VMXOFF and a machine check clear running,
\* another failing handler leaves it, and a loop test sees it cleared.  None
\* of them takes the entity off its queue.
VmExitLeaves(v) ==
    /\ alive[v] /\ in_run[v]
    /\ in_run' = [in_run EXCEPT ![v] = FALSE]
    /\ \/ running' = [running EXCEPT ![v] = FALSE]
       \/ UNCHANGED running
    /\ UNCHANGED <<hvVars, vmVars, state, sessions, alive, initialized,
                   sched_entity, physical_cpu, rq, call, sweepVars>>

-----------------------------------------------------------------------------
(* VM creation and destruction.                                            *)

vm_create(vm) ==
    /\ Idle /\ state[vm] = "UNALLOCATED" /\ next_vm_id <= MaxVmId
    /\ id' = [id EXCEPT ![vm] = next_vm_id]
    /\ next_vm_id' = next_vm_id + 1
    /\ alive' = [v \in VCpu |-> alive[v] \/ VmOf[v] = vm]
    /\ physical_cpu' = [v \in VCpu |-> IF VmOf[v] = vm THEN VcpuId[v] % CpuCount
                                       ELSE physical_cpu[v]]
    /\ next' = [next EXCEPT ![vm] = vms]
    /\ prev' = IF vms = NULL THEN prev ELSE [prev EXCEPT ![vms] = vm]
    /\ vms' = vm
    /\ vm_count' = vm_count + 1
    /\ state' = [state EXCEPT ![vm] = "INITIALIZED"]
    /\ UNCHANGED <<up, sessions, running, initialized, sched_entity, in_run, rq,
                   call, sweepVars>>

\* An allocation or vcpu_create fails after the id was taken: all is freed,
\* the id is spent.
vm_create_fails ==
    /\ Idle /\ next_vm_id <= MaxVmId
    /\ next_vm_id' = next_vm_id + 1
    /\ UNCHANGED <<up, vms, vm_count, vmVars, state, sessions, vcpuVars, running,
                   rq, call, sweepVars>>

\* vm_destroy(vm), and the body of hypervisor_shutdown's loop: vm_stop first
\* if the VM runs, then the vCPUs, then the list.
DestroyCall(vm) ==
    IF state[vm] = "RUNNING" THEN Begin("stop", vm, TRUE) ELSE Begin("free", vm, FALSE)

vm_destroy(vm) ==
    /\ Idle /\ Live(vm)
    /\ call' = DestroyCall(vm)
    /\ UNCHANGED <<hvVars, vmVars, state, sessions, vcpuVars, running, rq, sweepVars>>

\* vcpu_destroy of vcpus[i].
vcpu_destroy ==
    /\ call.op = "free" /\ call.i < VcpuCount[call.vm]
    /\ \E v \in VcpusOf(call.vm) :
          /\ VcpuId[v] = call.i
          /\ alive' = [alive EXCEPT ![v] = FALSE]
          /\ IF running[v] THEN VcpuStops(v) ELSE UNCHANGED <<running, rq>>
    /\ call' = [call EXCEPT !.i = @ + 1]
    /\ UNCHANGED <<hvVars, vmVars, state, sessions, initialized, sched_entity,
                   physical_cpu, in_run, sweepVars>>

\* Mutant: the successor keeps its prev pointer to the freed VM.
MutUnlinkKeepsPrev ==
    /\ call.op = "free" /\ call.i = VcpuCount[call.vm]
    /\ LET vm == call.vm IN
          /\ IF prev[vm] # NULL
             THEN next' = [next EXCEPT ![prev[vm]] = next[vm]] /\ vms' = vms
             ELSE next' = next /\ vms' = next[vm]
          /\ state' = [state EXCEPT ![vm] = "FREED"]
    /\ vm_count' = vm_count - 1
    /\ call' = Returned
    /\ UNCHANGED <<up, next_vm_id, id, prev, sessions, vcpuVars, running, rq, sweepVars>>

\* The rest of vm_destroy: out of the VM list, count, free().
vm_unlink ==
    /\ call.op = "free" /\ call.i = VcpuCount[call.vm]
    /\ LET vm == call.vm IN
          /\ IF prev[vm] # NULL
             THEN next' = [next EXCEPT ![prev[vm]] = next[vm]] /\ vms' = vms
             ELSE next' = next /\ vms' = next[vm]
          /\ prev' = IF next[vm] # NULL THEN [prev EXCEPT ![next[vm]] = prev[vm]]
                     ELSE prev
          /\ state' = [state EXCEPT ![vm] = "FREED"]
    /\ vm_count' = vm_count - 1
    /\ call' = Returned
    /\ UNCHANGED <<up, next_vm_id, id, sessions, vcpuVars, running, rq, sweepVars>>

-----------------------------------------------------------------------------
(* VM state changes.                                                       *)

vm_start(vm) ==
    /\ Idle
    /\ state[vm] \in {"INITIALIZED", "PAUSED", "SHUTDOWN"}
    /\ call' = Begin("start", vm, FALSE)
    /\ UNCHANGED <<hvVars, vmVars, state, sessions, vcpuVars, running, rq, sweepVars>>

\* Mutant: a failed vcpu_start is retried.
MutStartRetries ==
    /\ call.op = "start" /\ call.i < VcpuCount[call.vm]
    /\ \E v \in VcpusOf(call.vm) :
          /\ VcpuId[v] = call.i
          /\ \/ /\ VcpuStarts(v)
                /\ call' = [call EXCEPT !.i = @ + 1]
             \/ /\ VcpuSetupCanFail(v)
                /\ call' = [call EXCEPT !.lim = 1 - @]
                /\ UNCHANGED <<running, initialized, sched_entity, rq>>
    /\ UNCHANGED <<hvVars, vmVars, state, sessions, alive, physical_cpu, in_run,
                   sweepVars>>

\* One vcpu_start of vm_start's loop, or its failure, which turns back.
vm_start_vcpu ==
    /\ call.op = "start" /\ call.i < VcpuCount[call.vm]
    /\ \E v \in VcpusOf(call.vm) :
          /\ VcpuId[v] = call.i
          /\ \/ /\ VcpuStarts(v)
                /\ call' = [call EXCEPT !.i = @ + 1]
             \/ /\ VcpuSetupCanFail(v)
                /\ call' = [call EXCEPT !.op = "unwind", !.i = 0, !.lim = call.i]
                /\ UNCHANGED <<running, initialized, sched_entity, rq>>
    /\ UNCHANGED <<hvVars, vmVars, state, sessions, alive, physical_cpu, in_run,
                   sweepVars>>

vm_start_ends ==
    /\ call.op = "start" /\ call.i = VcpuCount[call.vm]
    /\ state' = [state EXCEPT ![call.vm] = "RUNNING"]
    /\ call' = Returned
    /\ UNCHANGED <<hvVars, vmVars, sessions, vcpuVars, running, rq, sweepVars>>

\* Mutant: the unwinding loop skips vCPU 0.
MutUnwindSkipsFirst ==
    /\ call.op = "unwind"
    /\ IF call.i < call.lim
       THEN /\ \E v \in VcpusOf(call.vm) :
                   /\ VcpuId[v] = call.i
                   /\ IF call.i > 0 THEN VcpuStops(v) ELSE UNCHANGED <<running, rq>>
            /\ call' = [call EXCEPT !.i = @ + 1]
       ELSE /\ call' = Returned
            /\ UNCHANGED <<running, rq>>
    /\ UNCHANGED <<hvVars, vmVars, state, sessions, vcpuVars, sweepVars>>

\* "Stop already started vCPUs".
vm_start_unwinds ==
    /\ call.op = "unwind"
    /\ IF call.i < call.lim
       THEN /\ \E v \in VcpusOf(call.vm) : VcpuId[v] = call.i /\ VcpuStops(v)
            /\ call' = [call EXCEPT !.i = @ + 1]
       ELSE /\ call' = Returned
            /\ UNCHANGED <<running, rq>>
    /\ UNCHANGED <<hvVars, vmVars, state, sessions, vcpuVars, sweepVars>>

vm_stop(vm) ==
    /\ Idle /\ state[vm] = "RUNNING"
    /\ call' = Begin("stop", vm, FALSE)
    /\ UNCHANGED <<hvVars, vmVars, state, sessions, vcpuVars, running, rq, sweepVars>>

vm_stop_vcpu ==
    /\ call.op = "stop" /\ call.i < VcpuCount[call.vm]
    /\ \E v \in VcpusOf(call.vm) : VcpuId[v] = call.i /\ VcpuStops(v)
    /\ call' = [call EXCEPT !.i = @ + 1]
    /\ UNCHANGED <<hvVars, vmVars, state, sessions, vcpuVars, sweepVars>>

\* The end of vm_stop; vm_destroy goes on to the vCPUs.
vm_stop_ends ==
    /\ call.op = "stop" /\ call.i = VcpuCount[call.vm]
    /\ state' = [state EXCEPT ![call.vm] = "SHUTDOWN"]
    /\ call' = IF call.destroy THEN Begin("free", call.vm, FALSE) ELSE Returned
    /\ UNCHANGED <<hvVars, vmVars, sessions, vcpuVars, running, rq, sweepVars>>

\* Clears running and leaves the entities on their queues.
vm_pause(vm) ==
    /\ Idle /\ state[vm] = "RUNNING"
    /\ running' = [v \in VCpu |-> running[v] /\ VmOf[v] # vm]
    /\ state' = [state EXCEPT ![vm] = "PAUSED"]
    /\ UNCHANGED <<hvVars, vmVars, sessions, vcpuVars, rq, call, sweepVars>>

vm_resume(vm) ==
    /\ Idle /\ state[vm] = "PAUSED"
    /\ running' = [v \in VCpu |-> running[v] \/ (VmOf[v] = vm /\ initialized[v])]
    /\ state' = [state EXCEPT ![vm] = "RUNNING"]
    /\ UNCHANGED <<hvVars, vmVars, sessions, vcpuVars, rq, call, sweepVars>>

\* vm_stop if running; SHUTDOWN in any case.  The registers and, on a cold
\* reset, the EPT root are not part of this module's state.
vm_reset(vm) ==
    /\ Idle /\ Live(vm)
    /\ IF state[vm] = "RUNNING"
       THEN call' = Begin("stop", vm, FALSE) /\ state' = state
       ELSE call' = call /\ state' = [state EXCEPT ![vm] = "SHUTDOWN"]
    /\ UNCHANGED <<hvVars, vmVars, sessions, vcpuVars, running, rq, sweepVars>>

-----------------------------------------------------------------------------
(* What migration.c and checkpoint.c do to vm->state.                      *)

migration_start(vm) ==
    /\ Idle /\ Live(vm) /\ sessions[vm] < MaxSessions
    /\ state' = [state EXCEPT ![vm] = "MIGRATING"]
    /\ sessions' = [sessions EXCEPT ![vm] = @ + 1]
    /\ UNCHANGED <<hvVars, vmVars, vcpuVars, running, rq, call, sweepVars>>

\* Mutant: a session can be completed a second time.
MutMigrationEndsTwice(vm) ==
    /\ Idle /\ Live(vm)
    /\ state' = IF state[vm] = "MIGRATING" THEN [state EXCEPT ![vm] = "RUNNING"] ELSE state
    /\ sessions' = [sessions EXCEPT ![vm] = @ - 1]
    /\ UNCHANGED <<hvVars, vmVars, vcpuVars, running, rq, call, sweepVars>>

\* migration_complete and migration_cancel, which treat the VM alike.
migration_end(vm) ==
    /\ Idle /\ Live(vm) /\ sessions[vm] > 0
    /\ state' = IF state[vm] = "MIGRATING" THEN [state EXCEPT ![vm] = "RUNNING"] ELSE state
    /\ sessions' = [sessions EXCEPT ![vm] = @ - 1]
    /\ UNCHANGED <<hvVars, vmVars, vcpuVars, running, rq, call, sweepVars>>

snapshot_create(vm) ==
    /\ Idle /\ Live(vm)
    /\ state' = [state EXCEPT ![vm] = "SUSPENDED"]
    /\ call' = Begin("snapshot", vm, FALSE)
    /\ UNCHANGED <<hvVars, vmVars, sessions, vcpuVars, running, rq, sweepVars>>

\* checkpoint_create returned; a failure leaves the VM suspended.
snapshot_ends ==
    /\ call.op = "snapshot"
    /\ \/ state' = [state EXCEPT ![call.vm] = "RUNNING"]
       \/ state' = state
    /\ call' = Returned
    /\ UNCHANGED <<hvVars, vmVars, sessions, vcpuVars, running, rq, sweepVars>>

-----------------------------------------------------------------------------
(* Hypervisor initialisation and shutdown, as the VM list sees them.       *)

\* The queues are a new allocation; what an earlier life left behind cannot
\* be reached from them.
hypervisor_init ==
    /\ ~up
    /\ up' = TRUE
    /\ vms' = NULL /\ vm_count' = 0 /\ next_vm_id' = 1
    /\ rq' = INIT_LIST_HEAD(Node, Cpu, NULL)
    /\ UNCHANGED <<vmVars, state, sessions, vcpuVars, running, call, sweepVars>>

hypervisor_shutdown ==
    /\ Idle
    /\ sweeping' = TRUE
    /\ cursor' = vms
    /\ UNCHANGED <<hvVars, vmVars, state, sessions, vcpuVars, running, rq, call>>

\* Mutant: stops every VM and destroys only the ones that were running.
MutShutdownOnlyStops ==
    /\ sweeping /\ call.op = "idle" /\ cursor # NULL
    /\ cursor' = next[cursor]
    /\ call' = IF state[cursor] = "RUNNING" THEN DestroyCall(cursor) ELSE call
    /\ UNCHANGED <<hvVars, vmVars, state, sessions, vcpuVars, running, rq, sweeping>>

\* next = vm->next is read before vm_stop and vm_destroy free the VM.
shutdown_vm ==
    /\ sweeping /\ call.op = "idle" /\ cursor # NULL
    /\ cursor' = next[cursor]
    /\ call' = DestroyCall(cursor)
    /\ UNCHANGED <<hvVars, vmVars, state, sessions, vcpuVars, running, rq, sweeping>>

shutdown_ends ==
    /\ sweeping /\ call.op = "idle" /\ cursor = NULL
    /\ sweeping' = FALSE
    /\ up' = FALSE
    /\ UNCHANGED <<vms, vm_count, next_vm_id, vmVars, state, sessions, vcpuVars,
                   running, rq, call, cursor>>

-----------------------------------------------------------------------------
(* Who takes which step.                                                   *)

\* The control thread inside a call.
CallStep ==
    \/ vcpu_destroy \/ vm_unlink
    \/ vm_start_vcpu \/ vm_start_ends \/ vm_start_unwinds
    \/ vm_stop_vcpu \/ vm_stop_ends
    \/ snapshot_ends
    \/ shutdown_vm \/ shutdown_ends

GuestStep(v) == vcpu_run(v) \/ VmExitLeaves(v)

\* Any caller: whatever the API accepts on a VM that has not been freed.
AnyCall(vm) ==
    \/ vm_create(vm) \/ vm_destroy(vm)
    \/ vm_start(vm) \/ vm_stop(vm) \/ vm_pause(vm) \/ vm_resume(vm) \/ vm_reset(vm)
    \/ migration_start(vm) \/ migration_end(vm) \/ snapshot_create(vm)

AnyVcpuCall(v) ==
    \/ vcpu_start(v) \/ vcpu_stop(v)
    \/ scheduler_yield(v) \/ scheduler_wake(v)
    \/ \E c \in 0..CpuCount : vcpu_migrate(v, c)

Next ==
    \/ hypervisor_init \/ vm_create_fails \/ hypervisor_shutdown
    \/ CallStep
    \/ \E vm \in VM : AnyCall(vm)
    \/ \E v \in VCpu : AnyVcpuCall(v) \/ GuestStep(v)

Spec == Init /\ [][Next]_vars /\ WF_vars(CallStep)

(***************************************************************************)
(* The disciplined caller.  The code leaves these duties to its callers    *)
(* without checking them: a paused VM is resumed and nothing else; a VM is *)
(* destroyed, reset or shut down with only when it is new, running or shut *)
(* down; migration starts, and a snapshot is taken, on a running VM (or    *)
(* again after a failed snapshot); a vCPU is started and stopped through   *)
(* its VM, yields or wakes only while its entity is queued, is in one      *)
(* scheduler call at a time, and is moved to another CPU by the control    *)
(* thread only while its entity is on no queue.                            *)
(***************************************************************************)
Settled(vm) == state[vm] \in {"INITIALIZED", "RUNNING", "SHUTDOWN"}

\* Has vcpu_start been called on v more recently than vcpu_stop, under the
\* discipline?  Decided by the VM's state and the call in progress.
Started(v) ==
    LET vm == VmOf[v]
        inCall(op) == call.op = op /\ call.vm = vm
    IN  \/ inCall("start")  /\ VcpuId[v] < call.i
        \/ inCall("unwind") /\ call.i <= VcpuId[v] /\ VcpuId[v] < call.lim
        \/ inCall("stop")   /\ call.i <= VcpuId[v]
        \/ /\ state[vm] \in {"RUNNING", "PAUSED", "SUSPENDED", "MIGRATING"}
           /\ ~inCall("stop")

Queued == {v \in VCpu : sched_entity[v] /\ Started(v)}

DisciplinedCall(vm) ==
    \/ vm_create(vm)
    \/ Settled(vm) /\ vm_destroy(vm)
    \/ state[vm] # "PAUSED" /\ vm_start(vm)
    \/ vm_stop(vm) \/ vm_pause(vm) \/ vm_resume(vm)
    \/ Settled(vm) /\ vm_reset(vm)
    \/ state[vm] = "RUNNING" /\ migration_start(vm)
    \/ migration_end(vm)
    \/ state[vm] \in {"RUNNING", "SUSPENDED"} /\ snapshot_create(vm)

DisciplinedVcpuCall(v) ==
    \/ v \in Queued /\ (scheduler_yield(v) \/ scheduler_wake(v))
    \/ Idle /\ v \notin Queued /\ \E c \in 0..CpuCount : vcpu_migrate(v, c)

DisciplinedNext ==
    \/ hypervisor_init \/ vm_create_fails
    \/ (\A vm \in LiveVMs : Settled(vm)) /\ hypervisor_shutdown
    \/ CallStep
    \/ \E vm \in VM : DisciplinedCall(vm)
    \/ \E v \in VCpu : DisciplinedVcpuCall(v) \/ GuestStep(v)

DisciplinedSpec == Init /\ [][DisciplinedNext]_vars /\ WF_vars(CallStep)

-----------------------------------------------------------------------------
(* Properties that hold whoever calls.                                     *)

(***************************************************************************)
(* vm_create and vm_destroy keep the VM list exact: it runs from the       *)
(* newest live VM to the oldest, skipping none, prev undoes next, no id is *)
(* given twice, and vm_count is the number of live VMs.  vm_get_by_id,     *)
(* vm_enumerate and hypervisor_shutdown walk this list.                    *)
(***************************************************************************)
VmListExact ==
    /\ vm_count = Cardinality(LiveVMs)
    /\ IF vms = NULL THEN LiveVMs = {}
       ELSE vms \in LiveVMs /\ \A w \in LiveVMs : id[w] <= id[vms]
    /\ \A vm \in LiveVMs :
          /\ IF next[vm] = NULL THEN \A w \in LiveVMs : id[vm] <= id[w]
             ELSE /\ next[vm] \in LiveVMs
                  /\ prev[next[vm]] = vm
                  /\ id[next[vm]] < id[vm]
                  /\ \A w \in LiveVMs : id[w] < id[vm] => id[w] <= id[next[vm]]
          /\ IF prev[vm] = NULL THEN vms = vm
             ELSE prev[vm] \in LiveVMs /\ next[prev[vm]] = vm
    /\ \A vm, w \in LiveVMs : id[vm] = id[w] => vm = w

\* hypervisor_shutdown destroys every VM although each vm_destroy relinks
\* the list it walks: when it returns no VM and no vCPU is left.
ShutdownLeavesNothing ==
    ~up => /\ LiveVMs = {}
           /\ \A v \in VCpu : ~alive[v]

\* Every call of the control thread returns, and a shutdown finishes: the
\* loops of vm_start, vm_stop, vm_destroy and hypervisor_shutdown end.
CallReturns == (call.op # "idle" \/ sweeping) ~> (call.op = "idle" /\ ~sweeping)

-----------------------------------------------------------------------------
(* Properties of the disciplined caller.                                   *)

\* The pointers of the queue heads and of the entities of started vCPUs are
\* closed and mutually inverse: list_add_tail, list_add and list_del are
\* never applied to an entity in the wrong state, or under the wrong lock.
QueueIntegrity == Consistent(rq, Cpu \cup Queued)

\* Each started vCPU that has an entity is on exactly one run queue, once,
\* nothing else is on any, and list_for_each over each queue ends.  So a
\* stopped, destroyed or never started vCPU is never picked.
QueuesHoldStarted ==
    /\ \A c \in Cpu : LoopEnds(rq, c)
    /\ LET entries == {e \in Cpu \X (1..Cardinality(VCpu)) :
                          e[2] <= ListLength(rq, e[1])}
           at(e) == Walk(rq, e[1])[e[2]]
       IN  /\ {at(e) : e \in entries} = Queued
           /\ \A e, f \in entries : at(e) = at(f) => e = f

\* A vCPU is only marked running between its vcpu_start and its vcpu_stop,
\* and never after it was freed; vm_start relies on it, because vcpu_start
\* does nothing for a vCPU that is already marked running.
RunningIsStarted == \A v \in VCpu : running[v] => alive[v] /\ Started(v)

-----------------------------------------------------------------------------
(* What the documentation says, and the code does not do.                  *)

\* vcpu_stop, "Stop a virtual CPU": no thread is in the run loop of a vCPU
\* whose memory vm_destroy has freed.
NoRunAfterFree == \A v \in VCpu : in_run[v] => alive[v]
=============================================================================
