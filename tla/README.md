# A TLA+ verification of NexusVM

NexusVM is a hypervisor in C: a control plane that creates, starts and destroys
virtual machines, a per-CPU scheduler of virtual CPUs, live migration,
checkpointing, extended page tables, I/O emulation, nested virtualization and the
VMX and SVM back ends. This directory holds TLA+ models of its core, TLC
configurations that check them on small instances, and TLAPS proofs for
every size of instance. Paths are relative to the directory above this one;
the repository is under `src/`.

## 1. Inventory of the system

| component | state it keeps | operations | status |
|---|---|---|---|
| VM and vCPU lifecycle (`hypervisor.c`) | `g_hypervisor`: VM list, `vm_count`, `next_vm_id`; per VM `state`, `vcpus`; per vCPU `running`, `initialized`, `physical_cpu`, `sched_entity` | `hypervisor_init/shutdown`, `vm_create/destroy/start/stop/pause/resume/reset`, `vcpu_create/destroy/start/stop/run/migrate` | `VmLifecycle` |
| Linked list (`utils/log.h`) | `next`, `prev` of every node | `list_add`, `list_add_tail`, `list_del`, `list_for_each` | `LinkedList` |
| Scheduler (`sched/scheduler.c`) | one run queue and one spinlock per CPU, an entity per vCPU | add, remove, yield, wake, schedule, set policy, load balance | `Scheduler`, abstract: `RunQueues` |
| Live migration (`migration/migration.c`) | session: phase, dirty bitmap and count, iteration, lock | start, precopy, stop-and-copy, complete, cancel, track dirty page | `Migration` |
| Memory regions and EPT (`mmu/ept.c`, `hypervisor.c`) | root table and RAM regions per VM, page tables in host memory | create, destroy, cold reset, alloc memory, map, unmap, translate, 2 MB and 1 GB pages | `GuestMemory`, abstract: `AddressSpaces` |
| Checkpoint (`checkpoint/checkpoint.c`) | files of header, config, vCPU states, device state, memory; one or two open streams | create, snapshot, incremental, get info, delete, snapshot restore | `Checkpoint` (its effect on `vm->state` also in `VmLifecycle`) |
| I/O emulation (`io/io_emul.c`) | two lists of handlers, device registers | init, shutdown, register, unregister, port and MMIO reads | `IoEmul`, abstract: `HandlerTable` |
| Nested virtualization (`nested/nested_virt.c`) | `nested_vmx`, `nested_svm` of a VM, an L2 state per vCPU | enable, disable, VMXOFF, VMLAUNCH, VMRESUME, VMWRITE, VMRUN, save and restore L2 | `NestedVirt` |
| VMX, SVM, hypercalls (`vmx/vmx.c`, `amd-v/svm.c`, `hypervisor.c`) | VMCS or VMCB, `running`, entry and exit counts | set-up, run loop, exit handlers, `hypercall_handle` | `VcpuRun` |
| Initialisation, CPU detection (`hypervisor.c`) | subsystems that are up | init with unwinding, shutdown | `IoEmul` |
| Utilities (`utils/log.c`) | - | spinlock, CRC, bitmap, string helpers | spinlock modelled by its holder |
| Command line (`main.rs`) | - | parse and print | not modelled: no state of its own |

How they interact. `vm_start` and `vm_stop` loop over the VM's vCPUs and call
`vcpu_start` and `vcpu_stop`, which call `scheduler_add_vcpu` and
`scheduler_remove_vcpu`: an entity is linked into the run queue of the CPU the
vCPU is on. `migration_start`, `migration_complete`, `migration_cancel` and
`snapshot_create` write `vm->state` directly, without the checks of the VM
operations and without touching the vCPUs. vCPU threads run the loop of
`vmx_vcpu_run` or `svm_vcpu_run`, which tests `vcpu->running` and whose exits may clear
it. `vm_create` allocates the VM's root table; `vm_alloc_memory` allocates RAM and maps
it page by page through `ept_map`. `hypervisor_init` brings the scheduler, the hypercall
interface, EPT and I/O emulation up in this order and undoes what is up when one fails.
`checkpoint_create` walks the vCPUs and the regions of a VM that nothing has stopped.

What is hard. `hypervisor.c` takes no lock, so every vCPU thread interleaves with
the loops of the control thread. The list macros work on whatever pointers a node
holds, so adding a linked node or deleting an unlinked one silently corrupts the
list, possibly into a loop that `list_for_each` never leaves, under a spinlock.
`scheduler_load_balance` decides on loads counted under locks it has released, and
carries an entity between two locks. `migration_precopy` updates the bitmap and the
count without the lock that the tracker takes for them. Page tables are ordinary memory,
reused after `free`, and an entry is found by adding an index to an address, which may
lead out of the table. A checkpoint is written through two buffered
streams on the same path at the same time. Handler lists are walked without a lock. The
processor may refuse an entry, and nothing looks at the result. The complete list of
hazards, each at its line, with the properties that guard it, is in
`PROJECT.json`.

What makes each component correct:

* lifecycle: the VM list is exact; shutdown frees everything; the run queues hold
  exactly the vCPUs that were started and not stopped; calls return;
* scheduler: a queue whose lock is free is a whole list; no vCPU is lost or
  queued twice; no deadlock; fairness;
* migration: no page is missed, no write after its copy is lost, precopy ends,
  the guest is paused for the last copy;
* guest memory: a VM reaches its own RAM and nothing else; mapping a page changes that
  page and no other;
* checkpoint: restore of what was written gives back the same machine; no stream leaks;
* I/O emulation: an access reaches the newest handler that covers it, or the default;
  init and shutdown leave all or nothing;
* run loop: statistics are exact, a stopped vCPU leaves the loop; nested: a saved L2 state comes back and is freed.

## 2. The modules

**`LinkedList`.** A heap is a record of two functions, `next` and `prev`. Every
macro of `log.h` is a function from heap to heap, its assignments in program
order, and is split in two halves at the point where another thread could meet
the list half changed. `Walk`, `LoopEnds` and `ListSeq` are `list_for_each`.
`Consistent` is the local form of list integrity, the one that proofs can use.

**`VmLifecycle`.** One action per function; `call` is the control thread's call in
progress, so that the loops of `vm_start` (and the unwinding when a `vcpu_start`
fails), `vm_stop`, `vm_destroy` and `hypervisor_shutdown` advance by one vCPU or one
VM per step and vCPU threads interleave with them. A run-queue operation is one
step here (it is one critical section; `Scheduler` splits it), but only while the spinlock
it takes protects the nodes it changes. `vcpu_migrate` stores `physical_cpu` without asking whether
the vCPU is queued; yield, wake and remove then lock the queue of the new CPU and unlink from
that of the old, and a call under the old queue's lock may be in the middle of the same list.
What such an operation leaves behind is any heap (`Relinks`, `AtHome`, `OnNoOther`). `vm_pause` and
`vm_resume` are one step: they only write flags that no other step of the model
reads between two of their iterations. Two specifications differ only in who calls:

* `Spec`: any accepted call on any VM that is not freed, in any order, and vCPU
  calls directly as well;
* `DisciplinedSpec`: the duties the code leaves to its callers. A paused VM is
  only resumed; a VM is destroyed, reset or shut down with only when it is new,
  running or shut down; migration and snapshots begin on a running VM; vCPUs are
  started and stopped through their VM, yield or wake only while queued, and move to another
  CPU only while on no queue. Each duty is necessary. For instance `vm_start` accepts a PAUSED VM, whose entities
  `vm_pause` has left queued: start, pause, start bends the run queue into a cycle without
  its head.

Failures of allocation and of `vmx_vcpu_setup` are modelled, and so is the ignored
result of `scheduler_add_vcpu`. Register contents are not part of the state. A VM or
vCPU is one allocation and is not reused after `free`.

**`Scheduler`.** Threads in at most one scheduler call each. A critical section
takes the lock with its first access and releases it with its last; in between each
half macro is a step, so that code that works on a queue without holding its lock
is caught. This granularity loses nothing: a thread that waits for a lock changes
nothing, and a step that only takes or releases a lock commutes with the steps of
threads that do not hold it. `g_cpu_count` is chosen by `Init`. `scheduler_load_balance`
keeps its locals (`i`, `min_load`, `tgt_cpu`) between its critical sections and its
32-bit addition wraps. `rq->current` is never assigned anywhere in the source, so the
block of `scheduler_schedule` that charges and rotates the current vCPU is dead code,
and `vruntime` and `deadline` are constant. `scheduler_schedule` reads the policy of the first
entity in one step and scans in later ones, because `scheduler_set_policy` takes no lock; the vCPU of the
entity it chose is then looked for in the VM list, which nothing protects, and the search may fail, so
a queue with entities may give `NULL` (`PickReturns`). Two protocols say who calls:
`OwnerSpec` (one call at a time per vCPU) and `BalanceSpec` (adding and balancing). They must
not be mixed: an owner that yields a vCPU while a balancer carries it from one queue to
another links it twice.

**`RunQueues`.** What the scheduler promises: sequences of vCPUs, each vCPU on at
most one, joining at an end or leaving, one at a time. `Scheduler!RefinesRunQueues`
maps each pointer structure to the sequence that `list_for_each` reads from it.

**`Migration`.** One session of one VM at a time. The bitmap is a set of pages, a word
of it the part that a load or a store moves; the unlocked `&=`, `|=`, `++`, `--` are
two steps. The transport accepts data and does nothing with it, so the target is what
it would hold: `sent` is the set of pages copied at least once, `synced` those whose
copy is up to date. `raced` is a history variable: whether a tracker's report has
overlapped precopy's update of the bitmap or the count in this session. The session is
freed only when no thread is in it (the code leaves that to its callers). The
`TRANSFER` phase is not reachable: `session->connection` is never assigned, and
`migration_send_vm_state` refuses a null connection. `migration_stop_and_copy` ignores that
`vm_pause` refuses a MIGRATING VM, so guest writes interleave with the final copy.

**`GuestMemory`.** Host memory is a small array of frames; a page table is a frame
that is read and written through an index, and an entry that does not fit into the frame
lies in the next one (the bit fields of `ept_pte_t` add up to 65 bits, so an entry takes
16 bytes and 256 of the 512 indices fit). `vm_alloc_memory` allocates, then `vm_ept_map` maps
one page a step, so that calls on two VMs interleave. A table that cannot be allocated
is followed to address 0 as in the code: the process ends (`crashed`). A cold `vm_reset` clears
the root table and nothing else (`ept_clear_root`). Two history variables: `spilled`, whether an entry
has been written behind the frame of its table, and `unmapped`, the pages that `vm_ept_unmap`
was called for, whose entry the code leaves as it is. Guest pages whose entries lie
inside their tables are `SafePages`. Translations are those of the code's own walk
(`ept_lookup`, behind `vm_gpa_to_hpa`). The processor's walk and its TLB are not modelled:
a processor expects entries of 8 bytes and would not find in these tables what the code has
put there. Duties left to the caller: no more regions than the array was created for, no
4 KB mapping inside a large page, no lookup inside a 1 GB page (`ept_lookup` would take it for a table).

**`AddressSpaces`.** What guest memory promises: a map from guest pages to frames per
VM, changed one page (or one large span) at a time or cleared as a whole, a frame given to a VM only
while no other can reach it. `GuestMemory!RefinesAddressSpaces` maps the page tables to the
translations that a walk to a safe page gives, until an entry has spilled. Of a page that was unmapped
(`Released`) nothing is promised before it is mapped again: the code does not take its
translation away (section 3).

**`Checkpoint`.** A file is a sequence of objects. The stream of `checkpoint_create` has a
buffer whose size `Init` chooses, between one object and the whole file;
`checkpoint_save_memory` appends through a stream of its own. Every write may fail, results
are ignored exactly where the code ignores them, the guest runs throughout, and the process
may die at any step, which loses the buffers and keeps the files. A restore opens the
path a second time for the memory (`checkpoint_restore_memory`, `restore_regions`). What the code reads
from the wrong place, or past the end, is any value.

**`IoEmul`, `HandlerTable`.** `hypervisor_init` one subsystem a step, each of which may
fail, its unwinding, `hypervisor_shutdown`, and the two handler lists as `malloc`ed entries
with a `next`, walked one entry a step. Registration prepares the entry and publishes it in
two steps. `HandlerTable` is a sequence of handlers per space; `RefinesHandlerTable` maps
the linked entries to it. Duties of the caller: one thread registers, and it removes
handlers or shuts down only while no vCPU is in an access.

**`VcpuRun`.** One vCPU in `vcpu_run`, on Intel or AMD. Every exit handler is a definition
that says what it does to the guest's context (which RIP is part of), to `running`, to the
intercepts and what it returns. The processor may refuse an entry; then the exit fields are those of
the exit before, and the loop counts and handles it as an exit. On AMD the register slots of the VMCB
that the code stores to are its intercept words (`VMCB_OFFSET_INTERCEPT` is 0), so each store leaves any
intercepts set, and `open` is the guest's own interrupt flag: `svm_vcpu_setup` does not set
`V_INTR_MASKING`, so a guest that has cleared it holds the host's interrupts back too.

**`NestedVirt`** extends it with the calls of `nested_virt.c`. No exit handler calls
them, so the vCPU's thread calls them outside its loop. VMWRITE stores to any field of the
VMCS, the guest's context and the controls that decide on exits included. `overwritten` (history) says that
somebody has stored over the pointer to the L2 state that is kept in `gprs.r12`.

**`LinkedListProofs`, `VmLifecycleProofs`, `SchedulerProofs`, `MigrationProofs`,
`GuestMemoryProofs`, `CheckpointProofs`, `IoEmulProofs`, `NestedVirtProofs`** hold the theorems;
**`MCVmLifecycle`, `MCScheduler`, `MCGuestMemory`, `MCIoEmul`** the constants and symmetry sets
for TLC.

Assumptions about the code. `online_cpu_count` is never assigned in the source; with
its `calloc` value 0 the expression `vcpu_id % online_cpu_count` divides by zero. The
models assume at least one CPU. `sched_entity_t` has its own `next` and `prev` where
the list macros expect a `struct list_head`; the models take the evident intention, that
the two fields are the list node. Scheduler and migration functions other than add and
remove, `nested_virt.c` and `io_port_read` have no caller in the repository; the protocols above stand for their callers.

## 3. Runs

| run | specification, bounds | shows |
|---|---|---|
| `lifecycle` | `DisciplinedSpec`; two VMs, one with two vCPUs, two CPUs, two ids | `TypeOK`, `QueueIntegrity`, `QueuesHoldStarted`, `RunningIsStarted`, `VmListExact`, `ShutdownLeavesNothing`, `CallReturns` |
| `scheduler_owners` | `OwnerSpec`; two threads, two vCPUs, one or two CPUs | `TypeOK`, `QueuesWhole`, `Conserved`, `RefinesRunQueues` |
| `scheduler_balance` | `BalanceSpec`; three threads, three vCPUs, one or two CPUs | `QueuesWhole`, `Conserved`, `CallsKeepReturning` |
| `migration_copy` | `Spec`; two trackers, three pages in two words, two iterations | `TypeOK`, `FirstCopyPending`, `EveryPageCopied`, `RaceFreeExact`, `PrecopyEnds` |
| `guest_memory` | two VMs, twelve frames, four levels of fan-out four with two entries a frame, five guest pages of which one is not safe, one page unmapped at a time | `TypeOK`, `Isolation`, `RefinesAddressSpaces` |
| `checkpoint` | one path, two vCPUs, two regions, buffers from one object to the whole file | `TypeOK`, `VcpuRoundTrip`, `NoStreamLeak`, `CallEnds` |
| `port_io` | one vCPU thread (accesses do not see each other), two default and overlapping extra handlers, entries that run out | `TypeOK`, `DispatchNewest`, `AllOrNothing`, `RefinesHandlerTable`, `AccessEnds` |
| `vcpu_run` | `NestedSpec`; both vendors, two calls of `vcpu_run`, two contexts, two L2 records | `TypeOK`, `StatisticsExact`, `L2Exact`, `StopEndsLoop` |

Runs that are expected to fail, each a disagreement between the code and what a
comment or document of the repository says (quoted in `PROJECT.json`, `findings`):

| run | what TLC shows |
|---|---|
| `lifecycle_run_after_free` | even under the disciplined caller `vm_destroy` frees a vCPU that a thread is running |
| `scheduler_fair` | the CFS picker returns the same vCPU forever |
| `migration_lost_write` | a write reported while precopy stores a word is forgotten |
| `checkpoint_format` | a checkpoint whose every write succeeded lacks memory regions: the first stream's buffer was written over them |

Two further disagreements have no run of their own:

* "Memory Isolation: Separate EPT for each VM" (`src/README.md:630`). An entry takes 16 bytes
  (`src/include/hypervisor/types.h:939`), so the entry of any guest page from 1 MB on is written into the
  frame behind its table. `Isolation` therefore speaks of the states before the first such entry (`spilled`);
  without that condition TLC refutes it in five steps of the same instance: the page is entered into
  the root table of the other VM. The 65 bits of an entry are also not the 64 that a processor reads.
* "Unmap guest physical address" (`src/src/hypervisor/mmu/ept.h:84`), "Clear the entry"
  (`src/src/hypervisor/mmu/ept.c:224`). `ept_unmap` clears nothing: a page that was unmapped keeps its translation.
  `AddressSpaces` makes no promise about it, so the refinement neither relies on an unmap nor shows one.

Why the bounds are enough. Two vCPUs in one VM make the unwinding of a half-started
VM, a vCPU between two others' operations and a queue with an inside; two CPUs make
vCPUs change their queue; two VMs make the first and the last element of the
VM list be unlinked, by a call and by the shutdown that walks it (lists of every length are
covered by the theorem). Three balancers on one CPU empty the queue under
each other. Three pages in words of two make a word with a neighbour and one without,
a batch limit below the number of pages, and two trackers that contend for the lock.
`U32` and `U64` are scaled to 16 and 8 values, above every count that can arise without
wrapping. In `guest_memory` a region is a page and a half, so two pages, the second of which ends in a page table
shared with the first, guest pages 0 and 64 differ in the topmost index, page 2 is one whose entry spills,
and the frames are fewer than two VMs ask for, so that allocation fails at every level and the root of a
destroyed VM becomes the root, a lower table or RAM of the other. In `checkpoint`
the buffer sizes put the point where the first stream is written out before, inside and behind
the vCPU states. In `port_io` accesses lie at both edges of overlapping ranges and the
allocator runs out in the middle of the defaults. In `vcpu_run` two calls let a vCPU leave with
an error and come back, two contexts tell a restored one from another, and two records let a second save leak the first. What does not depend on the instance is proved (section 4).

Fairness. `CallReturns` needs that the control thread keeps running inside a call; its
steps never wait. The threads of `OwnerSpec` and of `Migration` are weakly fair: a thread that can
always take its next step takes it. `BalanceSpec` assumes less: some thread inside a call goes on. Spinlocks are test-and-set and not fair, so no
property asks that a waiting thread gets a lock that is free only now and then:
`CallsKeepReturning` asks that some call returns, `PrecopyEnds` excepts a thread
kept from the lock for ever. The migration driver keeps calling `migration_precopy` in the
phase that asks for it. A checkpoint call and a vCPU thread inside an access keep running; their
steps never wait. `StopEndsLoop` assumes that the thread in `vcpu_run` goes on and that the host
eventually interrupts a guest that can be interrupted (a timer): strongly fair, because an interrupt
that the guest holds back stays pending and is taken when it opens its flag. Whether a guest can be
interrupted again and again is not up to this code alone, so it is the antecedent of the property: on
AMD the intercept has to have survived the stores to the VMCB, and the guest has to open its
flag now and then; on Intel a nested VMWRITE must not have cleared external-interrupt exiting.
Nothing obliges a guest to exit by itself.

Deadlock is checked in every run but two: in `guest_memory` and `vcpu_run` a wild table
address, a faulting copy of a hypercall or a freed L2 pointer ends the process.

## 4. Theorems

All of them hold for every value of the constants that satisfies the `ASSUME` of the
module (finitely many VMs, at least one CPU, a numbering of the vCPUs of a VM that is the
one of its `vcpus` array; any number of pages, word size and limits).

* `VmLifecycleProofs!TypeCorrect`, `VmListCorrect`, `ShutdownCorrect`: under any caller. The
  inductive invariant `ListInv` adds to `VmListExact` that the call in progress works on
  a live VM (`CallOK`), that ids given are below the next (`FreshOK`), that only live VMs
  have live vCPUs (`AliveOK`), and, for the sweep of `hypervisor_shutdown`, that the live
  VMs are the one being destroyed and those from the cursor on (`SweepOK`): without it the
  cursor, read before `vm_destroy` relinks the list, could be dangling or skip a VM.
* `VmLifecycleProofs!QueuesCorrect`, `RunningCorrect`, `StartedAreQueued`: under the disciplined
  caller. The inductive invariant `QueueInv` says that some function `own` gives every queued
  vCPU its queue and that every queue is one ring of its head and its vCPUs (`Rings`); it adds
  which VM states each phase of a call can meet (`CallStateOK`) and that a shutdown finds settled
  VMs only. That the lock taken is the one that protects the nodes (`AtHome`, `OnNoOther`) follows from
  it too: a queued vCPU is on the queue of its `physical_cpu`. Consistent pointers alone are not enough for `QueuesHoldStarted`: a closed
  cycle beside the head is consistent too.
* `LinkedListProofs`: what each macro does to a consistent set of nodes and to a ring
  (`DelRing`, `AddRing`, `AddTailRing`), and that `list_for_each` over a ring ends and visits its
  nodes once each (`RingWalk`). A ring is a bijection from positions to nodes. What a walk reaches is
  shown by taking the least step at which it could differ (`NatMin`), which stands in for induction.
* `SchedulerProofs!SchedulerTypeCorrect`, `QueuesAlwaysWhole`, `VcpusConserved`: under
  both protocols. The inductive invariants `OwnerInv` and `BalanceInv` carry the same `own`; for
  a queue whose lock is held they say which half of which macro has been done, so that the
  second half makes a ring again, and that no two threads work on the same vCPU. For the balancer the
  vCPU in its hand belongs to no queue; what it decided on loads that are stale by then does not occur
  in the invariant, which is why staleness cannot lose a vCPU.
* `MigrationProofs!FirstCopyCorrect`, `FinalCopyCorrect`, `SessionTypeCorrect`: the inductive
  invariant `CopyInv` says that a word on its way back to the bitmap, in the migration
  thread or in a tracker, still holds the bits of the pages of that word that were never
  copied (`WordsOK`), and that behind the final loop every page is copied (`FinalOK`). It is
  why the race that loses a later write cannot lose a first copy.
* `MigrationProofs!RaceFreeCorrect`: `RaceInv` adds what a thread in the middle of an update holds
  while nothing has raced (the word and the count as they are), and that the count is then
  the number of dirty pages up to the update that is under way.
* `GuestMemoryProofs!MemoryTypeCorrect`, for every table an index can lead to and also after a spill, and
  `GuestsIsolated`, with no hypothesis on the guest pages. The inductive invariant `SafeInv` is the types and,
  until an entry has spilled, `SomePurpose`: every frame has one owner and one level, from root
  table down to RAM, or is free; an entry leads one level down to a frame of the same VM; live VMs have
  distinct roots; a mapping in progress works on RAM of its VM at pages no large page covers. What a
  cold reset or a destroyed root leaves behind keeps its owner and level and is out of every walk's reach.
  `Isolation` itself says nothing of tables not yet reachable, so it is far from inductive.
* `CheckpointProofs!CheckpointTypeCorrect`, `StreamsClosed`, `VcpusRoundTrip`: `FileInv` says which streams are
  open in each phase of a call, that the file is at least as long as the offset the first stream has reached, and that what
  this stream has been given, in the file up to the offset and in the buffer behind it, holds the vCPU states
  taken so far in their places (`TakenOK`): what the second stream appends lies behind the offset.
* `IoEmulProofs!IoTypeCorrect`, `ReadsDispatchNewest`, `InitAllOrNothing`: `IoInv` says that two
  disjoint sets of entries, with the entry about to be published all that is allocated, are each one
  list from its head to `NULL` (reachability and the absence of cycles as statements about subsets),
  and that from where a walk is a finite path of allocated entries leads to the answer it has to get.
* `NestedVirtProofs!NestedTypeCorrect`, `StatisticsCorrect`, `L2StateExact`: the
  statistics and, given the types, `L2Exact` are inductive as they stand.

Assumptions. Besides the sizes above: `NULL` is none of the addresses or contexts of a vCPU
(`VcpuRunAssumption`) and model values for absence differ from real values.
The fairness in a specification is not used by any proof.

Only model-checked: liveness (`CallReturns`, `CallsKeepReturning`, `PrecopyEnds`, `CallEnds`,
`AccessEnds`, `StopEndsLoop`), which is out of reach of this prover, and the three refinements
`RefinesRunQueues`, `RefinesHandlerTable` and `RefinesAddressSpaces`. Every invariant of a passing run
has a theorem.

## 5. Plan

1. done: `LinkedList`, `VmLifecycle`, `Scheduler`, `RunQueues`, `Migration` with their runs;
2. done: `GuestMemory`, `Checkpoint`, `IoEmul`, `VcpuRun`, `NestedVirt` with their runs;
3. done: a theorem for every invariant that a passing run checks;
4. next, the refinements, step by step: `RefinesHandlerTable` (`IoInv` already names the
   entries of each list), `RefinesAddressSpaces` (from `SomePurpose`: an entry written in a page table of one
   VM is read by one walk only), `RefinesRunQueues` (from the rings; `Take` removes by `SelectSeq`, which the provers do not
   know, so it has to be stated by position first).

## 6. Not modelled

* Instruction-level effects: `asm.S`, the values of VMCS and VMCB fields, feature detection by
  CPUID and MSRs, `vmx_enable`, `svm_enable`, VMXON. `vmx_on` and `vmx_vmcs_init` store their
  result into `vcpu->vcpu_id`, which nothing modelled reads afterwards.
* The MSR and I/O bitmaps: nothing calls the functions that fill them.
* `checkpoint_restore` and `checkpoint_apply_incremental`: the code writes the magic
  `NXVMCHKP` and they look for `NXVHMCHK`, so they refuse every file and change nothing.
* `io_port_write` and `mmio_write` to a handled address: they call the read function with the
  value written as the address of its result; where that stores is not in the source. The
  device write functions are never called. IRQ lines and PCI configuration have no reader.
* The processor's own walk of the page tables, its TLB and `ept_invalidate` (section 2).
* Permission, accessed and dirty bits of page-table entries; accesses through large pages, whose
  address is stored shifted by 21 or 30 bits where every reader shifts by 12.
* The transport of a migration and its (de)serialisers, which no session reaches.
* `scheduler_set_priority` sets a weight that only dead code reads; `scheduler_rr_pick_next` has no
  caller; `scheduler_get_stats` copies counters nothing updates; `scheduler_get_cpu_load` is a single
  division (its result, `count * 100 / (cpus + 1)`, can exceed the documented 0-100);
  `vcpu_set_affinity` stores a mask nothing reads.
* Log output, the command line (`main.rs`), CRC values.
