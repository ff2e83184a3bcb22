----------------------------- MODULE Scheduler -----------------------------
(***************************************************************************)
(* The scheduler of src/src/hypervisor/sched/scheduler.c: one run queue    *)
(* and one spinlock per CPU, used by several threads at once.              *)
(*                                                                         *)
(* A thread is in at most one scheduler call.  Taking a lock belongs to    *)
(* the first access under it and releasing it to the last, but between     *)
(* them every list macro takes two steps (LinkedList): a thread that       *)
(* changes a queue without that queue's lock meets it half changed.        *)
(* Counting a whole queue under its lock is one step; on a list that does  *)
(* not come back to its head the reader spins there forever.  Policies are *)
(* written without a lock, so what reads them reads one at a step.         *)
(*                                                                         *)
(* A vCPU and the sched_entity_t it owns are one member of VCpu.  Two      *)
(* fields of the code are constant, and defined as such below: rq->current *)
(* is never assigned, so the branch of scheduler_schedule that charges the *)
(* current vCPU is never taken, and nothing sets a deadline or a vruntime. *)
(***************************************************************************)
EXTENDS LinkedList

CONSTANTS VCpu, Thread, NULL,
          MaxCpu,     \* bound on g_cpu_count
          U32         \* number of values of a u32, scaled down

Cpu  == 0 .. (MaxCpu - 1)
Node == Cpu \cup VCpu

ASSUME SchedulerAssumption ==
    /\ MaxCpu \in Nat \ {0}
    /\ Cpu \cap VCpu = {}
    /\ NULL \notin Node \cup Thread
    /\ IsFiniteSet(VCpu) /\ U32 \in Nat /\ U32 > Cardinality(VCpu) + 2

VARIABLES
    g_cpu_count,   \* the queues 0 .. g_cpu_count - 1 exist, the others are never touched
    rq,            \* next and prev of the queue heads and the entities
    lock,          \* g_runqueues[c].lock: the thread that holds it, or NULL
    th,            \* the call each thread is in, with its locals
    physical_cpu,  \* vcpu->physical_cpu
    sched_entity,  \* is vcpu->sched_entity non-null?
    policy,        \* its policy
    queued,        \* vCPUs added, and not removed since, by finished calls
    picked         \* what scheduler_schedule last returned

vcpuVars == <<g_cpu_count, physical_cpu, sched_entity, policy, queued, picked>>
vars == <<rq, lock, th, vcpuVars>>

\* SCHED_BVT and SCHED_WALT take the default branch, as SCHED_CFS does.
Policy == {"FIFO", "RR", "CFS"}

\* A call: its vCPU, the queue it works on, the half macros done (or 1 in the
\* locked section of a pick), and the locals of the loops.
ThreadState ==
    [op : {"idle", "add", "remove", "yield", "wake", "fifo", "cfs", "count", "take", "put"},
     v : VCpu \cup {NULL}, cpu : Cpu, k : 0..3,
     i : Nat, min_load : 0..(U32 - 1), tgt_cpu : Cpu]

Idle == [op |-> "idle", v |-> NULL, cpu |-> 0, k |-> 0,
         i |-> 0, min_load |-> 0, tgt_cpu |-> 0]

Online == 0 .. (g_cpu_count - 1)

TypeOK ==
    /\ g_cpu_count \in 1..MaxCpu
    /\ rq \in [next : [Node -> Node \cup {NULL}], prev : [Node -> Node \cup {NULL}]]
    /\ lock \in [Cpu -> Thread \cup {NULL}]
    /\ th \in [Thread -> ThreadState]
    /\ physical_cpu \in [VCpu -> Online]
    /\ sched_entity \in [VCpu -> BOOLEAN]
    /\ policy \in [VCpu -> Policy]
    /\ queued \in SUBSET VCpu
    /\ picked \in VCpu \cup {NULL}

\* The state scheduler_init leaves; vcpu_create has placed the vCPUs.
Init ==
    /\ g_cpu_count \in 1..MaxCpu
    /\ rq = INIT_LIST_HEAD(Node, Cpu, NULL)
    /\ lock = [c \in Cpu |-> NULL]
    /\ th = [t \in Thread |-> Idle]
    /\ physical_cpu \in [VCpu -> Online]
    /\ sched_entity = [v \in VCpu |-> FALSE]
    /\ policy = [v \in VCpu |-> "CFS"]
    /\ queued = {}
    /\ picked = NULL

-----------------------------------------------------------------------------
(* Critical sections.                                                      *)

\* One half of a list macro on entity e and queue head.
Half(h, m, e, head) ==
    CASE m = "del1"  -> list_del_1(h, e)
      [] m = "del2"  -> list_del_2(h, e)
      [] m = "tail1" -> list_add_tail_1(h, e, head)
      [] m = "tail2" -> list_add_tail_2(h, e, head)
      [] m = "add1"  -> list_add_1(h, e, head)
      [] m = "add2"  -> list_add_2(h, e, head)

\* The next half of the macros that thread t applies to entity e under the
\* lock of its queue, and what the call becomes when they are done.
Section(t, macros, e, after) ==
    LET me   == th[t]
        last == me.k + 1 = Len(macros)
    IN  /\ lock[me.cpu] = IF me.k = 0 THEN NULL ELSE t
        /\ rq' = Half(rq, macros[me.k + 1], e, me.cpu)
        /\ lock' = [lock EXCEPT ![me.cpu] = IF last THEN NULL ELSE t]
        /\ th' = [th EXCEPT ![t] = IF last THEN after
                                   ELSE [me EXCEPT !.v = e, !.k = @ + 1]]

LastOf(t, macros) == th[t].k + 1 = Len(macros)

\* The home queue is read before its lock is taken.
Enter(t, op, v) ==
    /\ th[t].op = "idle"
    /\ th' = [th EXCEPT ![t] = [Idle EXCEPT !.op = op, !.v = v, !.cpu = physical_cpu[v]]]
    /\ UNCHANGED <<rq, lock, vcpuVars>>

\* The calls that return at once without an entity.
EnterWithEntity(t, op, v) == sched_entity[v] /\ Enter(t, op, v)

-----------------------------------------------------------------------------
(* Adding, removing and moving a vCPU.                                     *)

scheduler_add_vcpu(t) ==
    LET v == th[t].v
        macros == <<"tail1", "tail2">>
    IN  /\ th[t].op = "add"
        /\ Section(t, macros, v, Idle)
        /\ sched_entity' = [sched_entity EXCEPT ![v] = TRUE]
        /\ policy' = [policy EXCEPT ![v] = IF sched_entity[v] THEN @ ELSE "CFS"]
        /\ queued' = IF LastOf(t, macros) THEN queued \cup {v} ELSE queued
        /\ UNCHANGED <<g_cpu_count, physical_cpu, picked>>

\* calloc of the entity fails under the lock.
scheduler_add_vcpu_fails(t) ==
    /\ th[t].op = "add" /\ th[t].k = 0 /\ ~sched_entity[th[t].v]
    /\ lock[th[t].cpu] = NULL
    /\ th' = [th EXCEPT ![t] = Idle]
    /\ UNCHANGED <<rq, lock, vcpuVars>>

scheduler_remove_vcpu(t) ==
    LET v == th[t].v
        macros == <<"del1", "del2">>
    IN  /\ th[t].op = "remove"
        /\ Section(t, macros, v, Idle)
        /\ queued' = IF LastOf(t, macros) THEN queued \ {v} ELSE queued
        /\ UNCHANGED <<g_cpu_count, physical_cpu, sched_entity, policy, picked>>

\* Mutant: the lock is taken for the second macro only.
MutYieldLocksLate(t) ==
    LET me == th[t]
        macros == <<"del1", "del2", "tail1", "tail2">>
    IN  /\ me.op = "yield"
        /\ rq' = Half(rq, macros[me.k + 1], me.v, me.cpu)
        /\ me.k = 2 => lock[me.cpu] = NULL
        /\ lock' = [lock EXCEPT ![me.cpu] = CASE me.k = 2 -> t [] me.k = 3 -> NULL [] OTHER -> @]
        /\ th' = [th EXCEPT ![t] = IF me.k = 3 THEN Idle ELSE [me EXCEPT !.k = @ + 1]]
        /\ UNCHANGED vcpuVars

scheduler_yield(t) ==
    /\ th[t].op = "yield"
    /\ Section(t, <<"del1", "del2", "tail1", "tail2">>, th[t].v, Idle)
    /\ UNCHANGED vcpuVars

\* Mutant: puts the entity at the front without taking it off first.
MutWakeWithoutDel(t) ==
    /\ th[t].op = "wake"
    /\ Section(t, <<"add1", "add2">>, th[t].v, Idle)
    /\ UNCHANGED vcpuVars

scheduler_wake(t) ==
    /\ th[t].op = "wake"
    /\ Section(t, <<"del1", "del2", "add1", "add2">>, th[t].v, Idle)
    /\ UNCHANGED vcpuVars

\* Takes no lock.
scheduler_set_policy(v, p) ==
    /\ sched_entity[v]
    /\ policy' = [policy EXCEPT ![v] = p]
    /\ UNCHANGED <<g_cpu_count, rq, lock, th, physical_cpu, sched_entity, queued, picked>>

\* Mutant: off by one in the range test.
MutMigrateOffByOne(v, target_cpu) ==
    /\ target_cpu <= g_cpu_count
    /\ physical_cpu' = [physical_cpu EXCEPT ![v] = target_cpu]
    /\ UNCHANGED <<g_cpu_count, rq, lock, th, sched_entity, policy, queued, picked>>

\* hypervisor.c; takes no lock and leaves the vCPU on its queue.
vcpu_migrate(v, target_cpu) ==
    /\ target_cpu < g_cpu_count
    /\ physical_cpu' = [physical_cpu EXCEPT ![v] = target_cpu]
    /\ UNCHANGED <<g_cpu_count, rq, lock, th, sched_entity, policy, queued, picked>>

-----------------------------------------------------------------------------
(* Picking.                                                                *)

vruntime == [v \in VCpu |-> 0]

\* The first entity of s with the least key; NULL if there is none.
FirstLeast(s, key) ==
    LET best == {k \in 1..Len(s) : \A j \in 1..Len(s) : key[s[k]] <= key[s[j]]}
    IN  IF s = << >> THEN NULL ELSE s[CHOOSE k \in best : \A j \in best : k <= j]

\* "Find vCPU for this entity", and the end of scheduler_schedule.  The VM
\* list is walked without a lock while VMs come and go, and holds no vCPU of
\* a VM that was destroyed with its entities queued: the search may fail.
PickReturns(t, v) ==
    /\ picked' \in {v, NULL}
    /\ lock' = [lock EXCEPT ![0] = NULL]
    /\ th' = [th EXCEPT ![t] = Idle]
    /\ UNCHANGED <<g_cpu_count, rq, physical_cpu, sched_entity, policy, queued>>

\* The lock is taken and the policy of the first entity read; on an empty
\* queue `first' is no entity, and its policy whatever is there.
scheduler_schedule(t) ==
    LET first    == rq.next[0]
        policies == IF first \in VCpu THEN {policy[first]} ELSE Policy
    IN  /\ th[t].op = "idle" /\ lock[0] = NULL
        /\ lock' = [lock EXCEPT ![0] = t]
        /\ \E p \in policies :
              th' = [th EXCEPT ![t] = [Idle EXCEPT !.k = 1,
                        !.op = IF p \in {"FIFO", "RR"} THEN "fifo" ELSE "cfs"]]
        /\ UNCHANGED <<rq, vcpuVars>>

\* One entity of the scan: every deadline being 0, the first that is FIFO
\* when it is read is the earliest.
scheduler_fifo_pick_next(t) ==
    LET me == th[t]
        s  == ListSeq(rq, 0)
    IN  /\ me.op = "fifo" /\ LoopEnds(rq, 0)
        /\ \/ /\ me.i < Len(s) /\ policy[s[me.i + 1]] = "FIFO"
              /\ PickReturns(t, s[me.i + 1])
           \/ /\ me.i < Len(s) /\ policy[s[me.i + 1]] # "FIFO"
              /\ th' = [th EXCEPT ![t] = [me EXCEPT !.i = @ + 1]]
              /\ UNCHANGED <<rq, lock, vcpuVars>>
           \/ /\ me.i >= Len(s)
              /\ th' = [th EXCEPT ![t] = [me EXCEPT !.op = "cfs"]]
              /\ UNCHANGED <<rq, lock, vcpuVars>>

scheduler_cfs_pick_next(t) ==
    /\ th[t].op = "cfs" /\ LoopEnds(rq, 0)
    /\ PickReturns(t, FirstLeast(ListSeq(rq, 0), vruntime))

-----------------------------------------------------------------------------
(* Load balancing.                                                         *)

\* The first CPU from i on whose load is counted: the source is skipped.
CountFrom(i, cpu) == IF i = cpu THEN i + 1 ELSE i

scheduler_load_balance(t, cpu) ==
    /\ th[t].op = "idle"
    /\ th' = [th EXCEPT ![t] = [Idle EXCEPT !.op = "count", !.cpu = cpu,
                                  !.i = CountFrom(0, cpu), !.min_load = U32 - 1]]
    /\ UNCHANGED <<rq, lock, vcpuVars>>

\* "Find least loaded CPU": one other queue is counted under its lock.
load_balance_count(t) ==
    LET me == th[t] IN
    /\ me.op = "count" /\ me.i < g_cpu_count
    /\ lock[me.i] = NULL /\ LoopEnds(rq, me.i)
    /\ LET load  == ListLength(rq, me.i)
           after == [me EXCEPT !.i = CountFrom(me.i + 1, me.cpu)]
       IN  th' = [th EXCEPT ![t] =
                    IF load < me.min_load
                    THEN [after EXCEPT !.min_load = load, !.tgt_cpu = me.i]
                    ELSE after]
    /\ UNCHANGED <<rq, lock, vcpuVars>>

\* The source queue is counted, and its lock released before the decision.
load_balance_source(t) ==
    LET me == th[t] IN
    /\ me.op = "count" /\ me.i >= g_cpu_count
    /\ lock[me.cpu] = NULL /\ LoopEnds(rq, me.cpu)
    /\ th' = [th EXCEPT ![t] =
                IF ListLength(rq, me.cpu) > (me.min_load + 2) % U32
                THEN [me EXCEPT !.op = "take"] ELSE Idle]
    /\ UNCHANGED <<rq, lock, vcpuVars>>

\* Mutant: the source queue is not tested again under the second lock.
MutTakeUnchecked(t) ==
    LET me == th[t]
        se == IF me.k = 0 THEN rq.next[me.cpu] ELSE me.v
    IN  /\ me.op = "take"
        /\ Section(t, <<"del1", "del2">>, se,
                   [me EXCEPT !.op = "put", !.v = se, !.k = 0, !.cpu = me.tgt_cpu])
        /\ UNCHANGED vcpuVars

\* Mutant: the early return forgets the lock.
MutTakeKeepsLock(t) ==
    LET me == th[t]
        se == IF me.k = 0 THEN rq.next[me.cpu] ELSE me.v
    IN  /\ me.op = "take"
        /\ IF me.k = 0 /\ list_empty(rq, me.cpu)
           THEN /\ lock[me.cpu] = NULL
                /\ th' = [th EXCEPT ![t] = Idle]
                /\ lock' = [lock EXCEPT ![me.cpu] = t]
                /\ UNCHANGED rq
           ELSE Section(t, <<"del1", "del2">>, se,
                        [me EXCEPT !.op = "put", !.v = se, !.k = 0, !.cpu = me.tgt_cpu])
        /\ UNCHANGED vcpuVars

\* The head of the source queue is taken off, if there still is one.
load_balance_take(t) ==
    LET me == th[t]
        se == IF me.k = 0 THEN rq.next[me.cpu] ELSE me.v
    IN  /\ me.op = "take"
        /\ IF me.k = 0 /\ list_empty(rq, me.cpu)
           THEN /\ lock[me.cpu] = NULL
                /\ th' = [th EXCEPT ![t] = Idle]
                /\ UNCHANGED <<rq, lock>>
           ELSE Section(t, <<"del1", "del2">>, se,
                        [me EXCEPT !.op = "put", !.v = se, !.k = 0, !.cpu = me.tgt_cpu])
        /\ UNCHANGED vcpuVars

\* Mutant: the target queue is changed without its lock.
MutPutUnlocked(t) ==
    LET me == th[t] IN
    /\ me.op = "put"
    /\ rq' = Half(rq, <<"tail1", "tail2">>[me.k + 1], me.v, me.cpu)
    /\ th' = [th EXCEPT ![t] = IF me.k = 1 THEN Idle ELSE [me EXCEPT !.k = 1]]
    /\ UNCHANGED <<lock, vcpuVars>>

\* physical_cpu keeps naming the source.
load_balance_put(t) ==
    /\ th[t].op = "put"
    /\ Section(t, <<"tail1", "tail2">>, th[t].v, Idle)
    /\ UNCHANGED vcpuVars

-----------------------------------------------------------------------------
(* Who calls what.                                                         *)

\* A thread inside a call.
Step(t) ==
    \/ scheduler_add_vcpu(t) \/ scheduler_add_vcpu_fails(t) \/ scheduler_remove_vcpu(t)
    \/ scheduler_yield(t) \/ scheduler_wake(t)
    \/ scheduler_fifo_pick_next(t) \/ scheduler_cfs_pick_next(t)
    \/ load_balance_count(t) \/ load_balance_source(t)
    \/ load_balance_take(t) \/ load_balance_put(t)

Fairness == \A t \in Thread : WF_vars(Step(t))

Busy(v) == \E t \in Thread : th[t].op # "idle" /\ th[t].v = v

(***************************************************************************)
(* The owners' protocol, which the code leaves to its callers: at most one *)
(* call works on a vCPU at a time, it is added when off the queues and     *)
(* removed, yielded or woken when on them, it changes its CPU only when    *)
(* off, and nobody balances.  Policies change at any time, and some thread *)
(* keeps asking for work.                                                  *)
(***************************************************************************)
OwnerCall(t, v) ==
    /\ ~Busy(v)
    /\ \/ v \notin queued /\ Enter(t, "add", v)
       \/ v \in queued /\ \E op \in {"remove", "yield", "wake"} : EnterWithEntity(t, op, v)

OwnerNext ==
    \/ \E t \in Thread : Step(t)
    \/ \E t \in Thread, v \in VCpu : OwnerCall(t, v)
    \/ \E v \in VCpu, c \in 0..MaxCpu : v \notin queued /\ ~Busy(v) /\ vcpu_migrate(v, c)
    \/ \E v \in VCpu, p \in Policy : scheduler_set_policy(v, p)
    \/ \E t \in Thread : scheduler_schedule(t)

OwnerSpec == /\ Init /\ [][OwnerNext]_vars /\ Fairness
             /\ SF_vars(\E t \in Thread : scheduler_schedule(t))

\* The balancers' protocol: vCPUs are added, by one call each, and any number
\* of threads balance any of the CPUs.
BalanceNext ==
    \/ \E t \in Thread : Step(t)
    \/ \E t \in Thread, v \in VCpu : v \notin queued /\ ~Busy(v) /\ Enter(t, "add", v)
    \/ \E t \in Thread, c \in Online : scheduler_load_balance(t, c)

\* Some thread inside a call goes on; no thread in particular.
BalanceSpec == Init /\ [][BalanceNext]_vars /\ WF_vars(\E t \in Thread : Step(t))

-----------------------------------------------------------------------------
(* Properties.                                                             *)

Entries(c) == LET s == ListSeq(rq, c) IN {s[k] : k \in DOMAIN s}

\* A queue whose lock is free is whole: list_for_each ends on it and prev
\* undoes next all the way round, whatever half-done sections the other
\* queues are in.
QueuesWhole ==
    \A c \in Cpu : lock[c] = NULL => /\ LoopEnds(rq, c)
                                     /\ Consistent(rq, {c} \cup Entries(c))

\* The vCPU load_balance holds between taking it off one queue and putting
\* it on another, both locks released.
InHand == {th[t].v : t \in {u \in Thread : th[u].op = "put"}}

\* No call loses or duplicates a vCPU: with every lock free, the queues hold
\* the queued vCPUs less those in a balancer's hand, each in one place.
Conserved ==
    (\A c \in Cpu : lock[c] = NULL) =>
        /\ UNION {Entries(c) : c \in Cpu} = queued \ InHand
        /\ \A c, d \in Cpu : c # d => Entries(c) \cap Entries(d) = {}

\* The pointer structure, read forward, implements sequences: a half-done
\* section is the abstract step or none, to every reader of a queue.
AbstractQueues == INSTANCE RunQueues WITH queue <- [c \in Cpu |-> ListSeq(rq, c)]
RefinesRunQueues == AbstractQueues!Spec

\* Spinning never stops everybody: again and again every thread is out of
\* the scheduler, or a call returns.  One thread may starve, the lock not
\* being fair.
CallsKeepReturning ==
    \/ []<>(\A t \in Thread : th[t].op = "idle")
    \/ []<><<\E t \in Thread : th[t].op # "idle" /\ th'[t] = Idle>>_vars

\* "CFS (Completely Fair Scheduler) pick next": as long as every vCPU keeps that
\* policy, one on the queue of the CPU that keeps scheduling is picked again
\* and again, unless the search of the VM list keeps failing.
FairPick ==
    [](\A v \in VCpu : policy[v] = "CFS") =>
        \A v \in VCpu :
            v \in queued /\ physical_cpu[v] = 0 ~> picked \in {v, NULL} \/ v \notin queued
=============================================================================
