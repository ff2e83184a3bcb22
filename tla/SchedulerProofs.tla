-------------------------- MODULE SchedulerProofs --------------------------
(***************************************************************************)
(* Every run queue of Scheduler is, while its lock is free, one ring of    *)
(* the vCPUs that belong to it, and while a thread is inside a section it  *)
(* is what the rest of that thread's macro makes a ring.  Which vCPUs      *)
(* belong to which queue is not in the state: the inductive invariant      *)
(* says that some assignment `own' of vCPUs to queues fits it.             *)
(***************************************************************************)
EXTENDS Scheduler, LinkedListProofs

Owners == [VCpu -> Cpu \cup {NULL}]

\* The nodes of the queue of CPU c.
Nodes(c, own) == {c} \cup {v \in VCpu : own[v] = c}

\* A ring on the nodes S between the two halves of a macro on e.
DelHalf(h, e, c, S)  == h.next[e] \in S /\ Ring(list_del_2(h, e), c, S \ {e})
TailHalf(h, e, c, S) == Ring(list_add_tail_2(h, e, c), c, S \cup {e})
AddHalf(h, e, c, S)  == Ring(list_add_2(h, e, c), c, S \cup {e})

\* The calls inside the locked section of scheduler_schedule.
Picking == {"fifo", "cfs"}

\* What the thread in call me has left of queue c.  A vCPU that is yielded or
\* woken belongs to the queue all the time.
HalfDone(h, me, c, S) ==
    \/ me.op \in {"add", "put"} /\ me.k = 1 /\ TailHalf(h, me.v, c, S)
    \/ me.op \in {"remove", "yield", "wake", "take"} /\ me.k = 1 /\ DelHalf(h, me.v, c, S)
    \/ me.op \in {"yield", "wake"} /\ me.k = 2 /\ Ring(h, c, S \ {me.v})
    \/ me.op = "yield" /\ me.k = 3 /\ TailHalf(h, me.v, c, S \ {me.v})
    \/ me.op = "wake" /\ me.k = 3 /\ AddHalf(h, me.v, c, S \ {me.v})
    \/ me.op \in Picking /\ me.k = 1 /\ Ring(h, c, S)

QueueOK(c, own) ==
    IF lock[c] = NULL THEN Ring(rq, c, Nodes(c, own))
                      ELSE HalfDone(rq, th[lock[c]], c, Nodes(c, own))

\* The vCPU of a call, and what its queue knows of it.
CallOK(me, own) ==
    /\ me.v = NULL => \/ me.op \in {"idle", "count", "take"} /\ me.k = 0
                      \/ me.op \in Picking /\ me.k = 1 /\ me.cpu = 0
    /\ me.v # NULL =>
         \/ me.op \in {"add", "put"} /\ own[me.v] = NULL
         \/ me.op \in {"remove", "yield", "wake"} /\ own[me.v] = me.cpu
         \/ me.op = "take" /\ me.k = 1 /\ own[me.v] = me.cpu

ThreadsOK(own) == \A t \in Thread : CallOK(th[t], own)

\* A thread half way through a section, and no other, holds the lock.
LocksOK ==
    /\ \A t \in Thread : th[t].k > 0 => lock[th[t].cpu] = t
    /\ \A c \in Cpu : lock[c] # NULL => th[lock[c]].cpu = c /\ th[lock[c]].k > 0

\* No two calls work on one vCPU.
Alone == \A t, u \in Thread : t # u /\ th[t].v = th[u].v => th[t].v = NULL

QueuedOK(own) ==
    \A v \in VCpu : v \in queued <=> own[v] # NULL \/ v \in InHand

SchedInv(own) ==
    /\ TypeOK
    /\ \A c \in Cpu : QueueOK(c, own)
    /\ ThreadsOK(own)
    /\ LocksOK
    /\ Alone
    /\ QueuedOK(own)

\* What each of the two protocols adds.
OwnerOps == {"idle", "add", "remove", "yield", "wake"} \cup Picking

OwnerInv(own) ==
    /\ SchedInv(own)
    /\ \A t \in Thread : th[t].op \in OwnerOps
    /\ \A t \in Thread : th[t].v # NULL => th[t].cpu = physical_cpu[th[t].v]
    /\ \A v \in VCpu : own[v] # NULL => own[v] = physical_cpu[v]

BalanceInv(own) ==
    /\ SchedInv(own)
    /\ \A t \in Thread : th[t].op \in {"idle", "add", "count", "take", "put"}

SomeOwner   == \E own \in Owners : OwnerInv(own)
SomeBalance == \E own \in Owners : BalanceInv(own)

-----------------------------------------------------------------------------
(* Half macros on one queue.                                               *)

RqHeap == Heap(Node, NULL)

\* g is h outside the nodes D.
Same(g, h, D) ==
    \A n \in Node \ D : g.next[n] = h.next[n] /\ g.prev[n] = h.prev[n]

LEMMA HalfTypes ==
    ASSUME NEW h \in RqHeap, NEW e \in Node, NEW c \in Node
    PROVE  /\ list_del_1(h, e) \in RqHeap
           /\ list_del_2(h, e) \in RqHeap
           /\ list_add_tail_1(h, e, c) \in RqHeap
           /\ list_add_tail_2(h, e, c) \in RqHeap
           /\ list_add_1(h, e, c) \in RqHeap
           /\ list_add_2(h, e, c) \in RqHeap
  BY DEF RqHeap, Heap, list_del_1, list_del_2, list_add_tail_1, list_add_tail_2,
         list_add_1, list_add_2

LEMMA DelFirst ==
    ASSUME NEW h \in RqHeap, NEW S \in SUBSET Node, NEW c, NEW e \in S, e # c,
           Ring(h, c, S)
    PROVE  DelHalf(list_del_1(h, e), e, c, S) /\ Same(list_del_1(h, e), h, S)
  <1>1. Ring(list_del(h, e), c, S \ {e})
    BY DelRing DEF RqHeap
  <1>2. h.next[e] \in S /\ h.prev[e] \in S
    BY DEF Ring, Consistent
  <1>3. list_del_1(h, e).next[e] \in S /\ Same(list_del_1(h, e), h, S)
    BY <1>2 DEF RqHeap, Heap, list_del_1, Same
  <1> QED
    BY <1>1, <1>3 DEF DelHalf, list_del

LEMMA DelSecond ==
    ASSUME NEW h \in RqHeap, NEW S \in SUBSET Node, NEW c, NEW e \in Node,
           DelHalf(h, e, c, S)
    PROVE  Ring(list_del_2(h, e), c, S \ {e}) /\ Same(list_del_2(h, e), h, S)
  BY DEF DelHalf, RqHeap, Heap, list_del_2, Same

LEMMA TailFirst ==
    ASSUME NEW h \in RqHeap, NEW S \in SUBSET Node, NEW c \in S, NEW e \in Node \ S,
           Ring(h, c, S)
    PROVE  /\ TailHalf(list_add_tail_1(h, e, c), e, c, S)
           /\ Same(list_add_tail_1(h, e, c), h, S \cup {e})
  <1>1. Ring(list_add_tail(h, e, c), c, S \cup {e})
    BY AddTailRing DEF RqHeap
  <1>2. h.prev[c] \in S
    BY DEF Ring, Consistent
  <1>3. Same(list_add_tail_1(h, e, c), h, S \cup {e})
    BY <1>2 DEF RqHeap, Heap, list_add_tail_1, Same
  <1> QED
    BY <1>1, <1>3 DEF TailHalf, list_add_tail

LEMMA TailSecond ==
    ASSUME NEW h \in RqHeap, NEW S \in SUBSET Node, NEW c \in S, NEW e \in Node,
           TailHalf(h, e, c, S)
    PROVE  /\ Ring(list_add_tail_2(h, e, c), c, S \cup {e})
           /\ Same(list_add_tail_2(h, e, c), h, S)
  BY DEF TailHalf, RqHeap, Heap, list_add_tail_2, Same

LEMMA AddFirst ==
    ASSUME NEW h \in RqHeap, NEW S \in SUBSET Node, NEW c \in S, NEW e \in Node \ S,
           Ring(h, c, S)
    PROVE  /\ AddHalf(list_add_1(h, e, c), e, c, S)
           /\ Same(list_add_1(h, e, c), h, S \cup {e})
  <1>1. Ring(list_add(h, e, c), c, S \cup {e})
    BY AddRing DEF RqHeap
  <1>2. h.next[c] \in S
    BY DEF Ring, Consistent
  <1>3. Same(list_add_1(h, e, c), h, S \cup {e})
    BY <1>2 DEF RqHeap, Heap, list_add_1, Same
  <1> QED
    BY <1>1, <1>3 DEF AddHalf, list_add

LEMMA AddSecond ==
    ASSUME NEW h \in RqHeap, NEW S \in SUBSET Node, NEW c \in S, NEW e \in Node,
           AddHalf(h, e, c, S)
    PROVE  /\ Ring(list_add_2(h, e, c), c, S \cup {e})
           /\ Same(list_add_2(h, e, c), h, S)
  BY DEF AddHalf, RqHeap, Heap, list_add_2, Same

\* A half-done section is a matter of the pointers of its queue and its vCPU.
LEMMA HalfDoneFrame ==
    ASSUME NEW h \in RqHeap, NEW g \in RqHeap, NEW D, Same(g, h, D),
           NEW S \in SUBSET Node, S \cap D = {}, NEW c \in S,
           NEW me, me.v \in Node \ D, HalfDone(h, me, c, S)
    PROVE  HalfDone(g, me, c, S)
  <1> DEFINE e == me.v
  <1>1. /\ \A n \in S : g.next[n] = h.next[n] /\ g.prev[n] = h.prev[n]
        /\ g.next[e] = h.next[e] /\ g.prev[e] = h.prev[e]
    BY DEF Same
  <1>2. \A n \in S : /\ list_del_2(g, e).next[n] = list_del_2(h, e).next[n]
                     /\ list_del_2(g, e).prev[n] = list_del_2(h, e).prev[n]
    BY <1>1 DEF RqHeap, Heap, list_del_2
  <1>3. \A n \in S \cup {e} :
           /\ list_add_tail_2(g, e, c).next[n] = list_add_tail_2(h, e, c).next[n]
           /\ list_add_tail_2(g, e, c).prev[n] = list_add_tail_2(h, e, c).prev[n]
    BY <1>1 DEF RqHeap, Heap, list_add_tail_2
  <1>4. \A n \in S \cup {e} :
           /\ list_add_2(g, e, c).next[n] = list_add_2(h, e, c).next[n]
           /\ list_add_2(g, e, c).prev[n] = list_add_2(h, e, c).prev[n]
    BY <1>1 DEF RqHeap, Heap, list_add_2
  <1> HIDE DEF e
  <1>5. /\ Ring(h, c, S \ {e}) => Ring(g, c, S \ {e})
        /\ Ring(h, c, S) => Ring(g, c, S)
    BY <1>1, RingFrame
  <1>6. DelHalf(h, e, c, S) => DelHalf(g, e, c, S)
    <2>1. Ring(list_del_2(h, e), c, S \ {e}) => Ring(list_del_2(g, e), c, S \ {e})
      BY <1>2, RingFrame
    <2> QED BY <1>1, <2>1 DEF DelHalf
  <1>7. /\ TailHalf(h, e, c, S) => TailHalf(g, e, c, S)
        /\ TailHalf(h, e, c, S \ {e}) => TailHalf(g, e, c, S \ {e})
    BY <1>3, RingFrame DEF TailHalf
  <1>8. AddHalf(h, e, c, S \ {e}) => AddHalf(g, e, c, S \ {e})
    BY <1>4, RingFrame DEF AddHalf
  <1> QED
    BY <1>5, <1>6, <1>7, <1>8 DEF HalfDone, e, Picking

-----------------------------------------------------------------------------
(* Steps of the state machine.                                             *)

LEMMA Nodes_Facts ==
    /\ Cpu \in SUBSET Node /\ VCpu \in SUBSET Node /\ Cpu \cap VCpu = {}
    /\ NULL \notin Node /\ NULL \notin Cpu /\ NULL \notin VCpu /\ NULL \notin Thread
    /\ IsFiniteSet(Node)
  <1>1. IsFiniteSet(Cpu)
    BY SchedulerAssumption, FS_Interval DEF Cpu
  <1>2. IsFiniteSet(Node)
    BY <1>1, SchedulerAssumption, FS_Union DEF Node
  <1> QED
    BY <1>2, SchedulerAssumption DEF Node

\* The part of TypeOK that no section changes the shape of.
OtherTypes ==
    /\ g_cpu_count \in 1..MaxCpu
    /\ physical_cpu \in [VCpu -> Online]
    /\ sched_entity \in [VCpu -> BOOLEAN]
    /\ policy \in [VCpu -> Policy]
    /\ queued \in SUBSET VCpu
    /\ picked \in VCpu \cup {NULL}

LEMMA TypeParts ==
    TypeOK <=> /\ OtherTypes
               /\ rq \in RqHeap
               /\ lock \in [Cpu -> Thread \cup {NULL}]
               /\ th \in [Thread -> ThreadState]
  BY DEF TypeOK, OtherTypes, RqHeap, Heap

\* A step on queue c and vCPU e leaves the other queues as they are.
LEMMA OtherQueues ==
    ASSUME NEW own \in Owners, SchedInv(own), NEW own2 \in Owners,
           NEW t \in Thread, NEW c \in Cpu, c = th[t].cpu, NEW e \in VCpu,
           \A v \in VCpu \ {e} : own2[v] = own[v],
           own[e] \in {c, NULL}, own2[e] \in {c, NULL},
           \A u \in Thread \ {t} : th[u].v # e,
           rq' \in RqHeap, Same(rq', rq, Nodes(c, own) \cup {e}),
           \A d \in Cpu \ {c} : lock'[d] = lock[d],
           \A u \in Thread \ {t} : th'[u] = th[u],
           NEW d \in Cpu \ {c}
    PROVE  QueueOK(d, own2)'
  <1> DEFINE S == Nodes(d, own)
             D == Nodes(c, own) \cup {e}
  <1>1. Nodes(d, own2) = S /\ S \in SUBSET Node /\ S \cap D = {} /\ d \in S
    BY Nodes_Facts DEF Nodes
  <1>2. rq \in RqHeap /\ lock[d] \in Thread \cup {NULL} /\ QueueOK(d, own)
    BY TypeParts DEF SchedInv
  <1>3. lock'[d] = lock[d]
    OBVIOUS
  <1>4. CASE lock[d] = NULL
    <2>1. Ring(rq, d, S)
      BY <1>2, <1>4 DEF QueueOK
    <2>2. Ring(rq', d, S)
      BY <1>1, <2>1, RingFrame DEF Same
    <2> QED
      BY <1>1, <1>3, <1>4, <2>2 DEF QueueOK
  <1>5. CASE lock[d] # NULL
    <2> DEFINE u == lock[d]
    <2>1. u \in Thread /\ th[u].cpu = d /\ th[u].k > 0
      BY <1>2, <1>5 DEF SchedInv, LocksOK
    <2>2. u # t /\ th'[u] = th[u] /\ th[u].v # e
      BY <2>1
    <2>3. HalfDone(rq, th[u], d, S)
      BY <1>2, <1>5 DEF QueueOK
    <2>4. \/ th[u].op \in Picking /\ th[u].v = NULL
          \/ th[u].v \in VCpu /\ own[th[u].v] \in {d, NULL}
      <3>1. CallOK(th[u], own) /\ th[u] \in ThreadState
        BY <2>1, TypeParts DEF SchedInv, ThreadsOK
      <3>2. th[u].k \in 0..3 /\ th[u].v \in VCpu \cup {NULL}
        BY <3>1 DEF ThreadState
      <3> QED BY <2>1, <3>1, <3>2 DEF CallOK, Picking
    <2> HIDE DEF u, S
    <2>5. HalfDone(rq', th[u], d, S)
      <3>1. CASE th[u].v \in VCpu /\ own[th[u].v] \in {d, NULL}
        <4>1. th[u].v \in Node \ D
          BY <2>2, <3>1, Nodes_Facts DEF Nodes
        <4> HIDE DEF D
        <4>2. Same(rq', rq, D)
          BY DEF D
        <4> QED
          BY <1>1, <1>2, <2>3, <4>1, <4>2, Nodes_Facts, HalfDoneFrame
      <3>2. CASE th[u].op \in Picking
        <4>1. Ring(rq, d, S) /\ th[u].k = 1
          BY <2>3, <3>2 DEF HalfDone, Picking
        <4>2. Ring(rq', d, S)
          BY <1>1, <4>1, RingFrame DEF Same
        <4> QED
          BY <3>2, <4>1, <4>2 DEF HalfDone
      <3> QED
        BY <2>4, <3>1, <3>2
    <2> QED
      BY <1>1, <1>3, <1>5, <2>2, <2>5 DEF QueueOK, u
  <1> QED
    BY <1>4, <1>5

\* A step of thread t on queue c and vCPU e that leaves it with call m and
\* lock c with x.
SectionShape(t, c, e, own, own2, m, x) ==
    /\ c = th[t].cpu /\ lock[c] \in {t, NULL} /\ x \in {t, NULL}
    /\ \A v \in VCpu \ {e} : own2[v] = own[v]
    /\ own[e] \in {c, NULL} /\ own2[e] \in {c, NULL}
    /\ \A u \in Thread \ {t} : th[u].v # e
    /\ rq' \in RqHeap /\ Same(rq', rq, Nodes(c, own) \cup {e})
    /\ lock' = [lock EXCEPT ![c] = x] /\ th' = [th EXCEPT ![t] = m]
    /\ m.v \in {e, NULL} /\ CallOK(m, own2)
    /\ IF x = NULL THEN m.k = 0 /\ Ring(rq', c, Nodes(c, own2))
                   ELSE m.k > 0 /\ m.cpu = c /\ HalfDone(rq', m, c, Nodes(c, own2))
    /\ OtherTypes'
    /\ QueuedOK(own2)'

LEMMA SectionKeeps ==
    ASSUME NEW own \in Owners, SchedInv(own), NEW own2 \in Owners,
           NEW t \in Thread, NEW c \in Cpu, NEW e \in VCpu,
           NEW m \in ThreadState, NEW x, SectionShape(t, c, e, own, own2, m, x)
    PROVE  SchedInv(own2)'
  <1> USE DEF SectionShape
  <1>1. /\ lock \in [Cpu -> Thread \cup {NULL}] /\ th \in [Thread -> ThreadState]
        /\ LocksOK /\ ThreadsOK(own) /\ Alone
    BY TypeParts DEF SchedInv
  <1>2. TypeOK'
    <2>1. lock' \in [Cpu -> Thread \cup {NULL}] /\ th' \in [Thread -> ThreadState]
      BY <1>1
    <2>2. rq' \in RqHeap
      OBVIOUS
    <2> QED BY <2>1, <2>2 DEF TypeOK, OtherTypes, RqHeap, Heap
  <1>3. /\ th'[t] = m /\ lock'[c] = x
        /\ \A u \in Thread \ {t} : th'[u] = th[u]
        /\ \A d \in Cpu \ {c} : lock'[d] = lock[d]
    BY <1>1
  <1>4. ASSUME NEW d \in Cpu PROVE QueueOK(d, own2)'
    <2>1. CASE d = c
      BY <1>3, <2>1, Nodes_Facts DEF QueueOK
    <2>2. CASE d # c
      BY <1>3, <2>2, OtherQueues
    <2> QED BY <2>1, <2>2
  <1>5. ThreadsOK(own2)'
    <2>1. ASSUME NEW u \in Thread \ {t} PROVE CallOK(th[u], own2)
      <3>1. CallOK(th[u], own) /\ th[u].v \in VCpu \cup {NULL}
        BY <1>1 DEF ThreadsOK, ThreadState
      <3> QED BY <3>1 DEF CallOK, Picking
    <2> QED BY <1>3, <2>1 DEF ThreadsOK
  <1>6. LocksOK'
    <2>1. ASSUME NEW u \in Thread \ {t}, th[u].k > 0 PROVE lock'[th[u].cpu] = u
      <3>1. lock[th[u].cpu] = u /\ th[u].cpu \in Cpu
        BY <1>1, <2>1 DEF LocksOK, ThreadState
      <3> QED BY <1>3, <3>1, Nodes_Facts
    <2>2. m.k > 0 => lock'[m.cpu] = t
      BY <1>3 DEF ThreadState
    <2>3. ASSUME NEW d \in Cpu \ {c}, lock[d] # NULL
          PROVE  th'[lock[d]].cpu = d /\ th'[lock[d]].k > 0
      BY <1>1, <1>3, <2>3 DEF LocksOK
    <2>4. x # NULL => th'[x].cpu = c /\ th'[x].k > 0
      BY <1>3
    <2> QED BY <1>3, <2>1, <2>2, <2>3, <2>4 DEF LocksOK
  <1>7. Alone'
    BY <1>1, <1>3 DEF Alone
  <1> QED
    BY <1>2, <1>4, <1>5, <1>6, <1>7 DEF SchedInv

\* A step of thread t outside sections.
LEMMA QuietKeeps ==
    ASSUME NEW own \in Owners, SchedInv(own), NEW t \in Thread, NEW m \in ThreadState,
           th[t].k = 0, m.k = 0, th[t].op # "put", m.op # "put",
           UNCHANGED <<rq, lock, queued>>, th' = [th EXCEPT ![t] = m],
           m.v # NULL => \A u \in Thread \ {t} : th[u].v # m.v,
           CallOK(m, own), OtherTypes'
    PROVE  SchedInv(own)'
  <1>1. /\ lock \in [Cpu -> Thread \cup {NULL}] /\ th \in [Thread -> ThreadState]
        /\ rq \in RqHeap /\ LocksOK /\ ThreadsOK(own) /\ Alone /\ QueuedOK(own)
    BY TypeParts DEF SchedInv
  <1>2. TypeOK'
    <2>1. lock' \in [Cpu -> Thread \cup {NULL}] /\ th' \in [Thread -> ThreadState]
      BY <1>1
    <2>2. rq' \in RqHeap
      BY <1>1
    <2> QED BY <2>1, <2>2 DEF TypeOK, OtherTypes, RqHeap, Heap
  <1>3. th'[t] = m /\ \A u \in Thread \ {t} : th'[u] = th[u]
    BY <1>1
  <1>4. \A c \in Cpu : lock[c] # t
    BY <1>1, Nodes_Facts DEF LocksOK
  <1>5. ASSUME NEW d \in Cpu PROVE QueueOK(d, own)'
    <2>1. QueueOK(d, own) /\ lock[d] \in Thread \cup {NULL}
      BY <1>1 DEF SchedInv
    <2> QED BY <1>3, <1>4, <2>1 DEF QueueOK
  <1>6. ThreadsOK(own)'
    BY <1>1, <1>3 DEF ThreadsOK
  <1>7. LocksOK'
    <2>1. ASSUME NEW u \in Thread, th'[u].k > 0 PROVE lock[th'[u].cpu] = u
      BY <1>1, <1>3, <2>1 DEF LocksOK
    <2>2. ASSUME NEW d \in Cpu, lock[d] # NULL
          PROVE  th'[lock[d]].cpu = d /\ th'[lock[d]].k > 0
      BY <1>1, <1>3, <1>4, <2>2 DEF LocksOK
    <2> QED BY <2>1, <2>2 DEF LocksOK
  <1>8. Alone'
    BY <1>1, <1>3 DEF Alone
  <1>9. QueuedOK(own)'
    <2>1. InHand' = InHand
      BY <1>1, <1>3 DEF InHand
    <2> QED BY <1>1, <2>1 DEF QueuedOK
  <1> QED
    BY <1>2, <1>5, <1>6, <1>7, <1>8, <1>9 DEF SchedInv

LEMMA IdleType ==
    /\ Idle \in ThreadState
    /\ Idle.op = "idle" /\ Idle.v = NULL /\ Idle.k = 0 /\ Idle.cpu = 0
  <1>1. Cardinality(VCpu) \in Nat
    BY SchedulerAssumption, FS_CardinalityType
  <1>2. 0 \in Cpu /\ 0 \in Nat /\ 0 \in 0..(U32 - 1) /\ 0 \in 0..3
    BY <1>1, SchedulerAssumption DEF Cpu
  <1> QED
    BY <1>2 DEF Idle, ThreadState

LEMMA NextHalf ==
    ASSUME NEW me \in ThreadState, NEW e \in VCpu, me.k + 1 <= 3
    PROVE  LET m == [me EXCEPT !.v = e, !.k = @ + 1]
           IN  /\ m \in ThreadState
               /\ m.op = me.op /\ m.v = e /\ m.k = me.k + 1 /\ m.cpu = me.cpu
  <1>1. me.k + 1 \in 0..3
    BY DEF ThreadState
  <1> QED
    BY <1>1 DEF ThreadState

\* What the invariant says of the call of one thread.
LEMMA CallFacts ==
    ASSUME NEW own \in Owners, SchedInv(own), NEW t \in Thread
    PROVE  /\ th[t] \in ThreadState /\ th[t].cpu \in Cpu /\ th[t].k \in 0..3
           /\ th[t].v \in VCpu \cup {NULL}
           /\ CallOK(th[t], own)
           /\ \A u \in Thread \ {t} : th[t].v # NULL => th[u].v # th[t].v
           /\ lock[th[t].cpu] = NULL => Ring(rq, th[t].cpu, Nodes(th[t].cpu, own))
           /\ th[t].k > 0 => /\ lock[th[t].cpu] = t
                             /\ HalfDone(rq, th[t], th[t].cpu, Nodes(th[t].cpu, own))
           /\ Nodes(th[t].cpu, own) \in SUBSET Node /\ th[t].cpu \in Nodes(th[t].cpu, own)
           /\ rq \in RqHeap /\ OtherTypes
  <1>1. /\ lock \in [Cpu -> Thread \cup {NULL}] /\ th \in [Thread -> ThreadState]
        /\ rq \in RqHeap /\ OtherTypes /\ LocksOK /\ ThreadsOK(own) /\ Alone
    BY TypeParts DEF SchedInv
  <1>2. th[t] \in ThreadState
    BY <1>1
  <1>3. th[t].cpu \in Cpu /\ th[t].k \in 0..3 /\ th[t].v \in VCpu \cup {NULL}
    BY <1>2 DEF ThreadState
  <1>4. QueueOK(th[t].cpu, own)
    BY <1>3 DEF SchedInv
  <1>5. Nodes(th[t].cpu, own) \in SUBSET Node /\ th[t].cpu \in Nodes(th[t].cpu, own)
    BY <1>3, Nodes_Facts DEF Nodes
  <1>6. lock[th[t].cpu] = NULL => Ring(rq, th[t].cpu, Nodes(th[t].cpu, own))
    BY <1>4 DEF QueueOK
  <1>7. th[t].k > 0 => lock[th[t].cpu] = t
    BY <1>1 DEF LocksOK
  <1>8. th[t].k > 0 => HalfDone(rq, th[t], th[t].cpu, Nodes(th[t].cpu, own))
    BY <1>4, <1>7, Nodes_Facts DEF QueueOK
  <1> QED
    BY <1>1, <1>2, <1>3, <1>5, <1>6, <1>7, <1>8 DEF ThreadsOK, Alone

\* The vCPUs in a balancer's hand after a step of thread t.
LEMMA InHandAfter ==
    ASSUME NEW t \in Thread, \A u \in Thread \ {t} : th'[u] = th[u], NEW w
    PROVE  w \in InHand' <=> \/ th'[t].op = "put" /\ th'[t].v = w
                             \/ \E u \in Thread \ {t} : th[u].op = "put" /\ th[u].v = w
  <1>1. w \in InHand' <=> \E u \in Thread : th'[u].op = "put" /\ th'[u].v = w
    BY DEF InHand
  <1> QED
    BY <1>1

\* How a step of thread t may change who owns what.
StepOwn(t, own, own2) ==
    \A v \in VCpu : \/ own2[v] \in {own[v], NULL}
                    \/ v = th[t].v /\ own2[v] = th[t].cpu

\* A first or middle half, after which thread t, in state m, goes on.
MiddleShape(t, c, e, own, m) ==
    /\ c = th[t].cpu /\ lock[c] \in {t, NULL} /\ own[e] \in {c, NULL}
    /\ m.op = th[t].op /\ m.v = e /\ m.k = th[t].k + 1 /\ m.cpu = c
    /\ th[t].op # "put" \/ th[t].v = e
    /\ \A u \in Thread \ {t} : th[u].v # e
    /\ rq' \in RqHeap /\ Same(rq', rq, Nodes(c, own) \cup {e})
    /\ lock' = [lock EXCEPT ![c] = t] /\ th' = [th EXCEPT ![t] = m]
    /\ CallOK(m, own) /\ HalfDone(rq', m, c, Nodes(c, own))
    /\ OtherTypes' /\ queued' = queued

\* The section goes on.
LEMMA MiddleHalf ==
    ASSUME NEW own \in Owners, SchedInv(own), NEW t \in Thread, NEW c \in Cpu, NEW e \in VCpu,
           NEW m \in ThreadState, MiddleShape(t, c, e, own, m)
    PROVE  SchedInv(own)'
  <1> USE DEF MiddleShape
  <1>1. th[t] \in ThreadState /\ c \in Cpu /\ th[t].k \in 0..3
    BY CallFacts
  <1>2. th'[t] = m /\ \A u \in Thread \ {t} : th'[u] = th[u]
    BY TypeParts DEF SchedInv
  <1>3. QueuedOK(own)'
    <2>1. ASSUME NEW w PROVE w \in InHand' <=> w \in InHand
      <3>1. w \in InHand <=> \E u \in Thread : th[u].op = "put" /\ th[u].v = w
        BY DEF InHand
      <3>2. w \in InHand' <=> \/ th'[t].op = "put" /\ th'[t].v = w
                              \/ \E u \in Thread \ {t} : th[u].op = "put" /\ th[u].v = w
        BY <1>2, InHandAfter
      <3> QED BY <1>2, <3>1, <3>2
    <2> QED BY <2>1 DEF SchedInv, QueuedOK
  <1>4. m.k > 0 /\ t # NULL
    BY <1>1, Nodes_Facts
  <1>5. SectionShape(t, c, e, own, own, m, t)
    BY <1>3, <1>4 DEF SectionShape
  <1> QED
    BY <1>5, SectionKeeps

\* A last half, after which vCPU e is on queue c or not.
LastShape(t, c, e, own, own2, m) ==
    /\ c = th[t].cpu /\ th[t].v = e /\ th[t].k > 0
    /\ \A v \in VCpu \ {e} : own2[v] = own[v]
    /\ own[e] \in {c, NULL} /\ own2[e] \in {c, NULL}
    /\ rq' \in RqHeap /\ Same(rq', rq, Nodes(c, own) \cup {e})
    /\ Ring(rq', c, Nodes(c, own2))
    /\ lock' = [lock EXCEPT ![c] = NULL] /\ th' = [th EXCEPT ![t] = m]
    /\ m.v \in {e, NULL} /\ m.k = 0 /\ CallOK(m, own2)
    /\ OtherTypes'
    /\ queued' \ {e} = queued \ {e}
    /\ e \in queued' <=> own2[e] # NULL \/ (m.op = "put" /\ m.v = e)

LEMMA LastHalf ==
    ASSUME NEW own \in Owners, SchedInv(own), NEW own2 \in Owners,
           NEW t \in Thread, NEW c \in Cpu, NEW e \in VCpu, NEW m \in ThreadState,
           LastShape(t, c, e, own, own2, m)
    PROVE  SchedInv(own2)'
  <1> USE DEF LastShape
  <1>1. /\ c \in Cpu /\ lock[c] = t
        /\ \A u \in Thread \ {t} : th[u].v # e
    BY CallFacts, Nodes_Facts
  <1>2. QueuedOK(own2)'
    <2>1. ASSUME NEW w \in VCpu PROVE w \in queued' <=> own2[w] # NULL \/ w \in InHand'
      <3>1. w \in InHand <=> \E u \in Thread : th[u].op = "put" /\ th[u].v = w
        BY DEF InHand
      <3>0. w \in InHand' <=> \/ m.op = "put" /\ m.v = w
                              \/ \E u \in Thread \ {t} : th[u].op = "put" /\ th[u].v = w
        <4>1. th'[t] = m /\ \A u \in Thread \ {t} : th'[u] = th[u]
          BY TypeParts DEF SchedInv
        <4>2. w \in InHand' <=> \/ th'[t].op = "put" /\ th'[t].v = w
                                \/ \E u \in Thread \ {t} : th[u].op = "put" /\ th[u].v = w
          BY <4>1, InHandAfter
        <4> QED BY <4>1, <4>2
      <3>2. CASE w = e
        <4>1. w \in InHand' <=> m.op = "put" /\ m.v = w
          BY <1>1, <3>0, <3>2
        <4> QED BY <3>2, <4>1
      <3>3. CASE w # e
        <4>1. w \in InHand' <=> w \in InHand
          BY <1>1, <3>0, <3>1, <3>3, Nodes_Facts
        <4>2. w \in queued <=> own[w] # NULL \/ w \in InHand
          BY DEF SchedInv, QueuedOK
        <4>3. w \in queued' <=> w \in queued
          BY <3>3
        <4> QED BY <3>3, <4>1, <4>2, <4>3
      <3> QED BY <3>2, <3>3
    <2> QED BY <2>1 DEF QueuedOK
  <1> QED
    <2>1. SectionShape(t, c, e, own, own2, m, NULL)
      BY <1>1, <1>2 DEF SectionShape
    <2> QED
      BY <2>1, SectionKeeps

-----------------------------------------------------------------------------
(* The calls.                                                              *)

\* The call half way through a section.
LEMMA NextCall ==
    ASSUME NEW own \in Owners, SchedInv(own), NEW t \in Thread, NEW e \in VCpu,
           th[t].k + 1 <= 3, th' = [th EXCEPT ![t] = [th[t] EXCEPT !.v = e, !.k = @ + 1]]
    PROVE  \E m \in ThreadState : /\ m.op = th[t].op /\ m.v = e /\ m.k = th[t].k + 1
                                  /\ m.cpu = th[t].cpu /\ th' = [th EXCEPT ![t] = m]
  <1> DEFINE m == [th[t] EXCEPT !.v = e, !.k = @ + 1]
  <1>1. th[t] \in ThreadState
    BY CallFacts
  <1>2. /\ m \in ThreadState /\ m.op = th[t].op /\ m.v = e /\ m.k = th[t].k + 1
        /\ m.cpu = th[t].cpu
    BY <1>1, NextHalf
  <1> HIDE DEF m
  <1>3. th' = [th EXCEPT ![t] = m]
    BY DEF m
  <1> QED
    BY <1>2, <1>3

LEMMA Halves ==
    ASSUME NEW h, NEW e, NEW c
    PROVE  /\ Half(h, "del1", e, c) = list_del_1(h, e)
           /\ Half(h, "del2", e, c) = list_del_2(h, e)
           /\ Half(h, "tail1", e, c) = list_add_tail_1(h, e, c)
           /\ Half(h, "tail2", e, c) = list_add_tail_2(h, e, c)
           /\ Half(h, "add1", e, c) = list_add_1(h, e, c)
           /\ Half(h, "add2", e, c) = list_add_2(h, e, c)
  BY DEF Half

\* scheduler_add_vcpu and the end of scheduler_load_balance.
LEMMA TailSection ==
    ASSUME NEW own \in Owners, SchedInv(own), NEW t \in Thread,
           th[t].op \in {"add", "put"},
           Section(t, <<"tail1", "tail2">>, th[t].v, Idle), OtherTypes',
           queued' = IF LastOf(t, <<"tail1", "tail2">>) THEN queued \cup {th[t].v} ELSE queued
    PROVE  \E own2 \in Owners : SchedInv(own2)' /\ StepOwn(t, own, own2)
  <1> DEFINE S == Nodes(th[t].cpu, own)
  <1>1. PICK c \in Cpu, e \in VCpu : c = th[t].cpu /\ e = th[t].v
    BY CallFacts DEF CallOK, Picking
  <1>2. own[e] = NULL /\ e \in Node \ S /\ c \in S /\ S \in SUBSET Node /\ rq \in RqHeap
        /\ \A u \in Thread \ {t} : th[u].v # e
    <2>1. e # NULL /\ e \in Node /\ e \notin Cpu
      BY Nodes_Facts
    <2>2. own[e] = NULL
      <3>1. CallOK(th[t], own)
        BY CallFacts
      <3> QED BY <1>1, <2>1, <3>1 DEF CallOK, Picking
    <2>3. c \in S /\ S \in SUBSET Node /\ rq \in RqHeap
      BY <1>1, CallFacts
    <2>4. \A u \in Thread \ {t} : th[u].v # e
      BY <1>1, <2>1, CallFacts
    <2>5. e \notin S
      BY <1>1, <2>1, <2>2, Nodes_Facts DEF Nodes
    <2> QED BY <2>1, <2>2, <2>3, <2>4, <2>5
  <1>4. th[t].k \in {0, 1}
    <2>1. th[t].k \in 0..3 /\ (th[t].k > 0 => HalfDone(rq, th[t], c, S))
      BY <1>1, CallFacts
    <2> QED BY <2>1 DEF HalfDone, Picking
  <1>5. StepOwn(t, own, own)
    BY DEF StepOwn
  <1>7. CASE th[t].k = 0
    <2>1. /\ lock[c] = NULL /\ lock' = [lock EXCEPT ![c] = t]
          /\ rq' = Half(rq, "tail1", e, c)
          /\ th' = [th EXCEPT ![t] = [th[t] EXCEPT !.v = e, !.k = @ + 1]]
          /\ queued' = queued
      BY <1>1, <1>7 DEF Section, LastOf
    <2>2. PICK m \in ThreadState : /\ m.op = th[t].op /\ m.v = e /\ m.k = th[t].k + 1
                                   /\ m.cpu = th[t].cpu /\ th' = [th EXCEPT ![t] = m]
      <3>1. th[t].k + 1 <= 3
        BY <1>7
      <3> QED BY <2>1, <3>1, NextCall
    <2>3. rq' = list_add_tail_1(rq, e, c)
      BY <2>1, Halves
    <2>4. Ring(rq, c, S)
      BY <1>1, <2>1, CallFacts
    <2>5. rq' \in RqHeap /\ TailHalf(rq', e, c, S) /\ Same(rq', rq, S \cup {e})
      BY <1>2, <2>3, <2>4, HalfTypes, TailFirst
    <2>6. HalfDone(rq', m, c, S) /\ CallOK(m, own)
      BY <1>1, <1>2, <1>7, <2>2, <2>5, Nodes_Facts DEF HalfDone, CallOK, Picking
    <2>7. m.k = th[t].k + 1 /\ m.cpu = c /\ lock[c] \in {t, NULL} /\ own[e] \in {c, NULL}
      BY <1>1, <1>2, <1>7, <2>1, <2>2
    <2>8. MiddleShape(t, c, e, own, m)
      BY <1>1, <1>2, <2>1, <2>2, <2>5, <2>6, <2>7 DEF MiddleShape
    <2>9. SchedInv(own)'
      BY <2>8, MiddleHalf
    <2> QED BY <1>5, <2>9
  <1>8. CASE th[t].k = 1
    <2>1. /\ lock' = [lock EXCEPT ![c] = NULL] /\ th' = [th EXCEPT ![t] = Idle]
          /\ rq' = Half(rq, "tail2", e, c) /\ queued' = queued \cup {e}
      BY <1>1, <1>8 DEF Section, LastOf
    <2>2. rq' = list_add_tail_2(rq, e, c)
      BY <2>1, Halves
    <2>3. TailHalf(rq, e, c, S)
      <3>1. HalfDone(rq, th[t], c, S)
        BY <1>1, <1>8, CallFacts
      <3> QED BY <1>1, <1>8, <3>1 DEF HalfDone, Picking
    <2>4. rq' \in RqHeap /\ Ring(rq', c, S \cup {e}) /\ Same(rq', rq, S \cup {e})
      <3>1. Ring(rq', c, S \cup {e}) /\ Same(rq', rq, S)
        BY <1>2, <2>2, <2>3, TailSecond
      <3> QED BY <1>2, <2>2, <3>1, HalfTypes DEF Same
    <2>5. PICK own2 \in Owners : own2 = [own EXCEPT ![e] = c]
      BY DEF Owners
    <2>6. own2[e] = c /\ (\A v \in VCpu \ {e} : own2[v] = own[v]) /\ Nodes(c, own2) = S \cup {e}
      BY <1>1, <2>5 DEF Owners, Nodes
    <2>7. StepOwn(t, own, own2)
      BY <1>1, <2>6 DEF StepOwn
    <2>9. CallOK(Idle, own2)
      BY IdleType DEF CallOK, Picking
    <2>10. SchedInv(own2)'
      <3>1. PICK m \in ThreadState : m = Idle
        BY IdleType
      <3>2. /\ m.v \in {e, NULL} /\ m.k = 0 /\ CallOK(m, own2) /\ th' = [th EXCEPT ![t] = m]
            /\ queued' \ {e} = queued \ {e}
            /\ e \in queued' <=> own2[e] # NULL \/ (m.op = "put" /\ m.v = e)
            /\ th[t].k > 0 /\ own2[e] \in {c, NULL} /\ own[e] \in {c, NULL}
        BY <1>2, <1>8, <2>1, <2>6, <2>9, <3>1, IdleType, Nodes_Facts
      <3>3. LastShape(t, c, e, own, own2, m)
        BY <1>1, <2>1, <2>4, <2>6, <3>2 DEF LastShape
      <3> QED BY <3>3, LastHalf
    <2> QED BY <2>7, <2>10
  <1> QED
    BY <1>4, <1>7, <1>8

\* The first half of list_del, by any of the calls that start with it.
LEMMA DelStart ==
    ASSUME NEW own \in Owners, SchedInv(own), NEW t \in Thread, NEW c \in Cpu,
           NEW e \in VCpu, c = th[t].cpu, th[t].k = 0,
           th[t].op \in {"remove", "yield", "wake", "take"},
           own[e] = c, \A u \in Thread \ {t} : th[u].v # e,
           lock[c] = NULL, lock' = [lock EXCEPT ![c] = t],
           rq' = Half(rq, "del1", e, c),
           th' = [th EXCEPT ![t] = [th[t] EXCEPT !.v = e, !.k = @ + 1]],
           queued' = queued, OtherTypes'
    PROVE  SchedInv(own)'
  <1> DEFINE S == Nodes(c, own)
  <1>1. c \in S /\ S \in SUBSET Node /\ rq \in RqHeap /\ e \in S /\ e # c /\ Ring(rq, c, S)
    BY CallFacts, Nodes_Facts DEF Nodes
  <1>2. PICK m \in ThreadState : /\ m.op = th[t].op /\ m.v = e /\ m.k = th[t].k + 1
                                 /\ m.cpu = th[t].cpu /\ th' = [th EXCEPT ![t] = m]
    <2>1. th[t].k + 1 <= 3
      OBVIOUS
    <2> QED BY <2>1, NextCall
  <1>3. rq' = list_del_1(rq, e)
    BY Halves
  <1>4. rq' \in RqHeap /\ DelHalf(rq', e, c, S) /\ Same(rq', rq, S \cup {e})
    <2>1. DelHalf(rq', e, c, S) /\ Same(rq', rq, S)
      BY <1>1, <1>3, DelFirst
    <2> QED BY <1>1, <1>3, <2>1, HalfTypes DEF Same
  <1>5. HalfDone(rq', m, c, S) /\ CallOK(m, own)
    BY <1>2, <1>4, Nodes_Facts DEF HalfDone, CallOK, Picking
  <1>6. m.cpu = c /\ lock[c] \in {t, NULL} /\ own[e] \in {c, NULL} /\ th[t].op # "put"
    BY <1>2
  <1>7. MiddleShape(t, c, e, own, m)
    BY <1>2, <1>4, <1>5, <1>6 DEF MiddleShape
  <1> QED
    BY <1>7, MiddleHalf

\* The second half of the list_del that takes vCPU e off queue c.
LEMMA DelEnd ==
    ASSUME NEW own \in Owners, SchedInv(own), NEW t \in Thread, NEW c \in Cpu,
           NEW e \in VCpu, c = th[t].cpu, e = th[t].v, th[t].k = 1,
           th[t].op \in {"remove", "take"}, NEW m \in ThreadState,
           lock' = [lock EXCEPT ![c] = NULL],
           rq' = Half(rq, "del2", e, c),
           th' = [th EXCEPT ![t] = m], m.k = 0,
           \/ m = Idle /\ queued' = queued \ {e}
           \/ m.op = "put" /\ m.v = e /\ queued' = queued,
           OtherTypes'
    PROVE  \E own2 \in Owners : SchedInv(own2)' /\ StepOwn(t, own, own2)
  <1> DEFINE S == Nodes(c, own)
  <1>1. c \in S /\ S \in SUBSET Node /\ rq \in RqHeap /\ own[e] = c /\ e \in Node
    <2>1. CallOK(th[t], own)
      BY CallFacts
    <2>2. own[e] = c
      BY <2>1, Nodes_Facts DEF CallOK, Picking
    <2> QED BY <2>2, CallFacts, Nodes_Facts
  <1>2. DelHalf(rq, e, c, S)
    <2>1. HalfDone(rq, th[t], c, S)
      BY CallFacts
    <2> QED BY <2>1 DEF HalfDone, Picking
  <1>3. rq' = list_del_2(rq, e)
    BY Halves
  <1>4. rq' \in RqHeap /\ Ring(rq', c, S \ {e}) /\ Same(rq', rq, S \cup {e})
    <2>1. Ring(rq', c, S \ {e}) /\ Same(rq', rq, S)
      BY <1>1, <1>2, <1>3, DelSecond
    <2> QED BY <1>1, <1>3, <2>1, HalfTypes DEF Same
  <1>5. PICK own2 \in Owners : own2 = [own EXCEPT ![e] = NULL]
    BY DEF Owners
  <1>6. /\ own2[e] = NULL /\ \A v \in VCpu \ {e} : own2[v] = own[v]
        /\ Nodes(c, own2) = S \ {e}
    BY <1>5, Nodes_Facts DEF Owners, Nodes
  <1>7. StepOwn(t, own, own2)
    BY <1>6 DEF StepOwn
  <1>8. CallOK(m, own2) /\ m.v \in {e, NULL}
    BY <1>6, IdleType, Nodes_Facts DEF CallOK, Picking
  <1>9. /\ queued' \ {e} = queued \ {e}
        /\ e \in queued' <=> own2[e] # NULL \/ (m.op = "put" /\ m.v = e)
    <2>1. e \in queued
      BY <1>1, Nodes_Facts DEF SchedInv, QueuedOK
    <2> QED BY <1>6, <2>1, IdleType
  <1>10. LastShape(t, c, e, own, own2, m)
    BY <1>1, <1>4, <1>6, <1>8, <1>9 DEF LastShape
  <1>11. SchedInv(own2)'
    BY <1>10, LastHalf
  <1> QED
    BY <1>7, <1>11

\* scheduler_yield and scheduler_wake.
LEMMA MoveSection ==
    ASSUME NEW own \in Owners, SchedInv(own), NEW t \in Thread, NEW a, NEW b,
           \/ th[t].op = "yield" /\ a = "tail1" /\ b = "tail2"
           \/ th[t].op = "wake" /\ a = "add1" /\ b = "add2",
           Section(t, <<"del1", "del2", a, b>>, th[t].v, Idle),
           OtherTypes', queued' = queued
    PROVE  SchedInv(own)'
  <1> DEFINE S == Nodes(th[t].cpu, own)
  <1>1. PICK c \in Cpu, e \in VCpu : c = th[t].cpu /\ e = th[t].v
    BY CallFacts DEF CallOK, Picking
  <1>2. own[e] = c /\ e \in S /\ c \in S /\ S \in SUBSET Node /\ rq \in RqHeap
        /\ e # c /\ e \in Node /\ \A u \in Thread \ {t} : th[u].v # e
    BY <1>1, CallFacts, Nodes_Facts DEF CallOK, Nodes, Picking
  <1>3. th[t].k \in 0..3 /\ (th[t].k > 0 => HalfDone(rq, th[t], c, S) /\ lock[c] = t)
    BY <1>1, CallFacts
  <1>4. CASE th[t].k = 0
    <2>1. /\ lock[c] = NULL /\ lock' = [lock EXCEPT ![c] = t]
          /\ rq' = Half(rq, "del1", e, c)
          /\ th' = [th EXCEPT ![t] = [th[t] EXCEPT !.v = e, !.k = @ + 1]]
      BY <1>1, <1>4 DEF Section
    <2> QED
      BY <1>1, <1>2, <1>4, <2>1, DelStart
  <1>5. ASSUME th[t].k \in {1, 2}, NEW g, rq' = g, g \in RqHeap, Same(g, rq, S \cup {e}),
               NEW m \in ThreadState, m.op = th[t].op, m.v = e, m.k = th[t].k + 1,
               m.cpu = th[t].cpu, th' = [th EXCEPT ![t] = m],
               lock' = [lock EXCEPT ![c] = t], HalfDone(g, m, c, S)
        PROVE  SchedInv(own)'
    <2>1. CallOK(m, own)
      BY <1>1, <1>2, <1>5, Nodes_Facts DEF CallOK, Picking
    <2>2. lock[c] \in {t, NULL} /\ own[e] \in {c, NULL} /\ m.cpu = c /\ th[t].op # "put"
      BY <1>1, <1>2, <1>3, <1>5
    <2>3. MiddleShape(t, c, e, own, m)
      BY <1>1, <1>2, <1>5, <2>1, <2>2 DEF MiddleShape
    <2> QED
      BY <2>3, MiddleHalf
  <1>6. CASE th[t].k = 1
    <2>1. /\ lock' = [lock EXCEPT ![c] = t] /\ rq' = Half(rq, "del2", e, c)
          /\ th' = [th EXCEPT ![t] = [th[t] EXCEPT !.v = e, !.k = @ + 1]]
      BY <1>1, <1>6 DEF Section
    <2>2. PICK m \in ThreadState : /\ m.op = th[t].op /\ m.v = e /\ m.k = th[t].k + 1
                                   /\ m.cpu = th[t].cpu /\ th' = [th EXCEPT ![t] = m]
      <3>1. th[t].k + 1 <= 3
        BY <1>6
      <3> QED BY <2>1, <3>1, NextCall
    <2>3. rq' = list_del_2(rq, e)
      BY <2>1, Halves
    <2>4. DelHalf(rq, e, c, S)
      BY <1>1, <1>3, <1>6 DEF HalfDone, Picking
    <2>5. rq' \in RqHeap /\ Ring(rq', c, S \ {e}) /\ Same(rq', rq, S \cup {e})
      <3>1. Ring(rq', c, S \ {e}) /\ Same(rq', rq, S)
        BY <1>2, <2>3, <2>4, DelSecond
      <3> QED BY <1>2, <2>3, <3>1, HalfTypes DEF Same
    <2>6. HalfDone(rq', m, c, S)
      BY <1>6, <2>2, <2>5 DEF HalfDone, Picking
    <2> QED
      BY <1>5, <1>6, <2>1, <2>2, <2>5, <2>6
  <1>7. CASE th[t].k = 2
    <2>1. /\ lock' = [lock EXCEPT ![c] = t] /\ rq' = Half(rq, a, e, c)
          /\ th' = [th EXCEPT ![t] = [th[t] EXCEPT !.v = e, !.k = @ + 1]]
      BY <1>1, <1>7 DEF Section
    <2>2. PICK m \in ThreadState : /\ m.op = th[t].op /\ m.v = e /\ m.k = th[t].k + 1
                                   /\ m.cpu = th[t].cpu /\ th' = [th EXCEPT ![t] = m]
      <3>1. th[t].k + 1 <= 3
        BY <1>7
      <3> QED BY <2>1, <3>1, NextCall
    <2>3. Ring(rq, c, S \ {e}) /\ S \ {e} \in SUBSET Node /\ c \in S \ {e} /\ e \in Node \ (S \ {e})
          /\ (S \ {e}) \cup {e} = S \cup {e}
      BY <1>1, <1>2, <1>3, <1>7 DEF HalfDone, Picking
    <2>4. CASE th[t].op = "yield"
      <3>1. rq' = list_add_tail_1(rq, e, c)
        BY <2>1, <2>4, Halves
      <3>2. TailHalf(rq', e, c, S \ {e}) /\ Same(rq', rq, S \cup {e}) /\ rq' \in RqHeap
        BY <1>2, <2>3, <3>1, TailFirst, HalfTypes
      <3>3. HalfDone(rq', m, c, S)
        BY <1>7, <2>2, <2>4, <3>2 DEF HalfDone, Picking
      <3> QED
        BY <1>5, <1>7, <2>1, <2>2, <3>2, <3>3
    <2>5. CASE th[t].op = "wake"
      <3>1. rq' = list_add_1(rq, e, c)
        BY <2>1, <2>5, Halves
      <3>2. AddHalf(rq', e, c, S \ {e}) /\ Same(rq', rq, S \cup {e}) /\ rq' \in RqHeap
        BY <1>2, <2>3, <3>1, AddFirst, HalfTypes
      <3>3. HalfDone(rq', m, c, S)
        BY <1>7, <2>2, <2>5, <3>2 DEF HalfDone, Picking
      <3> QED
        BY <1>5, <1>7, <2>1, <2>2, <3>2, <3>3
    <2> QED
      BY <2>4, <2>5
  <1>8. CASE th[t].k = 3
    <2>1. /\ lock' = [lock EXCEPT ![c] = NULL] /\ rq' = Half(rq, b, e, c)
          /\ th' = [th EXCEPT ![t] = Idle]
      BY <1>1, <1>8 DEF Section
    <2>2. S \ {e} \in SUBSET Node /\ c \in S \ {e} /\ (S \ {e}) \cup {e} = S
      BY <1>2
    <2>3. rq' \in RqHeap /\ Ring(rq', c, S) /\ Same(rq', rq, S \cup {e})
      <3>1. CASE th[t].op = "yield"
        <4>1. rq' = list_add_tail_2(rq, e, c)
          BY <2>1, <3>1, Halves
        <4>2. TailHalf(rq, e, c, S \ {e})
          BY <1>1, <1>3, <1>8, <3>1 DEF HalfDone, Picking
        <4>3. Ring(rq', c, (S \ {e}) \cup {e}) /\ Same(rq', rq, S \ {e})
          BY <1>2, <2>2, <4>1, <4>2, TailSecond
        <4> QED BY <1>2, <2>2, <4>1, <4>3, HalfTypes DEF Same
      <3>2. CASE th[t].op = "wake"
        <4>1. rq' = list_add_2(rq, e, c)
          BY <2>1, <3>2, Halves
        <4>2. AddHalf(rq, e, c, S \ {e})
          BY <1>1, <1>3, <1>8, <3>2 DEF HalfDone, Picking
        <4>3. Ring(rq', c, (S \ {e}) \cup {e}) /\ Same(rq', rq, S \ {e})
          BY <1>2, <2>2, <4>1, <4>2, AddSecond
        <4> QED BY <1>2, <2>2, <4>1, <4>3, HalfTypes DEF Same
      <3> QED BY <3>1, <3>2
    <2>4. PICK m \in ThreadState : m = Idle
      BY IdleType
    <2>5. CallOK(m, own) /\ m.v \in {e, NULL} /\ m.k = 0 /\ m.op # "put" /\ th' = [th EXCEPT ![t] = m]
      BY <2>1, <2>4, IdleType DEF CallOK, Picking
    <2>6. e \in queued /\ own[e] # NULL
      BY <1>2, Nodes_Facts DEF SchedInv, QueuedOK
    <2>7. LastShape(t, c, e, own, own, m)
      <3>1. th[t].k > 0 /\ own[e] \in {c, NULL}
        BY <1>2, <1>8
      <3>2. Ring(rq', c, Nodes(c, own)) /\ Same(rq', rq, Nodes(c, own) \cup {e})
        BY <1>1, <2>3
      <3>3. e \in queued' <=> own[e] # NULL \/ (m.op = "put" /\ m.v = e)
        BY <2>6
      <3>4. queued' \ {e} = queued \ {e}
        OBVIOUS
      <3> QED BY <1>1, <2>1, <2>3, <2>5, <3>1, <3>2, <3>3, <3>4 DEF LastShape
    <2> QED
      BY <2>7, LastHalf
  <1> QED
    BY <1>3, <1>4, <1>6, <1>7, <1>8

LEMMA OtherTypesStable ==
    ASSUME OtherTypes, UNCHANGED vcpuVars
    PROVE  OtherTypes'
  BY DEF OtherTypes, vcpuVars, Online

LEMMA AddStep ==
    ASSUME NEW own \in Owners, SchedInv(own), NEW t \in Thread, scheduler_add_vcpu(t)
    PROVE  \E own2 \in Owners : SchedInv(own2)' /\ StepOwn(t, own, own2)
  <1>1. OtherTypes /\ th[t].v \in VCpu
    BY CallFacts DEF CallOK, scheduler_add_vcpu, Picking
  <1>2. OtherTypes'
    BY <1>1 DEF scheduler_add_vcpu, OtherTypes, Online, Policy
  <1> QED
    BY <1>2, TailSection DEF scheduler_add_vcpu

LEMMA AddFailsStep ==
    ASSUME NEW own \in Owners, SchedInv(own), NEW t \in Thread, scheduler_add_vcpu_fails(t)
    PROVE  SchedInv(own)'
  <1>1. OtherTypes'
    BY CallFacts, OtherTypesStable DEF scheduler_add_vcpu_fails
  <1>2. CallOK(Idle, own)
    BY IdleType DEF CallOK, Picking
  <1> QED
    BY <1>1, <1>2, IdleType, QuietKeeps DEF scheduler_add_vcpu_fails, vcpuVars

LEMMA RemoveStep ==
    ASSUME NEW own \in Owners, SchedInv(own), NEW t \in Thread, scheduler_remove_vcpu(t)
    PROVE  \E own2 \in Owners : SchedInv(own2)' /\ StepOwn(t, own, own2)
  <1>0. th[t].op = "remove"
    BY DEF scheduler_remove_vcpu
  <1>1. PICK c \in Cpu, e \in VCpu : c = th[t].cpu /\ e = th[t].v
    BY <1>0, CallFacts DEF CallOK, Picking
  <1>2. own[e] = c /\ \A u \in Thread \ {t} : th[u].v # e
    BY <1>0, <1>1, CallFacts, Nodes_Facts DEF CallOK, Picking
  <1>3. th[t].k \in {0, 1}
    <2>1. th[t].k \in 0..3 /\ (th[t].k > 0 => HalfDone(rq, th[t], c, Nodes(c, own)))
      BY <1>1, CallFacts
    <2> QED BY <1>0, <2>1 DEF HalfDone, Picking
  <1>4. OtherTypes'
    <2>1. OtherTypes
      BY CallFacts
    <2> QED BY <2>1 DEF scheduler_remove_vcpu, OtherTypes, Online
  <1>5. CASE th[t].k = 0
    <2>1. /\ lock[c] = NULL /\ lock' = [lock EXCEPT ![c] = t]
          /\ rq' = Half(rq, "del1", e, c) /\ queued' = queued
          /\ th' = [th EXCEPT ![t] = [th[t] EXCEPT !.v = e, !.k = @ + 1]]
      BY <1>1, <1>5 DEF scheduler_remove_vcpu, Section, LastOf
    <2>2. SchedInv(own)'
      BY <1>0, <1>1, <1>2, <1>4, <1>5, <2>1, DelStart
    <2> QED BY <2>2 DEF StepOwn
  <1>6. CASE th[t].k = 1
    <2>1. /\ lock' = [lock EXCEPT ![c] = NULL] /\ rq' = Half(rq, "del2", e, c)
          /\ th' = [th EXCEPT ![t] = Idle] /\ queued' = queued \ {e}
      BY <1>1, <1>6 DEF scheduler_remove_vcpu, Section, LastOf
    <2> QED
      BY <1>0, <1>1, <1>4, <1>6, <2>1, IdleType, DelEnd
  <1> QED
    BY <1>3, <1>5, <1>6

LEMMA MoveStep ==
    ASSUME NEW own \in Owners, SchedInv(own), NEW t \in Thread,
           scheduler_yield(t) \/ scheduler_wake(t)
    PROVE  SchedInv(own)'
  <1>1. OtherTypes' /\ queued' = queued
    BY CallFacts, OtherTypesStable DEF scheduler_yield, scheduler_wake, vcpuVars
  <1>2. CASE scheduler_yield(t)
    BY <1>1, <1>2, MoveSection DEF scheduler_yield
  <1>3. CASE scheduler_wake(t)
    BY <1>1, <1>3, MoveSection DEF scheduler_wake
  <1> QED
    BY <1>2, <1>3

\* Counting a queue whose lock is free gives a number.
LEMMA LengthType ==
    ASSUME NEW own \in Owners, SchedInv(own), NEW c \in Cpu, lock[c] = NULL
    PROVE  ListLength(rq, c) \in Nat
  <1>1. rq \in RqHeap /\ Ring(rq, c, Nodes(c, own))
    BY TypeParts DEF SchedInv, QueueOK
  <1>2. Nodes(c, own) \in SUBSET Node
    BY Nodes_Facts DEF Nodes
  <1>3. ListSeq(rq, c) \in Seq(Nodes(c, own))
    BY <1>1, <1>2, Nodes_Facts, RingWalk DEF RqHeap
  <1> QED
    BY <1>3 DEF ListLength

LEMMA CountStep ==
    ASSUME NEW own \in Owners, SchedInv(own), NEW t \in Thread, load_balance_count(t)
    PROVE  SchedInv(own)'
  <1>1. /\ th[t].op = "count" /\ th[t].i < g_cpu_count /\ lock[th[t].i] = NULL
        /\ UNCHANGED <<rq, lock, vcpuVars>>
    BY DEF load_balance_count
  <1>2. th[t].v = NULL /\ th[t].k = 0
    <2>1. CallOK(th[t], own)
      BY CallFacts
    <2> QED BY <1>1, <2>1 DEF CallOK, Picking
  <1>3. PICK me \in ThreadState : me = th[t]
    BY CallFacts
  <1>4. /\ g_cpu_count \in 1..MaxCpu /\ MaxCpu \in Nat /\ me.i \in Nat
        /\ me.cpu \in 0..(MaxCpu - 1) /\ me.i < g_cpu_count
    BY <1>1, <1>3, CallFacts, SchedulerAssumption DEF OtherTypes, ThreadState, Cpu
  <1>5. me.i \in Cpu /\ CountFrom(me.i + 1, me.cpu) \in Nat
    BY <1>4 DEF CountFrom, Cpu
  <1>6. PICK load \in Nat : load = ListLength(rq, me.i)
    BY <1>1, <1>3, <1>5, LengthType
  <1> DEFINE after == [me EXCEPT !.i = CountFrom(me.i + 1, me.cpu)]
             best  == [after EXCEPT !.min_load = load, !.tgt_cpu = me.i]
             m     == IF load < me.min_load THEN best ELSE after
  <1>7. th' = [th EXCEPT ![t] = m]
    BY <1>3, <1>6 DEF load_balance_count
  <1>8. PICK j \in Nat : j = CountFrom(me.i + 1, me.cpu)
    BY <1>5
  <1>9. after \in ThreadState /\ after.op = "count" /\ after.v = NULL /\ after.k = 0
    BY <1>1, <1>2, <1>3, <1>8 DEF ThreadState
  <1>10. load < me.min_load => best \in ThreadState /\ best.op = "count" /\ best.v = NULL
                               /\ best.k = 0
    <2>1. SUFFICES ASSUME load < me.min_load PROVE best \in ThreadState /\ best.op = "count"
                          /\ best.v = NULL /\ best.k = 0
      OBVIOUS
    <2>2. load \in 0..(U32 - 1)
      BY <2>1, SchedulerAssumption DEF ThreadState
    <2> HIDE DEF after
    <2> QED BY <1>5, <1>9, <2>2 DEF ThreadState
  <1>11. m \in ThreadState /\ m.op = "count" /\ m.v = NULL /\ m.k = 0
    BY <1>9, <1>10
  <1> HIDE DEF m
  <1>12. CallOK(m, own)
    BY <1>11 DEF CallOK, Picking
  <1>13. OtherTypes' /\ UNCHANGED <<rq, lock, queued>>
    BY <1>1, CallFacts, OtherTypesStable DEF vcpuVars
  <1> QED
    BY <1>1, <1>2, <1>7, <1>11, <1>12, <1>13, QuietKeeps

LEMMA SourceStep ==
    ASSUME NEW own \in Owners, SchedInv(own), NEW t \in Thread, load_balance_source(t)
    PROVE  SchedInv(own)'
  <1>1. th[t].op = "count" /\ UNCHANGED <<rq, lock, vcpuVars>>
    BY DEF load_balance_source
  <1>2. th[t].v = NULL /\ th[t].k = 0
    <2>1. CallOK(th[t], own)
      BY CallFacts
    <2> QED BY <1>1, <2>1 DEF CallOK, Picking
  <1>3. PICK m : /\ th' = [th EXCEPT ![t] = m]
                 /\ m = Idle \/ m = [th[t] EXCEPT !.op = "take"]
    BY DEF load_balance_source
  <1>4. m \in ThreadState /\ m.v = NULL /\ m.k = 0 /\ m.op \in {"idle", "take"}
    <2>1. th[t] \in ThreadState
      BY CallFacts
    <2>2. CASE m = Idle
      BY <2>2, IdleType
    <2>3. CASE m = [th[t] EXCEPT !.op = "take"]
      BY <1>2, <2>1, <2>3 DEF ThreadState
    <2> QED BY <1>3, <2>2, <2>3
  <1>5. CallOK(m, own)
    BY <1>4 DEF CallOK, Picking
  <1>6. OtherTypes' /\ UNCHANGED <<rq, lock, queued>>
    BY <1>1, CallFacts, OtherTypesStable DEF vcpuVars
  <1> QED
    BY <1>1, <1>2, <1>3, <1>4, <1>5, <1>6, QuietKeeps

\* With no owner about, the head of a queue whose lock is free is nobody
\* else's: taking it is safe although it was chosen before the lock was taken.
LEMMA TakeStep ==
    ASSUME NEW own \in Owners, SchedInv(own), NEW t \in Thread, load_balance_take(t),
           \A u \in Thread : th[u].op \notin {"remove", "yield", "wake"}
    PROVE  \E own2 \in Owners : SchedInv(own2)' /\ StepOwn(t, own, own2)
  <1>0. th[t].op = "take" /\ UNCHANGED vcpuVars
    BY DEF load_balance_take
  <1>1. PICK c \in Cpu : c = th[t].cpu
    BY CallFacts
  <1>2. CallOK(th[t], own) /\ rq \in RqHeap /\ OtherTypes
        /\ th[t] \in ThreadState /\ th[t].v \in VCpu \cup {NULL}
    BY CallFacts
  <1>3. OtherTypes' /\ queued' = queued
    BY <1>0, <1>2, OtherTypesStable DEF vcpuVars
  <1>4. CASE th[t].k = 0 /\ list_empty(rq, c)
    <2>1. UNCHANGED <<rq, lock>> /\ th' = [th EXCEPT ![t] = Idle]
      BY <1>1, <1>4 DEF load_balance_take
    <2>2. CallOK(Idle, own)
      BY IdleType DEF CallOK, Picking
    <2>3. SchedInv(own)'
      BY <1>0, <1>3, <1>4, <2>1, <2>2, IdleType, QuietKeeps
    <2> QED BY <2>3 DEF StepOwn
  <1>5. CASE th[t].k = 0 /\ ~list_empty(rq, c)
    <2> DEFINE S == Nodes(c, own)
    <2>1. PICK e : e = rq.next[c]
      OBVIOUS
    <2>2. /\ lock[c] = NULL /\ lock' = [lock EXCEPT ![c] = t]
          /\ rq' = Half(rq, "del1", e, c)
          /\ th' = [th EXCEPT ![t] = [th[t] EXCEPT !.v = e, !.k = @ + 1]]
      BY <1>1, <1>5, <2>1 DEF load_balance_take, Section
    <2>3. Ring(rq, c, S)
      BY <1>1, <2>2, CallFacts
    <2>4. e \in VCpu /\ own[e] = c
      BY <1>5, <2>1, <2>3 DEF list_empty, Ring, Consistent, Nodes
    <2>5. ASSUME NEW u \in Thread \ {t} PROVE th[u].v # e
      <3>1. SUFFICES ASSUME th[u].v = e PROVE FALSE
        OBVIOUS
      <3>2. CallOK(th[u], own) /\ (th[u].k > 0 => lock[th[u].cpu] = u)
        BY CallFacts
      <3>3. th[u].op = "take" /\ th[u].k = 1 /\ th[u].cpu = c
        BY <2>4, <3>1, <3>2, Nodes_Facts DEF CallOK, Picking
      <3> QED BY <2>2, <3>2, <3>3, Nodes_Facts
    <2>6. SchedInv(own)'
      BY <1>0, <1>1, <1>3, <1>5, <2>2, <2>4, <2>5, DelStart
    <2> QED BY <2>6 DEF StepOwn
  <1>6. CASE th[t].k # 0
    <2>1. PICK e \in VCpu : e = th[t].v
      BY <1>0, <1>2, <1>6 DEF CallOK, Picking
    <2>2. th[t].k = 1
      BY <1>0, <1>2, <2>1, Nodes_Facts DEF CallOK, Picking
    <2> DEFINE m == [th[t] EXCEPT !.op = "put", !.v = e, !.k = 0, !.cpu = th[t].tgt_cpu]
    <2>3. /\ lock' = [lock EXCEPT ![c] = NULL] /\ rq' = Half(rq, "del2", e, c)
          /\ th' = [th EXCEPT ![t] = m]
      BY <1>1, <2>1, <2>2 DEF load_balance_take, Section
    <2>4. m \in ThreadState /\ m.op = "put" /\ m.v = e /\ m.k = 0
      <3>1. 0 \in 0..3
        OBVIOUS
      <3> QED BY <1>2, <3>1 DEF ThreadState
    <2>5. PICK m2 \in ThreadState : m2 = m
      BY <2>4
    <2>6. m2.op = "put" /\ m2.v = e /\ m2.k = 0 /\ th' = [th EXCEPT ![t] = m2]
      BY <2>3, <2>4, <2>5
    <2> HIDE DEF m
    <2> QED
      BY <1>0, <1>1, <1>3, <2>1, <2>2, <2>3, <2>6, DelEnd
  <1> QED
    BY <1>4, <1>5, <1>6

LEMMA PutStep ==
    ASSUME NEW own \in Owners, SchedInv(own), NEW t \in Thread, load_balance_put(t)
    PROVE  \E own2 \in Owners : SchedInv(own2)' /\ StepOwn(t, own, own2)
  <1>1. /\ th[t].op = "put" /\ UNCHANGED vcpuVars
        /\ Section(t, <<"tail1", "tail2">>, th[t].v, Idle)
    BY DEF load_balance_put
  <1>2. OtherTypes'
    BY <1>1, CallFacts, OtherTypesStable
  <1>3. th[t].v \in VCpu
    BY <1>1, CallFacts DEF CallOK, Picking
  <1>4. th[t].v \in queued
    BY <1>1, <1>3 DEF SchedInv, QueuedOK, InHand
  <1>5. queued' = IF LastOf(t, <<"tail1", "tail2">>) THEN queued \cup {th[t].v} ELSE queued
    BY <1>1, <1>4 DEF vcpuVars
  <1> QED
    BY <1>1, <1>2, <1>5, TailSection

\* What is picked is an entry of the list, if there is one.
LEMMA FirstLeastPicks ==
    ASSUME NEW s \in Seq(VCpu)
    PROVE  FirstLeast(s, vruntime) \in VCpu \cup {NULL}
  <1> DEFINE best == {k \in 1..Len(s) : \A j \in 1..Len(s) : vruntime[s[k]] <= vruntime[s[j]]}
  <1>1. best = 1..Len(s)
    BY DEF vruntime
  <1>2. ASSUME s # << >> PROVE FirstLeast(s, vruntime) \in VCpu
    <2>1. 1 \in best /\ \A j \in best : 1 <= j
      BY <1>1, <1>2
    <2>2. PICK k \in best : k = CHOOSE x \in best : \A j \in best : x <= j
      BY <2>1
    <2>3. FirstLeast(s, vruntime) = s[k]
      BY <1>2, <2>2 DEF FirstLeast
    <2> QED BY <1>1, <2>2, <2>3
  <1>3. s = << >> => FirstLeast(s, vruntime) = NULL
    BY DEF FirstLeast
  <1> QED
    BY <1>2, <1>3

\* A step of a thread on no vCPU that takes, keeps or leaves the lock of
\* queue 0 and changes no queue.
ReadShape(t, own, m, x) ==
    /\ th[t].op \in {"idle"} \cup Picking /\ lock[0] \in {NULL, t} /\ x \in {NULL, t}
    /\ lock' = [lock EXCEPT ![0] = x] /\ th' = [th EXCEPT ![t] = m]
    /\ m.v = NULL
    /\ IF x = NULL THEN m.k = 0 /\ m.op = "idle"
                   ELSE m.k = 1 /\ m.cpu = 0 /\ m.op \in Picking
    /\ UNCHANGED <<rq, queued>>
    /\ OtherTypes'

LEMMA ReadKeeps ==
    ASSUME NEW own \in Owners, SchedInv(own), NEW t \in Thread,
           NEW m \in ThreadState, NEW x, ReadShape(t, own, m, x)
    PROVE  SchedInv(own)'
  <1> USE DEF ReadShape
  <1>1. /\ lock \in [Cpu -> Thread \cup {NULL}] /\ th \in [Thread -> ThreadState]
        /\ rq \in RqHeap /\ LocksOK /\ ThreadsOK(own) /\ Alone /\ QueuedOK(own)
        /\ 0 \in Cpu
    BY TypeParts, SchedulerAssumption DEF SchedInv, Cpu
  <1>2. /\ th[t].v = NULL /\ th[t].op # "put" /\ m.op # "put"
        /\ th[t].op = "idle" => th[t].k = 0
        /\ th[t].op \in Picking => th[t].k = 1 /\ th[t].cpu = 0
    <2>1. CallOK(th[t], own)
      BY <1>1 DEF ThreadsOK
    <2> QED BY <2>1 DEF CallOK, Picking
  <1>3. /\ th'[t] = m /\ lock'[0] = x
        /\ \A u \in Thread \ {t} : th'[u] = th[u]
        /\ \A d \in Cpu \ {0} : lock'[d] = lock[d] /\ lock[d] # t
    <2>1. \A d \in Cpu \ {0} : lock[d] # t
      BY <1>1, <1>2, Nodes_Facts DEF LocksOK
    <2> QED BY <1>1, <2>1
  <1>4. TypeOK'
    <2>1. lock' \in [Cpu -> Thread \cup {NULL}] /\ th' \in [Thread -> ThreadState]
      BY <1>1
    <2>2. rq' \in RqHeap
      BY <1>1
    <2> QED BY <2>1, <2>2 DEF TypeOK, OtherTypes, RqHeap, Heap
  <1>5. Ring(rq, 0, Nodes(0, own))
    <2>1. QueueOK(0, own)
      BY <1>1 DEF SchedInv
    <2>2. CASE lock[0] = NULL
      BY <2>1, <2>2 DEF QueueOK
    <2>3. CASE lock[0] = t
      <3>1. th[t].k > 0 /\ HalfDone(rq, th[t], 0, Nodes(0, own))
        BY <1>1, <2>1, <2>3, Nodes_Facts DEF QueueOK, LocksOK
      <3>2. th[t].op \in Picking
        BY <1>2, <3>1
      <3> QED BY <3>1, <3>2 DEF HalfDone, Picking
    <2> QED BY <2>2, <2>3
  <1>6. ASSUME NEW d \in Cpu PROVE QueueOK(d, own)'
    <2>1. CASE d = 0
      <3>1. x # NULL => HalfDone(rq, m, 0, Nodes(0, own))
        BY <1>5 DEF HalfDone, Picking
      <3> QED BY <1>3, <1>5, <2>1, <3>1, Nodes_Facts DEF QueueOK
    <2>2. CASE d # 0
      <3>1. QueueOK(d, own) /\ lock[d] \in (Thread \ {t}) \cup {NULL}
        BY <1>1, <1>3, <2>2, Nodes_Facts DEF SchedInv
      <3> QED BY <1>3, <2>2, <3>1 DEF QueueOK
    <2> QED BY <2>1, <2>2
  <1>7. ThreadsOK(own)'
    <2>1. CallOK(m, own)
      BY DEF CallOK, Picking
    <2> QED BY <1>1, <1>3, <2>1 DEF ThreadsOK
  <1>8. LocksOK'
    <2>1. ASSUME NEW u \in Thread \ {t}, th[u].k > 0 PROVE lock'[th[u].cpu] = u
      <3>1. lock[th[u].cpu] = u /\ th[u].cpu \in Cpu
        BY <1>1, <2>1 DEF LocksOK, ThreadState
      <3>2. th[u].cpu # 0
        BY <3>1, Nodes_Facts
      <3> QED BY <1>3, <3>1, <3>2
    <2>2. m.k > 0 => m.cpu = 0 /\ x = t
      OBVIOUS
    <2>3. ASSUME NEW d \in Cpu \ {0}, lock[d] # NULL
          PROVE  th'[lock[d]].cpu = d /\ th'[lock[d]].k > 0
      <3>1. lock[d] \in Thread \ {t}
        BY <1>1, <1>3, <2>3
      <3> QED BY <1>1, <1>3, <2>3, <3>1 DEF LocksOK
    <2>4. x # NULL => th'[x].cpu = 0 /\ th'[x].k > 0
      BY <1>3
    <2> QED BY <1>3, <2>1, <2>2, <2>3, <2>4 DEF LocksOK
  <1>9. Alone'
    BY <1>1, <1>3 DEF Alone
  <1>10. QueuedOK(own)'
    <2>1. InHand' = InHand
      BY <1>1, <1>2, <1>3 DEF InHand
    <2> QED BY <1>1, <2>1 DEF QueuedOK
  <1> QED
    BY <1>4, <1>6, <1>7, <1>8, <1>9, <1>10 DEF SchedInv

\* The two picks: what they return is a vCPU or none.
LEMMA PickStep ==
    ASSUME NEW own \in Owners, SchedInv(own), NEW t \in Thread,
           scheduler_fifo_pick_next(t) \/ scheduler_cfs_pick_next(t)
    PROVE  /\ SchedInv(own)'
           /\ physical_cpu' = physical_cpu
           /\ \A u \in Thread \ {t} : th'[u] = th[u]
           /\ th[t].op \in Picking
           /\ th'[t].v = NULL
           /\ th'[t].op = "idle" \/ th'[t].op \in Picking
  <1> DEFINE s == ListSeq(rq, 0)
  <1>1. th[t].op \in Picking /\ th[t] \in ThreadState /\ th \in [Thread -> ThreadState]
    BY TypeParts DEF SchedInv, scheduler_fifo_pick_next, scheduler_cfs_pick_next, Picking
  <1>2. th[t].v = NULL /\ th[t].k = 1 /\ th[t].cpu = 0
    <2>1. CallOK(th[t], own)
      BY CallFacts
    <2> QED BY <1>1, <2>1 DEF CallOK, Picking
  <1>3. /\ lock[0] = t /\ Ring(rq, 0, Nodes(0, own)) /\ rq \in RqHeap /\ OtherTypes
        /\ lock \in [Cpu -> Thread \cup {NULL}] /\ 0 \in Cpu
    <2>1. lock[0] = t /\ HalfDone(rq, th[t], 0, Nodes(0, own)) /\ rq \in RqHeap /\ OtherTypes
      BY <1>2, CallFacts
    <2> QED BY <1>1, <2>1, TypeParts, SchedulerAssumption DEF HalfDone, Picking, SchedInv, Cpu
  <1>4. s \in Seq(VCpu)
    <2> DEFINE S == Nodes(0, own)
    <2>1. S \in SUBSET Node /\ S \ {0} \in SUBSET VCpu
      BY <1>3, Nodes_Facts DEF Nodes
    <2>2. s \in Seq(S) /\ {s[k] : k \in DOMAIN s} = S \ {0}
      <3> HIDE DEF S
      <3> QED BY <1>3, <2>1, Nodes_Facts, RingWalk DEF RqHeap
    <2> HIDE DEF S
    <2>3. \A k \in 1..Len(s) : s[k] \in VCpu
      BY <2>1, <2>2
    <2> QED BY <2>2, <2>3
  <1>5. ASSUME NEW v \in VCpu \cup {NULL}, PickReturns(t, v)
        PROVE  SchedInv(own)' /\ th' = [th EXCEPT ![t] = Idle] /\ physical_cpu' = physical_cpu
    <2>1. OtherTypes'
      BY <1>3, <1>5 DEF PickReturns, OtherTypes, Online
    <2>2. ReadShape(t, own, Idle, NULL)
      BY <1>1, <1>3, <1>5, <2>1, IdleType DEF PickReturns, ReadShape
    <2>3. SchedInv(own)'
      BY <2>2, IdleType, ReadKeeps
    <2> QED BY <1>5, <2>3 DEF PickReturns
  <1>6. ASSUME NEW m \in ThreadState, th' = [th EXCEPT ![t] = m],
               m.op \in Picking, m.v = NULL, m.k = 1, m.cpu = 0,
               UNCHANGED <<rq, lock, vcpuVars>>
        PROVE  SchedInv(own)' /\ physical_cpu' = physical_cpu
    <2>1. OtherTypes'
      BY <1>3, <1>6, OtherTypesStable
    <2>2. lock' = [lock EXCEPT ![0] = t]
      BY <1>3, <1>6
    <2>3. ReadShape(t, own, m, t)
      BY <1>1, <1>3, <1>6, <2>1, <2>2, Nodes_Facts DEF ReadShape, vcpuVars
    <2> QED BY <1>6, <2>3, ReadKeeps DEF vcpuVars
  <1>7. CASE scheduler_cfs_pick_next(t)
    <2>1. PickReturns(t, FirstLeast(s, vruntime))
      BY <1>7 DEF scheduler_cfs_pick_next
    <2>2. FirstLeast(s, vruntime) \in VCpu \cup {NULL}
      BY <1>4, FirstLeastPicks
    <2> HIDE DEF s
    <2>3. SchedInv(own)' /\ th' = [th EXCEPT ![t] = Idle] /\ physical_cpu' = physical_cpu
      BY <1>5, <2>1, <2>2
    <2> QED BY <1>1, <2>3, IdleType
  <1>8. CASE scheduler_fifo_pick_next(t)
    <2>0. th[t].i \in Nat /\ Len(s) \in Nat
      BY <1>1, <1>4 DEF ThreadState
    <2>1. CASE th[t].i < Len(s) /\ PickReturns(t, s[th[t].i + 1])
      <3>1. s[th[t].i + 1] \in VCpu \cup {NULL}
        BY <1>4, <2>0, <2>1
      <3> HIDE DEF s
      <3>2. SchedInv(own)' /\ th' = [th EXCEPT ![t] = Idle] /\ physical_cpu' = physical_cpu
        BY <1>5, <2>1, <3>1
      <3> QED BY <1>1, <3>2, IdleType
    <2>2. CASE /\ th' = [th EXCEPT ![t] = [th[t] EXCEPT !.i = @ + 1]]
               /\ UNCHANGED <<rq, lock, vcpuVars>>
      <3> DEFINE n == [th[t] EXCEPT !.i = @ + 1]
      <3>1. n \in ThreadState /\ n.op = th[t].op /\ n.v = NULL /\ n.k = 1 /\ n.cpu = 0
        BY <1>1, <1>2, <2>0 DEF ThreadState
      <3>2. PICK m \in ThreadState : m = n
        BY <3>1
      <3>3. m.op \in Picking /\ m.v = NULL /\ m.k = 1 /\ m.cpu = 0
        BY <1>1, <3>1, <3>2
      <3>4. th' = [th EXCEPT ![t] = m]
        BY <2>2, <3>2
      <3> HIDE DEF n
      <3> QED BY <1>1, <1>6, <2>2, <3>3, <3>4
    <2>3. CASE /\ th' = [th EXCEPT ![t] = [th[t] EXCEPT !.op = "cfs"]]
               /\ UNCHANGED <<rq, lock, vcpuVars>>
      <3> DEFINE n == [th[t] EXCEPT !.op = "cfs"]
      <3>1. n \in ThreadState /\ n.op = "cfs" /\ n.v = NULL /\ n.k = 1 /\ n.cpu = 0
        BY <1>1, <1>2 DEF ThreadState
      <3>2. PICK m \in ThreadState : m = n
        BY <3>1
      <3>3. m.op \in Picking /\ m.v = NULL /\ m.k = 1 /\ m.cpu = 0
        BY <3>1, <3>2 DEF Picking
      <3>4. th' = [th EXCEPT ![t] = m]
        BY <2>3, <3>2
      <3> HIDE DEF n
      <3> QED BY <1>1, <1>6, <2>3, <3>3, <3>4
    <2> QED
      BY <1>8, <2>1, <2>2, <2>3 DEF scheduler_fifo_pick_next
  <1> QED
    BY <1>1, <1>7, <1>8

LEMMA StepKeeps ==
    ASSUME NEW own \in Owners, SchedInv(own), NEW t \in Thread, Step(t),
           th[t].op = "take" => \A u \in Thread : th[u].op \notin {"remove", "yield", "wake"}
    PROVE  \E own2 \in Owners : SchedInv(own2)' /\ StepOwn(t, own, own2)
  <1>1. StepOwn(t, own, own)
    BY DEF StepOwn
  <1>2. CASE scheduler_add_vcpu(t)
    BY <1>2, AddStep
  <1>3. CASE scheduler_add_vcpu_fails(t)
    BY <1>1, <1>3, AddFailsStep
  <1>4. CASE scheduler_remove_vcpu(t)
    BY <1>4, RemoveStep
  <1>5. CASE scheduler_yield(t) \/ scheduler_wake(t)
    BY <1>1, <1>5, MoveStep
  <1>6. CASE load_balance_count(t)
    BY <1>1, <1>6, CountStep
  <1>7. CASE load_balance_source(t)
    BY <1>1, <1>7, SourceStep
  <1>8. CASE load_balance_take(t)
    <2>1. th[t].op = "take"
      BY <1>8 DEF load_balance_take
    <2> QED BY <1>8, <2>1, TakeStep
  <1>9. CASE load_balance_put(t)
    BY <1>9, PutStep
  <1>10. CASE scheduler_fifo_pick_next(t) \/ scheduler_cfs_pick_next(t)
    BY <1>1, <1>10, PickStep
  <1> QED
    BY <1>2, <1>3, <1>4, <1>5, <1>6, <1>7, <1>8, <1>9, <1>10 DEF Step

\* The calls after a step: a thread stays on its vCPU and queue or returns,
\* unless it balances.
LEMMA StepCalls ==
    ASSUME NEW own \in Owners, SchedInv(own), NEW t \in Thread, Step(t)
    PROVE  /\ physical_cpu' = physical_cpu
           /\ \A u \in Thread \ {t} : th'[u] = th[u]
           /\ \/ th'[t].op = "idle" /\ th'[t].v = NULL
              \/ th'[t].op = th[t].op /\ th'[t].v = th[t].v /\ th'[t].cpu = th[t].cpu
              \/ th[t].op \in Picking /\ th'[t].op \in Picking /\ th'[t].v = NULL
              \/ /\ th[t].op \in {"count", "take", "put"}
                 /\ th'[t].op \in {"count", "take", "put"}
  <1>1. th \in [Thread -> ThreadState] /\ th[t] \in ThreadState
    BY TypeParts DEF SchedInv
  <1>2. ASSUME NEW macros, NEW e, NEW after, Section(t, macros, e, after)
        PROVE  /\ \A u \in Thread \ {t} : th'[u] = th[u]
               /\ \/ th'[t] = after
                  \/ th'[t].op = th[t].op /\ th'[t].v = e /\ th'[t].cpu = th[t].cpu
    BY <1>1, <1>2 DEF Section, ThreadState
  <1>3. CASE scheduler_add_vcpu(t) \/ scheduler_remove_vcpu(t)
    BY <1>2, <1>3, IdleType DEF scheduler_add_vcpu, scheduler_remove_vcpu
  <1>4. CASE scheduler_yield(t) \/ scheduler_wake(t) \/ load_balance_put(t)
    BY <1>2, <1>4, IdleType DEF scheduler_yield, scheduler_wake, load_balance_put, vcpuVars
  <1>5. CASE scheduler_add_vcpu_fails(t)
    BY <1>1, <1>5, IdleType DEF scheduler_add_vcpu_fails, vcpuVars
  <1>6. CASE load_balance_count(t)
    <2>1. th[t].op = "count" /\ physical_cpu' = physical_cpu
      BY <1>6 DEF load_balance_count, vcpuVars
    <2>2. PICK m : th' = [th EXCEPT ![t] = m] /\ m.op = "count"
      <3> DEFINE after == [th[t] EXCEPT !.i = CountFrom(th[t].i + 1, th[t].cpu)]
                 load  == ListLength(rq, th[t].i)
                 best  == [after EXCEPT !.min_load = load, !.tgt_cpu = th[t].i]
      <3>1. th' = [th EXCEPT ![t] = IF load < th[t].min_load THEN best ELSE after]
        BY <1>6 DEF load_balance_count
      <3>2. after.op = "count" /\ best.op = "count"
        BY <1>1, <2>1 DEF ThreadState
      <3> HIDE DEF after, best, load
      <3>3. (IF load < th[t].min_load THEN best ELSE after).op = "count"
        BY <3>2
      <3> QED BY <3>1, <3>3
    <2> QED BY <1>1, <2>1, <2>2
  <1>7. CASE load_balance_source(t)
    <2>1. th[t].op = "count" /\ physical_cpu' = physical_cpu
      BY <1>7 DEF load_balance_source, vcpuVars
    <2>2. PICK m : th' = [th EXCEPT ![t] = m] /\ (m = Idle \/ m.op = "take")
      <3>1. PICK m : /\ th' = [th EXCEPT ![t] = m]
                     /\ m = Idle \/ m = [th[t] EXCEPT !.op = "take"]
        BY <1>7 DEF load_balance_source
      <3>2. m = Idle \/ m.op = "take"
        BY <1>1, <3>1 DEF ThreadState
      <3> QED BY <3>1, <3>2
    <2> QED BY <1>1, <2>1, <2>2, IdleType
  <1>8. CASE load_balance_take(t)
    <2>1. th[t].op = "take" /\ physical_cpu' = physical_cpu
      BY <1>8 DEF load_balance_take, vcpuVars
    <2>2. PICK m : th' = [th EXCEPT ![t] = m] /\ (m = Idle \/ m.op \in {"take", "put"})
      <3> DEFINE se == IF th[t].k = 0 THEN rq.next[th[t].cpu] ELSE th[t].v
                 n  == [th[t] EXCEPT !.op = "put", !.v = se, !.k = 0, !.cpu = th[t].tgt_cpu]
      <3>1. n.op = "put"
        BY <1>1 DEF ThreadState
      <3>2. CASE th[t].k = 0 /\ list_empty(rq, th[t].cpu)
        <4>1. th' = [th EXCEPT ![t] = Idle]
          BY <1>8, <3>2 DEF load_balance_take
        <4> QED BY <4>1
      <3>3. CASE ~(th[t].k = 0 /\ list_empty(rq, th[t].cpu))
        <4>1. Section(t, <<"del1", "del2">>, se, n)
          BY <1>8, <3>3 DEF load_balance_take
        <4>2. th'[t] = n \/ th'[t].op = th[t].op
          BY <1>2, <4>1
        <4>3. \E m : th' = [th EXCEPT ![t] = m]
          BY <4>1 DEF Section
        <4>4. PICK m : th' = [th EXCEPT ![t] = m]
          BY <4>3
        <4>5. m = th'[t]
          BY <1>1, <4>4
        <4> HIDE DEF n
        <4> QED BY <2>1, <3>1, <4>2, <4>4, <4>5
      <3> QED BY <3>2, <3>3
    <2> QED BY <1>1, <2>1, <2>2, IdleType
  <1>9. CASE scheduler_fifo_pick_next(t) \/ scheduler_cfs_pick_next(t)
    BY <1>9, PickStep
  <1> QED
    BY <1>3, <1>4, <1>5, <1>6, <1>7, <1>8, <1>9 DEF Step

-----------------------------------------------------------------------------
(* Entering a call, and the operations that touch no queue.                *)

LEMMA EnterKeeps ==
    ASSUME NEW own \in Owners, SchedInv(own), NEW t \in Thread, NEW v \in VCpu,
           NEW op \in {"add", "remove", "yield", "wake"}, Enter(t, op, v), ~Busy(v),
           own[v] = IF op = "add" THEN NULL ELSE physical_cpu[v]
    PROVE  /\ SchedInv(own)'
           /\ UNCHANGED vcpuVars
           /\ \A u \in Thread \ {t} : th'[u] = th[u]
           /\ th'[t].op = op /\ th'[t].v = v /\ th'[t].cpu = physical_cpu[v]
  <1>1. th \in [Thread -> ThreadState] /\ OtherTypes /\ ThreadsOK(own)
    BY TypeParts DEF SchedInv
  <1>2. th[t].op = "idle" /\ UNCHANGED <<rq, lock, vcpuVars>>
    BY DEF Enter
  <1>3. physical_cpu[v] \in Cpu
    <2>1. Online \in SUBSET Cpu
      BY <1>1, SchedulerAssumption DEF Online, OtherTypes, Cpu
    <2> QED BY <1>1, <2>1 DEF OtherTypes
  <1> DEFINE n == [Idle EXCEPT !.op = op, !.v = v, !.cpu = physical_cpu[v]]
  <1>4. /\ n \in ThreadState /\ n.op = op /\ n.v = v /\ n.cpu = physical_cpu[v] /\ n.k = 0
    BY <1>3, IdleType DEF ThreadState
  <1>5. PICK m \in ThreadState : m = n
    BY <1>4
  <1>6. m.op = op /\ m.v = v /\ m.cpu = physical_cpu[v] /\ m.k = 0
    BY <1>4, <1>5
  <1>7. th' = [th EXCEPT ![t] = m]
    BY <1>5 DEF Enter
  <1> HIDE DEF n
  <1>8. CallOK(m, own)
    BY <1>6, Nodes_Facts DEF CallOK, Picking
  <1>9. th[t].k = 0
    <2>1. CallOK(th[t], own)
      BY <1>1 DEF ThreadsOK
    <2> QED BY <1>2, <2>1 DEF CallOK, Picking
  <1>10. \A u \in Thread \ {t} : th[u].v # m.v
    <2>1. ASSUME NEW u \in Thread, th[u].v = v PROVE FALSE
      <3>1. th[u].op = "idle"
        BY <2>1 DEF Busy
      <3>2. CallOK(th[u], own)
        BY <1>1 DEF ThreadsOK
      <3> QED BY <2>1, <3>1, <3>2, Nodes_Facts DEF CallOK, Picking
    <2> QED BY <1>6, <2>1
  <1>11. OtherTypes' /\ UNCHANGED <<rq, lock, queued>>
    BY <1>1, <1>2, OtherTypesStable DEF vcpuVars
  <1>12. SchedInv(own)'
    BY <1>2, <1>6, <1>7, <1>8, <1>9, <1>10, <1>11, QuietKeeps
  <1> QED
    BY <1>1, <1>2, <1>6, <1>7, <1>12

LEMMA BalanceCallKeeps ==
    ASSUME NEW own \in Owners, SchedInv(own), NEW t \in Thread, NEW c \in Online,
           scheduler_load_balance(t, c)
    PROVE  /\ SchedInv(own)'
           /\ \A u \in Thread \ {t} : th'[u] = th[u]
           /\ th'[t].op = "count"
  <1>1. th \in [Thread -> ThreadState] /\ OtherTypes /\ ThreadsOK(own)
    BY TypeParts DEF SchedInv
  <1>2. th[t].op = "idle" /\ UNCHANGED <<rq, lock, vcpuVars>>
    BY DEF scheduler_load_balance
  <1>3. c \in Cpu /\ CountFrom(0, c) \in Nat
    BY <1>1, SchedulerAssumption DEF Online, OtherTypes, Cpu, CountFrom
  <1>4. U32 - 1 \in 0..(U32 - 1)
    <2>1. Cardinality(VCpu) \in Nat
      BY SchedulerAssumption, FS_CardinalityType
    <2> QED BY <2>1, SchedulerAssumption
  <1>5. PICK i \in Nat : i = CountFrom(0, c)
    BY <1>3
  <1> DEFINE n == [Idle EXCEPT !.op = "count", !.cpu = c, !.i = i, !.min_load = U32 - 1]
  <1>6. n \in ThreadState /\ n.op = "count" /\ n.v = NULL /\ n.k = 0
    BY <1>3, <1>4, IdleType DEF ThreadState
  <1>7. PICK m \in ThreadState : m = n
    BY <1>6
  <1>8. m.op = "count" /\ m.v = NULL /\ m.k = 0
    BY <1>6, <1>7
  <1>9. th' = [th EXCEPT ![t] = m]
    BY <1>5, <1>7 DEF scheduler_load_balance
  <1> HIDE DEF n
  <1>10. CallOK(m, own)
    BY <1>8 DEF CallOK, Picking
  <1>11. th[t].k = 0
    <2>1. CallOK(th[t], own)
      BY <1>1 DEF ThreadsOK
    <2> QED BY <1>2, <2>1 DEF CallOK, Picking
  <1>12. OtherTypes' /\ UNCHANGED <<rq, lock, queued>>
    BY <1>1, <1>2, OtherTypesStable DEF vcpuVars
  <1>13. SchedInv(own)'
    BY <1>2, <1>8, <1>9, <1>10, <1>11, <1>12, QuietKeeps
  <1> QED
    BY <1>1, <1>8, <1>9, <1>13

LEMMA ScheduleKeeps ==
    ASSUME NEW own \in Owners, SchedInv(own), NEW t \in Thread, scheduler_schedule(t)
    PROVE  /\ SchedInv(own)'
           /\ UNCHANGED vcpuVars
           /\ \A u \in Thread \ {t} : th'[u] = th[u]
           /\ th'[t].op \in Picking /\ th'[t].v = NULL
  <1>1. th \in [Thread -> ThreadState] /\ OtherTypes
    BY TypeParts DEF SchedInv
  <1>2. PICK op \in Picking : th' = [th EXCEPT ![t] = [Idle EXCEPT !.k = 1, !.op = op]]
    BY DEF scheduler_schedule, Picking
  <1> DEFINE n == [Idle EXCEPT !.k = 1, !.op = op]
  <1>3. n \in ThreadState /\ n.op = op /\ n.v = NULL /\ n.k = 1 /\ n.cpu = 0
    <2>1. op \in {"fifo", "cfs"} /\ 1 \in 0..3
      BY DEF Picking
    <2> QED BY <2>1, IdleType DEF ThreadState, Idle
  <1>4. PICK m \in ThreadState : m = n
    BY <1>3
  <1>5. m.op \in Picking /\ m.v = NULL /\ m.k = 1 /\ m.cpu = 0
    BY <1>3, <1>4
  <1>6. th' = [th EXCEPT ![t] = m]
    BY <1>2, <1>4
  <1> HIDE DEF n
  <1>7. OtherTypes' /\ UNCHANGED vcpuVars
    BY <1>1, OtherTypesStable DEF scheduler_schedule
  <1>8. ReadShape(t, own, m, t)
    BY <1>5, <1>6, <1>7, Nodes_Facts DEF ReadShape, scheduler_schedule, vcpuVars
  <1>9. SchedInv(own)'
    BY <1>8, ReadKeeps
  <1> QED
    BY <1>1, <1>5, <1>6, <1>7, <1>9

LEMMA SchedStable ==
    ASSUME NEW own \in Owners, SchedInv(own), UNCHANGED <<rq, lock, th, queued>>, OtherTypes'
    PROVE  SchedInv(own)'
  <1>1. TypeOK'
    BY DEF SchedInv, TypeOK, OtherTypes
  <1> QED
    BY <1>1 DEF SchedInv, QueueOK, ThreadsOK, LocksOK, Alone, QueuedOK, InHand

\* The entries of a queue whose lock is free are its vCPUs.
LEMMA FreeQueue ==
    ASSUME NEW own \in Owners, SchedInv(own), NEW c \in Cpu, lock[c] = NULL
    PROVE  /\ LoopEnds(rq, c)
           /\ Entries(c) = {v \in VCpu : own[v] = c}
           /\ Consistent(rq, {c} \cup Entries(c))
           /\ ListSeq(rq, c) \in Seq(Nodes(c, own))
  <1>1. rq \in RqHeap /\ Ring(rq, c, Nodes(c, own))
    BY TypeParts DEF SchedInv, QueueOK
  <1>2. Nodes(c, own) \in SUBSET Node /\ c \notin VCpu
    BY Nodes_Facts DEF Nodes
  <1>3. /\ LoopEnds(rq, c) /\ ListSeq(rq, c) \in Seq(Nodes(c, own))
        /\ {ListSeq(rq, c)[k] : k \in DOMAIN ListSeq(rq, c)} = Nodes(c, own) \ {c}
    BY <1>1, <1>2, Nodes_Facts, RingWalk DEF RqHeap
  <1>4. Entries(c) = Nodes(c, own) \ {c}
    BY <1>3 DEF Entries
  <1>5. {c} \cup Entries(c) = Nodes(c, own) /\ Entries(c) = {v \in VCpu : own[v] = c}
    BY <1>2, <1>4 DEF Nodes
  <1> QED
    BY <1>1, <1>3, <1>5 DEF Ring

-----------------------------------------------------------------------------
(* The invariants.                                                         *)

LEMMA InitInv ==
    ASSUME Init
    PROVE  SomeOwner /\ SomeBalance
  <1>1. PICK own \in Owners : own = [v \in VCpu |-> NULL]
    BY DEF Owners
  <1>2. OtherTypes
    BY DEF Init, OtherTypes, Policy, Online
  <1>3. rq \in RqHeap
    BY Nodes_Facts, InitConsistent DEF Init, RqHeap
  <1>4. TypeOK
    BY <1>2, <1>3, IdleType, TypeParts DEF Init
  <1>5. ASSUME NEW c \in Cpu PROVE QueueOK(c, own)
    <2>1. Nodes(c, own) = {c}
      BY <1>1, Nodes_Facts DEF Nodes
    <2>2. Ring(rq, c, {c})
      BY Nodes_Facts, InitRing DEF Init
    <2> QED BY <2>1, <2>2 DEF Init, QueueOK
  <1>6. \A t \in Thread : th[t] = Idle
    BY DEF Init
  <1>7. ThreadsOK(own)
    BY <1>6, IdleType DEF ThreadsOK, CallOK, Picking
  <1>8. LocksOK /\ Alone
    BY <1>6, IdleType DEF Init, LocksOK, Alone
  <1>9. QueuedOK(own)
    BY <1>1, <1>6, IdleType DEF Init, QueuedOK, InHand
  <1>10. SchedInv(own)
    BY <1>4, <1>5, <1>7, <1>8, <1>9 DEF SchedInv
  <1>11. OwnerInv(own) /\ BalanceInv(own)
    BY <1>1, <1>6, <1>10, IdleType DEF OwnerInv, BalanceInv, Picking, OwnerOps
  <1> QED
    BY <1>11 DEF SomeOwner, SomeBalance

\* The owners' protocol keeps its invariant.
LEMMA OwnerNextInv ==
    ASSUME SomeOwner, [OwnerNext]_vars
    PROVE  SomeOwner'
  <1>1. PICK own \in Owners : OwnerInv(own)
    BY DEF SomeOwner
  <1>2. /\ SchedInv(own)
        /\ \A t \in Thread : th[t].op \in OwnerOps
        /\ \A t \in Thread : th[t].v # NULL => th[t].cpu = physical_cpu[th[t].v]
        /\ \A v \in VCpu : own[v] # NULL => own[v] = physical_cpu[v]
    BY <1>1 DEF OwnerInv, Picking, OwnerOps
  <1>3. OtherTypes
    BY <1>2, TypeParts DEF SchedInv
  <1>4. ASSUME NEW t \in Thread, Step(t) PROVE SomeOwner'
    <2>1. PICK own2 \in Owners : SchedInv(own2)' /\ StepOwn(t, own, own2)
      <3>1. th[t].op # "take"
        BY <1>2 DEF OwnerOps, Picking
      <3> QED BY <1>2, <1>4, <3>1, StepKeeps
    <2>2. /\ physical_cpu' = physical_cpu
          /\ \A u \in Thread \ {t} : th'[u] = th[u]
          /\ \/ th'[t].op = "idle" /\ th'[t].v = NULL
             \/ th'[t].op = th[t].op /\ th'[t].v = th[t].v /\ th'[t].cpu = th[t].cpu
             \/ th'[t].op \in Picking /\ th'[t].v = NULL
      <3>1. th[t].op \notin {"count", "take", "put"}
        BY <1>2 DEF OwnerOps, Picking
      <3> QED BY <1>2, <1>4, <3>1, StepCalls
    <2>4. \A v \in VCpu : own2[v] # NULL => own2[v] = physical_cpu'[v]
      BY <1>2, <2>1, <2>2, Nodes_Facts DEF StepOwn
    <2>5. \A u \in Thread :
             /\ th'[u].op \in OwnerOps
             /\ th'[u].v # NULL => th'[u].cpu = physical_cpu'[th'[u].v]
      BY <1>2, <2>2 DEF OwnerOps
    <2> QED BY <2>1, <2>4, <2>5 DEF SomeOwner, OwnerInv, Picking, OwnerOps
  <1>5. ASSUME NEW t \in Thread, NEW v \in VCpu, OwnerCall(t, v) PROVE SomeOwner'
    <2>1. PICK op \in {"add", "remove", "yield", "wake"} :
             /\ ~Busy(v) /\ Enter(t, op, v)
             /\ IF op = "add" THEN v \notin queued ELSE v \in queued
      BY <1>5 DEF OwnerCall, EnterWithEntity
    <2>2. v \in queued <=> own[v] # NULL \/ v \in InHand
      BY <1>2 DEF SchedInv, QueuedOK
    <2>3. v \notin InHand
      BY <2>1 DEF InHand, Busy
    <2>4. own[v] = IF op = "add" THEN NULL ELSE physical_cpu[v]
      BY <1>2, <2>1, <2>2, <2>3
    <2>5. /\ SchedInv(own)' /\ UNCHANGED vcpuVars
          /\ \A u \in Thread \ {t} : th'[u] = th[u]
          /\ th'[t].op = op /\ th'[t].v = v /\ th'[t].cpu = physical_cpu[v]
      BY <1>2, <2>1, <2>4, EnterKeeps
    <2>6. physical_cpu' = physical_cpu
      BY <2>5 DEF vcpuVars
    <2>7. OwnerInv(own)'
      BY <1>2, <2>5, <2>6 DEF OwnerInv, OwnerOps, Picking
    <2> QED BY <2>7 DEF SomeOwner
  <1>6. ASSUME NEW v \in VCpu, NEW c \in 0..MaxCpu,
               v \notin queued, ~Busy(v), vcpu_migrate(v, c)
        PROVE  SomeOwner'
    <2>1. UNCHANGED <<rq, lock, th, queued>> /\ physical_cpu' = [physical_cpu EXCEPT ![v] = c]
      BY <1>6 DEF vcpu_migrate
    <2>2. c \in Online
      BY <1>3, <1>6, SchedulerAssumption DEF vcpu_migrate, Online, OtherTypes
    <2>3. OtherTypes'
      BY <1>3, <1>6, <2>2 DEF vcpu_migrate, OtherTypes, Online
    <2>4. SchedInv(own)'
      BY <1>2, <2>1, <2>3, SchedStable
    <2>5. own[v] = NULL
      BY <1>2, <1>6 DEF SchedInv, QueuedOK
    <2>6. \A w \in VCpu \ {v} : physical_cpu'[w] = physical_cpu[w]
      BY <1>3, <2>1 DEF OtherTypes
    <2>7. \A w \in VCpu : own[w] # NULL => own[w] = physical_cpu'[w]
      BY <1>2, <2>5, <2>6
    <2>8. \A t \in Thread : th[t].v # NULL => th[t].v \in VCpu \ {v}
      <3>1. ASSUME NEW t \in Thread, th[t].v # NULL PROVE th[t].v \in VCpu \ {v}
        <4>1. CallOK(th[t], own) /\ th[t].v \in VCpu \cup {NULL}
          BY <1>2, CallFacts
        <4>2. th[t].op # "idle"
          BY <3>1, <4>1 DEF CallOK, Picking
        <4> QED BY <1>6, <3>1, <4>1, <4>2 DEF Busy
      <3> QED BY <3>1
    <2>9. OwnerInv(own)'
      BY <1>2, <2>1, <2>4, <2>6, <2>7, <2>8 DEF OwnerInv, Picking, OwnerOps
    <2> QED BY <2>9 DEF SomeOwner
  <1>7. ASSUME UNCHANGED <<rq, lock, th, queued, physical_cpu>>, OtherTypes' PROVE SomeOwner'
    <2>1. SchedInv(own)'
      BY <1>2, <1>7, SchedStable
    <2>2. OwnerInv(own)'
      BY <1>2, <1>7, <2>1 DEF OwnerInv, Picking, OwnerOps
    <2> QED BY <2>2 DEF SomeOwner
  <1>8. ASSUME NEW v \in VCpu, NEW p \in Policy, scheduler_set_policy(v, p) PROVE SomeOwner'
    <2>1. OtherTypes' /\ UNCHANGED <<rq, lock, th, queued, physical_cpu>>
      BY <1>3, <1>8 DEF scheduler_set_policy, OtherTypes, Online
    <2> QED BY <1>7, <2>1
  <1>9. ASSUME NEW t \in Thread, scheduler_schedule(t) PROVE SomeOwner'
    <2>1. /\ SchedInv(own)' /\ physical_cpu' = physical_cpu
          /\ \A u \in Thread \ {t} : th'[u] = th[u]
          /\ th'[t].op \in Picking /\ th'[t].v = NULL
      BY <1>2, <1>9, ScheduleKeeps DEF vcpuVars
    <2>2. OwnerInv(own)'
      BY <1>2, <2>1 DEF OwnerInv, OwnerOps, Picking
    <2> QED BY <2>2 DEF SomeOwner
  <1>10. CASE UNCHANGED vars
    <2>1. OtherTypes' /\ UNCHANGED <<rq, lock, th, queued, physical_cpu>>
      BY <1>3, <1>10, OtherTypesStable DEF vars, vcpuVars
    <2> QED BY <1>7, <2>1
  <1> QED
    BY <1>4, <1>5, <1>6, <1>8, <1>9, <1>10 DEF OwnerNext

\* The balancers' protocol keeps its invariant.
LEMMA BalanceNextInv ==
    ASSUME SomeBalance, [BalanceNext]_vars
    PROVE  SomeBalance'
  <1>1. PICK own \in Owners : BalanceInv(own)
    BY DEF SomeBalance
  <1>2. /\ SchedInv(own)
        /\ \A t \in Thread : th[t].op \in {"idle", "add", "count", "take", "put"}
    BY <1>1 DEF BalanceInv
  <1>3. ASSUME NEW t \in Thread, Step(t) PROVE SomeBalance'
    <2>1. PICK own2 \in Owners : SchedInv(own2)' /\ StepOwn(t, own, own2)
      <3>1. \A u \in Thread : th[u].op \notin {"remove", "yield", "wake"}
        BY <1>2
      <3> QED BY <1>2, <1>3, <3>1, StepKeeps
    <2>2. \A u \in Thread : th'[u].op \in {"idle", "add", "count", "take", "put"}
      <3>1. /\ \A u \in Thread \ {t} : th'[u] = th[u]
            /\ th'[t].op \in {"idle", "count", "take", "put"} \/ th'[t].op = th[t].op
        <4>1. th[t].op \notin Picking
          BY <1>2 DEF Picking
        <4> QED BY <1>2, <1>3, <4>1, StepCalls
      <3> QED BY <1>2, <3>1
    <2> QED BY <2>1, <2>2 DEF SomeBalance, BalanceInv
  <1>4. ASSUME NEW t \in Thread, NEW v \in VCpu, v \notin queued, ~Busy(v), Enter(t, "add", v)
        PROVE  SomeBalance'
    <2>1. own[v] = NULL
      BY <1>2, <1>4 DEF SchedInv, QueuedOK
    <2>2. PICK op \in {"add", "remove", "yield", "wake"} : op = "add"
      OBVIOUS
    <2>3. Enter(t, op, v) /\ own[v] = IF op = "add" THEN NULL ELSE physical_cpu[v]
      BY <1>4, <2>1, <2>2
    <2>4. SchedInv(own)' /\ (\A u \in Thread \ {t} : th'[u] = th[u]) /\ th'[t].op = op
      BY <1>2, <1>4, <2>3, EnterKeeps
    <2>5. BalanceInv(own)'
      BY <1>2, <2>2, <2>4 DEF BalanceInv
    <2> QED BY <2>5 DEF SomeBalance
  <1>5. ASSUME NEW t \in Thread, NEW c \in Online, scheduler_load_balance(t, c)
        PROVE  SomeBalance'
    <2>1. SchedInv(own)' /\ (\A u \in Thread \ {t} : th'[u] = th[u]) /\ th'[t].op = "count"
      BY <1>2, <1>5, BalanceCallKeeps
    <2>2. BalanceInv(own)'
      BY <1>2, <2>1 DEF BalanceInv
    <2> QED BY <2>2 DEF SomeBalance
  <1>6. CASE UNCHANGED vars
    <2>1. OtherTypes
      BY <1>2, TypeParts DEF SchedInv
    <2>2. OtherTypes' /\ UNCHANGED <<rq, lock, th, queued>>
      BY <1>6, <2>1, OtherTypesStable DEF vars, vcpuVars
    <2>3. SchedInv(own)'
      BY <1>2, <2>2, SchedStable
    <2>4. BalanceInv(own)'
      BY <1>2, <2>2, <2>3 DEF BalanceInv
    <2> QED BY <2>4 DEF SomeBalance
  <1> QED
    BY <1>3, <1>4, <1>5, <1>6 DEF BalanceNext

\* What the invariant means for the queues.
LEMMA InvImplies ==
    ASSUME NEW own \in Owners, SchedInv(own)
    PROVE  TypeOK /\ QueuesWhole /\ Conserved
  <1>1. TypeOK
    BY DEF SchedInv
  <1>2. QueuesWhole
    BY FreeQueue DEF QueuesWhole
  <1>3. ASSUME \A c \in Cpu : lock[c] = NULL
        PROVE  /\ UNION {Entries(c) : c \in Cpu} = queued \ InHand
               /\ \A c, d \in Cpu : c # d => Entries(c) \cap Entries(d) = {}
    <2>1. \A c \in Cpu : Entries(c) = {v \in VCpu : own[v] = c}
      BY <1>3, FreeQueue
    <2>2. ASSUME NEW v \in VCpu, own[v] # NULL PROVE v \notin InHand
      <3>1. SUFFICES ASSUME NEW t \in Thread, th[t].op = "put", th[t].v = v PROVE FALSE
        BY DEF InHand
      <3>2. CallOK(th[t], own)
        BY CallFacts
      <3> QED BY <2>2, <3>1, <3>2, Nodes_Facts DEF CallOK, Picking
    <2>3. \A v \in VCpu : v \in queued \ InHand <=> own[v] # NULL
      BY <2>2 DEF SchedInv, QueuedOK
    <2>4. queued \in SUBSET VCpu
      BY <1>1 DEF TypeOK
    <2>5. \A v \in VCpu : own[v] # NULL <=> own[v] \in Cpu
      BY Nodes_Facts DEF Owners
    <2>6. UNION {Entries(c) : c \in Cpu} = {v \in VCpu : own[v] \in Cpu}
      BY <2>1
    <2>7. UNION {Entries(c) : c \in Cpu} = queued \ InHand
      BY <2>3, <2>4, <2>5, <2>6
    <2> QED BY <2>1, <2>7
  <1>4. Conserved
    BY <1>3 DEF Conserved
  <1> QED
    BY <1>1, <1>2, <1>4

\* The inductive invariant of the owners' protocol: every vCPU belongs to one
\* queue or to none, each queue is one ring of its vCPUs, and a half-done
\* macro is one step away from the ring it makes.
THEOREM OwnerInvariant == OwnerSpec => []SomeOwner
  BY InitInv, OwnerNextInv, PTL DEF OwnerSpec

\* The same while scheduler_load_balance carries vCPUs between the queues: a
\* vCPU in a balancer's hand is in no ring and in no other hand.
THEOREM BalanceInvariant == BalanceSpec => []SomeBalance
  BY InitInv, BalanceNextInv, PTL DEF BalanceSpec

\* Every variable of the scheduler keeps its type, whichever protocol its
\* callers follow.
THEOREM SchedulerTypeCorrect ==
    (OwnerSpec => []TypeOK) /\ (BalanceSpec => []TypeOK)
  <1>1. SomeOwner => TypeOK
    BY InvImplies DEF SomeOwner, OwnerInv, Picking, OwnerOps
  <1>2. SomeBalance => TypeOK
    BY InvImplies DEF SomeBalance, BalanceInv
  <1> QED
    BY <1>1, <1>2, OwnerInvariant, BalanceInvariant, PTL

\* A run queue whose lock is free is a whole list that list_for_each gets
\* round, for any number of CPUs, threads and vCPUs: under the owners'
\* protocol and while any number of threads balance.
THEOREM QueuesAlwaysWhole ==
    (OwnerSpec => []QueuesWhole) /\ (BalanceSpec => []QueuesWhole)
  <1>1. SomeOwner => QueuesWhole
    BY InvImplies DEF SomeOwner, OwnerInv, Picking, OwnerOps
  <1>2. SomeBalance => QueuesWhole
    BY InvImplies DEF SomeBalance, BalanceInv
  <1> QED
    BY <1>1, <1>2, OwnerInvariant, BalanceInvariant, PTL

\* The calls of the scheduler neither lose nor duplicate a vCPU.
THEOREM VcpusConserved ==
    (OwnerSpec => []Conserved) /\ (BalanceSpec => []Conserved)
  <1>1. SomeOwner => Conserved
    BY InvImplies DEF SomeOwner, OwnerInv, Picking, OwnerOps
  <1>2. SomeBalance => Conserved
    BY InvImplies DEF SomeBalance, BalanceInv
  <1> QED
    BY <1>1, <1>2, OwnerInvariant, BalanceInvariant, PTL
=============================================================================
