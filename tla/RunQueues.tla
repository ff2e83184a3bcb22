----------------------------- MODULE RunQueues -----------------------------
(***************************************************************************)
(* What the run queues of scheduler.c promise: each is a sequence of       *)
(* vCPUs, a vCPU is on at most one of them and once, and it joins a queue  *)
(* at one of its ends, or leaves it, one at a time and without disturbing  *)
(* the order of the others.                                                *)
(***************************************************************************)
EXTENDS Naturals, Sequences

CONSTANTS Cpu, VCpu
VARIABLE queue

On(q, c)  == {q[c][k] : k \in DOMAIN q[c]}
Off(q)    == VCpu \ UNION {On(q, c) : c \in Cpu}

Init == queue = [c \in Cpu |-> << >>]

\* The queues after v has joined queue c at the back or the front, or left it.
EnqueueLast(q, c, v)  == [q EXCEPT ![c] = Append(@, v)]
EnqueueFirst(q, c, v) == [q EXCEPT ![c] = <<v>> \o @]
Take(q, c, v)         == [q EXCEPT ![c] = SelectSeq(@, LAMBDA w : w # v)]

After(q) == UNION { {EnqueueLast(q, c, v) : v \in Off(q)}
                    \cup {EnqueueFirst(q, c, v) : v \in Off(q)}
                    \cup {Take(q, c, v) : v \in On(q, c)} : c \in Cpu }

Next == queue' # queue /\ queue' \in After(queue)

Spec == Init /\ [][Next]_queue
=============================================================================
