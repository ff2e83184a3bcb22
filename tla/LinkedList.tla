----------------------------- MODULE LinkedList -----------------------------
(***************************************************************************)
(* The intrusive doubly linked list of src/src/utils/log.h.  A heap is a   *)
(* record of two functions, the `next' and `prev' pointer of every node;   *)
(* list heads and entries are both nodes.  Every macro is the heap it      *)
(* leaves behind, its assignments applied in program order, so that the    *)
(* macros mean what they mean in C on a node that is already linked (or    *)
(* already unlinked) too.  list_del leaves the pointers of the removed     *)
(* entry as they were.                                                     *)
(***************************************************************************)
EXTENDS Naturals, FiniteSets, Sequences

\* INIT_LIST_HEAD of every node of heads; the other nodes hold null pointers.
INIT_LIST_HEAD(nodes, heads, null) ==
    LET self == [n \in nodes |-> IF n \in heads THEN n ELSE null]
    IN  [next |-> self, prev |-> self]

list_empty(h, head) == h.next[head] = head

\* The assignments of a macro before and after the point at which another
\* thread could meet the list half changed.
list_del_1(h, e) == [h EXCEPT !.next = [@ EXCEPT ![h.prev[e]] = h.next[e]]]
list_del_2(h, e) == [h EXCEPT !.prev = [@ EXCEPT ![h.next[e]] = h.prev[e]]]

list_del(h, e) == list_del_2(list_del_1(h, e), e)

list_add_tail_1(h, new, head) ==
    LET p == [h.prev EXCEPT ![new] = h.prev[head]]
    IN  [next |-> [h.next EXCEPT ![new] = head, ![p[head]] = new], prev |-> p]
list_add_tail_2(h, new, head) == [h EXCEPT !.prev = [@ EXCEPT ![head] = new]]

list_add_tail(h, new, head) == list_add_tail_2(list_add_tail_1(h, new, head), new, head)

list_add_1(h, new, head) ==
    LET n == [h.next EXCEPT ![new] = h.next[head]]
    IN  [next |-> n, prev |-> [h.prev EXCEPT ![new] = head, ![n[head]] = new]]
list_add_2(h, new, head) == [h EXCEPT !.next = [@ EXCEPT ![head] = new]]

list_add(h, new, head) == list_add_2(list_add_1(h, new, head), new, head)

(***************************************************************************)
(* list_for_each: Walk(h, head)[k] is `pos' after k hops from the head, as *)
(* far as needed to pass every node.  The loop ends at the first k that is *)
(* back at the head; on a list that never comes back it does not end.      *)
(***************************************************************************)
Walk(h, head) ==
    LET pos[k \in Nat] == IF k = 0 THEN head ELSE h.next[pos[k - 1]]
    IN  [k \in 1..Cardinality(DOMAIN h.next) |-> pos[k]]

BackAt(w, head) == {k \in DOMAIN w : w[k] = head}

LoopEnds(h, head) == BackAt(Walk(h, head), head) # {}

\* The entries list_for_each visits, in order; none if it never ends.
ListSeq(h, head) ==
    LET w    == Walk(h, head)
        back == BackAt(w, head)
    IN  IF back = {} THEN << >>
        ELSE SubSeq(w, 1, (CHOOSE k \in back : \A j \in back : k <= j) - 1)

ListLength(h, head) == Len(ListSeq(h, head))

(***************************************************************************)
(* Local form of list integrity over a set of nodes: both pointers of      *)
(* every node stay in the set, and each undoes the other.                  *)
(***************************************************************************)
Consistent(h, nodes) ==
    \A n \in nodes : /\ h.next[n] \in nodes
                     /\ h.prev[n] \in nodes
                     /\ h.prev[h.next[n]] = n
                     /\ h.next[h.prev[n]] = n
=============================================================================
