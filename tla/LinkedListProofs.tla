-------------------------- MODULE LinkedListProofs --------------------------
(* What one list macro does to list integrity, for every heap: the facts   *)
(* the invariance proofs of the modules that use the lists rest on.        *)
EXTENDS LinkedList, FiniteSetTheorems, WellFoundedInduction, TLAPS

\* The heaps over a set of nodes.
Heap(nodes, null) == [next : [nodes -> nodes \cup {null}],
                      prev : [nodes -> nodes \cup {null}]]

\* The macros map heaps to heaps, whatever the nodes they are applied to
\* point to.
LEMMA MacrosType ==
    ASSUME NEW nodes, NEW null, NEW h \in Heap(nodes, null),
           NEW e \in nodes, NEW head \in nodes
    PROVE  /\ list_del(h, e) \in Heap(nodes, null)
           /\ list_add_tail(h, e, head) \in Heap(nodes, null)
           /\ list_add(h, e, head) \in Heap(nodes, null)
  BY DEF Heap, list_del, list_del_1, list_del_2, list_add_tail, list_add_tail_1,
         list_add_tail_2, list_add, list_add_1, list_add_2

\* list_del of a linked entry leaves the other nodes correctly linked.
LEMMA DelConsistent ==
    ASSUME NEW nodes, NEW null, NEW h \in Heap(nodes, null),
           NEW S \in SUBSET nodes, NEW e \in S, Consistent(h, S)
    PROVE  Consistent(list_del(h, e), S \ {e})
  BY DEF Heap, list_del, list_del_1, list_del_2, Consistent

\* list_add_tail of an unlinked node links it and keeps the others linked.
LEMMA AddTailConsistent ==
    ASSUME NEW nodes, NEW null, NEW h \in Heap(nodes, null),
           NEW S \in SUBSET nodes, NEW head \in S, NEW e \in nodes \ S,
           Consistent(h, S)
    PROVE  Consistent(list_add_tail(h, e, head), S \cup {e})
  BY DEF Heap, list_add_tail, list_add_tail_1, list_add_tail_2, Consistent

\* The same of list_add.
LEMMA AddConsistent ==
    ASSUME NEW nodes, NEW null, NEW h \in Heap(nodes, null),
           NEW S \in SUBSET nodes, NEW head \in S, NEW e \in nodes \ S,
           Consistent(h, S)
    PROVE  Consistent(list_add(h, e, head), S \cup {e})
  BY DEF Heap, list_add, list_add_1, list_add_2, Consistent

\* INIT_LIST_HEAD makes every head an empty list.
LEMMA InitConsistent ==
    ASSUME NEW nodes, NEW null, NEW heads \in SUBSET nodes
    PROVE  /\ INIT_LIST_HEAD(nodes, heads, null) \in Heap(nodes, null)
           /\ Consistent(INIT_LIST_HEAD(nodes, heads, null), heads)
  BY DEF Heap, INIT_LIST_HEAD, Consistent

-----------------------------------------------------------------------------
(* Following the next pointers.                                            *)

\* A set of numbers has a least member: induction by least counterexample.
LEMMA NatMin ==
    ASSUME NEW T \in SUBSET Nat, T # {}
    PROVE  \E x \in T : \A y \in T : x <= y
  <1>1. PICK x \in T : \A y \in T : ~(<<y, x>> \in OpToRel(<, Nat))
    BY WFMin, NatLessThanWellFounded
  <1>2. \A y \in T : ~(y < x)
    BY <1>1 DEF OpToRel
  <1> QED
    BY <1>2

\* f follows N from x for n hops.
Follows(f, N, x, n) == f[0] = x /\ \A i \in 0..(n - 1) : f[i + 1] = N[f[i]]

LEMMA FollowsAgree ==
    ASSUME NEW N, NEW x, NEW f, NEW g, NEW n \in Nat, NEW m \in Nat,
           Follows(f, N, x, n), Follows(g, N, x, m),
           NEW i \in Nat, i <= n, i <= m
    PROVE  f[i] = g[i]
  <1> DEFINE Bad == {j \in Nat : j <= n /\ j <= m /\ f[j] # g[j]}
  <1>1. SUFFICES ASSUME Bad # {} PROVE FALSE
    OBVIOUS
  <1>2. PICK j \in Bad : \A y \in Bad : j <= y
    <2>1. Bad \in SUBSET Nat
      OBVIOUS
    <2> QED
      BY <1>1, <2>1, NatMin
  <1>3. j # 0
    BY DEF Follows
  <1>4. j - 1 \in 0..(n - 1) /\ j - 1 \in 0..(m - 1) /\ j - 1 \notin Bad /\ (j - 1) + 1 = j
    BY <1>2, <1>3
  <1>5. f[j - 1] = g[j - 1]
    BY <1>4
  <1> QED
    BY <1>4, <1>5 DEF Follows

LEMMA FollowsExists ==
    ASSUME NEW N, NEW x, NEW n \in Nat
    PROVE  \E f : Follows(f, N, x, n)
  <1> DEFINE Bad == {m \in Nat : ~\E f : Follows(f, N, x, m)}
  <1>1. SUFFICES ASSUME Bad # {} PROVE FALSE
    OBVIOUS
  <1>2. PICK m \in Bad : \A y \in Bad : m <= y
    <2>1. Bad \in SUBSET Nat
      OBVIOUS
    <2> QED
      BY <1>1, <2>1, NatMin
  <1>3. m # 0
    <2>1. Follows([i \in {0} |-> x], N, x, 0)
      BY DEF Follows
    <2> QED
      BY <2>1
  <1>4. m - 1 \in Nat /\ m - 1 \notin Bad
    BY <1>2, <1>3
  <1>5. PICK f : Follows(f, N, x, m - 1)
    BY <1>4
  <1> DEFINE g == [i \in 0..m |-> IF i = m THEN N[f[m - 1]] ELSE f[i]]
  <1>6. Follows(g, N, x, m)
    <2>1. g[0] = x
      BY <1>3, <1>5 DEF Follows
    <2>2. ASSUME NEW i \in 0..(m - 1)
          PROVE  g[i + 1] = N[g[i]]
      <3>1. CASE i = m - 1
        BY <3>1
      <3>2. CASE i # m - 1
        <4>1. i \in 0..((m - 1) - 1) /\ i + 1 \in 0..m /\ i + 1 # m /\ i # m
          BY <3>2
        <4> QED
          BY <4>1, <1>5 DEF Follows
      <3> QED
        BY <3>1, <3>2
    <2> QED
      BY <2>1, <2>2 DEF Follows
  <1> QED
    BY <1>6

\* f is a solution of the recursive definition of pos in Walk.
Solves(f, N, x) == f = [k \in Nat |-> IF k = 0 THEN x ELSE N[f[k - 1]]]

LEMMA IterateExists ==
    ASSUME NEW N, NEW x
    PROVE  \E F : Solves(F, N, x)
  <1> DEFINE f(k) == CHOOSE g : Follows(g, N, x, k)
             F    == [k \in Nat |-> f(k)[k]]
  <1>1. \A k \in Nat : Follows(f(k), N, x, k)
    BY FollowsExists
  <1>2. ASSUME NEW k \in Nat
        PROVE  F[k] = IF k = 0 THEN x ELSE N[F[k - 1]]
    <2>1. CASE k = 0
      BY <2>1, <1>1 DEF Follows
    <2>2. CASE k # 0
      <3>1. k - 1 \in Nat /\ k - 1 \in 0..(k - 1) /\ (k - 1) + 1 = k /\ k - 1 <= k
        BY <2>2
      <3>2. f(k)[k - 1] = f(k - 1)[k - 1]
        <4> HIDE DEF f
        <4> QED BY <3>1, <1>1, FollowsAgree
      <3>3. f(k)[k] = N[f(k)[k - 1]]
        <4>1. Follows(f(k), N, x, k)
          BY <1>1
        <4> HIDE DEF f
        <4> QED BY <3>1, <4>1 DEF Follows
      <3> HIDE DEF f
      <3> QED BY <2>2, <3>1, <3>2, <3>3
    <2> QED BY <2>1, <2>2
  <1>3. Solves(F, N, x)
    <2> HIDE DEF f
    <2> QED BY <1>2 DEF Solves
  <1> QED
    BY <1>3

\* What Walk computes.
LEMMA WalkFollows ==
    ASSUME NEW h, NEW head
    PROVE  \E F : /\ F[0] = head
                  /\ \A k \in Nat : F[k + 1] = h.next[F[k]]
                  /\ Walk(h, head) = [k \in 1..Cardinality(DOMAIN h.next) |-> F[k]]
  <1> DEFINE F == CHOOSE f : Solves(f, h.next, head)
  <1>1. Solves(F, h.next, head)
    BY IterateExists
  <1>2. Walk(h, head) = [k \in 1..Cardinality(DOMAIN h.next) |-> F[k]]
    BY Zenon DEF Walk, Solves
  <1> HIDE DEF F
  <1>3. F[0] = head
    BY <1>1 DEF Solves
  <1>4. ASSUME NEW k \in Nat PROVE F[k + 1] = h.next[F[k]]
    <2>1. k + 1 \in Nat /\ k + 1 # 0 /\ (k + 1) - 1 = k
      OBVIOUS
    <2>2. F[k + 1] = IF k + 1 = 0 THEN head ELSE h.next[F[(k + 1) - 1]]
      BY <1>1, <2>1 DEF Solves
    <2> QED BY <2>1, <2>2
  <1> QED
    BY <1>2, <1>3, <1>4

\* S is one ring through head: its pointers undo each other, and following
\* next from head misses no node of S.
Ring(h, head, S) ==
    /\ head \in S
    /\ Consistent(h, S)
    /\ \A T \in SUBSET S : head \in T /\ (\A n \in T : h.next[n] \in T) => T = S

LEMMA InitRing ==
    ASSUME NEW nodes, NEW null, NEW heads \in SUBSET nodes, NEW head \in heads
    PROVE  Ring(INIT_LIST_HEAD(nodes, heads, null), head, {head})
  BY DEF INIT_LIST_HEAD, Ring, Consistent

\* A ring is a matter of the pointers of its own nodes.
LEMMA RingFrame ==
    ASSUME NEW h, NEW g, NEW head, NEW S, Ring(h, head, S),
           \A n \in S : g.next[n] = h.next[n] /\ g.prev[n] = h.prev[n]
    PROVE  Ring(g, head, S)
  BY DEF Ring, Consistent

LEMMA DelRing ==
    ASSUME NEW nodes, NEW null, NEW h \in Heap(nodes, null),
           NEW S \in SUBSET nodes, NEW head, NEW e \in S, e # head, Ring(h, head, S)
    PROVE  Ring(list_del(h, e), head, S \ {e})
  <1> DEFINE g == list_del(h, e)
  <1>1. Consistent(g, S \ {e})
    BY DelConsistent DEF Ring
  <1>2. /\ h.prev[e] \in S /\ h.next[h.prev[e]] = e /\ h.next[e] \in S
        /\ \A n \in S : g.next[n] = IF n = h.prev[e] THEN h.next[e] ELSE h.next[n]
    BY DEF Ring, Consistent, Heap, list_del, list_del_1, list_del_2
  <1>3. ASSUME NEW T \in SUBSET (S \ {e}), head \in T, \A n \in T : g.next[n] \in T
        PROVE  T = S \ {e}
    <2> HIDE DEF g
    <2>1. CASE h.prev[e] \in T
      <3>1. \A n \in T \cup {e} : h.next[n] \in T \cup {e}
        BY <1>2, <1>3, <2>1
      <3>2. T \cup {e} \in SUBSET S /\ head \in T \cup {e}
        BY <1>3
      <3>3. T \cup {e} = S
        BY <3>1, <3>2 DEF Ring
      <3> QED BY <3>3
    <2>2. CASE h.prev[e] \notin T
      <3>1. \A n \in T : h.next[n] \in T
        BY <1>2, <1>3, <2>2
      <3>2. T = S
        BY <3>1, <1>3 DEF Ring
      <3> QED BY <3>2
    <2> QED BY <2>1, <2>2
  <1> QED
    BY <1>1, <1>3 DEF Ring

LEMMA AddTailRing ==
    ASSUME NEW nodes, NEW null, NEW h \in Heap(nodes, null),
           NEW S \in SUBSET nodes, NEW head \in S, NEW e \in nodes \ S, Ring(h, head, S)
    PROVE  Ring(list_add_tail(h, e, head), head, S \cup {e})
  <1> DEFINE g == list_add_tail(h, e, head)
             p == h.prev[head]
  <1>1. Consistent(g, S \cup {e})
    BY AddTailConsistent DEF Ring
  <1>2. /\ p \in S /\ h.next[p] = head
        /\ \A n \in S : g.next[n] = IF n = p THEN e ELSE h.next[n]
        /\ \A n \in S : h.next[n] \in S
    BY DEF Ring, Consistent, Heap, list_add_tail, list_add_tail_1, list_add_tail_2
  <1> HIDE DEF g, p
  <1>3. ASSUME NEW T \in SUBSET (S \cup {e}), head \in T, \A n \in T : g.next[n] \in T
        PROVE  T = S \cup {e}
    <2>1. \A n \in T \ {e} : h.next[n] \in T \ {e}
      BY <1>2, <1>3
    <2>2. T \ {e} = S
      BY <2>1, <1>3 DEF Ring
    <2>3. e \in T
      BY <1>2, <1>3, <2>2
    <2> QED BY <2>2, <2>3
  <1> QED
    BY <1>1, <1>3 DEF Ring, g

LEMMA AddRing ==
    ASSUME NEW nodes, NEW null, NEW h \in Heap(nodes, null),
           NEW S \in SUBSET nodes, NEW head \in S, NEW e \in nodes \ S, Ring(h, head, S)
    PROVE  Ring(list_add(h, e, head), head, S \cup {e})
  <1> DEFINE g == list_add(h, e, head)
  <1>1. Consistent(g, S \cup {e})
    BY AddConsistent DEF Ring
  <1>2. /\ \A n \in S : g.next[n] = IF n = head THEN e ELSE h.next[n]
        /\ g.next[e] = h.next[head]
        /\ \A n \in S : h.next[n] \in S
    BY DEF Ring, Consistent, Heap, list_add, list_add_1, list_add_2
  <1> HIDE DEF g
  <1>3. ASSUME NEW T \in SUBSET (S \cup {e}), head \in T, \A n \in T : g.next[n] \in T
        PROVE  T = S \cup {e}
    <2>1. e \in T
      BY <1>2, <1>3
    <2>2. \A n \in T \ {e} : h.next[n] \in T \ {e}
      BY <1>2, <1>3, <2>1
    <2>3. T \ {e} = S
      BY <2>2, <1>3 DEF Ring
    <2> QED BY <2>1, <2>3
  <1> QED
    BY <1>1, <1>3 DEF Ring, g

\* list_for_each over a ring comes back to its head and visits every other
\* node of it, once.
LEMMA RingWalk ==
    ASSUME NEW nodes, NEW null, IsFiniteSet(nodes), NEW h \in Heap(nodes, null),
           NEW S \in SUBSET nodes, NEW head, Ring(h, head, S)
    PROVE  /\ LoopEnds(h, head)
           /\ ListSeq(h, head) \in Seq(S)
           /\ {ListSeq(h, head)[k] : k \in DOMAIN ListSeq(h, head)} = S \ {head}
           /\ \A k \in DOMAIN ListSeq(h, head) : Walk(h, head)[k] = ListSeq(h, head)[k]
           /\ \A i, j \in DOMAIN ListSeq(h, head) :
                 ListSeq(h, head)[i] = ListSeq(h, head)[j] => i = j
  <1> DEFINE n == Cardinality(nodes)
             w == Walk(h, head)
             back == BackAt(w, head)
  <1>1. n \in Nat /\ DOMAIN h.next = nodes
    BY FS_CardinalityType DEF Heap
  <1>2. PICK F : /\ F[0] = head
                 /\ \A k \in Nat : F[k + 1] = h.next[F[k]]
                 /\ w = [k \in 1..n |-> F[k]]
    <2>1. PICK F : /\ F[0] = head
                   /\ \A k \in Nat : F[k + 1] = h.next[F[k]]
                   /\ w = [k \in 1..Cardinality(DOMAIN h.next) |-> F[k]]
      BY WalkFollows
    <2> QED
      BY <1>1, <2>1
  <1> HIDE DEF n, w
  <1>3. \A k \in Nat : F[k] \in S
    <2> DEFINE Bad == {k \in Nat : F[k] \notin S}
    <2>1. SUFFICES ASSUME Bad # {} PROVE FALSE
      OBVIOUS
    <2>2. PICK k \in Bad : \A y \in Bad : k <= y
      <3>1. Bad \in SUBSET Nat
        OBVIOUS
      <3> QED BY <2>1, <3>1, NatMin
    <2>3. k # 0
      BY <1>2 DEF Ring
    <2>4. k - 1 \in Nat /\ k - 1 \notin Bad /\ (k - 1) + 1 = k
      BY <2>2, <2>3
    <2>5. F[k - 1] \in S /\ F[k] = h.next[F[k - 1]]
      BY <2>4, <1>2
    <2> QED
      BY <2>5 DEF Ring, Consistent
  <1>4. \E i, j \in 0..n : i < j /\ F[i] = F[j]
    <2> DEFINE f == [k \in 0..n |-> F[k]]
    <2>1. IsFiniteSet(0..n) /\ Cardinality(0..n) = n + 1
      BY <1>1, FS_Interval
    <2>2. IsFiniteSet(nodes) /\ Cardinality(nodes) = n
      BY DEF n
    <2>3. f \in [0..n -> nodes]
      BY <1>1, <1>3
    <2>4. \E i, j \in 0..n : i # j /\ f[i] = f[j]
      <3>1. Cardinality(nodes) < Cardinality(0..n)
        BY <1>1, <2>1, <2>2
      <3> HIDE DEF f
      <3> QED
        BY <2>1, <2>2, <2>3, <3>1, FS_PigeonHole, ZenonT(60)
    <2>5. PICK i \in 0..n, j \in 0..n : i # j /\ f[i] = f[j]
      BY <2>4
    <2>6. i < j \/ j < i
      BY <1>1, <2>5
    <2> QED BY <2>5, <2>6
  <1>5. back # {}
    <2> DEFINE Rep == {i \in 0..n : \E j \in 0..n : i < j /\ F[i] = F[j]}
    <2>1. PICK i \in Rep : \A y \in Rep : i <= y
      <3>1. Rep \in SUBSET Nat /\ Rep # {}
        BY <1>1, <1>4
      <3> QED BY <3>1, NatMin
    <2>2. PICK j \in 0..n : i < j /\ F[i] = F[j]
      BY <2>1
    <2>3. i = 0
      <3>1. SUFFICES ASSUME i # 0 PROVE FALSE
        OBVIOUS
      <3>2. /\ i - 1 \in Nat /\ j - 1 \in Nat /\ i - 1 < j - 1 /\ i - 1 \in 0..n
            /\ j - 1 \in 0..n /\ (i - 1) + 1 = i /\ (j - 1) + 1 = j /\ i - 1 < i
        BY <1>1, <2>1, <2>2, <3>1
      <3>3. F[i] = h.next[F[i - 1]] /\ F[j] = h.next[F[j - 1]]
        BY <1>2, <3>2
      <3>4. F[i - 1] = F[j - 1]
        <4>1. F[i - 1] \in S /\ F[j - 1] \in S
          BY <1>3, <3>2
        <4>2. /\ h.prev[h.next[F[i - 1]]] = F[i - 1]
              /\ h.prev[h.next[F[j - 1]]] = F[j - 1]
          BY <4>1 DEF Ring, Consistent
        <4> QED BY <2>2, <3>3, <4>2
      <3>5. i - 1 \in Rep
        BY <3>2, <3>4
      <3> QED BY <1>1, <2>1, <3>2, <3>5
    <2>4. j \in 1..n /\ F[j] = head
      <3>1. F[j] = F[0]
        BY <2>2, <2>3
      <3> QED BY <1>1, <1>2, <2>2, <2>3, <3>1
    <2> QED
      BY <1>2, <2>4 DEF BackAt
  <1>6. LoopEnds(h, head)
    BY <1>5 DEF LoopEnds, w
  <1>7. back \in SUBSET (1..n) /\ back \in SUBSET Nat
    BY <1>1, <1>2, SMTT(30) DEF BackAt
  <1> DEFINE m == CHOOSE k \in back : \A j \in back : k <= j
  <1>8. m \in back /\ \A j \in back : m <= j
    <2>1. \E k \in back : \A j \in back : k <= j
      BY <1>5, <1>7, NatMin
    <2> HIDE DEF back
    <2> QED BY <2>1
  <1>9. ListSeq(h, head) = SubSeq(w, 1, m - 1)
    BY <1>5 DEF ListSeq, w
  <1>10. m \in 1..n /\ F[m] = head
    BY <1>2, <1>7, <1>8 DEF BackAt
  <1> HIDE DEF m, back
  <1> DEFINE s == SubSeq(w, 1, m - 1)
  <1>11. /\ s \in Seq(S) /\ Len(s) = m - 1 /\ DOMAIN s = 1..(m - 1)
         /\ \A k \in 1..(m - 1) : s[k] = F[k] /\ w[k] = s[k]
    <2>1. w \in Seq(S) /\ Len(w) = n
      <3>1. \A k \in 1..n : F[k] \in S
        BY <1>1, <1>3
      <3>2. w \in [1..n -> S]
        BY <1>2, <3>1
      <3> QED BY <1>1, <3>2
    <2>2. m - 1 \in Nat /\ m - 1 <= n
      BY <1>1, <1>10
    <2>3. \A k \in 1..(m - 1) : k \in 1..n /\ w[k] = F[k] /\ w[k] \in S
      BY <1>1, <1>2, <1>3, <2>2
    <2>4. s = [k \in 1..(m - 1) |-> w[k]]
      BY <1>1, <2>1, <2>2
    <2> HIDE DEF s
    <2>5. s \in [1..(m - 1) -> S]
      BY <2>3, <2>4
    <2>6. s \in Seq(S) /\ Len(s) = m - 1
      BY <2>2, <2>5
    <2> QED
      BY <2>3, <2>4, <2>6
  <1>12. {s[k] : k \in DOMAIN s} = {F[k] : k \in 1..(m - 1)}
    BY <1>11
  <1> HIDE DEF s
  <1> DEFINE T == {F[k] : k \in 0..(m - 1)}
  <1>13. T = S
    <2>1. T \in SUBSET S /\ head \in T
      <3>1. 0 \in 0..(m - 1) /\ 0..(m - 1) \in SUBSET Nat
        BY <1>1, <1>10
      <3> QED BY <1>2, <1>3, <3>1
    <2>2. ASSUME NEW k \in 0..(m - 1) PROVE h.next[F[k]] \in T
      <3>1. F[k + 1] = h.next[F[k]]
        <4>1. k \in Nat
          BY <1>1, <1>10
        <4> QED BY <1>2, <4>1
      <3>2. CASE k = m - 1
        BY <1>1, <1>10, <2>1, <3>1, <3>2
      <3>3. CASE k # m - 1
        <4>1. k + 1 \in 0..(m - 1)
          BY <1>1, <1>10, <3>3
        <4> QED BY <3>1, <4>1
      <3> QED BY <3>2, <3>3
    <2>3. \A x \in T : h.next[x] \in T
      BY <2>2
    <2> HIDE DEF T
    <2> QED
      BY <2>1, <2>3 DEF Ring
  <1>14. \A k \in 1..(m - 1) : F[k] # head
    <2>1. SUFFICES ASSUME NEW k \in 1..(m - 1), F[k] = head PROVE FALSE
      OBVIOUS
    <2>2. k \in 1..n /\ k < m
      BY <1>1, <1>10
    <2>3. k \in back
      BY <1>2, <2>1, <2>2 DEF back, BackAt
    <2> QED BY <1>1, <1>8, <1>10, <2>2, <2>3
  <1>15. {F[k] : k \in 1..(m - 1)} = S \ {head}
    <2>1. \A k : k \in 0..(m - 1) <=> k = 0 \/ k \in 1..(m - 1)
      BY <1>1, <1>10
    <2> QED BY <1>2, <1>13, <1>14, <2>1, ZenonT(40)
  <1>16. \A i, j \in 1..(m - 1) : F[i] = F[j] => i = j
    <2> DEFINE Twice == {i \in 1..(m - 1) : \E j \in 1..(m - 1) : i < j /\ F[i] = F[j]}
    <2>1. Twice = {}
      <3>1. SUFFICES ASSUME Twice # {} PROVE FALSE
        OBVIOUS
      <3>2. PICK i \in Twice : \A y \in Twice : i <= y
        <4>1. Twice \in SUBSET Nat
          BY <1>1, <1>10
        <4> QED BY <3>1, <4>1, NatMin
      <3>3. PICK j \in 1..(m - 1) : i < j /\ F[i] = F[j]
        BY <3>2
      <3>4. /\ i - 1 \in Nat /\ j - 1 \in Nat /\ j - 1 \in 1..(m - 1)
            /\ (i - 1) + 1 = i /\ (j - 1) + 1 = j
            /\ i - 1 < j - 1 /\ ~(i <= i - 1) /\ (i = 1 => i - 1 = 0)
            /\ (i # 1 => i - 1 \in 1..(m - 1))
        BY <1>1, <1>10, <3>2, <3>3
      <3>5. F[i - 1] = F[j - 1]
        <4>1. F[i] = h.next[F[i - 1]] /\ F[j] = h.next[F[j - 1]]
          BY <1>2, <3>4
        <4>2. F[i - 1] \in S /\ F[j - 1] \in S
          BY <1>3, <3>4
        <4>3. /\ h.prev[h.next[F[i - 1]]] = F[i - 1]
              /\ h.prev[h.next[F[j - 1]]] = F[j - 1]
          BY <4>2 DEF Ring, Consistent
        <4> QED BY <3>3, <4>1, <4>3
      <3>6. CASE i = 1
        <4>1. F[j - 1] = head
          BY <1>2, <3>4, <3>5, <3>6
        <4> QED BY <1>14, <3>4, <4>1
      <3>7. CASE i # 1
        <4>1. i - 1 \in Twice
          BY <3>4, <3>5, <3>7
        <4> QED BY <3>2, <3>4, <4>1
      <3> QED BY <3>6, <3>7
    <2>2. SUFFICES ASSUME NEW i \in 1..(m - 1), NEW j \in 1..(m - 1), F[i] = F[j], i # j
                   PROVE  FALSE
      OBVIOUS
    <2>3. i < j \/ j < i
      BY <1>1, <1>10, <2>2
    <2> QED BY <2>1, <2>2, <2>3
  <1>17. \A i, j \in DOMAIN s : s[i] = s[j] => i = j
    BY <1>11, <1>16
  <1>18. \A k \in DOMAIN s : w[k] = s[k]
    BY <1>11
  <1> QED
    BY <1>6, <1>9, <1>11, <1>12, <1>15, <1>17, <1>18 DEF s, w
=============================================================================
