---------------------------- MODULE IoEmulProofs ----------------------------
(***************************************************************************)
(* Bringing the hypervisor up and down is all or nothing, and a read that  *)
(* walks a handler list while handlers are registered gets the answer of   *)
(* the newest handler that was there when it began.                        *)
(***************************************************************************)
EXTENDS IoEmul, LinkedListProofs

Entry0 == Entry \cup {NULL}

\* L is the set of nodes of a list: what hd leads to and nothing else, without
\* a cycle, and with one way to every node.
ListOK(hd, nx, L) ==
    /\ hd \in L \cup {NULL}
    /\ \A e \in L : nx[e] \in L \cup {NULL}
    /\ \A T \in SUBSET L :
          hd \in T \cup {NULL} /\ (\A e \in T : nx[e] \in T \cup {NULL}) => T = L
    /\ \A T \in SUBSET L : T # {} => \E e \in T : nx[e] \notin T
    /\ \A a, b \in L : nx[a] = nx[b] => a = b \/ nx[a] = NULL
    /\ \A a \in L : nx[a] = hd => hd = NULL

\* p[0], ..., p[m - 1] are the entries, all in S, that a loop from e meets.
Path(p, m, e, nx, S) ==
    /\ p[0] = e /\ p[m] = NULL
    /\ \A n \in 0 .. (m - 1) : p[n] \in S /\ p[n + 1] = nx[p[n]]

\* w answers an access at a in space s to the handlers, by en, along a path.
Answers(p, m, en, s, a, w) ==
    \/ \E n \in 0 .. (m - 1) :
          /\ Covers(en[p[n]], a) /\ w = DeviceRead(en[p[n]].device, a)
          /\ \A j \in 0 .. (n - 1) : ~Covers(en[p[j]], a)
    \/ w = Unhandled(s) /\ \A n \in 0 .. (m - 1) : ~Covers(en[p[n]], a)

Answer == {"zero", "ones", "none"} \cup {h.device : h \in Handler}

AccessState == [op : {"quiet", "walk", "done"}, space : Space, addr : Nat,
                at : Entry0, want : Answer, got : Answer]

\* A walk will get the answer it should, from allocated entries, and end.
AccessOK(x, nx, en, al) ==
    /\ x.op = "quiet" => x = Quiet
    /\ x.op = "done" => x.got = x.want
    /\ x.op = "walk" =>
         \E m \in 0 .. MaxEntry : \E p \in [0 .. m -> Entry0] :
            Path(p, m, x.at, nx, al) /\ Answers(p, m, en, x.space, x.addr, x.want)

\* Where hypervisor_init is, and what is up.
PhaseOK ==
    \/ g_initialized /\ call.op \in {"idle", "publish"} /\ g_hypervisor /\ up = Subsystem
    \/ ~g_initialized /\ call.op = "idle" /\ ~g_hypervisor /\ up = {}
    \/ ~g_initialized /\ call.op = "scheduler" /\ g_hypervisor /\ up = {}
    \/ ~g_initialized /\ call.op = "hypercall" /\ g_hypervisor /\ up = {"scheduler"}
    \/ ~g_initialized /\ call.op = "ept" /\ g_hypervisor /\ up = {"scheduler", "hypercall"}
    \/ ~g_initialized /\ call.op = "io" /\ g_hypervisor
       /\ up = {"scheduler", "hypercall", "ept"}
    \/ ~g_initialized /\ call.op = "defaults" /\ g_hypervisor /\ up = Subsystem
       /\ call.i \in 1 .. (DefaultCount + 1)

Live == g_initialized \/ call.op = "defaults"

Lists == [Space -> SUBSET Entry]

\* The lists of the two spaces are lists, and apart.
Apart(hd, nx, L) ==
    /\ \A s \in Space : ListOK(hd[s], nx, L[s])
    /\ L["io"] \cap L["mmio"] = {}

Nodes(L) == L["io"] \cup L["mmio"]

\* An allocated entry is on one of the lists or about to be.
ListsOK(L) ==
    /\ Apart(head, next, L)
    /\ call.op # "publish" => allocated = Nodes(L)
    /\ call.op = "publish" =>
          /\ allocated = Nodes(L) \cup {call.i}
          /\ call.i \in Entry \ Nodes(L) /\ next[call.i] = head[call.space]

IoInv(L) ==
    /\ TypeOK
    /\ access \in [Thread -> AccessState]
    /\ call.op = "idle" => call = Idle
    /\ PhaseOK
    /\ Live => ListsOK(L)
    /\ ~Live => allocated = {}
    /\ ~g_initialized => Calm
    /\ \A t \in Thread : AccessOK(access[t], next, entry, allocated)

SomeLists == \E L \in Lists : IoInv(L)

-----------------------------------------------------------------------------
(* Lists as sets of nodes.                                                 *)

\* A list is a matter of the pointers of its own nodes.
LEMMA ListFrame ==
    ASSUME NEW hd, NEW nx, NEW nx2, NEW L, ListOK(hd, nx, L), \A e \in L : nx2[e] = nx[e]
    PROVE  ListOK(hd, nx2, L)
  BY DEF ListOK

\* A new node at the front.
LEMMA ListPush ==
    ASSUME NEW hd, NEW nx, NEW nx2, NEW L, ListOK(hd, nx, L), \A e \in L : nx2[e] = nx[e],
           NEW e, e \notin L, e # NULL, nx2[e] = hd
    PROVE  ListOK(e, nx2, L \cup {e})
  <1> DEFINE M == L \cup {e}
  <1>1. \A x \in M : nx2[x] \in M \cup {NULL}
    BY DEF ListOK
  <1>2. ASSUME NEW T \in SUBSET M, e \in T \cup {NULL}, \A x \in T : nx2[x] \in T \cup {NULL}
        PROVE  T = M
    <2>1. T \ {e} \in SUBSET L /\ e \in T
      BY <1>2
    <2>2. hd \in (T \ {e}) \cup {NULL} /\ \A x \in T \ {e} : nx[x] \in (T \ {e}) \cup {NULL}
      BY <1>2, <2>1 DEF ListOK
    <2>3. T \ {e} = L
      BY <2>1, <2>2 DEF ListOK
    <2> QED BY <2>1, <2>3
  <1>3. ASSUME NEW T \in SUBSET M, T # {} PROVE \E x \in T : nx2[x] \notin T
    <2>1. CASE T \ {e} = {}
      BY <1>3, <2>1 DEF ListOK
    <2>2. CASE T \ {e} # {}
      <3>1. T \ {e} \in SUBSET L
        OBVIOUS
      <3>2. PICK x \in T \ {e} : nx[x] \notin T \ {e}
        BY <2>2, <3>1 DEF ListOK
      <3>3. nx[x] # e /\ nx2[x] = nx[x]
        BY <3>1 DEF ListOK
      <3> QED BY <3>2, <3>3
    <2> QED BY <2>1, <2>2
  <1>4. \A a, b \in M : nx2[a] = nx2[b] => a = b \/ nx2[a] = NULL
    BY DEF ListOK
  <1>5. \A a \in M : nx2[a] # e
    BY DEF ListOK
  <1> HIDE DEF M
  <1>6. e \in M
    BY DEF M
  <1>7. ListOK(e, nx2, M)
    BY <1>1, <1>2, <1>3, <1>4, <1>5, <1>6 DEF ListOK
  <1> QED BY <1>7 DEF M

\* One node less, its predecessor or the head pointing past it.
LEMMA ListDrop ==
    ASSUME NEW hd, NEW nx, NEW nx2, NEW L, ListOK(hd, nx, L), NULL \notin L, NEW x \in L,
           NEW hd2, hd2 = IF hd = x THEN nx[x] ELSE hd,
           \A e \in L \ {x} : nx2[e] = IF nx[e] = x THEN nx[x] ELSE nx[e]
    PROVE  ListOK(hd2, nx2, L \ {x})
  <1> DEFINE M == L \ {x}
  <1>0. nx[x] # x
    <2>1. {x} \in SUBSET L /\ {x} # {}
      OBVIOUS
    <2>2. \E e \in {x} : nx[e] \notin {x}
      BY <2>1 DEF ListOK
    <2> QED BY <2>2
  <1>1. hd2 \in M \cup {NULL} /\ \A e \in M : nx2[e] \in M \cup {NULL}
    BY <1>0 DEF ListOK
  <1>2. ASSUME NEW T \in SUBSET M, hd2 \in T \cup {NULL}, \A e \in T : nx2[e] \in T \cup {NULL}
        PROVE  T = M
    <2>1. CASE hd = x \/ \E p \in T : nx[p] = x
      <3>1. nx[x] \in T \cup {NULL}
        BY <1>2, <2>1
      <3>2. hd \in (T \cup {x}) \cup {NULL} /\ \A e \in T \cup {x} : nx[e] \in (T \cup {x}) \cup {NULL}
        BY <1>2, <3>1
      <3>3. T \cup {x} \in SUBSET L
        OBVIOUS
      <3>4. T \cup {x} = L
        BY <3>2, <3>3 DEF ListOK
      <3> QED BY <3>4
    <2>2. CASE hd # x /\ \A p \in T : nx[p] # x
      <3>1. hd \in T \cup {NULL} /\ \A e \in T : nx[e] \in T \cup {NULL}
        BY <1>2, <2>2
      <3>2. T = L
        BY <3>1 DEF ListOK
      <3> QED BY <3>2
    <2> QED BY <2>1, <2>2
  <1>3. ASSUME NEW T \in SUBSET M, T # {} PROVE \E e \in T : nx2[e] \notin T
    <2>1. SUFFICES ASSUME \A e \in T : nx2[e] \in T PROVE FALSE
      OBVIOUS
    <2>2. CASE \E p \in T : nx[p] = x
      <3>1. nx[x] \in T
        BY <2>1, <2>2
      <3>2. \A e \in T \cup {x} : nx[e] \in T \cup {x}
        BY <2>1, <3>1
      <3>3. T \cup {x} \in SUBSET L /\ T \cup {x} # {}
        OBVIOUS
      <3> QED BY <3>2, <3>3 DEF ListOK
    <2>3. CASE \A p \in T : nx[p] # x
      <3>1. \A e \in T : nx[e] \in T
        BY <2>1, <2>3
      <3> QED BY <1>3, <3>1 DEF ListOK
    <2> QED BY <2>2, <2>3
  <1>4. \A a, b \in M : nx2[a] = nx2[b] => a = b \/ nx2[a] = NULL
    BY DEF ListOK
  <1>5. \A a \in M : nx2[a] = hd2 => hd2 = NULL
    BY DEF ListOK
  <1> HIDE DEF M
  <1>6. ListOK(hd2, nx2, M)
    BY <1>1, <1>2, <1>3, <1>4, <1>5 DEF ListOK
  <1> QED BY <1>6 DEF M

\* F follows the pointers from hd for MaxEntry hops.
Hops(F, hd, nx) ==
    /\ F[0] = hd
    /\ \A n \in 0 .. (MaxEntry - 1) : F[n + 1] = IF F[n] = NULL THEN NULL ELSE nx[F[n]]

\* The first m hops meet the nodes of the list L.
WholeList(F, m, hd, nx, L) ==
    /\ Path(F, m, hd, nx, L) /\ {F[n] : n \in 0 .. (m - 1)} = L
    /\ \A n \in 0 .. MaxEntry : F[n] # NULL <=> n < m

\* A list ends within MaxEntry hops, after all its nodes.
LEMMA ListPath ==
    ASSUME NEW hd, NEW nx \in [Entry -> Entry0], NEW L \in SUBSET Entry, ListOK(hd, nx, L),
           NEW F, Hops(F, hd, nx)
    PROVE  \E m \in 0 .. MaxEntry : WholeList(F, m, hd, nx, L)
  <1> USE DEF Hops
  <1>1. MaxEntry \in Nat /\ NULL \notin L
    BY IoAssumption DEF Entry, NULL
  <1>2. ASSUME NEW n \in 0 .. MaxEntry PROVE F[n] \in L \cup {NULL}
    <2> DEFINE Bad == {k \in 0 .. MaxEntry : F[k] \notin L \cup {NULL}}
    <2>1. SUFFICES ASSUME Bad # {} PROVE FALSE
      OBVIOUS
    <2>2. PICK k \in Bad : \A y \in Bad : k <= y
      <3>1. Bad \in SUBSET Nat
        BY <1>1
      <3> QED BY <2>1, <3>1, NatMin
    <2>3. k # 0
      BY DEF ListOK
    <2>4. k - 1 \in 0 .. (MaxEntry - 1) /\ k - 1 \in 0 .. MaxEntry /\ k - 1 \notin Bad
          /\ (k - 1) + 1 = k
      BY <1>1, <2>2, <2>3
    <2>5. F[k - 1] \in L \cup {NULL} /\ F[k] = IF F[k - 1] = NULL THEN NULL ELSE nx[F[k - 1]]
      BY <2>4
    <2> QED BY <2>5 DEF ListOK
  <1>3. \E n \in 0 .. MaxEntry : F[n] = NULL
    <2>1. SUFFICES ASSUME \A n \in 0 .. MaxEntry : F[n] # NULL PROVE FALSE
      OBVIOUS
    <2> DEFINE f == [n \in 0 .. MaxEntry |-> F[n]]
    <2>2. IsFiniteSet(0 .. MaxEntry) /\ Cardinality(0 .. MaxEntry) = MaxEntry + 1
      BY <1>1, FS_Interval
    <2>3. IsFiniteSet(Entry) /\ Cardinality(Entry) = MaxEntry
      BY <1>1, FS_Interval DEF Entry
    <2>4. f \in [0 .. MaxEntry -> Entry]
      BY <1>2, <2>1
    <2>5. Cardinality(Entry) < Cardinality(0 .. MaxEntry)
      BY <1>1, <2>2, <2>3
    <2>6. \E i, j \in 0 .. MaxEntry : i # j /\ f[i] = f[j]
      <3>1. PICK A, B : A = 0 .. MaxEntry /\ B = Entry
        OBVIOUS
      <3>2. /\ IsFiniteSet(A) /\ IsFiniteSet(B) /\ Cardinality(B) < Cardinality(A)
            /\ f \in [A -> B]
        BY <2>2, <2>3, <2>4, <2>5, <3>1
      <3> HIDE DEF f
      <3>3. \E i, j \in A : i # j /\ f[i] = f[j]
        BY <3>2, FS_PigeonHole
      <3> QED BY <3>1, <3>3
    <2>7. PICK i \in 0 .. MaxEntry, j \in 0 .. MaxEntry : i < j /\ F[i] = F[j]
      <3>1. PICK i \in 0 .. MaxEntry, j \in 0 .. MaxEntry : i # j /\ F[i] = F[j]
        BY <2>6
      <3>2. i < j \/ j < i
        BY <1>1, <3>1
      <3> QED BY <3>1, <3>2
    <2> DEFINE T == {F[n] : n \in i .. (j - 1)}
    <2>8. T \in SUBSET L /\ T # {}
      <3>1. i \in i .. (j - 1) /\ \A n \in i .. (j - 1) : n \in 0 .. MaxEntry
        BY <1>1, <2>7
      <3> QED BY <1>2, <2>1, <3>1
    <2>9. ASSUME NEW n \in i .. (j - 1) PROVE nx[F[n]] \in T
      <3>1. n \in 0 .. (MaxEntry - 1) /\ n \in 0 .. MaxEntry
        BY <1>1, <2>7
      <3>2. F[n + 1] = nx[F[n]]
        BY <2>1, <3>1
      <3>3. CASE n = j - 1
        <4>1. n + 1 = j /\ i \in i .. (j - 1)
          BY <1>1, <2>7, <3>3
        <4> QED BY <2>7, <3>2, <4>1
      <3>4. CASE n # j - 1
        <4>1. n + 1 \in i .. (j - 1)
          BY <1>1, <2>7, <3>4
        <4> QED BY <3>2, <4>1
      <3> QED BY <3>3, <3>4
    <2>10. \A e \in T : nx[e] \in T
      BY <2>9
    <2> HIDE DEF T
    <2> QED BY <2>8, <2>10 DEF ListOK
  <1>4. PICK m \in 0 .. MaxEntry : F[m] = NULL /\ \A n \in 0 .. MaxEntry : F[n] = NULL => m <= n
    <2> DEFINE Z == {n \in 0 .. MaxEntry : F[n] = NULL}
    <2>1. Z \in SUBSET Nat /\ Z # {}
      BY <1>1, <1>3
    <2>2. PICK m \in Z : \A y \in Z : m <= y
      BY <2>1, NatMin
    <2> QED BY <2>2
  <1>5. \A n \in 0 .. MaxEntry : F[n] # NULL <=> n < m
    <2> DEFINE Bad == {n \in 0 .. MaxEntry : n >= m /\ F[n] # NULL}
    <2>1. Bad = {}
      <3>1. SUFFICES ASSUME Bad # {} PROVE FALSE
        OBVIOUS
      <3>2. PICK k \in Bad : \A y \in Bad : k <= y
        <4>1. Bad \in SUBSET Nat
          BY <1>1
        <4> QED BY <3>1, <4>1, NatMin
      <3>3. k # m
        BY <1>4
      <3>4. k - 1 \in 0 .. (MaxEntry - 1) /\ k - 1 \in 0 .. MaxEntry /\ k - 1 >= m
            /\ k - 1 \notin Bad /\ (k - 1) + 1 = k
        BY <1>1, <3>2, <3>3
      <3>5. F[k - 1] = NULL
        BY <3>4
      <3>6. F[k] = NULL
        BY <3>4, <3>5
      <3> QED BY <3>6
    <2>2. ASSUME NEW n \in 0 .. MaxEntry PROVE F[n] # NULL <=> n < m
      <3>1. n < m => F[n] # NULL
        BY <1>1, <1>4
      <3>2. n >= m => F[n] = NULL
        BY <2>1
      <3> QED BY <1>1, <3>1, <3>2
    <2> QED BY <2>2
  <1>6. ASSUME NEW n \in 0 .. (m - 1)
        PROVE  F[n] \in L /\ F[n + 1] = nx[F[n]] /\ n \in 0 .. MaxEntry
    <2>1. n \in 0 .. MaxEntry /\ n \in 0 .. (MaxEntry - 1) /\ n < m
      BY <1>1
    <2> QED BY <1>2, <1>5, <2>1
  <1>7. Path(F, m, hd, nx, L)
    BY <1>4, <1>6 DEF Path
  <1> DEFINE T == {F[n] : n \in 0 .. (m - 1)}
  <1>8. T = L
    <2>1. T \in SUBSET L
      BY <1>6
    <2>2. hd \in T \cup {NULL}
      <3>1. CASE m = 0
        BY <1>4, <3>1
      <3>2. CASE m # 0
        <4>1. 0 \in 0 .. (m - 1)
          BY <1>1, <3>2
        <4> QED BY <4>1
      <3> QED BY <3>1, <3>2
    <2>3. ASSUME NEW n \in 0 .. (m - 1) PROVE nx[F[n]] \in T \cup {NULL}
      <3>1. CASE n = m - 1
        <4>1. n + 1 = m
          BY <1>1, <3>1
        <4> QED BY <1>4, <1>6, <4>1
      <3>2. CASE n # m - 1
        <4>1. n + 1 \in 0 .. (m - 1)
          BY <1>1, <3>2
        <4> QED BY <1>6, <4>1
      <3> QED BY <3>1, <3>2
    <2>4. \A e \in T : nx[e] \in T \cup {NULL}
      BY <2>3
    <2> HIDE DEF T
    <2> QED BY <2>1, <2>2, <2>4 DEF ListOK
  <1> QED
    BY <1>5, <1>7, <1>8 DEF WholeList

\* f is a solution of the recursive definition of at in Chain.
ChainEq(f, s) ==
    f = [n \in 0 .. MaxEntry |->
            IF n = 0 THEN head[s] ELSE IF f[n - 1] = NULL THEN NULL ELSE next[f[n - 1]]]

LEMMA ChainEqExists ==
    ASSUME NEW s, next \in [Entry -> Entry0], head[s] \in Entry0
    PROVE  \E f : ChainEq(f, s)
  <1> DEFINE N == [x \in Entry0 |-> IF x = NULL THEN NULL ELSE next[x]]
  <1>0. MaxEntry \in Nat
    BY IoAssumption
  <1>1. \A x \in Entry0 : N[x] \in Entry0
    BY DEF Entry0
  <1>2. PICK F : Solves(F, N, head[s])
    BY IterateExists
  <1>3. \A k \in Nat : F[k] = IF k = 0 THEN head[s] ELSE N[F[k - 1]]
    <2> HIDE DEF N
    <2> QED BY <1>2 DEF Solves
  <1>4. \A k \in Nat : F[k] \in Entry0
    <2> DEFINE Bad == {k \in Nat : F[k] \notin Entry0}
    <2>1. SUFFICES ASSUME Bad # {} PROVE FALSE
      OBVIOUS
    <2>2. PICK k \in Bad : \A y \in Bad : k <= y
      <3>1. Bad \in SUBSET Nat
        OBVIOUS
      <3> QED BY <2>1, <3>1, NatMin
    <2> HIDE DEF N
    <2>3. k # 0
      BY <1>3
    <2>4. k - 1 \in Nat /\ k - 1 \notin Bad
      BY <2>2, <2>3
    <2>5. F[k] = N[F[k - 1]] /\ F[k - 1] \in Entry0
      BY <1>3, <2>3, <2>4
    <2> QED BY <1>1, <2>5
  <1> DEFINE f == [n \in 0 .. MaxEntry |-> F[n]]
  <1>5. ASSUME NEW n \in 0 .. MaxEntry
        PROVE  f[n] = IF n = 0 THEN head[s] ELSE IF f[n - 1] = NULL THEN NULL ELSE next[f[n - 1]]
    <2>1. CASE n = 0
      BY <1>0, <1>3, <2>1
    <2>2. CASE n # 0
      <3>1. n - 1 \in 0 .. MaxEntry /\ n - 1 \in Nat /\ n \in Nat
        BY <1>0, <2>2
      <3>2. F[n] = N[F[n - 1]] /\ F[n - 1] \in Entry0
        BY <1>3, <1>4, <2>2, <3>1
      <3>3. F[n] = IF F[n - 1] = NULL THEN NULL ELSE next[F[n - 1]]
        BY <3>2
      <3> QED BY <2>2, <3>1, <3>3
    <2> QED BY <2>1, <2>2
  <1>6. ChainEq(f, s)
    BY <1>5 DEF ChainEq
  <1> QED BY <1>6

\* p[0], ..., p[m - 1] is the list of space s, and Chain is that path.
Visits(s, m, p, L) ==
    /\ Path(p, m, head[s], next, L) /\ {p[n] : n \in 0 .. (m - 1)} = L
    /\ Chain(s) = [n \in 1 .. m |-> p[n - 1]]

\* What Chain computes.
LEMMA ChainPath ==
    ASSUME NEW s, next \in [Entry -> Entry0], head[s] \in Entry0,
           NEW L \in SUBSET Entry, ListOK(head[s], next, L)
    PROVE  \E m \in 0 .. MaxEntry : \E p : Visits(s, m, p, L)
  <1>0. MaxEntry \in Nat
    BY IoAssumption
  <1> DEFINE G == CHOOSE f : ChainEq(f, s)
             glen == Cardinality({n \in 0 .. MaxEntry : G[n] # NULL})
  <1>a. ChainEq(G, s)
    BY ChainEqExists
  <1>b. Chain(s) = [n \in 1 .. glen |-> G[n - 1]]
    BY Zenon DEF Chain, ChainEq
  <1> HIDE DEF G
  <1>c. PICK F : F = G
    OBVIOUS
  <1> DEFINE len == Cardinality({n \in 0 .. MaxEntry : F[n] # NULL})
  <1>1. ChainEq(F, s)
    BY <1>a, <1>c
  <1>2. Chain(s) = [n \in 1 .. len |-> F[n - 1]]
    BY <1>b, <1>c
  <1>3. F[0] = head[s]
    BY <1>0, <1>1 DEF ChainEq
  <1>4. ASSUME NEW n \in 0 .. (MaxEntry - 1)
        PROVE  F[n + 1] = IF F[n] = NULL THEN NULL ELSE next[F[n]]
    <2>1. n + 1 \in 0 .. MaxEntry /\ n + 1 # 0 /\ (n + 1) - 1 = n
      BY <1>0
    <2>2. F[n + 1] = IF n + 1 = 0 THEN head[s]
                     ELSE IF F[(n + 1) - 1] = NULL THEN NULL ELSE next[F[(n + 1) - 1]]
      BY <1>1, <2>1 DEF ChainEq
    <2> QED BY <2>1, <2>2
  <1>5. PICK m \in 0 .. MaxEntry :
              /\ Path(F, m, head[s], next, L) /\ {F[n] : n \in 0 .. (m - 1)} = L
              /\ \A n \in 0 .. MaxEntry : F[n] # NULL <=> n < m
    <2>1. Hops(F, head[s], next)
      BY <1>3, <1>4 DEF Hops
    <2>2. PICK hd, nx : hd = head[s] /\ nx = next
      OBVIOUS
    <2>3. nx \in [Entry -> Entry0] /\ ListOK(hd, nx, L) /\ Hops(F, hd, nx)
      BY <2>1, <2>2
    <2>4. \E m \in 0 .. MaxEntry : WholeList(F, m, hd, nx, L)
      BY <2>3, ListPath
    <2> QED BY <2>2, <2>4 DEF WholeList
  <1>6. {n \in 0 .. MaxEntry : F[n] # NULL} = 0 .. (m - 1)
    BY <1>0, <1>5
  <1>7. Cardinality(0 .. (m - 1)) = m
    BY <1>0, FS_Interval
  <1>8. len = m
    BY <1>6, <1>7
  <1> QED BY <1>2, <1>5, <1>8 DEF Visits

LEMMA LinkedExact ==
    ASSUME NEW s, next \in [Entry -> Entry0], head[s] \in Entry0,
           NEW L \in SUBSET Entry, ListOK(head[s], next, L)
    PROVE  Linked(s) = L
  <1>0. MaxEntry \in Nat
    BY IoAssumption
  <1>u. PICK m \in 0 .. MaxEntry : \E p : Visits(s, m, p, L)
    BY ChainPath
  <1>v. PICK p : Visits(s, m, p, L)
    BY <1>u
  <1>1. /\ Path(p, m, head[s], next, L) /\ {p[n] : n \in 0 .. (m - 1)} = L
        /\ Chain(s) = [n \in 1 .. m |-> p[n - 1]]
    BY <1>v DEF Visits
  <1>2. Linked(s) = {p[n - 1] : n \in 1 .. m}
    BY <1>1 DEF Linked
  <1>3. {p[n - 1] : n \in 1 .. m} = {p[n] : n \in 0 .. (m - 1)}
    <2>1. ASSUME NEW n \in 1 .. m PROVE p[n - 1] \in {p[k] : k \in 0 .. (m - 1)}
      <3>1. n - 1 \in 0 .. (m - 1)
        BY <1>0
      <3> QED BY <3>1
    <2>2. ASSUME NEW n \in 0 .. (m - 1) PROVE p[n] \in {p[k - 1] : k \in 1 .. m}
      <3>1. n + 1 \in 1 .. m /\ (n + 1) - 1 = n
        BY <1>0
      <3> QED BY <3>1
    <2> QED BY <2>1, <2>2
  <1> QED BY <1>1, <1>2, <1>3

\* The reference answer is the answer to the whole path.
LEMMA ReferenceAnswers ==
    ASSUME NEW s, NEW a, NEW m \in Nat, NEW p, Chain(s) = [n \in 1 .. m |-> p[n - 1]]
    PROVE  Answers(p, m, entry, s, a, Reference(s, a))
  <1> DEFINE c == Chain(s)
             hits == {i \in 1 .. m : Covers(entry[p[i - 1]], a)}
  <1>1. DOMAIN c = 1 .. m /\ \A i \in 1 .. m : c[i] = p[i - 1]
    OBVIOUS
  <1>2. {i \in DOMAIN c : Covers(entry[c[i]], a)} = hits
    BY <1>1
  <1>3. Reference(s, a) = IF hits = {} THEN Unhandled(s)
            ELSE DeviceRead(entry[c[CHOOSE i \in hits : \A j \in hits : i <= j]].device, a)
    <2> DEFINE H == {i \in DOMAIN Chain(s) : Covers(entry[Chain(s)[i]], a)}
    <2>2. Reference(s, a) = IF H = {} THEN Unhandled(s)
            ELSE DeviceRead(entry[Chain(s)[CHOOSE i \in H : \A j \in H : i <= j]].device, a)
      BY Zenon DEF Reference
    <2>3. H = hits
      BY <1>2
    <2> HIDE DEF hits, H
    <2> QED BY <2>2, <2>3, Zenon
  <1>4. CASE hits = {}
    <2>1. ASSUME NEW n \in 0 .. (m - 1) PROVE ~Covers(entry[p[n]], a)
      <3>1. n + 1 \in 1 .. m /\ (n + 1) - 1 = n
        OBVIOUS
      <3> QED BY <1>4, <3>1
    <2> QED BY <1>3, <1>4, <2>1 DEF Answers
  <1>5. CASE hits # {}
    <2>1. hits \in SUBSET Nat
      OBVIOUS
    <2>2. \E i \in hits : \A j \in hits : i <= j
      BY <1>5, <2>1, NatMin
    <2>3. PICK i \in hits : i = (CHOOSE x \in hits : \A j \in hits : x <= j) /\ \A j \in hits : i <= j
      <3> HIDE DEF hits
      <3> QED BY <2>2
    <2>4. Reference(s, a) = DeviceRead(entry[p[i - 1]].device, a)
      BY <1>1, <1>3, <1>5, <2>3
    <2>5. i - 1 \in 0 .. (m - 1) /\ Covers(entry[p[i - 1]], a)
      OBVIOUS
    <2>6. ASSUME NEW j \in 0 .. ((i - 1) - 1) PROVE ~Covers(entry[p[j]], a)
      <3>1. j + 1 \in 1 .. m /\ (j + 1) - 1 = j /\ ~(i <= j + 1)
        OBVIOUS
      <3> QED BY <2>3, <3>1
    <2> QED BY <2>4, <2>5, <2>6 DEF Answers
  <1> QED BY <1>4, <1>5

-----------------------------------------------------------------------------
(* Accesses.                                                               *)

LEMMA QuietOK ==
    ASSUME NEW nx, NEW en, NEW al
    PROVE  AccessOK(Quiet, nx, en, al) /\ Quiet \in AccessState
  BY IoAssumption DEF AccessOK, Quiet, AccessState, Space, Entry0, Answer

\* A walk is not disturbed by what happens outside the allocated entries.
LEMMA AccessFrame ==
    ASSUME NEW x, NEW nx, NEW en, NEW al, AccessOK(x, nx, en, al),
           NEW nx2, NEW en2, NEW al2, al \subseteq al2,
           \A e \in al : nx2[e] = nx[e] /\ en2[e] = en[e]
    PROVE  AccessOK(x, nx2, en2, al2)
  <1>1. CASE x.op = "walk"
    <2>0. PICK m \in 0 .. MaxEntry :
              \E p \in [0 .. m -> Entry0] :
                  Path(p, m, x.at, nx, al) /\ Answers(p, m, en, x.space, x.addr, x.want)
      BY <1>1 DEF AccessOK
    <2>1. PICK p \in [0 .. m -> Entry0] :
              Path(p, m, x.at, nx, al) /\ Answers(p, m, en, x.space, x.addr, x.want)
      BY <2>0
    <2>2. Path(p, m, x.at, nx2, al2)
      BY <2>1 DEF Path
    <2>3. \A n \in 0 .. (m - 1) : en2[p[n]] = en[p[n]]
      BY <2>1 DEF Path
    <2>4. Answers(p, m, en2, x.space, x.addr, x.want)
      <3>1. CASE x.want = Unhandled(x.space) /\ \A n \in 0 .. (m - 1) : ~Covers(en[p[n]], x.addr)
        BY <2>3, <3>1 DEF Answers
      <3>2. ASSUME NEW n \in 0 .. (m - 1), Covers(en[p[n]], x.addr),
                   x.want = DeviceRead(en[p[n]].device, x.addr),
                   \A j \in 0 .. (n - 1) : ~Covers(en[p[j]], x.addr)
            PROVE  Answers(p, m, en2, x.space, x.addr, x.want)
        <4>1. m \in Nat /\ \A j \in 0 .. (n - 1) : j \in 0 .. (m - 1)
          BY IoAssumption
        <4>2. \A j \in 0 .. (n - 1) : ~Covers(en2[p[j]], x.addr)
          BY <2>3, <3>2, <4>1
        <4> QED BY <2>3, <3>2, <4>2 DEF Answers
      <3> QED BY <2>1, <3>1, <3>2 DEF Answers
    <2>5. x.op # "quiet" /\ x.op # "done"
      BY <1>1
    <2> QED BY <2>2, <2>4, <2>5 DEF AccessOK
  <1>2. CASE x.op # "walk"
    BY <1>2 DEF AccessOK
  <1> QED BY <1>1, <1>2

\* One iteration of the loop.
Advance(x, nx, en) ==
    IF x.at = NULL
    THEN [x EXCEPT !.op = "done", !.got = Unhandled(x.space)]
    ELSE IF Covers(en[x.at], x.addr)
    THEN [x EXCEPT !.op = "done", !.got = DeviceRead(en[x.at].device, x.addr)]
    ELSE [x EXCEPT !.at = nx[x.at]]

\* An iteration stays on the way to the same answer.
LEMMA WalkOK ==
    ASSUME NEW x \in AccessState, NEW nx \in [Entry -> Entry0], NEW en,
           en \in [Entry -> Handler \cup {Blank}],
           NEW al \in SUBSET Entry, AccessOK(x, nx, en, al), x.op = "walk",
           NEW y, y = Advance(x, nx, en)
    PROVE  y \in AccessState /\ AccessOK(y, nx, en, al)
  <1>0. MaxEntry \in Nat /\ NULL \notin Entry
    BY IoAssumption DEF Entry, NULL
  <1>a. PICK m \in 0 .. MaxEntry :
            \E p \in [0 .. m -> Entry0] :
                Path(p, m, x.at, nx, al) /\ Answers(p, m, en, x.space, x.addr, x.want)
    BY DEF AccessOK
  <1>1. PICK p \in [0 .. m -> Entry0] :
            Path(p, m, x.at, nx, al) /\ Answers(p, m, en, x.space, x.addr, x.want)
    BY <1>a
  <1>2. m \in Nat /\ p[0] = x.at /\ p[m] = NULL
    BY <1>0, <1>1 DEF Path
  <1>3. CASE x.at = NULL
    <2>1. m = 0
      <3>1. m # 0 => 0 \in 0 .. (m - 1)
        BY <1>2
      <3> QED BY <1>0, <1>1, <1>2, <1>3, <3>1 DEF Path
    <2>2. x.want = Unhandled(x.space)
      BY <1>1, <2>1 DEF Answers
    <2>3. Unhandled(x.space) \in Answer
      BY DEF Unhandled, Answer
    <2>4. y = [x EXCEPT !.op = "done", !.got = Unhandled(x.space)]
      BY <1>3 DEF Advance
    <2>5. y \in AccessState /\ y.op = "done" /\ y.got = y.want
      BY <2>2, <2>3, <2>4 DEF AccessState
    <2> QED BY <2>5 DEF AccessOK
  <1>4. CASE x.at # NULL /\ Covers(en[x.at], x.addr)
    <2>1. 0 \in 0 .. (m - 1)
      BY <1>2, <1>4
    <2>2. x.want = DeviceRead(en[x.at].device, x.addr)
      <3>1. PICK n \in 0 .. (m - 1) :
               /\ Covers(en[p[n]], x.addr) /\ x.want = DeviceRead(en[p[n]].device, x.addr)
               /\ \A j \in 0 .. (n - 1) : ~Covers(en[p[j]], x.addr)
        BY <1>1, <1>2, <1>4, <2>1 DEF Answers
      <3>2. n # 0 => 0 \in 0 .. (n - 1)
        BY <1>2
      <3>3. n = 0
        BY <1>2, <1>4, <3>1, <3>2
      <3> QED BY <1>2, <3>1, <3>3
    <2>3. y = [x EXCEPT !.op = "done", !.got = DeviceRead(en[x.at].device, x.addr)]
      BY <1>4 DEF Advance
    <2>4. x.want \in Answer
      BY DEF AccessState
    <2>5. y \in AccessState /\ y.op = "done" /\ y.got = y.want
      BY <2>2, <2>3, <2>4 DEF AccessState
    <2> QED BY <2>5 DEF AccessOK
  <1>5. CASE x.at # NULL /\ ~Covers(en[x.at], x.addr)
    <2>1. y = [x EXCEPT !.at = nx[x.at]]
      BY <1>5 DEF Advance
    <2>2. x.at \in Entry
      BY <1>5 DEF AccessState, Entry0
    <2>3. nx[x.at] \in Entry0
      BY <2>2
    <2>4. y \in AccessState
      BY <2>1, <2>3 DEF AccessState
    <2>5. y.op = "walk" /\ y.at = nx[x.at] /\ y.space = x.space /\ y.addr = x.addr
          /\ y.want = x.want
      BY <2>1 DEF AccessState
    <2>6. m # 0
      BY <1>2, <1>5
    <2> DEFINE k == m - 1
               q == [n \in 0 .. k |-> p[n + 1]]
    <2>7. k \in 0 .. MaxEntry /\ \A n \in 0 .. k : n + 1 \in 0 .. m
      BY <1>0, <1>2, <2>6
    <2>8. q \in [0 .. k -> Entry0]
      BY <2>7
    <2>9. Path(q, k, y.at, nx, al)
      <3>1. 0 \in 0 .. (m - 1) /\ 0 \in 0 .. k /\ k \in 0 .. k /\ 0 + 1 = 1 /\ k + 1 = m
        BY <1>2, <2>6
      <3>2. q[0] = nx[x.at]
        BY <1>1, <1>2, <3>1 DEF Path
      <3>3. q[k] = NULL
        BY <1>2, <3>1
      <3>4. ASSUME NEW n \in 0 .. (k - 1) PROVE q[n] \in al /\ q[n + 1] = nx[q[n]]
        <4>1. n \in 0 .. k /\ n + 1 \in 0 .. k /\ n + 1 \in 0 .. (m - 1)
          BY <1>2, <2>6
        <4>2. p[n + 1] \in al /\ p[(n + 1) + 1] = nx[p[n + 1]]
          BY <1>1, <4>1 DEF Path
        <4> QED BY <4>1, <4>2
      <3> QED BY <2>5, <3>2, <3>3, <3>4 DEF Path
    <2>10. Answers(q, k, en, x.space, x.addr, x.want)
      <3>1. CASE x.want = Unhandled(x.space) /\ \A n \in 0 .. (m - 1) : ~Covers(en[p[n]], x.addr)
        <4>1. ASSUME NEW n \in 0 .. (k - 1) PROVE ~Covers(en[q[n]], x.addr)
          <5>1. n \in 0 .. k /\ n + 1 \in 0 .. (m - 1)
            BY <1>2, <2>6
          <5> QED BY <3>1, <5>1
        <4> QED BY <3>1, <4>1 DEF Answers
      <3>2. ASSUME NEW n \in 0 .. (m - 1), Covers(en[p[n]], x.addr),
                   x.want = DeviceRead(en[p[n]].device, x.addr),
                   \A j \in 0 .. (n - 1) : ~Covers(en[p[j]], x.addr)
            PROVE  Answers(q, k, en, x.space, x.addr, x.want)
        <4>1. n # 0
          BY <1>2, <1>5, <3>2
        <4> DEFINE i == n - 1
        <4>2. i \in 0 .. (k - 1) /\ i \in 0 .. k /\ i + 1 = n
          BY <1>2, <2>6, <4>1
        <4>3. q[i] = p[n]
          BY <4>2
        <4>4. ASSUME NEW j \in 0 .. (i - 1) PROVE ~Covers(en[q[j]], x.addr)
          <5>1. j \in 0 .. k /\ j + 1 \in 0 .. (n - 1)
            BY <1>2, <4>1, <4>2
          <5> QED BY <3>2, <5>1
        <4> HIDE DEF i, q, k
        <4> QED BY <3>2, <4>2, <4>3, <4>4 DEF Answers
      <3> QED BY <1>1, <3>1, <3>2 DEF Answers
    <2> HIDE DEF q, k
    <2>11. Answers(q, k, en, y.space, y.addr, y.want)
      BY <2>5, <2>10
    <2>12. \E mm \in 0 .. MaxEntry : \E pp \in [0 .. mm -> Entry0] :
              Path(pp, mm, y.at, nx, al) /\ Answers(pp, mm, en, y.space, y.addr, y.want)
      BY <2>7, <2>8, <2>9, <2>11
    <2> QED BY <2>4, <2>5, <2>12 DEF AccessOK
  <1> QED BY <1>3, <1>4, <1>5

\* The start of an access: the reference answer is what the walk will get.
LEMMA StartOK ==
    ASSUME NEW s \in Space, NEW a \in Nat, next \in [Entry -> Entry0],
           entry \in [Entry -> Handler \cup {Blank}], allocated \in SUBSET Entry,
           head[s] \in Entry0, NEW L \in SUBSET Entry, ListOK(head[s], next, L), L \subseteq allocated,
           NEW y, y = [op |-> "walk", space |-> s, addr |-> a, at |-> head[s],
                       want |-> Reference(s, a), got |-> "none"]
    PROVE  y \in AccessState /\ AccessOK(y, next, entry, allocated)
  <1>u. PICK m \in 0 .. MaxEntry : \E p : Visits(s, m, p, L)
    BY ChainPath
  <1>v. PICK p : Visits(s, m, p, L)
    BY <1>u
  <1>1. /\ Path(p, m, head[s], next, L) /\ {p[n] : n \in 0 .. (m - 1)} = L
        /\ Chain(s) = [n \in 1 .. m |-> p[n - 1]]
    BY <1>v DEF Visits
  <1>2. m \in Nat
    BY IoAssumption
  <1>3. Answers(p, m, entry, s, a, Reference(s, a))
    BY <1>1, <1>2, ReferenceAnswers
  <1>4. Reference(s, a) \in Answer
    <2>1. CASE Reference(s, a) = Unhandled(s)
      BY <2>1 DEF Unhandled, Answer
    <2>2. ASSUME NEW n \in 0 .. (m - 1), Reference(s, a) = DeviceRead(entry[p[n]].device, a)
          PROVE  Reference(s, a) \in Answer
      <3>1. entry[p[n]] \in Handler \cup {Blank}
        BY <1>1 DEF Path
      <3>2. entry[p[n]].device \in Answer
        BY <3>1 DEF Answer, Blank, PortRange
      <3>3. \A d \in Answer : DeviceRead(d, a) \in Answer
        <4>1. {"zero", "ones"} \subseteq Answer
          BY DEF Answer
        <4> QED BY <4>1 DEF DeviceRead, cmos_read, ps2_keyboard_read, pit_read, uart_read, vga_read
      <3> QED BY <2>2, <3>2, <3>3
    <2> QED BY <1>3, <2>1, <2>2 DEF Answers
  <1>5. y \in AccessState
    BY <1>4 DEF AccessState, Answer
  <1>6. y.op = "walk" /\ y.space = s /\ y.addr = a /\ y.at = head[s] /\ y.want = Reference(s, a)
    OBVIOUS
  <1> DEFINE q == [n \in 0 .. m |-> p[n]]
  <1>7. \A n \in 0 .. (m - 1) : n \in 0 .. m /\ n + 1 \in 0 .. m
    BY <1>2
  <1>8. 0 \in 0 .. m /\ m \in 0 .. m
    BY <1>2
  <1>9. q \in [0 .. m -> Entry0]
    <2>1. ASSUME NEW n \in 0 .. m PROVE p[n] \in Entry0
      <3>1. n = m \/ n \in 0 .. (m - 1)
        BY <1>2
      <3> QED BY <1>1, <3>1 DEF Path, Entry0
    <2> QED BY <2>1
  <1>10. Path(q, m, head[s], next, allocated)
    BY <1>1, <1>7, <1>8 DEF Path
  <1>11. Answers(q, m, entry, s, a, Reference(s, a))
    <2>1. CASE Reference(s, a) = Unhandled(s) /\ \A n \in 0 .. (m - 1) : ~Covers(entry[p[n]], a)
      BY <1>7, <2>1 DEF Answers
    <2>2. ASSUME NEW n \in 0 .. (m - 1), Covers(entry[p[n]], a),
                 Reference(s, a) = DeviceRead(entry[p[n]].device, a),
                 \A j \in 0 .. (n - 1) : ~Covers(entry[p[j]], a)
          PROVE  Answers(q, m, entry, s, a, Reference(s, a))
      <3>1. \A j \in 0 .. (n - 1) : j \in 0 .. m
        BY <1>2
      <3>2. q[n] = p[n] /\ \A j \in 0 .. (n - 1) : q[j] = p[j]
        BY <1>7, <3>1
      <3> HIDE DEF q
      <3> QED BY <2>2, <3>2 DEF Answers
    <2> QED BY <1>3, <2>1, <2>2 DEF Answers
  <1> HIDE DEF q
  <1>12. Path(q, m, y.at, next, allocated) /\ Answers(q, m, entry, y.space, y.addr, y.want)
    BY <1>6, <1>10, <1>11
  <1> QED BY <1>5, <1>6, <1>9, <1>12 DEF AccessOK

\* hd2, nx2: the list of space s, with nodes L, without its i-th entry.
UnlinkShape(s, L, i, hd2, nx2) ==
    /\ next \in [Entry -> Entry0] /\ head[s] \in Entry0
    /\ L \in SUBSET Entry /\ ListOK(head[s], next, L) /\ i \in DOMAIN Chain(s)
    /\ hd2 = IF i = 1 THEN next[Chain(s)[1]] ELSE head[s]
    /\ nx2 = [e \in Entry |-> IF i > 1 /\ e = Chain(s)[i - 1] THEN next[Chain(s)[i]]
                              ELSE IF e = Chain(s)[i] THEN NULL ELSE next[e]]

Unlinked(s, L, i, hd2, nx2, x) ==
    /\ x = Chain(s)[i] /\ ListOK(hd2, nx2, L \ {x})
    /\ \A e \in Entry \ L : nx2[e] = next[e]
    /\ hd2 \in Entry0 /\ nx2 \in [Entry -> Entry0]

\* What unlinking the i-th entry of a list does to the pointers of the list.
LEMMA UnlinkOK ==
    ASSUME NEW s, NEW L, NEW i, NEW hd2, NEW nx2, UnlinkShape(s, L, i, hd2, nx2)
    PROVE  \E x \in L : Unlinked(s, L, i, hd2, nx2, x)
  <1> USE DEF UnlinkShape
  <1>c. PICK c : c = Chain(s)
    OBVIOUS
  <1>d. /\ i \in DOMAIN c /\ hd2 = IF i = 1 THEN next[c[1]] ELSE head[s]
        /\ nx2 = [e \in Entry |-> IF i > 1 /\ e = c[i - 1] THEN next[c[i]]
                                  ELSE IF e = c[i] THEN NULL ELSE next[e]]
    BY <1>c
  <1>e. /\ next \in [Entry -> Entry0] /\ head[s] \in Entry0
        /\ L \in SUBSET Entry /\ ListOK(head[s], next, L)
    OBVIOUS
  <1> HIDE DEF UnlinkShape
  <1>u. PICK m \in 0 .. MaxEntry : \E p : Visits(s, m, p, L)
    BY <1>e, ChainPath
  <1>v. PICK p : Visits(s, m, p, L)
    BY <1>u
  <1>1. /\ Path(p, m, head[s], next, L) /\ {p[n] : n \in 0 .. (m - 1)} = L
        /\ Chain(s) = [n \in 1 .. m |-> p[n - 1]]
    BY <1>v DEF Visits
  <1>2. m \in Nat /\ NULL \notin L
    BY <1>e, IoAssumption DEF Entry, NULL
  <1>3. i \in 1 .. m /\ \A k \in 1 .. m : c[k] = p[k - 1]
    BY <1>1, <1>c, <1>d
  <1>4. i - 1 \in 0 .. (m - 1) /\ c[i] = p[i - 1]
    BY <1>2, <1>3
  <1>5. PICK x \in L : x = c[i]
    BY <1>1, <1>4
  <1> USE <1>d, <1>e
  <1>6. CASE i = 1
    <2>1. head[s] = x
      BY <1>1, <1>4, <1>5, <1>6 DEF Path
    <2>2. hd2 = next[x]
      BY <1>5, <1>6
    <2>3. \A e \in L : next[e] # x
      BY <1>2, <2>1 DEF ListOK
    <2>4. ASSUME NEW e \in Entry PROVE nx2[e] = IF e = x THEN NULL ELSE next[e]
      BY <1>5, <1>6
    <2>5. \A e \in L \ {x} : nx2[e] = IF next[e] = x THEN next[x] ELSE next[e]
      BY <2>3, <2>4
    <2>6. hd2 = IF head[s] = x THEN next[x] ELSE head[s]
      BY <2>1, <2>2
    <2>7. ListOK(hd2, nx2, L \ {x})
      BY <1>2, <2>5, <2>6, ListDrop
    <2>8. \A e \in Entry \ L : nx2[e] = next[e]
      BY <2>4
    <2>9. hd2 \in Entry0 /\ nx2 \in [Entry -> Entry0]
      BY <2>2, <2>4 DEF Entry0
    <2> QED BY <1>5, <1>c, <2>7, <2>8, <2>9 DEF Unlinked
  <1>7. CASE i # 1
    <2>1. i > 1 /\ (i - 1) - 1 \in 0 .. (m - 1) /\ i - 1 \in 1 .. m /\ ((i - 1) - 1) + 1 = i - 1
      BY <1>2, <1>3, <1>7
    <2>2. PICK b \in L : b = c[i - 1] /\ next[b] = x
      <3>1. c[i - 1] = p[(i - 1) - 1]
        BY <1>3, <2>1
      <3> QED BY <1>1, <1>4, <1>5, <2>1, <3>1 DEF Path
    <2>3. head[s] # x
      BY <1>2, <2>2 DEF ListOK
    <2>4. \A e \in L : next[e] = x => e = b
      BY <1>2, <2>2 DEF ListOK
    <2>5. ASSUME NEW e \in Entry
          PROVE  nx2[e] = IF e = b THEN next[x] ELSE IF e = x THEN NULL ELSE next[e]
      BY <1>5, <2>1, <2>2
    <2>6. \A e \in L \ {x} : nx2[e] = IF next[e] = x THEN next[x] ELSE next[e]
      BY <2>2, <2>4, <2>5
    <2>7. hd2 = IF head[s] = x THEN next[x] ELSE head[s]
      BY <1>7, <2>3
    <2>8. ListOK(hd2, nx2, L \ {x})
      BY <1>2, <2>6, <2>7, ListDrop
    <2>9. \A e \in Entry \ L : nx2[e] = next[e]
      BY <2>2, <2>5
    <2>10. hd2 \in Entry0 /\ nx2 \in [Entry -> Entry0]
      BY <1>7, <2>5 DEF Entry0
    <2> QED BY <1>5, <1>c, <2>8, <2>9, <2>10 DEF Unlinked
  <1> QED BY <1>6, <1>7

-----------------------------------------------------------------------------
(* The invariant, action by action.                                        *)

CallState == [op : {"idle", "scheduler", "hypercall", "ept", "io", "defaults", "publish"},
              i : Entry \cup 0 .. (DefaultCount + 1), space : Space]

\* The values of the variables, without what relates them.
Typed ==
    /\ g_initialized \in BOOLEAN /\ g_hypervisor \in BOOLEAN
    /\ up \subseteq Subsystem
    /\ head \in [Space -> Entry0]
    /\ entry \in [Entry -> Handler \cup {Blank}]
    /\ next \in [Entry -> Entry0]
    /\ allocated \in SUBSET Entry
    /\ call \in CallState
    /\ access \in [Thread -> AccessState]

LEMMA TypedOK == ASSUME NEW L, IoInv(L) PROVE Typed
  BY DEF IoInv, TypeOK, Typed, Entry0, CallState

LEMMA IdleTyped ==
    /\ Idle.op = "idle" /\ Idle.i = 0 /\ Idle.space = "io"
    /\ Idle \in CallState
  BY IoAssumption DEF Idle, Space, CallState

LEMMA EmptyList == ASSUME NEW nx PROVE ListOK(NULL, nx, {})
  BY DEF ListOK

\* With no thread in an access nothing is asked of the entries.
LEMMA CalmOK ==
    ASSUME Calm, NEW nx, NEW en, NEW al
    PROVE  \A t \in Thread : AccessOK(access[t], nx, en, al)
  BY QuietOK DEF Calm

LEMMA InitLists == Init => SomeLists
  <1>0. SUFFICES ASSUME Init PROVE SomeLists
    OBVIOUS
  <1> DEFINE L == [s \in Space |-> {}]
  <1>1. L \in Lists
    BY DEF Lists
  <1>2. Calm /\ ~Live /\ PhaseOK
    BY <1>0, IdleTyped DEF Init, Calm, Live, PhaseOK
  <1>3. \A t \in Thread : AccessOK(access[t], next, entry, allocated)
    BY <1>2, CalmOK
  <1>4. access \in [Thread -> AccessState]
    BY <1>0, QuietOK DEF Init
  <1>5. call \in CallState
    BY <1>0, IdleTyped DEF Init
  <1>6. \A t \in Thread : access[t].at \in Entry \cup {NULL}
    BY <1>0 DEF Init, Quiet
  <1>7. TypeOK
    BY <1>0, <1>5, <1>6 DEF Init, TypeOK, Subsystem, CallState
  <1>8. IoInv(L)
    BY <1>0, <1>2, <1>3, <1>4, <1>7 DEF Init, IoInv
  <1> QED BY <1>1, <1>8 DEF SomeLists

\* A step of hypervisor_init before I/O emulation comes up.
LEMMA InitSteps ==
    ASSUME NEW L \in Lists, IoInv(L),
           hypervisor_init \/ scheduler_init \/ hypercall_init \/ ept_init
    PROVE  SomeLists'
  <1>1. Typed
    BY TypedOK
  <1>2. UNCHANGED <<g_initialized, head, entry, next, allocated, access>>
    BY DEF hypervisor_init, scheduler_init, hypercall_init, ept_init, listVars
  <1>3. ~g_initialized /\ ~Live
    BY IdleTyped DEF IoInv, PhaseOK, Live, hypervisor_init, scheduler_init, hypercall_init, ept_init
  <1>4. /\ call' \in CallState
        /\ call'.op = "idle" => call' = Idle
        /\ g_hypervisor' \in BOOLEAN /\ up' \subseteq Subsystem /\ "io" \notin up'
        /\ PhaseOK' /\ ~Live'
    <2>1. ASSUME NEW o \in {"scheduler", "hypercall", "ept", "io"}, call' = [Idle EXCEPT !.op = o]
          PROVE  call' \in CallState /\ call'.op = o
      BY <2>1, IoAssumption DEF Idle, CallState, Space
    <2>2. CASE hypervisor_init
      <3>1. call' \in CallState /\ call'.op = "scheduler"
        BY <2>1, <2>2 DEF hypervisor_init
      <3>2. g_hypervisor' /\ up' = {}
        BY <1>3, <2>2, IdleTyped DEF hypervisor_init, IoInv, PhaseOK
      <3> QED BY <1>2, <1>3, <3>1, <3>2 DEF PhaseOK, Live
    <2>3. CASE GiveUp({})
      <3>1. call' = Idle /\ g_hypervisor' = FALSE /\ up' = {}
        BY <2>3 DEF GiveUp
      <3> QED BY <1>2, <1>3, <3>1, IdleTyped DEF PhaseOK, Live
    <2>4. CASE scheduler_init /\ ~GiveUp({})
      <3>1. call' \in CallState /\ call'.op = "hypercall"
        BY <2>1, <2>4 DEF scheduler_init
      <3>2. g_hypervisor' /\ up' = {"scheduler"}
        <4>1. g_hypervisor /\ up = {}
          BY <1>3, <2>4 DEF scheduler_init, IoInv, PhaseOK
        <4> QED BY <2>4, <4>1 DEF scheduler_init
      <3> QED BY <1>2, <1>3, <3>1, <3>2 DEF PhaseOK, Live, Subsystem
    <2>5. CASE hypercall_init
      <3>1. g_hypervisor /\ up = {"scheduler"}
        BY <1>3, <2>5 DEF hypercall_init, IoInv, PhaseOK
      <3>2. CASE GiveUp(up \ {"scheduler"})
        <4>1. up \ {"scheduler"} = {}
          BY <3>1
        <4>2. GiveUp({})
          BY <3>2, <4>1 DEF GiveUp
        <4> QED BY <2>3, <4>2
      <3>3. CASE ~GiveUp(up \ {"scheduler"})
        <4>1. call' \in CallState /\ call'.op = "ept"
          BY <2>1, <2>5, <3>3 DEF hypercall_init
        <4>2. g_hypervisor' /\ up' = {"scheduler", "hypercall"}
          BY <2>5, <3>1, <3>3 DEF hypercall_init
        <4> QED BY <1>2, <1>3, <4>1, <4>2 DEF PhaseOK, Live, Subsystem
      <3> QED BY <3>2, <3>3
    <2>6. CASE ept_init
      <3>1. call' \in CallState /\ call'.op = "io"
        BY <2>1, <2>6 DEF ept_init
      <3>2. g_hypervisor' /\ up' = {"scheduler", "hypercall", "ept"}
        BY <1>3, <2>6 DEF ept_init, IoInv, PhaseOK
      <3> QED BY <1>2, <1>3, <3>1, <3>2 DEF PhaseOK, Live, Subsystem
    <2> QED BY <2>2, <2>3, <2>4, <2>5, <2>6
  <1>5. TypeOK'
    <2>1. TypeOK
      BY DEF IoInv
    <2> QED BY <1>2, <1>4, <2>1 DEF TypeOK, CallState
  <1>6. IoInv(L)'
    BY <1>2, <1>3, <1>4, <1>5 DEF IoInv, Calm
  <1> QED BY <1>6 DEF SomeLists

LEMMA IoInitStep ==
    ASSUME NEW L \in Lists, IoInv(L), io_emul_init
    PROVE  SomeLists'
  <1>1. Typed
    BY TypedOK
  <1>2. UNCHANGED <<g_initialized, g_hypervisor, entry, next, allocated, access>>
    BY DEF io_emul_init
  <1>3. ~g_initialized /\ ~Live /\ g_hypervisor /\ up = {"scheduler", "hypercall", "ept"}
        /\ allocated = {} /\ Calm
    BY DEF IoInv, PhaseOK, Live, io_emul_init
  <1>4. call' = [op |-> "defaults", i |-> 1, space |-> "io"]
    BY DEF io_emul_init, Idle
  <1>5. head' = [s \in Space |-> NULL] /\ up' = Subsystem
    BY <1>3 DEF io_emul_init, Subsystem
  <1>6. /\ call' \in CallState
        /\ call'.op = "defaults" /\ call'.i \in 1 .. (DefaultCount + 1)
    BY <1>4, IoAssumption DEF Space, CallState
  <1>7. TypeOK'
    <2>1. TypeOK
      BY DEF IoInv
    <2> QED BY <1>2, <1>5, <1>6, <2>1 DEF TypeOK, CallState
  <1>8. PhaseOK' /\ Live'
    BY <1>2, <1>3, <1>5, <1>6 DEF PhaseOK, Live
  <1> DEFINE M == [s \in Space |-> {}]
  <1>9. ListsOK(M)'
    BY <1>2, <1>3, <1>5, <1>6, EmptyList DEF ListsOK, Space, Apart, Nodes
  <1>10. M \in Lists
    BY DEF Lists
  <1>11. \A t \in Thread : AccessOK(access[t], next', entry', allocated')
    BY <1>3, CalmOK
  <1>12. access' \in [Thread -> AccessState] /\ Calm'
    BY <1>1, <1>2, <1>3 DEF Typed, Calm
  <1> HIDE DEF M
  <1>13. IoInv(M)'
    BY <1>2, <1>6, <1>7, <1>8, <1>9, <1>11, <1>12 DEF IoInv
  <1> QED BY <1>10, <1>13 DEF SomeLists

\* hd2, nx2: the lists L with e in front of the one of space s.
PushShape(hd, nx, hd2, nx2, L, s, e) ==
    /\ hd \in [Space -> Entry0] /\ Apart(hd, nx, L) /\ s \in Space
    /\ e \in Entry /\ e \notin Nodes(L)
    /\ (\A x \in Nodes(L) : nx2[x] = nx[x]) /\ nx2[e] = hd[s]
    /\ hd2 = [hd EXCEPT ![s] = e]

\* A new entry in front of one list.
LEMMA Pushed ==
    ASSUME NEW hd, NEW nx, NEW hd2, NEW nx2, NEW L \in Lists, NEW s, NEW e,
           PushShape(hd, nx, hd2, nx2, L, s, e)
    PROVE  \E M \in Lists : Apart(hd2, nx2, M) /\ Nodes(M) = Nodes(L) \cup {e}
  <1> DEFINE M == [L EXCEPT ![s] = @ \cup {e}]
  <1> USE DEF PushShape
  <1>0. e # NULL
    BY IoAssumption DEF Entry, NULL
  <1>1. M \in Lists
    BY DEF Lists
  <1>2. Nodes(M) = Nodes(L) \cup {e} /\ M["io"] \cap M["mmio"] = {}
    BY DEF Lists, Nodes, Space, Apart
  <1>3. ASSUME NEW r \in Space PROVE ListOK(hd2[r], nx2, M[r])
    <2>1. ListOK(hd[r], nx, L[r]) /\ L[r] \subseteq Nodes(L)
      BY DEF Apart, Nodes, Space
    <2>2. PICK h, N : h = hd[r] /\ N = L[r]
      OBVIOUS
    <2>3. ListOK(h, nx, N) /\ \A x \in N : nx2[x] = nx[x]
      BY <2>1, <2>2
    <2>4. CASE r = s
      <3>1. ListOK(e, nx2, N \cup {e})
        BY <1>0, <2>1, <2>2, <2>3, <2>4, ListPush
      <3>2. hd2[r] = e /\ M[r] = N \cup {e}
        BY <2>2, <2>4 DEF Lists
      <3> QED BY <3>1, <3>2
    <2>5. CASE r # s
      <3>1. ListOK(h, nx2, N)
        BY <2>3, ListFrame
      <3>2. hd2[r] = h /\ M[r] = N
        BY <2>2, <2>5 DEF Lists
      <3> QED BY <3>1, <3>2
    <2> QED BY <2>4, <2>5
  <1> HIDE DEF M
  <1>4. Apart(hd2, nx2, M)
    BY <1>2, <1>3 DEF Apart
  <1> QED BY <1>1, <1>2, <1>4

LEMMA DefaultStep ==
    ASSUME NEW L \in Lists, IoInv(L), register_default
    PROVE  SomeLists'
  <1>1. Typed /\ DefaultCount \in Nat
    BY TypedOK, IoAssumption
  <1>2. UNCHANGED <<g_initialized, g_hypervisor, up, access>>
    BY DEF register_default, hvVars
  <1>3. /\ ~g_initialized /\ Live /\ g_hypervisor /\ up = Subsystem
        /\ call.i \in 1 .. (DefaultCount + 1) /\ call.i <= DefaultCount /\ Calm
        /\ Apart(head, next, L) /\ allocated = Nodes(L)
    BY DEF IoInv, PhaseOK, Live, register_default, ListsOK
  <1>4. call.i + 1 \in 1 .. (DefaultCount + 1) /\ call.i + 1 \in 0 .. (DefaultCount + 1)
        /\ call.i \in 1 .. DefaultCount
    BY <1>1, <1>3
  <1>5. call' \in CallState /\ call'.op = "defaults" /\ call'.i = call.i + 1
    BY <1>1, <1>4 DEF register_default, Typed, CallState
  <1>6. PhaseOK' /\ Live'
    BY <1>2, <1>3, <1>4, <1>5 DEF PhaseOK, Live
  <1>7. /\ head' \in [Space -> Entry0] /\ next' \in [Entry -> Entry0] /\ allocated' \in SUBSET Entry
        /\ entry' \in [Entry -> Handler \cup {Blank}]
        /\ \E M \in Lists : Apart(head', next', M) /\ allocated' = Nodes(M)
    <2>1. CASE UNCHANGED listVars
      BY <1>1, <1>3, <2>1 DEF listVars, Typed
    <2>2. ASSUME NEW e \in Entry, Prepare(e, "io", Defaults[call.i]), head' = [head EXCEPT !["io"] = e]
          PROVE  <1>7!:
      <3>1. Defaults[call.i] \in Handler /\ "io" \in Space
        BY <1>4 DEF Handler, Space
      <3>2. /\ head' \in [Space -> Entry0] /\ next' \in [Entry -> Entry0]
            /\ allocated' \in SUBSET Entry /\ entry' \in [Entry -> Handler \cup {Blank}]
        BY <1>1, <2>2, <3>1 DEF Prepare, Typed, Entry0
      <3>3. e \notin Nodes(L) /\ allocated' = Nodes(L) \cup {e}
        BY <1>3, <2>2 DEF Prepare
      <3>4. next'[e] = head["io"] /\ \A x \in Nodes(L) : next'[x] = next[x]
        <4>1. Nodes(L) \subseteq Entry
          BY <1>1, <1>3 DEF Typed
        <4> QED BY <1>1, <2>2, <3>3, <4>1 DEF Prepare, Typed
      <3>5. head \in [Space -> Entry0]
        BY <1>1 DEF Typed
      <3>6. PICK hd, nx, nx2, hd2, s : hd = head /\ nx = next /\ nx2 = next' /\ hd2 = head' /\ s = "io"
        OBVIOUS
      <3>7. PushShape(hd, nx, hd2, nx2, L, s, e)
        BY <1>3, <2>2, <3>1, <3>3, <3>4, <3>5, <3>6 DEF PushShape
      <3>8. \E M \in Lists : Apart(hd2, nx2, M) /\ Nodes(M) = Nodes(L) \cup {e}
        BY <3>7, Pushed
      <3> QED BY <3>2, <3>3, <3>6, <3>8
    <2> QED BY <2>1, <2>2 DEF register_default
  <1>8. PICK M \in Lists : Apart(head', next', M) /\ allocated' = Nodes(M)
    BY <1>7
  <1>9. ListsOK(M)'
    BY <1>5, <1>8 DEF ListsOK
  <1>10. \A s \in Space : head'[s] \in allocated' \cup {NULL}
    BY <1>8 DEF Apart, ListOK, Nodes, Space
  <1>11. TypeOK'
    <2>1. TypeOK
      BY DEF IoInv
    <2> QED BY <1>2, <1>5, <1>7, <1>10, <2>1 DEF TypeOK, CallState, Entry0
  <1>12. \A t \in Thread : AccessOK(access[t], next', entry', allocated')
    BY <1>3, CalmOK
  <1>13. access' \in [Thread -> AccessState] /\ Calm'
    BY <1>1, <1>2, <1>3 DEF Typed, Calm
  <1>14. IoInv(M)'
    BY <1>2, <1>5, <1>6, <1>9, <1>11, <1>12, <1>13 DEF IoInv
  <1> QED BY <1>8, <1>14 DEF SomeLists

LEMMA ReturnStep ==
    ASSUME NEW L \in Lists, IoInv(L), init_returns
    PROVE  SomeLists'
  <1>1. UNCHANGED <<g_hypervisor, up, head, entry, next, allocated, access>>
    BY DEF init_returns, listVars
  <1>2. /\ g_hypervisor /\ up = Subsystem /\ Apart(head, next, L) /\ allocated = Nodes(L)
    BY DEF IoInv, PhaseOK, Live, init_returns, ListsOK
  <1>3. g_initialized' = TRUE /\ call' = Idle /\ call'.op = "idle" /\ call' \in CallState
    BY IdleTyped DEF init_returns
  <1>4. PhaseOK' /\ Live' /\ ListsOK(L)'
    BY <1>1, <1>2, <1>3 DEF PhaseOK, Live, ListsOK
  <1>5. TypeOK'
    <2>1. TypeOK
      BY DEF IoInv
    <2>2. "io" \in up
      BY <1>2 DEF Subsystem
    <2> QED BY <1>1, <1>3, <2>1, <2>2 DEF TypeOK, CallState
  <1>6. IoInv(L)'
    BY <1>1, <1>3, <1>4, <1>5 DEF IoInv
  <1> QED BY <1>6 DEF SomeLists

\* Shutting down frees exactly the entries of the two lists: all there are.
LEMMA ShutdownStep ==
    ASSUME NEW L \in Lists, IoInv(L), hypervisor_shutdown
    PROVE  SomeLists'
  <1>1. Typed
    BY TypedOK
  <1>2. /\ UNCHANGED <<head, call, access>> /\ Calm /\ call = Idle
        /\ up' = {} /\ g_hypervisor' = FALSE /\ g_initialized' = FALSE
        /\ next' = [e \in Entry |-> NULL]
    BY DEF hypervisor_shutdown
  <1>3. Apart(head, next, L) /\ allocated = Nodes(L)
    BY <1>2, IdleTyped DEF IoInv, Live, hypervisor_shutdown, ListsOK
  <1>4. Linked("io") = L["io"] /\ Linked("mmio") = L["mmio"]
    <2>1. ASSUME NEW s \in Space PROVE Linked(s) = L[s]
      <3>1. next \in [Entry -> Entry0] /\ head[s] \in Entry0 /\ L[s] \in SUBSET Entry
        BY <1>1 DEF Typed, Lists
      <3>2. ListOK(head[s], next, L[s])
        BY <1>3 DEF Apart
      <3>3. PICK N : N = L[s]
        OBVIOUS
      <3> QED BY <3>1, <3>2, <3>3, LinkedExact
    <2> QED BY <2>1 DEF Space
  <1>5. allocated' = {} /\ entry' \in [Entry -> Handler \cup {Blank}]
    BY <1>1, <1>3, <1>4 DEF hypervisor_shutdown, Free, Nodes, Typed
  <1>6. PhaseOK' /\ ~Live'
    BY <1>2, IdleTyped DEF PhaseOK, Live
  <1>7. TypeOK'
    <2>1. TypeOK
      BY DEF IoInv
    <2> QED BY <1>2, <1>5, <2>1 DEF TypeOK
  <1>8. \A t \in Thread : AccessOK(access[t], next', entry', allocated')
    BY <1>2, CalmOK
  <1>9. access' \in [Thread -> AccessState] /\ Calm'
    BY <1>1, <1>2 DEF Typed, Calm
  <1>10. IoInv(L)'
    BY <1>2, <1>5, <1>6, <1>7, <1>8, <1>9 DEF IoInv
  <1> QED BY <1>10 DEF SomeLists

\* malloc and the assignments to an entry nobody can reach.
LEMMA RegisterStep ==
    ASSUME NEW L \in Lists, IoInv(L), NEW s \in Space, NEW h \in Extra[s], io_register_handler(s, h)
    PROVE  SomeLists'
  <1>1. Typed
    BY TypedOK
  <1>2. UNCHANGED <<g_initialized, g_hypervisor, up, head, access>> /\ g_initialized /\ call = Idle
    BY DEF io_register_handler, hvVars
  <1>3. Apart(head, next, L) /\ allocated = Nodes(L) /\ g_hypervisor /\ up = Subsystem
    BY <1>2, IdleTyped DEF IoInv, Live, ListsOK, PhaseOK
  <1>4. PICK e \in Entry : Prepare(e, s, h) /\ call' = [op |-> "publish", i |-> e, space |-> s]
    BY DEF io_register_handler
  <1>5. call' \in CallState /\ call'.op = "publish" /\ call'.i = e /\ call'.space = s
    BY <1>4 DEF CallState
  <1>6. h \in Handler
    BY DEF Handler, Space
  <1>7. /\ e \notin allocated /\ allocated' = allocated \cup {e}
        /\ entry' \in [Entry -> Handler \cup {Blank}] /\ next' \in [Entry -> Entry0]
        /\ next'[e] = head[s]
    BY <1>1, <1>4, <1>6 DEF Prepare, Typed, Entry0
  <1>8. \A x \in allocated : next'[x] = next[x] /\ entry'[x] = entry[x]
    BY <1>1, <1>4, <1>7 DEF Prepare, Typed
  <1>9. Apart(head, next', L)
    <2>1. ASSUME NEW r \in Space PROVE ListOK(head[r], next', L[r])
      <3>1. ListOK(head[r], next, L[r]) /\ L[r] \subseteq allocated
        BY <1>3 DEF Apart, Nodes, Space
      <3>2. PICK hd, nx, nx2, N : hd = head[r] /\ nx = next /\ nx2 = next' /\ N = L[r]
        OBVIOUS
      <3>3. ListOK(hd, nx, N) /\ \A x \in N : nx2[x] = nx[x]
        BY <1>8, <3>1, <3>2
      <3>4. ListOK(hd, nx2, N)
        BY <3>3, ListFrame
      <3> QED BY <3>2, <3>4
    <2> QED BY <1>3, <2>1 DEF Apart
  <1>10. ListsOK(L)'
    BY <1>2, <1>3, <1>5, <1>7, <1>9 DEF ListsOK
  <1>11. PhaseOK' /\ Live'
    BY <1>2, <1>3, <1>5 DEF PhaseOK, Live
  <1>12. TypeOK'
    <2>1. TypeOK
      BY DEF IoInv
    <2> QED BY <1>2, <1>5, <1>7, <2>1 DEF TypeOK, CallState, Entry0
  <1>13. ASSUME NEW t \in Thread PROVE AccessOK(access[t], next', entry', allocated')
    <2>1. PICK x, nx, en, al, nx2, en2, al2 :
              /\ x = access[t] /\ nx = next /\ en = entry /\ al = allocated
              /\ nx2 = next' /\ en2 = entry' /\ al2 = allocated'
      OBVIOUS
    <2>2. AccessOK(x, nx, en, al)
      BY <2>1 DEF IoInv
    <2>3. al \subseteq al2 /\ \A y \in al : nx2[y] = nx[y] /\ en2[y] = en[y]
      BY <1>7, <1>8, <2>1
    <2>4. AccessOK(x, nx2, en2, al2)
      BY <2>2, <2>3, AccessFrame
    <2> QED BY <2>1, <2>4
  <1>14. access' \in [Thread -> AccessState]
    BY <1>1, <1>2 DEF Typed
  <1>15. IoInv(L)'
    BY <1>2, <1>5, <1>10, <1>11, <1>12, <1>13, <1>14 DEF IoInv
  <1> QED BY <1>15 DEF SomeLists

\* The entry joins its list in one assignment.
LEMMA PublishStep ==
    ASSUME NEW L \in Lists, IoInv(L), register_publish
    PROVE  SomeLists'
  <1>1. Typed
    BY TypedOK
  <1>2. /\ UNCHANGED <<g_initialized, g_hypervisor, up, entry, next, allocated, access>>
        /\ call.op = "publish" /\ call' = Idle /\ head' = [head EXCEPT ![call.space] = call.i]
    BY DEF register_publish, hvVars
  <1>3. g_initialized /\ g_hypervisor /\ up = Subsystem
    BY <1>2 DEF IoInv, PhaseOK
  <1>4. /\ Apart(head, next, L) /\ allocated = Nodes(L) \cup {call.i}
        /\ call.i \in Entry \ Nodes(L) /\ next[call.i] = head[call.space]
    BY <1>2, <1>3 DEF IoInv, Live, ListsOK
  <1>5. PICK M \in Lists : Apart(head', next', M) /\ allocated' = Nodes(M)
    <2>1. PICK hd, nx, hd2, s, e :
              hd = head /\ nx = next /\ hd2 = head' /\ s = call.space /\ e = call.i
      OBVIOUS
    <2>2. hd \in [Space -> Entry0] /\ s \in Space
      BY <1>1, <2>1 DEF Typed, CallState
    <2>3. PushShape(hd, nx, hd2, nx, L, s, e)
      BY <1>2, <1>4, <2>1, <2>2 DEF PushShape
    <2>4. \E M \in Lists : Apart(hd2, nx, M) /\ Nodes(M) = Nodes(L) \cup {e}
      BY <2>3, Pushed
    <2> QED BY <1>2, <1>4, <2>1, <2>4
  <1>6. call' \in CallState /\ call'.op = "idle"
    BY <1>2, IdleTyped
  <1>7. ListsOK(M)' /\ PhaseOK' /\ Live'
    BY <1>2, <1>3, <1>5, <1>6 DEF ListsOK, PhaseOK, Live
  <1>8. head' \in [Space -> Entry0] /\ \A s \in Space : head'[s] \in allocated' \cup {NULL}
    <2>1. \A s \in Space : head'[s] \in allocated' \cup {NULL}
      BY <1>5 DEF Apart, ListOK, Nodes, Space
    <2> QED BY <1>1, <1>2, <1>4, <2>1 DEF Typed, Entry0
  <1>9. TypeOK'
    <2>1. TypeOK
      BY DEF IoInv
    <2> QED BY <1>2, <1>6, <1>8, <2>1 DEF TypeOK, CallState, Entry0
  <1>10. IoInv(M)'
    BY <1>2, <1>3, <1>6, <1>7, <1>9 DEF IoInv
  <1> QED BY <1>10 DEF SomeLists

LEMMA UnregisterStep ==
    ASSUME NEW L \in Lists, IoInv(L), NEW port, io_unregister_handler(port)
    PROVE  SomeLists'
  <1>1. Typed
    BY TypedOK
  <1>2. UNCHANGED <<g_initialized, g_hypervisor, up, call, access>> /\ g_initialized /\ call = Idle /\ Calm
    BY DEF io_unregister_handler, hvVars
  <1>3. Apart(head, next, L) /\ allocated = Nodes(L) /\ g_hypervisor /\ up = Subsystem
    BY <1>2, IdleTyped DEF IoInv, Live, ListsOK, PhaseOK
  <1>4. PICK c : c = Chain("io")
    OBVIOUS
  <1>5. PICK i \in DOMAIN c :
          /\ head' = [head EXCEPT !["io"] = IF i = 1 THEN next[c[1]] ELSE @]
          /\ next' = [e \in Entry |-> IF i > 1 /\ e = c[i - 1] THEN next[c[i]]
                                      ELSE IF e = c[i] THEN NULL ELSE next[e]]
          /\ Free({c[i]})
    BY <1>4 DEF io_unregister_handler
  <1>6. PICK s, N, x, hd2, nx2 : s = "io" /\ N = L["io"] /\ x = c[i] /\ hd2 = head'["io"] /\ nx2 = next'
    OBVIOUS
  <1>7. /\ next \in [Entry -> Entry0] /\ head[s] \in Entry0 /\ N \in SUBSET Entry
        /\ ListOK(head[s], next, N) /\ c = Chain(s)
    BY <1>1, <1>3, <1>4, <1>6 DEF Typed, Lists, Apart, Space
  <1>8. hd2 = IF i = 1 THEN next[c[1]] ELSE head[s]
    BY <1>1, <1>5, <1>6 DEF Typed, Space
  <1>9. UnlinkShape(s, N, i, hd2, nx2)
    BY <1>5, <1>6, <1>7, <1>8 DEF UnlinkShape
  <1>10. /\ x \in N /\ ListOK(hd2, nx2, N \ {x})
         /\ \A e \in Entry \ N : nx2[e] = next[e]
         /\ hd2 \in Entry0 /\ nx2 \in [Entry -> Entry0]
    <2>1. PICK z \in N : Unlinked(s, N, i, hd2, nx2, z)
      BY <1>9, UnlinkOK
    <2> QED BY <1>6, <1>7, <2>1 DEF Unlinked
  <1> DEFINE M == [L EXCEPT !["io"] = @ \ {x}]
  <1>11. M \in Lists /\ M["io"] = N \ {x} /\ M["mmio"] = L["mmio"] /\ x \in N
    BY <1>6, <1>10 DEF Lists, Space
  <1> HIDE DEF M
  <1>12. head' \in [Space -> Entry0] /\ head'["io"] = hd2 /\ head'["mmio"] = head["mmio"]
    <2>1. PICK v : v = IF i = 1 THEN next[c[1]] ELSE head["io"]
      OBVIOUS
    <2>2. head' = [head EXCEPT !["io"] = v]
      BY <1>5, <2>1
    <2>3. v = hd2 /\ v \in Entry0
      BY <1>6, <1>8, <1>10, <2>1
    <2> QED BY <1>1, <2>2, <2>3 DEF Typed, Space
  <1>13. ListOK(head["mmio"], next', L["mmio"])
    <2>1. ListOK(head["mmio"], next, L["mmio"]) /\ L["mmio"] \subseteq Entry \ N
      BY <1>3, <1>6 DEF Apart, Space, Lists
    <2>2. PICK hd, nx, K : hd = head["mmio"] /\ nx = next /\ K = L["mmio"]
      OBVIOUS
    <2>3. ListOK(hd, nx, K) /\ \A e \in K : nx2[e] = nx[e]
      BY <1>10, <2>1, <2>2
    <2>4. ListOK(hd, nx2, K)
      BY <2>3, ListFrame
    <2> QED BY <1>6, <2>2, <2>4
  <1>14. Apart(head', next', M)
    <2>1. ListOK(head'["io"], next', M["io"])
      BY <1>6, <1>10, <1>11, <1>12
    <2>2. ListOK(head'["mmio"], next', M["mmio"])
      BY <1>11, <1>12, <1>13
    <2>3. M["io"] \cap M["mmio"] = {}
      BY <1>3, <1>6, <1>11 DEF Apart
    <2> QED BY <2>1, <2>2, <2>3 DEF Apart, Space
  <1>15. /\ allocated' = Nodes(M) /\ allocated' \in SUBSET Entry
         /\ entry' \in [Entry -> Handler \cup {Blank}]
    <2>1. allocated' = allocated \ {x} /\ entry' \in [Entry -> Handler \cup {Blank}]
      BY <1>1, <1>5, <1>6 DEF Free, Typed
    <2>2. x \notin L["mmio"]
      BY <1>3, <1>6, <1>11 DEF Apart
    <2> QED BY <1>1, <1>3, <1>6, <1>11, <2>1, <2>2 DEF Nodes, Typed
  <1>16. ListsOK(M)'
    BY <1>2, <1>14, <1>15, IdleTyped DEF ListsOK
  <1>17. PhaseOK' /\ Live'
    BY <1>2, <1>3, IdleTyped DEF PhaseOK, Live
  <1>18. \A r \in Space : head'[r] \in allocated' \cup {NULL}
    BY <1>14, <1>15 DEF Apart, ListOK, Nodes, Space
  <1>19. TypeOK'
    <2>1. TypeOK
      BY DEF IoInv
    <2>2. next' \in [Entry -> Entry0]
      BY <1>6, <1>10
    <2> QED BY <1>2, <1>12, <1>15, <1>18, <2>1, <2>2 DEF TypeOK, Entry0
  <1>20. \A t \in Thread : AccessOK(access[t], next', entry', allocated')
    BY <1>2, CalmOK
  <1>21. access' \in [Thread -> AccessState]
    BY <1>1, <1>2 DEF Typed
  <1>22. IoInv(M)'
    BY <1>2, <1>16, <1>17, <1>19, <1>20, <1>21 DEF IoInv
  <1> QED BY <1>11, <1>22 DEF SomeLists

\* A thread's own steps touch nothing but its access.
LEMMA AccessStep ==
    ASSUME NEW L \in Lists, IoInv(L), NEW t \in Thread,
           NEW y, y \in AccessState, AccessOK(y, next, entry, allocated), g_initialized,
           access' = [access EXCEPT ![t] = y], UNCHANGED <<hvVars, listVars, call>>
    PROVE  SomeLists'
  <1>1. Typed
    BY TypedOK
  <1>2. UNCHANGED <<g_initialized, g_hypervisor, up, head, entry, next, allocated, call>>
    BY DEF hvVars, listVars
  <1>3. access' \in [Thread -> AccessState]
    BY <1>1 DEF Typed
  <1>4. ASSUME NEW u \in Thread PROVE AccessOK(access'[u], next, entry, allocated)
    <2>1. access'[u] = IF u = t THEN y ELSE access[u]
      BY <1>1 DEF Typed
    <2> QED BY <2>1 DEF IoInv
  <1>5. \A u \in Thread : access'[u].at \in Entry \cup {NULL}
    BY <1>3 DEF AccessState, Entry0
  <1>6. TypeOK'
    <2>1. TypeOK
      BY DEF IoInv
    <2> QED BY <1>2, <1>5, <2>1 DEF TypeOK
  <1>7. PhaseOK' /\ ListsOK(L)' /\ Live' /\ (call'.op = "idle" => call' = Idle)
    BY <1>2 DEF PhaseOK, ListsOK, Live, IoInv
  <1>8. IoInv(L)'
    BY <1>2, <1>3, <1>4, <1>6, <1>7 DEF IoInv
  <1> QED BY <1>8 DEF SomeLists

LEMMA ReadStep ==
    ASSUME NEW L \in Lists, IoInv(L), NEW t \in Thread,
           \/ \E s \in Space : \E a \in Address[s] : io_port_read(t, s, a)
           \/ walk(t) \/ access_returns(t)
    PROVE  SomeLists'
  <1>1. Typed
    BY TypedOK
  <1>2. UNCHANGED <<hvVars, listVars, call>>
    BY DEF io_port_read, walk, access_returns
  <1>3. g_initialized
    <2>1. CASE access[t] = Quiet
      <3>1. access[t].op = "quiet"
        BY <2>1 DEF Quiet
      <3> QED BY <3>1 DEF io_port_read, walk, access_returns
    <2>2. CASE access[t] # Quiet
      BY <2>2 DEF IoInv, Calm
    <2> QED BY <2>1, <2>2
  <1>4. \E y \in AccessState : AccessOK(y, next, entry, allocated) /\ access' = [access EXCEPT ![t] = y]
    <2>1. CASE \E s \in Space : \E a \in Address[s] : io_port_read(t, s, a)
      <3>1. PICK s \in Space, a \in Nat : io_port_read(t, s, a)
        <4>1. \A s \in Space : Address[s] \subseteq Nat
          BY IoAssumption DEF Space
        <4> QED BY <2>1, <4>1
      <3>2. PICK y : y = [op |-> "walk", space |-> s, addr |-> a, at |-> head[s],
                          want |-> Reference(s, a), got |-> "none"]
        OBVIOUS
      <3>3. access' = [access EXCEPT ![t] = y]
        BY <3>1, <3>2 DEF io_port_read
      <3>4. PICK N : N = L[s]
        OBVIOUS
      <3>5. N \in SUBSET Entry /\ ListOK(head[s], next, N) /\ N \subseteq allocated
        BY <1>3, <3>4 DEF IoInv, Live, ListsOK, Apart, Nodes, Lists, Space
      <3>6. /\ next \in [Entry -> Entry0] /\ entry \in [Entry -> Handler \cup {Blank}]
            /\ allocated \in SUBSET Entry /\ head[s] \in Entry0
        BY <1>1 DEF Typed
      <3>7. y \in AccessState /\ AccessOK(y, next, entry, allocated)
        BY <3>2, <3>5, <3>6, StartOK
      <3> QED BY <3>3, <3>7
    <2>2. CASE walk(t)
      <3>1. PICK x, nx, en, al : x = access[t] /\ nx = next /\ en = entry /\ al = allocated
        OBVIOUS
      <3>2. PICK y : y = Advance(x, nx, en)
        OBVIOUS
      <3>3. access' = [access EXCEPT ![t] = y] /\ x.op = "walk"
        BY <2>2, <3>1, <3>2 DEF walk, Advance
      <3>4. /\ x \in AccessState /\ nx \in [Entry -> Entry0] /\ en \in [Entry -> Handler \cup {Blank}]
            /\ al \in SUBSET Entry /\ AccessOK(x, nx, en, al)
        BY <1>1, <3>1 DEF Typed, IoInv
      <3>5. y \in AccessState /\ AccessOK(y, nx, en, al)
        BY <3>2, <3>3, <3>4, WalkOK
      <3> QED BY <3>1, <3>3, <3>5
    <2>3. CASE access_returns(t)
      BY <2>3, QuietOK DEF access_returns
    <2> QED BY <2>1, <2>2, <2>3
  <1> QED BY <1>2, <1>3, <1>4, AccessStep

LEMMA NextLists == SomeLists /\ [Next]_vars => SomeLists'
  <1>0. SUFFICES ASSUME SomeLists, [Next]_vars PROVE SomeLists'
    OBVIOUS
  <1>1. PICK L \in Lists : IoInv(L)
    BY <1>0 DEF SomeLists
  <1>2. CASE hypervisor_init \/ scheduler_init \/ hypercall_init \/ ept_init
    BY <1>1, <1>2, InitSteps
  <1>3. CASE io_emul_init
    BY <1>1, <1>3, IoInitStep
  <1>4. CASE register_default
    BY <1>1, <1>4, DefaultStep
  <1>5. CASE init_returns
    BY <1>1, <1>5, ReturnStep
  <1>6. CASE hypervisor_shutdown
    BY <1>1, <1>6, ShutdownStep
  <1>7. ASSUME NEW s \in Space, NEW h \in Extra[s], io_register_handler(s, h) PROVE SomeLists'
    BY <1>1, <1>7, RegisterStep
  <1>8. CASE register_publish
    BY <1>1, <1>8, PublishStep
  <1>9. ASSUME NEW h \in Handler, io_unregister_handler(h.first) PROVE SomeLists'
    <2>1. PICK port : port = h.first
      OBVIOUS
    <2>2. io_unregister_handler(port)
      BY <1>9, <2>1
    <2> QED BY <1>1, <2>2, UnregisterStep
  <1>10. ASSUME NEW t \in Thread,
                \/ \E s \in Space : \E a \in Address[s] : io_port_read(t, s, a)
                \/ walk(t) \/ access_returns(t)
         PROVE  SomeLists'
    BY <1>1, <1>10, ReadStep
  <1>11. CASE UNCHANGED vars
    <2>1. UNCHANGED <<g_initialized, g_hypervisor, up, head, entry, next, allocated, call, access>>
      BY <1>11 DEF vars, hvVars, listVars
    <2>2. TypeOK' /\ PhaseOK' /\ Live' = Live /\ ListsOK(L)' = ListsOK(L) /\ Calm' = Calm
      BY <1>1, <2>1 DEF IoInv, TypeOK, PhaseOK, Live, ListsOK, Calm
    <2>3. IoInv(L)'
      BY <1>1, <2>1, <2>2 DEF IoInv
    <2> QED BY <2>3 DEF SomeLists
  <1> QED
    BY <1>0, <1>2, <1>3, <1>4, <1>5, <1>6, <1>7, <1>8, <1>9, <1>10, <1>11 DEF Next

\* The inductive invariant: the two handler lists are disjoint acyclic lists of
\* exactly the allocated entries, and every walk is on its way to its answer.
THEOREM ListsInvariant == Spec => []SomeLists
  BY InitLists, NextLists, PTL DEF Spec

\* No head points to freed memory while I/O emulation is up.
THEOREM IoTypeCorrect == Spec => []TypeOK
  <1>1. SomeLists => TypeOK
    BY DEF SomeLists, IoInv
  <1> QED BY <1>1, ListsInvariant, PTL

\* A read that runs beside registrations gets the answer of the newest handler
\* that covered its address when io_port_read read the head.
THEOREM ReadsDispatchNewest == Spec => []DispatchNewest
  <1>1. SomeLists => DispatchNewest
    BY DEF SomeLists, IoInv, AccessOK, DispatchNewest
  <1> QED BY <1>1, ListsInvariant, PTL

\* hypervisor_init and hypervisor_shutdown leave everything up or nothing, and
\* no handler entry unaccounted for.
THEOREM InitAllOrNothing == Spec => []AllOrNothing
  <1>1. ASSUME SomeLists PROVE AllOrNothing
    <2>1. PICK L \in Lists : IoInv(L)
      BY <1>1 DEF SomeLists
    <2>2. SUFFICES ASSUME call = Idle
          PROVE  IF g_initialized
                 THEN /\ g_hypervisor /\ up = Subsystem
                      /\ allocated = Linked("io") \cup Linked("mmio")
                 ELSE ~g_hypervisor /\ up = {} /\ allocated = {}
      BY DEF AllOrNothing
    <2>3. Typed
      BY <2>1, TypedOK
    <2>4. CASE g_initialized
      <3>1. Apart(head, next, L) /\ allocated = Nodes(L) /\ g_hypervisor /\ up = Subsystem
        BY <2>1, <2>2, <2>4, IdleTyped DEF IoInv, Live, ListsOK, PhaseOK
      <3>2. ASSUME NEW s \in Space PROVE Linked(s) = L[s]
        <4>1. next \in [Entry -> Entry0] /\ head[s] \in Entry0 /\ L[s] \in SUBSET Entry
          BY <2>3 DEF Typed, Lists
        <4>2. ListOK(head[s], next, L[s])
          BY <3>1 DEF Apart
        <4>3. PICK N : N = L[s]
          OBVIOUS
        <4> QED BY <4>1, <4>2, <4>3, LinkedExact
      <3>3. Linked("io") = L["io"] /\ Linked("mmio") = L["mmio"]
        BY <3>2 DEF Space
      <3> QED BY <2>4, <3>1, <3>3 DEF Nodes
    <2>5. CASE ~g_initialized
      BY <2>1, <2>2, <2>5, IdleTyped DEF IoInv, Live, PhaseOK
    <2> QED BY <2>4, <2>5
  <1> QED BY <1>1, ListsInvariant, PTL
=============================================================================
