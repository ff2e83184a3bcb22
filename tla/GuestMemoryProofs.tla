------------------------- MODULE GuestMemoryProofs -------------------------
(***************************************************************************)
(* Proofs about GuestMemory, for every number of VMs, frames, guest pages  *)
(* and regions: type correctness, and the isolation of the VMs until an    *)
(* entry is written behind the frame of its table.                         *)
(***************************************************************************)
EXTENDS GuestMemory, TLAPS

Idx == 0 .. (EntriesPerPage - 1)

-----------------------------------------------------------------------------
(* Types.                                                                  *)

HeapType == [mem : [Frame -> [Idx -> Entry]], used : SUBSET Frame]

\* What is left to map lies in host memory.
MappingIn ==
    \A vm \in VM : mapping[vm].left > 0 =>
        /\ mapping[vm].hpa \in Frame
        /\ mapping[vm].hpa + mapping[vm].left - 1 <= MaxFrame

\* The inductive strengthening of TypeOK.
TypeInv == TypeOK /\ Heap \in HeapType /\ MappingIn

LEMMA ZeroGood == Zero \in Entry /\ Blank \in [Idx -> Entry]
  BY DEF Zero, Blank, Entry, Idx

LEMMA PointsGood ==
    ASSUME NEW f \in Frame
    PROVE  Points(f) \in Entry
  BY MemoryAssumption DEF Points, Entry, Frame

\* aligned_alloc finds a free range inside host memory.
LEMMA AllocFits ==
    ASSUME NEW h, NEW n, Room(h, n)
    PROVE  aligned_alloc(h, n) \in Frame /\ Fits(h, aligned_alloc(h, n), n)
  BY DEF Room, aligned_alloc

LEMMA AllocType ==
    ASSUME NEW h \in HeapType, NEW n \in Nat, Room(h, n)
    PROVE  ept_alloc_pages(h, n) \in HeapType
  <1> DEFINE f   == aligned_alloc(h, n)
             new == f .. (f + n - 1)
             m   == [k \in Frame |-> IF k \in new THEN Blank ELSE h.mem[k]]
  <1>1. f \in Frame /\ f + n - 1 <= MaxFrame
    BY AllocFits DEF Fits
  <1>2. new \in SUBSET Frame
    BY <1>1, MemoryAssumption DEF Frame
  <1>3. m \in [Frame -> [Idx -> Entry]]
    BY ZeroGood DEF HeapType
  <1>4. ept_alloc_pages(h, n) = [used |-> h.used \cup new, mem |-> m]
    BY DEF ept_alloc_pages
  <1> HIDE DEF m, new
  <1> QED
    BY <1>2, <1>3, <1>4 DEF HeapType

LEMMA WriteType ==
    ASSUME NEW h \in HeapType, NEW t, NEW i, NEW e \in Entry
    PROVE  Write(h, t, i, e) \in HeapType
  BY DEF Write, HeapType

LEMMA AllocTableType ==
    ASSUME NEW h \in HeapType, NEW t, NEW i
    PROVE  ept_alloc_table(h, t, i) \in HeapType
  <1>1. CASE Wild(t, i) \/ Read(h, t, i).present \/ ~Room(h, 1)
    BY <1>1 DEF ept_alloc_table
  <1>2. CASE ~(Wild(t, i) \/ Read(h, t, i).present \/ ~Room(h, 1))
    <2>1. ept_alloc_pages(h, 1) \in HeapType
      BY <1>2, AllocType
    <2>2. Points(aligned_alloc(h, 1)) \in Entry
      BY <1>2, AllocFits, PointsGood
    <2>3. ept_alloc_table(h, t, i)
             = Write(ept_alloc_pages(h, 1), t, i, Points(aligned_alloc(h, 1)))
      BY <1>2 DEF ept_alloc_table
    <2> QED
      BY <2>1, <2>2, <2>3, WriteType
  <1> QED
    BY <1>1, <1>2

LEMMA EptMapType ==
    ASSUME NEW h \in HeapType, NEW r, NEW g, NEW f \in Frame
    PROVE  ept_map(h, r, g, f).heap \in HeapType /\ ept_map(h, r, g, f).ok \in BOOLEAN
  <1> DEFINE h1   == ept_alloc_table(h, r, EPT_PML4_INDEX(g))
             pdpt == Child(h1, r, EPT_PML4_INDEX(g))
             h2   == ept_alloc_table(h1, pdpt, EPT_PDP_INDEX(g))
             pd   == Child(h2, pdpt, EPT_PDP_INDEX(g))
             h3   == ept_alloc_table(h2, pd, EPT_PD_INDEX(g))
             pt   == Child(h3, pd, EPT_PD_INDEX(g))
             h4   == IF Wild(pt, EPT_PT_INDEX(g)) THEN h3
                     ELSE Write(h3, pt, EPT_PT_INDEX(g), Points(f))
  <1>1. h1 \in HeapType
    BY AllocTableType
  <1> HIDE DEF h1
  <1>2. h2 \in HeapType
    BY <1>1, AllocTableType
  <1> HIDE DEF h2
  <1>3. h3 \in HeapType
    BY <1>2, AllocTableType
  <1> HIDE DEF h3
  <1>4. h4 \in HeapType
    BY <1>3, WriteType, PointsGood
  <1> HIDE DEF h4
  <1>5. ept_map(h, r, g, f) = [ok |-> ~Wild(pt, EPT_PT_INDEX(g)), heap |-> h4]
    BY Zenon DEF ept_map, h1, h2, h3, h4
  <1> QED
    BY <1>4, <1>5

\* What a walk finds is a frame.
LEMMA DescendType ==
    ASSUME Heap \in HeapType, NEW X, NEW i \in Nat
    PROVE  Descend(X, i) \in SUBSET Frame
  <1>1. SUFFICES ASSUME NEW t \in X, ~Wild(t, i), Read(Heap, t, i).present,
                        ~Read(Heap, t, i).big
                 PROVE  Read(Heap, t, i).addr \in Frame
    BY DEF Descend
  <1>2. Slot(t, i) \in Frame /\ i % EntriesPerPage \in Idx
    BY <1>1, MemoryAssumption DEF Wild, Idx
  <1>3. Read(Heap, t, i) \in Entry
    BY <1>2 DEF Read, HeapType
  <1> QED
    BY <1>1, <1>3 DEF Entry

LEMMA IndexType ==
    ASSUME NEW g \in Nat
    PROVE  /\ EPT_PT_INDEX(g) \in Nat
           /\ EPT_PD_INDEX(g) \in Nat
           /\ EPT_PDP_INDEX(g) \in Nat
           /\ EPT_PML4_INDEX(g) \in Nat
  <1>1. Fanout \in Nat \ {0}
    BY MemoryAssumption
  <1>2. \A x \in Nat : x % Fanout \in Nat
    BY <1>1
  <1>3. \A m \in Nat \ {0} : g \div m \in Nat
    OBVIOUS
  <1>4. Fanout * Fanout \in Nat \ {0}
    BY <1>1
  <1>5. Fanout * Fanout * Fanout \in Nat \ {0}
    BY <1>1, <1>4
  <1> QED
    BY <1>1, <1>2, <1>3, <1>4, <1>5
    DEF EPT_PT_INDEX, EPT_PD_INDEX, EPT_PDP_INDEX, EPT_PML4_INDEX

\* A heap's fields, for the variables of the next state.
LEMMA HeapNext ==
    ASSUME NEW h \in HeapType, mem' = h.mem, used' = h.used
    PROVE  /\ Heap' \in HeapType
           /\ mem' \in [Frame -> [0 .. (EntriesPerPage - 1) -> Entry]]
           /\ used' \subseteq Frame
  BY DEF Heap, HeapType, Entry, Idx

LEMMA PagesType ==
    ASSUME NEW size \in Sizes
    PROVE  /\ PagesAllocated(size) \in Nat \ {0} /\ PagesMapped(size) \in Nat
           /\ PagesMapped(size) <= PagesAllocated(size) /\ size \in Nat
  <1>1. size \in Nat
    BY MemoryAssumption
  <1> QED
    BY <1>1 DEF PagesAllocated, PagesMapped

LEMMA InitType == Init => TypeInv
  <1> SUFFICES ASSUME Init PROVE TypeInv
    OBVIOUS
  <1>1. Heap \in HeapType
    BY ZeroGood DEF Init, Heap, HeapType
  <1>2. mem \in [Frame -> [0 .. (EntriesPerPage - 1) -> Entry]]
    BY <1>1 DEF Heap, HeapType, Entry, Idx
  <1>3. \A vm \in VM : regions[vm] \in Seq(Region) /\ Len(regions[vm]) <= MaxRegions
    BY MemoryAssumption DEF Init
  <1>4. regions \in [VM -> Seq(Region)] /\ root \in [VM -> 0 .. MaxFrame]
    BY <1>3, MemoryAssumption DEF Init
  <1>5. mapping \in [VM -> [gpa : Nat, hpa : Nat, left : Nat]] /\ MappingIn
    BY DEF Init, Idle, MappingIn
  <1> QED
    BY <1>1, <1>2, <1>3, <1>4, <1>5 DEF Init, TypeInv, TypeOK

LEMMA CreateType ==
    ASSUME TypeInv, NEW vm \in VM, vm_create(vm)
    PROVE  TypeInv'
  <1>1. PICK h : h = ept_alloc_pages(Heap, 1)
    OBVIOUS
  <1>2. h \in HeapType /\ aligned_alloc(Heap, 1) \in Frame
    BY <1>1, AllocType, AllocFits DEF TypeInv, vm_create
  <1>3. mem' = h.mem /\ used' = h.used
    BY <1>1 DEF vm_create
  <1>4. /\ Heap' \in HeapType /\ used' \subseteq Frame
        /\ mem' \in [Frame -> [0 .. (EntriesPerPage - 1) -> Entry]]
    BY <1>2, <1>3, HeapNext
  <1>5. \A w \in VM : regions'[w] \in Seq(Region) /\ Len(regions'[w]) <= MaxRegions
    BY MemoryAssumption DEF vm_create, TypeInv, TypeOK
  <1>6. root' \in [VM -> 0 .. MaxFrame] /\ regions' \in [VM -> Seq(Region)]
    BY <1>2, <1>5, MemoryAssumption DEF vm_create, TypeInv, TypeOK, Frame
  <1> QED
    BY <1>4, <1>5, <1>6 DEF vm_create, TypeInv, TypeOK, MappingIn

LEMMA DestroyType ==
    ASSUME TypeInv, NEW vm \in VM, vm_destroy(vm)
    PROVE  TypeInv'
  <1>1. PICK h : h = [mem |-> mem, used |-> used \ {root[vm]}]
    OBVIOUS
  <1>2. h \in HeapType /\ mem' = h.mem /\ used' = h.used
    BY <1>1 DEF TypeInv, Heap, HeapType, vm_destroy
  <1>4. /\ Heap' \in HeapType /\ used' \subseteq Frame
        /\ mem' \in [Frame -> [0 .. (EntriesPerPage - 1) -> Entry]]
    BY <1>2, HeapNext
  <1>5. \A w \in VM : regions'[w] \in Seq(Region) /\ Len(regions'[w]) <= MaxRegions
    BY MemoryAssumption DEF vm_destroy, TypeInv, TypeOK
  <1>6. root' \in [VM -> 0 .. MaxFrame] /\ regions' \in [VM -> Seq(Region)]
    BY <1>5, MemoryAssumption DEF vm_destroy, TypeInv, TypeOK
  <1> QED
    BY <1>4, <1>5, <1>6 DEF vm_destroy, OfOthers, TypeInv, TypeOK, MappingIn

LEMMA ResetType ==
    ASSUME TypeInv, NEW vm \in VM, vm_reset(vm)
    PROVE  TypeInv'
  <1>1. PICK h : h = [mem |-> [mem EXCEPT ![root[vm]] = Blank], used |-> used]
    OBVIOUS
  <1>2. h \in HeapType /\ mem' = h.mem /\ used' = h.used
    BY <1>1, ZeroGood DEF TypeInv, Heap, HeapType, vm_reset
  <1>3. /\ Heap' \in HeapType /\ used' \subseteq Frame
        /\ mem' \in [Frame -> [0 .. (EntriesPerPage - 1) -> Entry]]
    BY <1>2, HeapNext
  <1> QED
    BY <1>3 DEF vm_reset, OfOthers, TypeInv, TypeOK, MappingIn

LEMMA AllocMemoryType ==
    ASSUME TypeInv, NEW vm \in VM, NEW g \in GuestPages, NEW size \in Sizes,
           vm_alloc_memory(vm, g, size)
    PROVE  TypeInv'
  <1>0. PICK n \in Nat \ {0} : n = PagesAllocated(size)
    BY PagesType
  <1>1. PICK h : h = ept_alloc_pages(Heap, n)
    OBVIOUS
  <1>2. PICK f : f = aligned_alloc(Heap, n)
    OBVIOUS
  <1>3. Room(Heap, n)
    BY <1>0 DEF vm_alloc_memory
  <1>4. h \in HeapType /\ f \in Frame /\ f + n - 1 <= MaxFrame
    BY <1>0, <1>1, <1>2, <1>3, AllocType, AllocFits DEF TypeInv, Fits
  <1>5. mem' = h.mem /\ used' = h.used
    BY <1>0, <1>1 DEF vm_alloc_memory
  <1>6. /\ Heap' \in HeapType /\ used' \subseteq Frame
        /\ mem' \in [Frame -> [0 .. (EntriesPerPage - 1) -> Entry]]
    BY <1>4, <1>5, HeapNext
  <1>a. g \in Nat /\ f \in Nat /\ size \in Nat /\ PagesMapped(size) \in Nat
    BY <1>4, PagesType, MemoryAssumption DEF Frame
  <1>7. PICK x \in Region : x = [gpa |-> g, hpa |-> f, size |-> size]
    BY <1>a DEF Region
  <1>8. regions' = [regions EXCEPT ![vm] = Append(regions[vm], x)]
    BY <1>0, <1>2, <1>7 DEF vm_alloc_memory
  <1>9. \A w \in VM : regions'[w] \in Seq(Region) /\ Len(regions'[w]) <= MaxRegions
    <2>1. regions[vm] \in Seq(Region) /\ Len(regions[vm]) < MaxRegions
      BY DEF vm_alloc_memory, TypeInv, TypeOK
    <2>2. /\ Append(regions[vm], x) \in Seq(Region)
          /\ Len(Append(regions[vm], x)) <= MaxRegions
      BY <2>1, MemoryAssumption
    <2> QED
      BY <1>8, <2>2 DEF TypeInv, TypeOK
  <1>10. regions' \in [VM -> Seq(Region)]
    BY <1>8, <1>9 DEF TypeInv, TypeOK
  <1>11. PICK m \in [gpa : Nat, hpa : Nat, left : Nat] :
              m = [gpa |-> g, hpa |-> f, left |-> PagesMapped(size)]
    BY <1>a
  <1>12. mapping' = [mapping EXCEPT ![vm] = m]
    BY <1>0, <1>2, <1>11 DEF vm_alloc_memory
  <1>13. m.hpa \in Frame /\ m.hpa + m.left - 1 <= MaxFrame
    <2>1. m.hpa = f /\ m.left = PagesMapped(size) /\ f \in Nat /\ MaxFrame \in Nat
      BY <1>4, <1>11, MemoryAssumption DEF Frame
    <2>2. PagesMapped(size) <= n /\ PagesMapped(size) \in Nat
      BY <1>0, PagesType
    <2> QED
      BY <1>4, <2>1, <2>2
  <1>14. /\ mapping' \in [VM -> [gpa : Nat, hpa : Nat, left : Nat]]
         /\ MappingIn'
    BY <1>12, <1>13 DEF TypeInv, TypeOK, MappingIn
  <1> QED
    BY <1>6, <1>9, <1>10, <1>14 DEF vm_alloc_memory, TypeInv, TypeOK

LEMMA EptMapStepType ==
    ASSUME TypeInv, NEW vm \in VM, vm_ept_map(vm)
    PROVE  TypeInv'
  <1>1. PICK m \in [gpa : Nat, hpa : Nat, left : Nat] : m = mapping[vm]
    BY DEF TypeInv, TypeOK
  <1>2. /\ m.left > 0 /\ m.hpa \in Frame /\ m.hpa + m.left - 1 <= MaxFrame
        /\ m.gpa \in Nat /\ m.hpa \in Nat /\ m.left \in Nat
    BY <1>1 DEF vm_ept_map, TypeInv, MappingIn
  <1>3. PICK r : r = ept_map(Heap, root[vm], m.gpa, m.hpa)
    OBVIOUS
  <1>4. r.heap \in HeapType /\ r.ok \in BOOLEAN
    BY <1>2, <1>3, EptMapType DEF TypeInv
  <1>5. mem' = r.heap.mem /\ used' = r.heap.used /\ crashed' = ~r.ok
    BY <1>1, <1>3 DEF vm_ept_map
  <1>6. /\ Heap' \in HeapType /\ used' \subseteq Frame
        /\ mem' \in [Frame -> [0 .. (EntriesPerPage - 1) -> Entry]]
    <2>1. PICK h \in HeapType : h = r.heap
      BY <1>4
    <2> QED BY <1>5, <2>1, HeapNext
  <1>7. PICK x : x = IF r.ok /\ m.left > 1
                     THEN [gpa |-> m.gpa + 1, hpa |-> m.hpa + 1, left |-> m.left - 1]
                     ELSE Idle
    OBVIOUS
  <1>8. mapping' = [mapping EXCEPT ![vm] = x]
    BY <1>1, <1>3, <1>7 DEF vm_ept_map
  <1>9. /\ x \in [gpa : Nat, hpa : Nat, left : Nat]
        /\ x.left > 0 => x.hpa \in Frame /\ x.hpa + x.left - 1 <= MaxFrame
    <2>1. CASE r.ok /\ m.left > 1
      <3>1. x = [gpa |-> m.gpa + 1, hpa |-> m.hpa + 1, left |-> m.left - 1]
        BY <1>7, <2>1
      <3>2. /\ m.gpa + 1 \in Nat /\ m.hpa + 1 \in Frame /\ m.left - 1 \in Nat
            /\ m.hpa + 1 \in Nat /\ (m.hpa + 1) + (m.left - 1) - 1 <= MaxFrame
        BY <1>2, <2>1, MemoryAssumption DEF Frame
      <3> QED BY <3>1, <3>2
    <2>2. CASE ~(r.ok /\ m.left > 1)
      BY <1>7, <2>2 DEF Idle
    <2> QED BY <2>1, <2>2
  <1>10. /\ mapping' \in [VM -> [gpa : Nat, hpa : Nat, left : Nat]]
         /\ MappingIn'
    BY <1>8, <1>9 DEF TypeInv, TypeOK, MappingIn
  <1>11. /\ UNCHANGED <<root, gone, regions>>
         /\ spilled' \in BOOLEAN /\ unmapped' \subseteq unmapped
    BY DEF vm_ept_map
  <1> QED
    BY <1>4, <1>5, <1>6, <1>10, <1>11 DEF TypeInv, TypeOK

LEMMA LargeType ==
    ASSUME TypeInv, NEW vm \in VM, NEW g \in GuestPages,
           ept_map_2mb(vm, g) \/ ept_map_1gb(vm, g)
    PROVE  TypeInv'
  <1>1. Fanout \in Nat \ {0} /\ Fanout * Fanout \in Nat \ {0} /\ LargeHost \in Nat
    BY MemoryAssumption
  <1>2. PICK n \in Nat \ {0} : \E t, i : WriteLarge(vm, t, i, g, n)
    BY <1>1 DEF ept_map_2mb, ept_map_1gb
  <1>a. PICK t, i : WriteLarge(vm, t, i, g, n)
    BY <1>2
  <1>3. LargeHost \div n \in Nat
    BY <1>1
  <1>4. PICK e \in Entry : e = LargePage(LargeHost \div n)
    BY <1>3 DEF LargePage, Entry
  <1>5. PICK h \in HeapType : h = IF Wild(t, i) THEN Heap ELSE Write(Heap, t, i, e)
    BY WriteType DEF TypeInv
  <1>6. mem' = h.mem /\ used' = h.used
    BY <1>a, <1>4, <1>5 DEF WriteLarge, Write, Heap
  <1>7. /\ Heap' \in HeapType /\ used' \subseteq Frame
        /\ mem' \in [Frame -> [0 .. (EntriesPerPage - 1) -> Entry]]
    BY <1>6, HeapNext
  <1>8. /\ UNCHANGED <<root, gone, regions, mapping>>
        /\ crashed' \in BOOLEAN /\ spilled' \in BOOLEAN /\ unmapped' \subseteq unmapped
    BY <1>a DEF WriteLarge, Wild
  <1> QED
    BY <1>7, <1>8 DEF TypeInv, TypeOK, MappingIn

LEMMA UnmapType ==
    ASSUME TypeInv, NEW vm \in VM, NEW g \in GuestPages, vm_ept_unmap(vm, g)
    PROVE  TypeInv'
  BY DEF vm_ept_unmap, TypeInv, TypeOK, MappingIn, Heap

LEMMA NextType == TypeInv /\ [Next]_vars => TypeInv'
  <1> SUFFICES ASSUME TypeInv, [Next]_vars PROVE TypeInv'
    OBVIOUS
  <1>1. CASE UNCHANGED vars
    BY <1>1 DEF vars, TypeInv, TypeOK, MappingIn, Heap
  <1>2. CASE Next
    BY <1>2, CreateType, DestroyType, ResetType, AllocMemoryType, EptMapStepType,
       LargeType, UnmapType
    DEF Next
  <1> QED
    BY <1>1, <1>2

\* Every variable keeps its type: the walks, which follow whatever entry they
\* find, yield frames of host memory, and no VM exceeds its array of regions.
THEOREM MemoryTypeCorrect == Spec => []TypeOK
  <1>1. TypeInv => TypeOK
    BY DEF TypeInv
  <1> QED
    BY <1>1, InitType, NextType, PTL DEF Spec

-----------------------------------------------------------------------------
(* Isolation.                                                              *)

(***************************************************************************)
(* What every frame is for: own is the VM it was allocated for, lvl is 4   *)
(* for a PML4, 3, 2 and 1 for the tables below it, 0 for guest RAM and     *)
(* Free for a frame that malloc has.  A frame keeps its purpose when its   *)
(* VM is destroyed; only a PML4 is ever freed.                             *)
(***************************************************************************)
Free == 5
Level(own, lvl, k, vm) == {f \in Frame : lvl[f] = k /\ own[f] = vm}

\* Entry e of the table f leads to the level below, of the same VM.
EntryFits(e, f, own, lvl) ==
    /\ e.big => lvl[f] \in {2, 3}
    /\ ~e.present => e.addr = 0
    /\ e.present /\ ~e.big => e.addr \in Level(own, lvl, lvl[f] - 1, own[f])

Shape(h, own, lvl) ==
    /\ h \in HeapType
    /\ own \in [Frame -> VM \cup {Absent}]
    /\ lvl \in [Frame -> 0 .. Free]
    /\ h.used = {f \in Frame : lvl[f] # Free}
    /\ \A f \in Frame : lvl[f] \in 1..4 =>
          \A i \in Idx : EntryFits(h.mem[f][i], f, own, lvl)

\* The walk for the safe page g from the root table r meets no large page.
NoBig(m, r, g) ==
    InTable(g) =>
    LET e4 == m[r][EPT_PML4_INDEX(g)]
        e3 == m[e4.addr][EPT_PDP_INDEX(g)]
        e2 == m[e3.addr][EPT_PD_INDEX(g)]
    IN  e4.present => ~e3.big /\ (e3.present => ~e2.big)

LEMMA FitIndex ==
    ASSUME NEW g \in GuestPages, InTable(g)
    PROVE  /\ EPT_PT_INDEX(g) \in Idx
           /\ EPT_PD_INDEX(g) \in Idx
           /\ EPT_PDP_INDEX(g) \in Idx
           /\ EPT_PML4_INDEX(g) \in Idx
  <1>1. g \in Nat /\ EntriesPerPage \in Nat
    BY MemoryAssumption
  <1>2. /\ EPT_PT_INDEX(g) \in Nat /\ EPT_PD_INDEX(g) \in Nat
        /\ EPT_PDP_INDEX(g) \in Nat /\ EPT_PML4_INDEX(g) \in Nat
    BY <1>1, IndexType
  <1> QED
    BY <1>1, <1>2 DEF InTable, Idx

\* An index that fits names an entry of the table's own frame.
LEMMA SlotFits ==
    ASSUME NEW t \in Nat, NEW i \in Idx
    PROVE  Slot(t, i) = t /\ i % EntriesPerPage = i /\ (Wild(t, i) <=> t \notin Frame)
  <1>1. EntriesPerPage \in Nat \ {0} /\ i \in Nat /\ i < EntriesPerPage
    BY MemoryAssumption DEF Idx
  <1>2. i \div EntriesPerPage = 0 /\ i % EntriesPerPage = i
    BY <1>1
  <1> QED
    BY <1>1, <1>2, MemoryAssumption DEF Slot, Wild, Frame

LEMMA ReadWriteFits ==
    ASSUME NEW h \in HeapType, NEW t \in Frame, NEW i \in Idx, NEW e \in Entry
    PROVE  /\ Read(h, t, i) = h.mem[t][i]
           /\ Write(h, t, i, e).used = h.used
           /\ Write(h, t, i, e).mem = [h.mem EXCEPT ![t] = [h.mem[t] EXCEPT ![i] = e]]
  <1>1. t \in Nat
    BY MemoryAssumption DEF Frame
  <1>2. Slot(t, i) = t /\ i % EntriesPerPage = i
    BY <1>1, SlotFits
  <1> QED
    BY <1>2 DEF Read, Write, HeapType

\* Allocation of n frames: new is where, and they become level k of vm.
Allocates(h, own, lvl, n, vm, k, new, own2, lvl2) ==
    /\ new = aligned_alloc(h, n) .. (aligned_alloc(h, n) + n - 1)
    /\ own2 = [f \in Frame |-> IF f \in new THEN vm ELSE own[f]]
    /\ lvl2 = [f \in Frame |-> IF f \in new THEN k ELSE lvl[f]]

Allocated(h, lvl, n, new, own2, lvl2) ==
    /\ Shape(ept_alloc_pages(h, n), own2, lvl2)
    /\ aligned_alloc(h, n) \in new
    /\ \A f \in new : f \in Frame /\ lvl[f] = Free
    /\ ept_alloc_pages(h, n).mem = [f \in Frame |-> IF f \in new THEN Blank ELSE h.mem[f]]

LEMMA AllocShape ==
    ASSUME NEW h, NEW own, NEW lvl, Shape(h, own, lvl), NEW n \in Nat \ {0}, Room(h, n),
           NEW vm \in VM, NEW k \in 0..4, NEW new, NEW own2, NEW lvl2,
           Allocates(h, own, lvl, n, vm, k, new, own2, lvl2)
    PROVE  Allocated(h, lvl, n, new, own2, lvl2)
  <1> USE DEF Allocates, Allocated
  <1> DEFINE a == aligned_alloc(h, n)
             g == ept_alloc_pages(h, n)
  <1>1. a \in Frame /\ a + n - 1 <= MaxFrame /\ new \cap h.used = {}
    BY AllocFits DEF Fits
  <1>2. a \in new /\ new \in SUBSET Frame
    BY <1>1, MemoryAssumption DEF Frame
  <1>3. \A f \in new : f \in Frame /\ lvl[f] = Free
    BY <1>1, <1>2 DEF Shape
  <1>4. g.used = h.used \cup new /\ g.mem = [f \in Frame |-> IF f \in new THEN Blank ELSE h.mem[f]]
    BY DEF ept_alloc_pages
  <1>5. g \in HeapType
    BY AllocType DEF Shape
  <1> HIDE DEF g, a
  <1>6. own2 \in [Frame -> VM \cup {Absent}] /\ lvl2 \in [Frame -> 0 .. Free]
    BY DEF Shape, Free
  <1>7. g.used = {f \in Frame : lvl2[f] # Free}
    BY <1>2, <1>4 DEF Shape, Free
  <1>8. ASSUME NEW f \in Frame, lvl2[f] \in 1..4, NEW i \in Idx
        PROVE  EntryFits(g.mem[f][i], f, own2, lvl2)
    <2>1. CASE f \in new
      BY <1>4, <2>1 DEF Blank, Zero, EntryFits, Idx
    <2>2. CASE f \notin new
      <3>1. lvl2[f] = lvl[f] /\ own2[f] = own[f] /\ g.mem[f] = h.mem[f]
        BY <1>4, <2>2
      <3>2. EntryFits(h.mem[f][i], f, own, lvl)
        BY <1>8, <3>1 DEF Shape
      <3>3. Level(own, lvl, lvl[f] - 1, own[f]) \in SUBSET Level(own2, lvl2, lvl[f] - 1, own[f])
        <4>1. lvl[f] - 1 # Free
          BY <1>8, <3>1 DEF Free
        <4> QED BY <1>3, <4>1 DEF Level
      <3> QED BY <3>1, <3>2, <3>3 DEF EntryFits
    <2> QED BY <2>1, <2>2
  <1> QED
    BY <1>2, <1>3, <1>4, <1>5, <1>6, <1>7, <1>8 DEF Shape, g, a

\* A write of a fitting entry.
LEMMA WriteShape ==
    ASSUME NEW h, NEW own, NEW lvl, Shape(h, own, lvl), NEW t \in Frame, lvl[t] \in 1..4,
           NEW i \in Idx, NEW e \in Entry, EntryFits(e, t, own, lvl)
    PROVE  Shape(Write(h, t, i, e), own, lvl)
  <1> DEFINE g == Write(h, t, i, e)
  <1>1. h \in HeapType /\ g \in HeapType
    BY WriteType DEF Shape
  <1>2. g.used = h.used /\ g.mem = [h.mem EXCEPT ![t] = [h.mem[t] EXCEPT ![i] = e]]
    BY <1>1, ReadWriteFits
  <1> HIDE DEF g
  <1>3. ASSUME NEW f \in Frame, lvl[f] \in 1..4, NEW j \in Idx
        PROVE  EntryFits(g.mem[f][j], f, own, lvl)
    <2>1. EntryFits(h.mem[f][j], f, own, lvl)
      BY <1>3 DEF Shape
    <2>2. g.mem[f][j] = IF f = t /\ j = i THEN e ELSE h.mem[f][j]
      BY <1>1, <1>2 DEF HeapType
    <2> QED BY <2>1, <2>2
  <1> QED
    BY <1>1, <1>2, <1>3 DEF Shape, g

\* The walk of one VM does not depend on other frames than its own tables of
\* the upper levels.
LEMMA NoBigFrame ==
    ASSUME NEW h, NEW own, NEW lvl, Shape(h, own, lvl), NEW r \in Frame, lvl[r] = 4,
           NEW g \in GuestPages, NEW m,
           \A f \in Frame : own[f] = own[r] /\ lvl[f] \in 2..4 => m[f] = h.mem[f],
           NoBig(h.mem, r, g)
    PROVE  NoBig(m, r, g)
  <1> SUFFICES ASSUME InTable(g) PROVE NoBig(m, r, g)
    BY DEF NoBig
  <1> DEFINE e4 == h.mem[r][EPT_PML4_INDEX(g)]
             e3 == h.mem[e4.addr][EPT_PDP_INDEX(g)]
             e2 == h.mem[e3.addr][EPT_PD_INDEX(g)]
  <1>0. /\ EPT_PML4_INDEX(g) \in Idx /\ EPT_PDP_INDEX(g) \in Idx /\ EPT_PD_INDEX(g) \in Idx
    BY FitIndex
  <1>1. m[r] = h.mem[r] /\ EntryFits(e4, r, own, lvl)
    BY <1>0 DEF Shape
  <1>2. SUFFICES ASSUME e4.present
                 PROVE  LET x3 == m[e4.addr][EPT_PDP_INDEX(g)]
                            x2 == m[x3.addr][EPT_PD_INDEX(g)]
                        IN  ~x3.big /\ (x3.present => ~x2.big)
    BY <1>1 DEF NoBig
  <1>3. ~e3.big /\ (e3.present => ~e2.big)
    BY <1>2 DEF NoBig
  <1>4. e4.addr \in Frame /\ lvl[e4.addr] = 3 /\ own[e4.addr] = own[r]
    BY <1>1, <1>2 DEF EntryFits, Level
  <1>5. m[e4.addr] = h.mem[e4.addr] /\ EntryFits(e3, e4.addr, own, lvl)
    BY <1>0, <1>4 DEF Shape
  <1>6. CASE ~e3.present
    BY <1>3, <1>5, <1>6
  <1> HIDE DEF e4, e3, e2
  <1>7. CASE e3.present
    <2>1. e3.addr \in Frame /\ lvl[e3.addr] = 2 /\ own[e3.addr] = own[r]
      BY <1>3, <1>4, <1>5, <1>7 DEF EntryFits, Level
    <2>2. m[e3.addr] = h.mem[e3.addr]
      BY <2>1
    <2> QED BY <1>3, <1>5, <1>7, <2>2 DEF e3, e2
  <1> QED
    BY <1>6, <1>7

\* A new, empty table n in the entry i of table t.
LEMMA NoBigTable ==
    ASSUME NEW h, NEW own, NEW lvl, Shape(h, own, lvl), NEW r \in Frame, lvl[r] = 4,
           NEW g \in GuestPages, NEW m, NEW t \in Frame, NEW i, NEW n \in Frame, lvl[n] = Free,
           lvl[t] # Free, ~h.mem[t][i].present,
           \A f \in Frame, j \in Idx :
              m[f][j] = IF f = n THEN Zero
                        ELSE IF f = t /\ j = i THEN Points(n) ELSE h.mem[f][j],
           NoBig(h.mem, r, g)
    PROVE  NoBig(m, r, g)
  <1> SUFFICES ASSUME InTable(g) PROVE NoBig(m, r, g)
    BY DEF NoBig
  <1> DEFINE i4 == EPT_PML4_INDEX(g)
             i3 == EPT_PDP_INDEX(g)
             i2 == EPT_PD_INDEX(g)
             e4 == h.mem[r][i4]
             e3 == h.mem[e4.addr][i3]
             e2 == h.mem[e3.addr][i2]
             x4 == m[r][i4]
             x3 == m[x4.addr][i3]
             x2 == m[x3.addr][i2]
  <1>0. i4 \in Idx /\ i3 \in Idx /\ i2 \in Idx
    BY FitIndex
  <1>a. NoBig(m, r, g) <=> (x4.present => ~x3.big /\ (x3.present => ~x2.big))
    BY DEF NoBig
  <1>b. e4.present => ~e3.big /\ (e3.present => ~e2.big)
    BY DEF NoBig
  <1>c. EntryFits(e4, r, own, lvl)
    BY <1>0 DEF Shape
  <1>d. \A k \in Idx : ~m[n][k].big /\ ~m[n][k].present
    BY DEF Zero
  <1>e. r # n /\ t # n
    BY DEF Free
  <1>f. x4 = IF r = t /\ i4 = i THEN Points(n) ELSE e4
    BY <1>0, <1>e
  <1> HIDE DEF i4, i3, i2
  <1>1. CASE r = t /\ i4 = i
    <2>1. x4.addr = n
      BY <1>f, <1>1 DEF Points
    <2> QED BY <1>0, <1>a, <1>d, <2>1
  <1>2. CASE ~(r = t /\ i4 = i)
    <2>1. x4 = e4
      BY <1>f, <1>2
    <2>2. CASE ~e4.present
      BY <1>a, <2>1, <2>2
    <2>3. CASE e4.present
      <3>1. e4.addr \in Frame /\ lvl[e4.addr] = 3
        BY <1>c, <2>3 DEF EntryFits, Level
      <3>2. e4.addr # n
        BY <3>1 DEF Free
      <3>3. x3 = IF e4.addr = t /\ i3 = i THEN Points(n) ELSE e3
        BY <1>0, <2>1, <3>1, <3>2
      <3>4. CASE e4.addr = t /\ i3 = i
        <4>1. x3.addr = n /\ ~x3.big
          BY <3>3, <3>4 DEF Points
        <4>2. ~x2.big
          BY <1>0, <1>d, <4>1
        <4> QED BY <1>a, <4>1, <4>2
      <3>5. CASE ~(e4.addr = t /\ i3 = i)
        <4>1. x3 = e3 /\ ~x3.big
          BY <1>b, <2>3, <3>3, <3>5
        <4>2. CASE ~e3.present
          BY <1>a, <4>1, <4>2
        <4>3. CASE e3.present
          <5>1. EntryFits(e3, e4.addr, own, lvl)
            BY <1>0, <3>1 DEF Shape
          <5>2. e3.addr \in Frame /\ lvl[e3.addr] = 2
            <6>1. ~e3.big
              BY <4>1
            <6> HIDE DEF e4, e3
            <6> QED BY <3>1, <4>3, <5>1, <6>1 DEF EntryFits, Level
          <5>3. e3.addr # n
            BY <5>2 DEF Free
          <5>4. x2 = IF e3.addr = t /\ i2 = i THEN Points(n) ELSE e2
            BY <1>0, <4>1, <5>2, <5>3, ZenonT(40)
          <5>5. ~x2.big
            <6>1. ~e2.big
              BY <1>b, <2>3, <4>3
            <6>2. ~Points(n).big
              BY DEF Points
            <6> HIDE DEF e2, x2
            <6> QED BY <5>4, <6>1, <6>2
          <5> QED BY <1>a, <4>1, <5>5
        <4> QED BY <4>2, <4>3
      <3> QED BY <3>4, <3>5
    <2> QED BY <2>2, <2>3
  <1> QED
    BY <1>1, <1>2

\* own2 and lvl2 are own and lvl with tables for vm added.
Adds(own, lvl, own2, lvl2, vm) ==
    \A f \in Frame :
       IF lvl[f] # Free THEN own2[f] = own[f] /\ lvl2[f] = lvl[f]
       ELSE lvl2[f] # Free => own2[f] = vm

\* None of them is guest RAM.
NoRam(lvl, lvl2) == \A f \in Frame : lvl2[f] = 0 => lvl[f] = 0

\* No walk that met no large page meets one afterwards.
NoNewBig(h, h2, lvl) ==
    \A r \in Frame, g \in GuestPages :
       lvl[r] = 4 /\ NoBig(h.mem, r, g) => NoBig(h2.mem, r, g)

\* The entry (t, i) of h leads to table c, which is 0 if there is none.
Leads(h, own, lvl, t, i, c, k, vm) ==
    \/ c = 0
    \/ /\ c \in Level(own, lvl, k, vm)
       /\ h.mem[t][i].present /\ ~h.mem[t][i].big /\ h.mem[t][i].addr = c

\* One level of ept_map: the heap h2 with the table of level k - 1 in entry
\* (t, i) of a table of level k.
TableStep(h, own, lvl, h2, own2, lvl2, t, i, k, vm) ==
    /\ Shape(h2, own2, lvl2)
    /\ Adds(own, lvl, own2, lvl2, vm) /\ NoRam(lvl, lvl2)
    /\ NoNewBig(h, h2, lvl)
    /\ \A f \in Frame, j \in Idx :
          lvl[f] # Free /\ ~(f = t /\ j = i) => h2.mem[f][j] = h.mem[f][j]
    /\ Leads(h2, own2, lvl2, t, i, Child(h2, t, i), k - 1, vm)

LEMMA TableAllocated ==
    ASSUME NEW h, NEW own, NEW lvl, Shape(h, own, lvl), NEW vm \in VM, NEW t \in Frame,
           lvl[t] \in 2..4, own[t] = vm, NEW i \in Idx, ~h.mem[t][i].big
    PROVE  \E own2, lvl2 : TableStep(h, own, lvl, ept_alloc_table(h, t, i), own2, lvl2,
                                     t, i, lvl[t], vm)
  <1> DEFINE h2 == ept_alloc_table(h, t, i)
  <1>0. t \in Nat /\ h \in HeapType /\ ~Wild(t, i) /\ Slot(t, i) = t /\ i % EntriesPerPage = i
    <2>1. t \in Nat
      BY MemoryAssumption DEF Frame
    <2> QED BY <2>1, SlotFits DEF Shape
  <1>1. Read(h, t, i) = h.mem[t][i] /\ EntryFits(h.mem[t][i], t, own, lvl)
    BY <1>0 DEF Read, Shape
  <1>2. Child(h2, t, i) = h2.mem[t][i].addr
    BY <1>0 DEF Child, Read
  <1>3. CASE h.mem[t][i].present \/ ~Room(h, 1)
    <2>1. h2 = h
      BY <1>1, <1>3 DEF ept_alloc_table
    <2> HIDE DEF h2
    <2>2. Leads(h, own, lvl, t, i, Child(h2, t, i), lvl[t] - 1, vm)
      BY <1>1, <1>2, <2>1 DEF Leads, EntryFits
    <2>3. TableStep(h, own, lvl, h2, own, lvl, t, i, lvl[t], vm)
      BY <2>1, <2>2 DEF TableStep, Adds, NoRam, NoNewBig
    <2> QED BY <2>3 DEF h2
  <1>4. CASE ~h.mem[t][i].present /\ Room(h, 1)
    <2>1. PICK n : n = aligned_alloc(h, 1)
      OBVIOUS
    <2>2. PICK new : new = aligned_alloc(h, 1) .. (aligned_alloc(h, 1) + 1 - 1)
      OBVIOUS
    <2>3. PICK own2 : own2 = [f \in Frame |-> IF f \in new THEN vm ELSE own[f]]
      OBVIOUS
    <2>4. PICK k \in 1..3 : k = lvl[t] - 1
      OBVIOUS
    <2>5. PICK lvl2 : lvl2 = [f \in Frame |-> IF f \in new THEN k ELSE lvl[f]]
      OBVIOUS
    <2>6. PICK h1 : h1 = ept_alloc_pages(h, 1)
      OBVIOUS
    <2>7. /\ Shape(h1, own2, lvl2) /\ n \in new
          /\ \A f \in new : f \in Frame /\ lvl[f] = Free
          /\ h1.mem = [f \in Frame |-> IF f \in new THEN Blank ELSE h.mem[f]]
      <3>1. 1 \in Nat \ {0} /\ k \in 0..4
        BY <2>4
      <3>2. Room(h, 1)
        BY <1>4
      <3>3. Allocates(h, own, lvl, 1, vm, k, new, own2, lvl2)
        BY <2>2, <2>3, <2>5 DEF Allocates
      <3>4. Allocated(h, lvl, 1, new, own2, lvl2)
        BY <3>1, <3>2, <3>3, AllocShape
      <3> QED BY <2>1, <2>6, <3>4 DEF Allocated
    <2>8. new = {n} /\ n \in Frame /\ lvl[n] = Free /\ n # t
      <3>1. n \in Frame /\ n \in Nat
        BY <2>7, MemoryAssumption DEF Frame
      <3>2. new = {n}
        BY <2>1, <2>2, <3>1
      <3> QED BY <2>7, <3>1, <3>2 DEF Free
    <2>9. PICK e \in Entry : e = Points(n)
      BY <2>8, PointsGood
    <2>10. h2 = Write(h1, t, i, e)
      BY <1>0, <1>1, <1>4, <2>1, <2>6, <2>9 DEF ept_alloc_table
    <2>11. lvl2[t] = lvl[t] /\ own2[t] = vm /\ lvl2[n] = lvl[t] - 1 /\ own2[n] = vm
      BY <2>3, <2>4, <2>5, <2>8
    <2>12. EntryFits(e, t, own2, lvl2)
      BY <2>8, <2>9, <2>11 DEF EntryFits, Points, Level
    <2>13. Shape(h2, own2, lvl2)
      <3>1. lvl2[t] \in 1..4
        BY <2>11
      <3> QED BY <2>7, <2>10, <2>12, <3>1, WriteShape
    <2>14. \A f \in Frame, j \in Idx :
              h2.mem[f][j] = IF f = n THEN Zero
                             ELSE IF f = t /\ j = i THEN Points(n) ELSE h.mem[f][j]
      <3>1. h1 \in HeapType
        BY <2>7 DEF Shape
      <3>2. h2.mem = [h1.mem EXCEPT ![t] = [h1.mem[t] EXCEPT ![i] = e]]
        BY <2>10, <3>1, ReadWriteFits
      <3>3. ASSUME NEW f \in Frame, NEW j \in Idx
            PROVE  h2.mem[f][j] = IF f = n THEN Zero
                             ELSE IF f = t /\ j = i THEN Points(n) ELSE h.mem[f][j]
        <4>1. CASE f = n
          <5>1. h2.mem[n] = h1.mem[n] /\ h1.mem[n] = Blank
            BY <2>7, <2>8, <3>1, <3>2 DEF HeapType
          <5> QED BY <4>1, <5>1 DEF Blank, Idx
        <4>2. CASE f = t
          <5>1. h1.mem[t] = h.mem[t] /\ h1.mem[t] \in [Idx -> Entry]
            BY <2>7, <2>8, <3>1 DEF HeapType
          <5>2. h2.mem[t] = [h1.mem[t] EXCEPT ![i] = e]
            BY <3>1, <3>2 DEF HeapType
          <5> QED BY <2>8, <2>9, <4>2, <5>1, <5>2
        <4>3. CASE f # n /\ f # t
          BY <2>7, <2>8, <3>1, <3>2, <4>3 DEF HeapType
        <4> QED BY <4>1, <4>2, <4>3
      <3> QED BY <3>3
    <2> HIDE DEF h2
    <2>15. NoNewBig(h, h2, lvl)
      <3>1. lvl[t] # Free
        BY DEF Free
      <3>2. PICK m : m = h2.mem
        OBVIOUS
      <3>3. ASSUME NEW r \in Frame, NEW g \in GuestPages, lvl[r] = 4, NoBig(h.mem, r, g)
            PROVE  NoBig(m, r, g)
        BY <1>4, <2>8, <2>14, <3>1, <3>2, <3>3, NoBigTable
      <3> QED BY <3>2, <3>3 DEF NoNewBig
    <2>16. Leads(h2, own2, lvl2, t, i, Child(h2, t, i), lvl[t] - 1, vm)
      <3>1. h2.mem[t][i] = Points(n)
        BY <2>8, <2>14
      <3> QED BY <1>2, <2>8, <2>11, <3>1 DEF Leads, Points, Level
    <2>17. Adds(own, lvl, own2, lvl2, vm) /\ NoRam(lvl, lvl2)
      BY <2>3, <2>5, <2>8 DEF Adds, NoRam
    <2>18. \A f \in Frame, j \in Idx :
              lvl[f] # Free /\ ~(f = t /\ j = i) => h2.mem[f][j] = h.mem[f][j]
      BY <2>8, <2>14
    <2>19. TableStep(h, own, lvl, h2, own2, lvl2, t, i, lvl[t], vm)
      BY <2>13, <2>15, <2>16, <2>17, <2>18 DEF TableStep
    <2> QED BY <2>19 DEF h2
  <1> QED
    BY <1>3, <1>4

\* The same when the level above has no table: nothing happens.
LEMMA LevelStep ==
    ASSUME NEW h, NEW own, NEW lvl, Shape(h, own, lvl), NEW vm \in VM, NEW k \in 2..4,
           NEW i \in Idx, NEW t,
           t = 0 \/ (t \in Level(own, lvl, k, vm) /\ ~h.mem[t][i].big)
    PROVE  /\ \E own2, lvl2 :
                 TableStep(h, own, lvl, ept_alloc_table(h, t, i), own2, lvl2, t, i, k, vm)
           /\ t = 0 => Child(ept_alloc_table(h, t, i), t, i) = 0
  <1>1. CASE t = 0
    <2>1. Wild(t, i)
      BY <1>1 DEF Wild
    <2>2. ept_alloc_table(h, t, i) = h /\ Child(h, t, i) = 0
      BY <2>1 DEF ept_alloc_table, Child
    <2>3. TableStep(h, own, lvl, h, own, lvl, t, i, k, vm)
      BY <2>2 DEF TableStep, Adds, NoRam, NoNewBig, Leads
    <2> QED BY <2>2, <2>3
  <1>2. CASE t # 0
    <2>1. t \in Frame /\ lvl[t] = k /\ own[t] = vm /\ ~h.mem[t][i].big
      BY <1>2 DEF Level
    <2>2. \E own2, lvl2 : TableStep(h, own, lvl, ept_alloc_table(h, t, i), own2, lvl2,
                                    t, i, lvl[t], vm)
      BY <2>1, TableAllocated
    <2> QED BY <1>2, <2>1, <2>2
  <1> QED
    BY <1>1, <1>2

LEMMA AddsTransitive ==
    ASSUME NEW o0, NEW l0, NEW o1, NEW l1, NEW o2, NEW l2, NEW vm,
           Adds(o0, l0, o1, l1, vm), Adds(o1, l1, o2, l2, vm)
    PROVE  Adds(o0, l0, o2, l2, vm)
  BY DEF Adds

LEMMA NoNewBigTransitive ==
    ASSUME NEW h0, NEW h1, NEW h2, NEW o0, NEW l0, NEW o1, NEW l1, NEW vm,
           Adds(o0, l0, o1, l1, vm), NoNewBig(h0, h1, l0), NoNewBig(h1, h2, l1)
    PROVE  NoNewBig(h0, h2, l0)
  BY DEF Adds, NoNewBig, Free

\* The heap h2 after ept_map of a page of vm.
MapStep(h, own, lvl, h2, own2, lvl2, vm) ==
    /\ Shape(h2, own2, lvl2)
    /\ Adds(own, lvl, own2, lvl2, vm) /\ NoRam(lvl, lvl2)
    /\ NoNewBig(h, h2, lvl)

LEMMA EptMapShape ==
    ASSUME NEW h, NEW own, NEW lvl, Shape(h, own, lvl), NEW vm \in VM,
           NEW r \in Level(own, lvl, 4, vm), NEW g \in GuestPages, InTable(g), NoBig(h.mem, r, g),
           NEW f \in Level(own, lvl, 0, vm)
    PROVE  \E own2, lvl2 : MapStep(h, own, lvl, ept_map(h, r, g, f).heap, own2, lvl2, vm)
  <1> DEFINE i4   == EPT_PML4_INDEX(g)
             i3   == EPT_PDP_INDEX(g)
             i2   == EPT_PD_INDEX(g)
             i1   == EPT_PT_INDEX(g)
             h1   == ept_alloc_table(h, r, i4)
             pdpt == Child(h1, r, i4)
             h2   == ept_alloc_table(h1, pdpt, i3)
             pd   == Child(h2, pdpt, i3)
             h3   == ept_alloc_table(h2, pd, i2)
             pt   == Child(h3, pd, i2)
             h4   == IF Wild(pt, i1) THEN h3 ELSE Write(h3, pt, i1, Points(f))
  <1>0. i4 \in Idx /\ i3 \in Idx /\ i2 \in Idx /\ i1 \in Idx
    BY FitIndex
  <1>a. ept_map(h, r, g, f) = [ok |-> ~Wild(pt, i1), heap |-> h4]
    BY Zenon DEF ept_map
  <1>b. ept_map(h, r, g, f).heap = h4
    BY <1>a
  <1> DEFINE Clear(m) == LET e4 == m[r][i4]
                             e3 == m[e4.addr][i3]
                             e2 == m[e3.addr][i2]
                         IN  e4.present => ~e3.big /\ (e3.present => ~e2.big)
  <1>c. \A m : NoBig(m, r, g) <=> Clear(m)
    BY DEF NoBig
  <1> HIDE DEF i4, i3, i2, i1
  <1>1. r \in Frame /\ lvl[r] = 4 /\ own[r] = vm /\ r # 0
    BY MemoryAssumption DEF Level, Frame
  <1>2. PICK o1, l1 : TableStep(h, own, lvl, h1, o1, l1, r, i4, 4, vm)
    <2>1. ~h.mem[r][i4].big
      <3>1. EntryFits(h.mem[r][i4], r, own, lvl)
        BY <1>0, <1>1 DEF Shape
      <3> QED BY <1>1, <3>1 DEF EntryFits
    <2>2. 4 \in 2..4
      OBVIOUS
    <2> QED BY <1>0, <2>1, <2>2, LevelStep
  <1> HIDE DEF h1
  <1>3. /\ Shape(h1, o1, l1) /\ Adds(own, lvl, o1, l1, vm) /\ NoNewBig(h, h1, lvl)
        /\ NoRam(lvl, l1) /\ Leads(h1, o1, l1, r, i4, pdpt, 3, vm)
    BY <1>2 DEF TableStep
  <1>d. l1[r] = 4 /\ l1[r] # Free
    BY <1>1, <1>3 DEF Adds, Free
  <1>4. Clear(h1.mem)
    <2>1. NoBig(h1.mem, r, g)
      BY <1>1, <1>3 DEF NoNewBig
    <2> HIDE DEF Clear
    <2> QED BY <1>c, <2>1
  <1>5. PICK o2, l2 : TableStep(h1, o1, l1, h2, o2, l2, pdpt, i3, 3, vm)
    <2>1. pdpt = 0 \/ (pdpt \in Level(o1, l1, 3, vm) /\ ~h1.mem[pdpt][i3].big)
      BY <1>3, <1>4 DEF Leads
    <2>2. 3 \in 2..4
      OBVIOUS
    <2> HIDE DEF pdpt
    <2> QED BY <1>0, <1>3, <2>1, <2>2, LevelStep
  <1>6. pdpt = 0 => pd = 0
    BY DEF Child, Wild
  <1> HIDE DEF h2
  <1>7. /\ Shape(h2, o2, l2) /\ Adds(o1, l1, o2, l2, vm) /\ NoNewBig(h1, h2, l1)
        /\ NoRam(l1, l2) /\ Leads(h2, o2, l2, pdpt, i3, pd, 2, vm)
    BY <1>5 DEF TableStep
  <1>8. Clear(h2.mem)
    <2>1. NoBig(h1.mem, r, g)
      BY <1>1, <1>3 DEF NoNewBig
    <2>2. NoBig(h2.mem, r, g)
      BY <1>1, <1>7, <1>d, <2>1 DEF NoNewBig
    <2> HIDE DEF Clear
    <2> QED BY <1>c, <2>2
  <1>9. pd = 0 \/ (pd \in Level(o2, l2, 2, vm) /\ ~h2.mem[pd][i2].big)
    <2>1. SUFFICES ASSUME pd # 0
                   PROVE  pd \in Level(o2, l2, 2, vm) /\ ~h2.mem[pd][i2].big
      OBVIOUS
    <2>2. /\ pdpt \in Level(o1, l1, 3, vm)
          /\ h1.mem[r][i4].present /\ h1.mem[r][i4].addr = pdpt
      BY <1>3, <1>6, <2>1 DEF Leads
    <2> HIDE DEF pdpt, pd
    <2>3. r # pdpt
      BY <1>d, <2>2 DEF Level
    <2>4. h2.mem[r][i4] = h1.mem[r][i4]
      BY <1>0, <1>1, <1>5, <1>d, <2>3 DEF TableStep
    <2>5. /\ pd \in Level(o2, l2, 2, vm)
          /\ h2.mem[pdpt][i3].present /\ h2.mem[pdpt][i3].addr = pd
      BY <1>7, <2>1 DEF Leads
    <2> QED BY <1>8, <2>2, <2>4, <2>5
  <1>10. PICK o3, l3 : TableStep(h2, o2, l2, h3, o3, l3, pd, i2, 2, vm)
    <2>1. 2 \in 2..4
      OBVIOUS
    <2> HIDE DEF pd
    <2> QED BY <1>0, <1>7, <1>9, <2>1, LevelStep
  <1> HIDE DEF h3
  <1>11. /\ Shape(h3, o3, l3) /\ Adds(o2, l2, o3, l3, vm) /\ NoNewBig(h2, h3, l2)
         /\ NoRam(l2, l3) /\ Leads(h3, o3, l3, pd, i2, pt, 1, vm)
    BY <1>10 DEF TableStep
  <1> HIDE DEF pdpt, pd, pt
  <1>12. Adds(own, lvl, o2, l2, vm) /\ NoNewBig(h, h2, lvl)
    BY <1>3, <1>7, AddsTransitive, NoNewBigTransitive
  <1>13. Adds(own, lvl, o3, l3, vm) /\ NoNewBig(h, h3, lvl)
    BY <1>11, <1>12, AddsTransitive, NoNewBigTransitive
  <1>e. NoRam(lvl, l3)
    BY <1>3, <1>7, <1>11 DEF NoRam
  <1>14. CASE pt = 0
    <2>1. h4 = h3
      BY <1>14 DEF Wild
    <2> HIDE DEF h4
    <2> QED BY <1>b, <1>11, <1>13, <1>e, <2>1 DEF MapStep
  <1>15. CASE pt # 0
    <2>1. pt \in Frame /\ l3[pt] = 1 /\ o3[pt] = vm /\ pt \in Nat
      BY <1>11, <1>15, MemoryAssumption DEF Leads, Level, Frame
    <2>2. PICK e \in Entry : e = Points(f)
      BY PointsGood DEF Level
    <2>3. h4 = Write(h3, pt, i1, e)
      BY <1>0, <2>1, <2>2, SlotFits
    <2> HIDE DEF h4
    <2>4. EntryFits(e, pt, o3, l3)
      <3>1. f \in Frame /\ l3[f] = 0 /\ o3[f] = vm
        BY <1>13 DEF Level, Adds, Free
      <3> QED BY <2>1, <2>2, <3>1 DEF EntryFits, Points, Level
    <2>5. Shape(h4, o3, l3)
      <3>1. l3[pt] \in 1..4
        BY <2>1
      <3> QED BY <1>0, <1>11, <2>1, <2>3, <2>4, <3>1, WriteShape
    <2>6. \A x \in Frame : x # pt => h4.mem[x] = h3.mem[x]
      <3>1. h3 \in HeapType
        BY <1>11 DEF Shape
      <3>2. h4.mem = [h3.mem EXCEPT ![pt] = [h3.mem[pt] EXCEPT ![i1] = e]]
        BY <1>0, <2>1, <2>3, <3>1, ReadWriteFits
      <3> QED BY <3>1, <3>2 DEF HeapType
    <2>7. NoNewBig(h3, h4, l3)
      <3>1. PICK m : m = h4.mem
        OBVIOUS
      <3>2. \A x \in Frame : l3[x] \in 2..4 => m[x] = h3.mem[x]
        BY <2>1, <2>6, <3>1
      <3>3. ASSUME NEW q \in Frame, NEW y \in GuestPages, l3[q] = 4, NoBig(h3.mem, q, y)
            PROVE  NoBig(m, q, y)
        BY <1>11, <3>2, <3>3, NoBigFrame
      <3> QED BY <3>1, <3>3 DEF NoNewBig
    <2>8. NoNewBig(h, h4, lvl)
      BY <1>13, <2>7, NoNewBigTransitive
    <2> QED BY <1>b, <1>13, <1>e, <2>5, <2>8 DEF MapStep
  <1> QED
    BY <1>14, <1>15

-----------------------------------------------------------------------------
(* The inductive invariant.                                                *)

RootsOK(own, lvl) == \A vm \in VM : Live(vm) => root[vm] \in Level(own, lvl, 4, vm)

\* A frame in use was allocated for a VM that exists or once did.
OwnersOK(own, lvl) ==
    \A f \in Frame : lvl[f] # Free => own[f] \in VM /\ (Live(own[f]) \/ own[f] \in gone)

RegionsOK(own, lvl) ==
    \A vm \in VM : \A i \in DOMAIN regions[vm] :
        Ram(regions[vm][i]) \subseteq Level(own, lvl, 0, vm)

\* What vm_ept_map has still to map: RAM of the VM, to guest pages outside
\* its large pages.
MappingOK(own, lvl) ==
    \A vm \in VM : mapping[vm].left > 0 =>
        /\ Live(vm)
        /\ \A k \in 0 .. (mapping[vm].left - 1) :
              /\ mapping[vm].hpa + k \in Level(own, lvl, 0, vm)
              /\ mapping[vm].gpa + k \in GuestPages
              /\ NoBig(mem, root[vm], mapping[vm].gpa + k)

\* All RAM that was allocated for a live VM is in its regions.
RamOK(own, lvl) == \A vm \in VM : Live(vm) => Level(own, lvl, 0, vm) \subseteq RamOf(vm)

MemInv(own, lvl) ==
    /\ TypeInv
    /\ Shape(Heap, own, lvl)
    /\ RootsOK(own, lvl)
    /\ OwnersOK(own, lvl)
    /\ RegionsOK(own, lvl)
    /\ MappingOK(own, lvl)
    /\ RamOK(own, lvl)

SomePurpose == \E own, lvl : MemInv(own, lvl)

LEMMA ShapeNext ==
    ASSUME NEW h, NEW own, NEW lvl, Shape(h, own, lvl), mem' = h.mem, used' = h.used
    PROVE  Shape(Heap, own, lvl)'
  <1>1. Heap' = h
    BY DEF Heap, Shape, HeapType
  <1> QED
    BY <1>1 DEF Shape

LEMMA AddsLevel ==
    ASSUME NEW own, NEW lvl, NEW own2, NEW lvl2, NEW vm, Adds(own, lvl, own2, lvl2, vm),
           NEW k \in 0..4, NEW w
    PROVE  Level(own, lvl, k, w) \subseteq Level(own2, lvl2, k, w)
  BY DEF Adds, Level, Free

\* A step that adds frames for a live VM and keeps the rest.
LEMMA AddsKeep ==
    ASSUME NEW own, NEW lvl, MemInv(own, lvl), NEW own2, NEW lvl2, NEW vm \in VM, Live(vm)',
           Adds(own, lvl, own2, lvl2, vm), gone' = gone,
           \A w \in VM : Live(w) => Live(w)'
    PROVE  OwnersOK(own2, lvl2)'
  BY DEF MemInv, OwnersOK, Adds

LEMMA InitMem == Init => SomePurpose
  <1> SUFFICES ASSUME Init PROVE SomePurpose
    OBVIOUS
  <1>1. PICK own : own = [f \in Frame |-> Absent]
    OBVIOUS
  <1>2. PICK lvl : lvl = [f \in Frame |-> Free]
    OBVIOUS
  <1>3. Shape(Heap, own, lvl)
    BY <1>1, <1>2, InitType DEF TypeInv, Shape, Init, Heap, Free
  <1>4. RootsOK(own, lvl) /\ OwnersOK(own, lvl) /\ RamOK(own, lvl)
    BY <1>2 DEF Init, RootsOK, OwnersOK, RamOK, Live
  <1>5. RegionsOK(own, lvl) /\ MappingOK(own, lvl)
    BY DEF Init, RegionsOK, MappingOK, Idle
  <1> QED
    BY <1>3, <1>4, <1>5, InitType DEF SomePurpose, MemInv

LEMMA CreateMem ==
    ASSUME NEW own, NEW lvl, MemInv(own, lvl), NEW vm \in VM, vm_create(vm)
    PROVE  SomePurpose'
  <1>0. TypeInv /\ TypeInv' /\ Shape(Heap, own, lvl)
    BY CreateType DEF MemInv
  <1>1. PICK n : n = aligned_alloc(Heap, 1)
    OBVIOUS
  <1>2. PICK new : new = aligned_alloc(Heap, 1) .. (aligned_alloc(Heap, 1) + 1 - 1)
    OBVIOUS
  <1>3. PICK own2 : own2 = [f \in Frame |-> IF f \in new THEN vm ELSE own[f]]
    OBVIOUS
  <1>4. PICK lvl2 : lvl2 = [f \in Frame |-> IF f \in new THEN 4 ELSE lvl[f]]
    OBVIOUS
  <1>5. PICK h : h = ept_alloc_pages(Heap, 1)
    OBVIOUS
  <1>6. /\ Shape(h, own2, lvl2) /\ n \in new
        /\ \A f \in new : f \in Frame /\ lvl[f] = Free
        /\ h.mem = [f \in Frame |-> IF f \in new THEN Blank ELSE Heap.mem[f]]
    <2>1. 1 \in Nat \ {0} /\ 4 \in 0..4 /\ Room(Heap, 1)
      BY DEF vm_create
    <2>2. Allocates(Heap, own, lvl, 1, vm, 4, new, own2, lvl2)
      BY <1>2, <1>3, <1>4 DEF Allocates
    <2>3. Allocated(Heap, lvl, 1, new, own2, lvl2)
      BY <1>0, <2>1, <2>2, AllocShape
    <2> QED BY <1>1, <1>5, <2>3 DEF Allocated
  <1>7. Shape(Heap, own2, lvl2)'
    BY <1>5, <1>6, ShapeNext DEF vm_create
  <1>8. Adds(own, lvl, own2, lvl2, vm) /\ \A f \in Frame : lvl[f] # Free => h.mem[f] = mem[f]
    BY <1>3, <1>4, <1>6 DEF Adds, Heap
  <1>9. /\ root' = [root EXCEPT ![vm] = n] /\ ~Live(vm) /\ vm \notin gone
        /\ regions' = [regions EXCEPT ![vm] = << >>]
        /\ UNCHANGED <<gone, mapping, crashed>> /\ mem' = h.mem
    BY <1>1, <1>5 DEF vm_create
  <1>10. n \in Level(own2, lvl2, 4, vm) /\ n # 0
    BY <1>3, <1>4, <1>6, MemoryAssumption DEF Level, Frame
  <1>11. /\ root'[vm] = n /\ Live(vm)'
         /\ \A w \in VM : w # vm => root'[w] = root[w] /\ (Live(w)' <=> Live(w))
    BY <1>0, <1>9, <1>10 DEF Live, TypeInv, TypeOK
  <1>12. RootsOK(own2, lvl2)'
    <2>1. ASSUME NEW w \in VM, Live(w)' PROVE root'[w] \in Level(own2, lvl2, 4, w)
      <3>1. CASE w = vm
        BY <1>10, <1>11, <3>1
      <3>2. CASE w # vm
        <4>1. root[w] \in Level(own, lvl, 4, w)
          BY <1>11, <2>1, <3>2 DEF MemInv, RootsOK
        <4> QED BY <1>8, <1>11, <3>2, <4>1, AddsLevel
      <3> QED BY <3>1, <3>2
    <2> QED BY <2>1 DEF RootsOK
  <1>13. OwnersOK(own2, lvl2)'
    BY <1>8, <1>9, <1>11, AddsKeep
  <1>16. RamOK(own2, lvl2)'
    <2>1. ASSUME NEW w \in VM, Live(w)', NEW f \in Level(own2, lvl2, 0, w)
          PROVE  f \in RamOf(w)'
      <3>1. f \in Level(own, lvl, 0, w) /\ lvl[f] # Free
        BY <1>3, <1>4, <2>1 DEF Level, Free
      <3>2. w # vm
        BY <1>9, <3>1 DEF MemInv, OwnersOK, Level
      <3>3. Live(w) /\ regions'[w] = regions[w]
        BY <1>0, <1>9, <1>11, <2>1, <3>2 DEF TypeInv, TypeOK
      <3> QED BY <3>1, <3>3 DEF MemInv, RamOK, RamOf
    <2> QED BY <2>1 DEF RamOK
  <1>14. RegionsOK(own2, lvl2)'
    <2>1. ASSUME NEW w \in VM, NEW i \in DOMAIN regions'[w]
          PROVE  Ram(regions'[w][i]) \subseteq Level(own2, lvl2, 0, w)
      <3>1. w # vm /\ regions'[w] = regions[w]
        BY <1>0, <1>9, <2>1 DEF TypeInv, TypeOK
      <3>2. Ram(regions[w][i]) \subseteq Level(own, lvl, 0, w)
        BY <2>1, <3>1 DEF MemInv, RegionsOK
      <3>3. Level(own, lvl, 0, w) \subseteq Level(own2, lvl2, 0, w)
        BY <1>8, AddsLevel
      <3> QED BY <3>1, <3>2, <3>3
    <2> QED BY <2>1 DEF RegionsOK
  <1>15. MappingOK(own2, lvl2)'
    <2>1. ASSUME NEW w \in VM, mapping[w].left > 0, NEW k \in 0 .. (mapping[w].left - 1)
          PROVE  /\ Live(w)'
                 /\ mapping[w].hpa + k \in Level(own2, lvl2, 0, w)
                 /\ mapping[w].gpa + k \in GuestPages
                 /\ NoBig(mem', root'[w], mapping[w].gpa + k)
      <3>1. /\ Live(w) /\ mapping[w].hpa + k \in Level(own, lvl, 0, w)
            /\ mapping[w].gpa + k \in GuestPages
            /\ NoBig(mem, root[w], mapping[w].gpa + k)
        BY <2>1 DEF MemInv, MappingOK
      <3>2. w # vm /\ Live(w)' /\ root'[w] = root[w]
        BY <1>9, <1>11, <3>1
      <3>3. Level(own, lvl, 0, w) \subseteq Level(own2, lvl2, 0, w)
        BY <1>8, AddsLevel
      <3>4. PICK r \in Frame : r = root[w] /\ lvl[r] = 4
        BY <3>1 DEF MemInv, RootsOK, Level
      <3>5. PICK m : m = h.mem
        OBVIOUS
      <3>6. PICK g \in GuestPages : g = mapping[w].gpa + k
        BY <3>1
      <3>7. \A f \in Frame : own[f] = own[r] /\ lvl[f] \in 2..4 => m[f] = Heap.mem[f]
        BY <1>8, <3>5 DEF Free, Heap
      <3>8. NoBig(Heap.mem, r, g)
        BY <3>1, <3>4, <3>6 DEF Heap
      <3>9. NoBig(m, r, g)
        BY <1>0, <3>4, <3>7, <3>8, NoBigFrame
      <3> QED BY <1>9, <3>1, <3>2, <3>3, <3>4, <3>5, <3>6, <3>9
    <2>2. \A w \in VM : mapping[w].left > 0 => Live(w)'
      BY <1>11 DEF MemInv, MappingOK
    <2> QED BY <1>9, <2>1, <2>2 DEF MappingOK
  <1> QED
    BY <1>0, <1>7, <1>12, <1>13, <1>14, <1>15, <1>16 DEF SomePurpose, MemInv

\* vm_destroy gives the root back: no entry leads to it.
LEMMA DestroyMem ==
    ASSUME NEW own, NEW lvl, MemInv(own, lvl), NEW vm \in VM, vm_destroy(vm)
    PROVE  SomePurpose'
  <1>0. TypeInv /\ TypeInv' /\ Shape(Heap, own, lvl)
    BY DestroyType DEF MemInv
  <1>1. PICK r \in Frame : r = root[vm] /\ lvl[r] = 4 /\ own[r] = vm
    BY DEF vm_destroy, MemInv, RootsOK, Level
  <1>2. /\ root' = [root EXCEPT ![vm] = 0] /\ gone' = gone \cup {vm}
        /\ regions' = [regions EXCEPT ![vm] = << >>] /\ mapping[vm] = Idle
        /\ mem' = mem /\ mapping' = mapping /\ used' = used \ {r}
    BY <1>1 DEF vm_destroy
  <1>3. PICK lvl2 : lvl2 = [lvl EXCEPT ![r] = Free]
    OBVIOUS
  <1>4. PICK h : h = [mem |-> mem, used |-> used \ {r}]
    OBVIOUS
  <1>5. lvl \in [Frame -> 0 .. Free] /\ \A f \in Frame : f # r => lvl2[f] = lvl[f]
    BY <1>0, <1>3 DEF Shape
  <1>6. \A k \in 0..3 : \A w : Level(own, lvl, k, w) = Level(own, lvl2, k, w)
    BY <1>1, <1>3, <1>5 DEF Level, Free
  <1>7. Shape(h, own, lvl2)
    <2>1. h \in HeapType /\ lvl2 \in [Frame -> 0 .. Free]
      BY <1>0, <1>3, <1>4 DEF Shape, HeapType, Heap, Free
    <2>2. h.used = {f \in Frame : lvl2[f] # Free}
      BY <1>0, <1>3, <1>4, <1>5 DEF Shape, Heap
    <2>3. ASSUME NEW f \in Frame, lvl2[f] \in 1..4, NEW i \in Idx
          PROVE  EntryFits(h.mem[f][i], f, own, lvl2)
      <3>1. f # r /\ lvl2[f] = lvl[f]
        BY <1>3, <1>5, <2>3 DEF Free
      <3>2. EntryFits(mem[f][i], f, own, lvl)
        BY <1>0, <2>3, <3>1 DEF Shape, Heap
      <3>3. lvl[f] - 1 \in 0..3
        BY <2>3, <3>1
      <3> QED BY <1>4, <1>6, <3>1, <3>2, <3>3 DEF EntryFits
    <2> QED BY <1>0, <2>1, <2>2, <2>3 DEF Shape
  <1>8. Shape(Heap, own, lvl2)'
    BY <1>2, <1>4, <1>7, ShapeNext
  <1>9. /\ ~Live(vm)'
        /\ \A w \in VM : w # vm => root'[w] = root[w] /\ (Live(w)' <=> Live(w))
    BY <1>0, <1>2 DEF Live, TypeInv, TypeOK
  <1>10. RootsOK(own, lvl2)'
    <2>1. ASSUME NEW w \in VM, Live(w)' PROVE root'[w] \in Level(own, lvl2, 4, w)
      <3>1. w # vm /\ Live(w) /\ root'[w] = root[w]
        BY <1>9, <2>1
      <3>2. root[w] \in Level(own, lvl, 4, w)
        BY <3>1 DEF MemInv, RootsOK
      <3> QED BY <1>1, <1>5, <3>1, <3>2 DEF Level
    <2> QED BY <2>1 DEF RootsOK
  <1>11. OwnersOK(own, lvl2)'
    BY <1>2, <1>3, <1>5, <1>9 DEF MemInv, OwnersOK
  <1>12. RegionsOK(own, lvl2)'
    <2>1. ASSUME NEW w \in VM, NEW i \in DOMAIN regions'[w]
          PROVE  Ram(regions'[w][i]) \subseteq Level(own, lvl2, 0, w)
      <3>1. w # vm /\ regions'[w] = regions[w]
        BY <1>0, <1>2, <2>1 DEF TypeInv, TypeOK
      <3>2. Ram(regions[w][i]) \subseteq Level(own, lvl, 0, w)
        BY <2>1, <3>1 DEF MemInv, RegionsOK
      <3> QED BY <1>6, <3>1, <3>2
    <2> QED BY <2>1 DEF RegionsOK
  <1>13. MappingOK(own, lvl2)'
    <2>1. \A w \in VM : mapping[w].left > 0 => w # vm
      BY <1>2 DEF Idle
    <2>2. \A w \in VM : mapping[w].left > 0 => Live(w)' /\ root'[w] = root[w]
      BY <1>9, <2>1 DEF MemInv, MappingOK
    <2>3. \A w \in VM : Level(own, lvl, 0, w) = Level(own, lvl2, 0, w)
      BY <1>6
    <2> QED BY <1>2, <2>2, <2>3 DEF MemInv, MappingOK
  <1>14. RamOK(own, lvl2)'
    <2>1. ASSUME NEW w \in VM, Live(w)' PROVE Level(own, lvl2, 0, w) \subseteq RamOf(w)'
      <3>1. w # vm /\ Live(w) /\ regions'[w] = regions[w]
        BY <1>0, <1>2, <1>9, <2>1 DEF TypeInv, TypeOK
      <3>2. Level(own, lvl, 0, w) \subseteq RamOf(w)
        BY <3>1 DEF MemInv, RamOK
      <3> QED BY <1>6, <3>1, <3>2 DEF RamOf
    <2> QED BY <2>1 DEF RamOK
  <1> QED
    BY <1>0, <1>8, <1>10, <1>11, <1>12, <1>13, <1>14 DEF SomePurpose, MemInv

\* The walk that vm_alloc_memory's caller made.
LEMMA NotInLarge ==
    ASSUME NEW own, NEW lvl, MemInv(own, lvl), NEW vm \in VM, Live(vm),
           NEW g \in GuestPages, ~In1gb(vm, g), ~In2mb(vm, g)
    PROVE  NoBig(mem, root[vm], g)
  <1> SUFFICES ASSUME InTable(g) PROVE NoBig(mem, root[vm], g)
    BY DEF NoBig
  <1> DEFINE i4 == EPT_PML4_INDEX(g)
             i3 == EPT_PDP_INDEX(g)
             i2 == EPT_PD_INDEX(g)
             e4 == mem[root[vm]][i4]
             e3 == mem[e4.addr][i3]
             e2 == mem[e3.addr][i2]
  <1>0. Shape(Heap, own, lvl) /\ Heap \in HeapType /\ Heap.mem = mem
    BY DEF MemInv, Shape, Heap
  <1>1. i4 \in Idx /\ i3 \in Idx /\ i2 \in Idx
    BY FitIndex
  <1>2. \A t \in Frame, i \in Idx : Read(Heap, t, i) = mem[t][i] /\ ~Wild(t, i)
    <2>1. \A t \in Frame : t \in Nat
      BY MemoryAssumption DEF Frame
    <2> QED BY <1>0, <2>1, SlotFits DEF Read
  <1>3. SUFFICES ASSUME e4.present
                 PROVE  ~e3.big /\ (e3.present => ~e2.big)
    BY DEF NoBig
  <1>a. In1gb(vm, g) <=> \E t \in PdptOf(vm, g) : Read(Heap, t, i3).big
    BY DEF In1gb
  <1>b. In2mb(vm, g) <=> \E t \in PdOf(vm, g) : Read(Heap, t, i2).big
    BY DEF In2mb
  <1>c. PdptOf(vm, g) = Descend({root[vm]}, i4) /\ PdOf(vm, g) = Descend(PdptOf(vm, g), i3)
    BY DEF PdptOf, PdOf
  <1> HIDE DEF i4, i3, i2
  <1>4. root[vm] \in Frame /\ lvl[root[vm]] = 4
    BY DEF MemInv, RootsOK, Level
  <1>5. EntryFits(e4, root[vm], own, lvl)
    BY <1>0, <1>1, <1>4 DEF Shape
  <1>6. ~e4.big /\ e4.addr \in Frame /\ lvl[e4.addr] = 3
    <2> HIDE DEF e4
    <2>1. ~e4.big
      BY <1>4, <1>5 DEF EntryFits
    <2> QED BY <1>3, <1>4, <1>5, <2>1 DEF EntryFits, Level
  <1>7. e4.addr \in PdptOf(vm, g)
    BY <1>1, <1>2, <1>3, <1>4, <1>6, <1>c DEF Descend
  <1>8. e3 = Read(Heap, e4.addr, i3)
    BY <1>1, <1>2, <1>6
  <1>9. ~e3.big
    BY <1>7, <1>8, <1>a
  <1>10. ASSUME e3.present PROVE ~e2.big
    <2>1. EntryFits(e3, e4.addr, own, lvl)
      BY <1>0, <1>1, <1>6 DEF Shape
    <2>2. e3.addr \in Frame
      <3> HIDE DEF e3, e4
      <3> QED BY <1>9, <1>10, <2>1 DEF EntryFits, Level
    <2>3. e3.addr \in PdOf(vm, g)
      <3> HIDE DEF e3, e4
      <3> QED BY <1>1, <1>2, <1>6, <1>7, <1>8, <1>9, <1>10, <1>c DEF Descend
    <2>4. e2 = Read(Heap, e3.addr, i2)
      BY <1>1, <1>2, <2>2
    <2> QED BY <2>3, <2>4, <1>b
  <1> QED
    BY <1>9, <1>10

\* The pages still to be mapped, after a step that leaves the upper tables of
\* their VM alone.
LEMMA MappingKept ==
    ASSUME NEW own, NEW lvl, MemInv(own, lvl), NEW w \in VM, mapping[w].left > 0,
           NEW k \in 0 .. (mapping[w].left - 1), NEW m,
           \A f \in Frame : own[f] = w /\ lvl[f] \in 2..4 => m[f] = mem[f]
    PROVE  /\ mapping[w].hpa + k \in Level(own, lvl, 0, w)
           /\ mapping[w].gpa + k \in GuestPages
           /\ NoBig(m, root[w], mapping[w].gpa + k)
  <1>1. /\ Live(w) /\ mapping[w].hpa + k \in Level(own, lvl, 0, w)
        /\ mapping[w].gpa + k \in GuestPages
        /\ NoBig(mem, root[w], mapping[w].gpa + k)
    BY DEF MemInv, MappingOK
  <1>2. PICK r \in Frame : r = root[w] /\ lvl[r] = 4 /\ own[r] = w
    BY <1>1 DEF MemInv, RootsOK, Level
  <1>3. PICK g \in GuestPages : g = mapping[w].gpa + k
    BY <1>1
  <1>4. \A f \in Frame : own[f] = own[r] /\ lvl[f] \in 2..4 => m[f] = Heap.mem[f]
    BY <1>2 DEF Heap
  <1>5. NoBig(Heap.mem, r, g) /\ Shape(Heap, own, lvl)
    BY <1>1, <1>2, <1>3 DEF Heap, MemInv
  <1>6. NoBig(m, r, g)
    BY <1>2, <1>4, <1>5, NoBigFrame
  <1> QED
    BY <1>1, <1>2, <1>3, <1>6

\* A cold reset empties the root, whose entries then lead nowhere.
LEMMA ResetMem ==
    ASSUME NEW own, NEW lvl, MemInv(own, lvl), NEW vm \in VM, vm_reset(vm)
    PROVE  SomePurpose'
  <1>0. TypeInv /\ TypeInv' /\ Shape(Heap, own, lvl)
    BY ResetType DEF MemInv
  <1>1. PICK r \in Frame : r = root[vm] /\ own[r] = vm
    BY DEF vm_reset, MemInv, RootsOK, Level
  <1>2. PICK m : m = [mem EXCEPT ![r] = Blank]
    OBVIOUS
  <1>3. /\ mem' = m /\ mapping[vm] = Idle
        /\ UNCHANGED <<root, gone, regions, used, mapping>>
    BY <1>1, <1>2 DEF vm_reset
  <1>4. /\ m \in [Frame -> [Idx -> Entry]] /\ m[r] = Blank
        /\ \A f \in Frame : f # r => m[f] = mem[f]
    BY <1>0, <1>2, ZeroGood DEF Shape, HeapType, Heap
  <1>5. PICK h : h = [mem |-> m, used |-> used]
    OBVIOUS
  <1>6. Shape(h, own, lvl)
    <2>1. h \in HeapType
      BY <1>0, <1>4, <1>5 DEF Shape, HeapType, Heap
    <2>2. ASSUME NEW f \in Frame, lvl[f] \in 1..4, NEW i \in Idx
          PROVE  EntryFits(h.mem[f][i], f, own, lvl)
      <3>1. CASE f = r
        BY <1>4, <1>5, <3>1 DEF Blank, Zero, EntryFits, Idx
      <3>2. CASE f # r
        BY <1>0, <1>4, <1>5, <2>2, <3>2 DEF Shape, Heap
      <3> QED BY <3>1, <3>2
    <2> QED BY <1>0, <1>5, <2>1, <2>2 DEF Shape, Heap
  <1>7. Shape(Heap, own, lvl)'
    BY <1>3, <1>5, <1>6, ShapeNext
  <1>8. RootsOK(own, lvl)' /\ OwnersOK(own, lvl)' /\ RegionsOK(own, lvl)' /\ RamOK(own, lvl)'
    BY <1>3 DEF MemInv, RootsOK, OwnersOK, RegionsOK, RamOK, RamOf, Live
  <1>9. MappingOK(own, lvl)'
    <2>1. ASSUME NEW w \in VM, mapping[w].left > 0, NEW k \in 0 .. (mapping[w].left - 1)
          PROVE  /\ mapping[w].hpa + k \in Level(own, lvl, 0, w)
                 /\ mapping[w].gpa + k \in GuestPages
                 /\ NoBig(m, root[w], mapping[w].gpa + k)
      <3>1. w # vm
        BY <1>3, <2>1 DEF Idle
      <3>2. \A f \in Frame : own[f] = w /\ lvl[f] \in 2..4 => m[f] = mem[f]
        BY <1>1, <1>4, <3>1
      <3> QED BY <2>1, <3>2, MappingKept
    <2>2. \A w \in VM : mapping[w].left > 0 => Live(w)'
      BY <1>3 DEF MemInv, MappingOK, Live
    <2> QED BY <1>3, <2>1, <2>2 DEF MappingOK
  <1> QED
    BY <1>0, <1>7, <1>8, <1>9 DEF SomePurpose, MemInv

LEMMA AllocMemoryMem ==
    ASSUME NEW own, NEW lvl, MemInv(own, lvl), NEW vm \in VM, NEW g \in GuestPages,
           NEW size \in Sizes, vm_alloc_memory(vm, g, size)
    PROVE  SomePurpose'
  <1>0. TypeInv /\ TypeInv' /\ Shape(Heap, own, lvl) /\ Live(vm)
    BY AllocMemoryType DEF MemInv, vm_alloc_memory
  <1>1. PICK n \in Nat \ {0} : n = PagesAllocated(size)
    BY PagesType
  <1>2. PICK f : f = aligned_alloc(Heap, n)
    OBVIOUS
  <1>3. PICK new : new = aligned_alloc(Heap, n) .. (aligned_alloc(Heap, n) + n - 1)
    OBVIOUS
  <1>4. PICK own2 : own2 = [x \in Frame |-> IF x \in new THEN vm ELSE own[x]]
    OBVIOUS
  <1>5. PICK lvl2 : lvl2 = [x \in Frame |-> IF x \in new THEN 0 ELSE lvl[x]]
    OBVIOUS
  <1>6. PICK h : h = ept_alloc_pages(Heap, n)
    OBVIOUS
  <1>7. /\ Shape(h, own2, lvl2) /\ f \in new
        /\ \A x \in new : x \in Frame /\ lvl[x] = Free
        /\ h.mem = [x \in Frame |-> IF x \in new THEN Blank ELSE Heap.mem[x]]
    <2>1. 0 \in 0..4 /\ Room(Heap, n)
      BY <1>1 DEF vm_alloc_memory
    <2>2. Allocates(Heap, own, lvl, n, vm, 0, new, own2, lvl2)
      BY <1>3, <1>4, <1>5 DEF Allocates
    <2>3. Allocated(Heap, lvl, n, new, own2, lvl2)
      BY <1>0, <2>1, <2>2, AllocShape
    <2> QED BY <1>2, <1>6, <2>3 DEF Allocated
  <1>8. /\ mem' = h.mem /\ used' = h.used
        /\ UNCHANGED <<root, gone, crashed>>
    BY <1>1, <1>6 DEF vm_alloc_memory
  <1>9. Shape(Heap, own2, lvl2)'
    BY <1>7, <1>8, ShapeNext
  <1>10. /\ Adds(own, lvl, own2, lvl2, vm)
         /\ \A x \in Frame : lvl[x] # Free => h.mem[x] = mem[x]
         /\ new \subseteq Level(own2, lvl2, 0, vm)
    BY <1>4, <1>5, <1>7 DEF Adds, Heap, Level
  <1>11. \A w \in VM : Live(w)' <=> Live(w)
    BY <1>8 DEF Live
  <1>12. RootsOK(own2, lvl2)'
    <2>1. \A w \in VM : Level(own, lvl, 4, w) \subseteq Level(own2, lvl2, 4, w)
      BY <1>10, AddsLevel
    <2> QED BY <1>8, <1>11, <2>1 DEF MemInv, RootsOK
  <1>13. OwnersOK(own2, lvl2)'
    BY <1>0, <1>8, <1>10, <1>11, AddsKeep
  <1>14. \A w \in VM : Level(own, lvl, 0, w) \subseteq Level(own2, lvl2, 0, w)
    BY <1>10, AddsLevel
  <1>15. RegionsOK(own2, lvl2)'
    <2>1. PICK x : x = [gpa |-> g, hpa |-> f, size |-> size]
      OBVIOUS
    <2>2. regions' = [regions EXCEPT ![vm] = Append(regions[vm], x)]
      BY <1>1, <1>2, <2>1 DEF vm_alloc_memory
    <2>3. Ram(x) = new
      BY <1>1, <1>2, <1>3, <2>1 DEF Ram
    <2>4. regions \in [VM -> Seq(Region)]
      BY <1>0 DEF TypeInv, TypeOK
    <2>5. ASSUME NEW w \in VM, NEW i \in DOMAIN regions'[w]
          PROVE  Ram(regions'[w][i]) \subseteq Level(own2, lvl2, 0, w)
      <3>1. CASE i \in DOMAIN regions[w] /\ regions'[w][i] = regions[w][i]
        <4>1. Ram(regions[w][i]) \subseteq Level(own, lvl, 0, w)
          BY <3>1 DEF MemInv, RegionsOK
        <4> QED BY <1>14, <3>1, <4>1
      <3>2. CASE w = vm /\ regions'[w][i] = x
        BY <1>10, <2>3, <3>2
      <3>3. \/ i \in DOMAIN regions[w] /\ regions'[w][i] = regions[w][i]
            \/ w = vm /\ regions'[w][i] = x
        <4>1. CASE w # vm
          BY <2>2, <2>4, <2>5, <4>1
        <4>2. CASE w = vm
          <5>1. PICK q \in Seq(Region) : q = regions[vm]
            BY <2>4
          <5>2. regions'[w] = Append(q, x)
            BY <2>2, <2>4, <4>2, <5>1
          <5>3. /\ Len(q) \in Nat /\ DOMAIN q = 1..Len(q)
                /\ i \in 1..(Len(q) + 1)
            BY <2>5, <5>1, <5>2
          <5>4. CASE i = Len(q) + 1
            BY <4>2, <5>1, <5>2, <5>3, <5>4
          <5>5. CASE i # Len(q) + 1
            <6>1. i \in 1..Len(q)
              BY <5>3, <5>5
            <6> QED BY <4>2, <5>1, <5>2, <5>3, <6>1
          <5> QED BY <5>4, <5>5
        <4> QED BY <4>1, <4>2
      <3> QED BY <3>1, <3>2, <3>3
    <2> QED BY <2>5 DEF RegionsOK
  <1>17. RamOK(own2, lvl2)'
    <2>1. PICK x : x = [gpa |-> g, hpa |-> f, size |-> size]
      OBVIOUS
    <2>2. regions' = [regions EXCEPT ![vm] = Append(regions[vm], x)]
      BY <1>1, <1>2, <2>1 DEF vm_alloc_memory
    <2>3. Ram(x) = new
      BY <1>1, <1>2, <1>3, <2>1 DEF Ram
    <2>4. regions \in [VM -> Seq(Region)]
      BY <1>0 DEF TypeInv, TypeOK
    <2>5. ASSUME NEW w \in VM, Live(w)', NEW y \in Level(own2, lvl2, 0, w)
          PROVE  \E i \in DOMAIN regions'[w] : y \in Ram(regions'[w][i])
      <3>1. CASE w # vm
        <4>1. regions'[w] = regions[w] /\ Live(w)
          BY <1>11, <2>2, <2>4, <2>5, <3>1
        <4>2. y \in Level(own, lvl, 0, w)
          BY <1>4, <1>5, <2>5, <3>1 DEF Level
        <4> QED BY <4>1, <4>2 DEF MemInv, RamOK, RamOf
      <3>2. CASE w = vm
        <4>1. PICK q \in Seq(Region) : q = regions[vm]
          BY <2>4
        <4>2. regions'[w] = Append(q, x)
          BY <2>2, <2>4, <3>2, <4>1
        <4>3. /\ Len(q) \in Nat /\ DOMAIN q = 1..Len(q)
              /\ DOMAIN Append(q, x) = 1..(Len(q) + 1)
              /\ Append(q, x)[Len(q) + 1] = x
              /\ \A i \in 1..Len(q) : Append(q, x)[i] = q[i]
          OBVIOUS
        <4>4. CASE y \in new
          <5>1. Len(q) + 1 \in DOMAIN regions'[w] /\ regions'[w][Len(q) + 1] = x
            BY <4>2, <4>3
          <5> QED BY <2>3, <4>4, <5>1
        <4>5. CASE y \notin new
          <5>1. y \in Level(own, lvl, 0, vm)
            BY <1>4, <1>5, <2>5, <3>2, <4>5 DEF Level
          <5>2. PICK i \in DOMAIN q : y \in Ram(q[i])
            BY <1>0, <4>1, <5>1 DEF MemInv, RamOK, RamOf
          <5>3. i \in DOMAIN regions'[w] /\ regions'[w][i] = q[i]
            BY <4>2, <4>3
          <5> QED BY <5>2, <5>3
        <4> QED BY <4>4, <4>5
      <3> QED BY <3>1, <3>2
    <2> QED BY <2>5 DEF RamOK, RamOf
  <1>16. MappingOK(own2, lvl2)'
    <2>1. PICK x : x = [gpa |-> g, hpa |-> f, left |-> PagesMapped(size)]
      OBVIOUS
    <2>2. mapping' = [mapping EXCEPT ![vm] = x]
      BY <1>1, <1>2, <2>1 DEF vm_alloc_memory
    <2>3. mapping \in [VM -> [gpa : Nat, hpa : Nat, left : Nat]]
      BY <1>0 DEF TypeInv, TypeOK
    <2>4. \A y \in Frame : lvl[y] \in 2..4 => h.mem[y] = mem[y]
      BY <1>10 DEF Free
    <2>5. ASSUME NEW w \in VM, mapping'[w].left > 0,
                 NEW k \in 0 .. (mapping'[w].left - 1)
          PROVE  /\ mapping'[w].hpa + k \in Level(own2, lvl2, 0, w)
                 /\ mapping'[w].gpa + k \in GuestPages
                 /\ NoBig(h.mem, root[w], mapping'[w].gpa + k)
      <3>1. CASE w # vm
        <4>1. mapping'[w] = mapping[w]
          BY <2>2, <2>3, <3>1
        <4>2. PICK m : m = h.mem
          OBVIOUS
        <4>3. \A y \in Frame : own[y] = w /\ lvl[y] \in 2..4 => m[y] = mem[y]
          BY <2>4, <4>2
        <4>4. /\ mapping[w].hpa + k \in Level(own, lvl, 0, w)
              /\ mapping[w].gpa + k \in GuestPages
              /\ NoBig(m, root[w], mapping[w].gpa + k)
          BY <2>5, <4>1, <4>3, MappingKept
        <4> QED BY <1>14, <4>1, <4>2, <4>4
      <3>2. CASE w = vm
        <4>1. mapping'[w] = x
          BY <2>2, <2>3, <3>2
        <4>2. x.gpa = g /\ x.hpa = f /\ x.left = PagesMapped(size)
          BY <2>1
        <4>3. k \in 0 .. (PagesMapped(size) - 1)
          BY <2>5, <4>1, <4>2
        <4>4. g + k \in GuestPages /\ ~In1gb(vm, g + k) /\ ~In2mb(vm, g + k)
          BY <4>3 DEF vm_alloc_memory
        <4>5. f + k \in new
          <5>1. PagesMapped(size) \in Nat /\ PagesMapped(size) <= n
            BY <1>1, PagesType
          <5>2. f \in Nat
            BY <1>7, MemoryAssumption DEF Frame
          <5> QED BY <1>2, <1>3, <4>3, <5>1, <5>2
        <4>6. NoBig(mem, root[vm], g + k)
          BY <1>0, <4>4, NotInLarge
        <4>7. NoBig(h.mem, root[vm], g + k)
          <5>1. PICK r \in Frame : r = root[vm] /\ lvl[r] = 4
            BY <1>0 DEF MemInv, RootsOK, Level
          <5>2. PICK m : m = h.mem
            OBVIOUS
          <5>3. PICK y \in GuestPages : y = g + k
            BY <4>4
          <5>4. \A z \in Frame : own[z] = own[r] /\ lvl[z] \in 2..4 => m[z] = Heap.mem[z]
            BY <2>4, <5>2 DEF Heap
          <5>5. NoBig(Heap.mem, r, y)
            BY <4>6, <5>1, <5>3 DEF Heap
          <5>6. NoBig(m, r, y)
            BY <1>0, <5>1, <5>4, <5>5, NoBigFrame
          <5> QED BY <5>1, <5>2, <5>3, <5>6
        <4> QED BY <1>10, <3>2, <4>1, <4>2, <4>4, <4>5, <4>7
      <3> QED BY <3>1, <3>2
    <2>6. \A w \in VM : mapping'[w].left > 0 => Live(w)'
      <3>1. \A w \in VM : w # vm => mapping'[w] = mapping[w]
        BY <2>2, <2>3
      <3> QED BY <1>0, <1>11, <3>1 DEF MemInv, MappingOK
    <2> QED BY <1>8, <2>5, <2>6 DEF MappingOK
  <1> QED
    BY <1>0, <1>9, <1>12, <1>13, <1>15, <1>16, <1>17 DEF SomePurpose, MemInv

\* One page of vm_ept_map.
LEMMA EptMapMem ==
    ASSUME NEW own, NEW lvl, MemInv(own, lvl), NEW vm \in VM, vm_ept_map(vm), ~spilled'
    PROVE  SomePurpose'
  <1>0. TypeInv /\ TypeInv' /\ Shape(Heap, own, lvl)
    BY EptMapStepType DEF MemInv
  <1>1. PICK m \in [gpa : Nat, hpa : Nat, left : Nat] : m = mapping[vm]
    BY <1>0 DEF TypeInv, TypeOK
  <1>2. m.left > 0 /\ m.gpa \in Nat /\ m.hpa \in Nat /\ m.left \in Nat /\ Live(vm)
    BY <1>1 DEF vm_ept_map, MemInv, MappingOK
  <1>3. \A k \in 0 .. (m.left - 1) :
           /\ m.hpa + k \in Level(own, lvl, 0, vm)
           /\ m.gpa + k \in GuestPages
           /\ NoBig(mem, root[vm], m.gpa + k)
    BY <1>1, <1>2 DEF MemInv, MappingOK
  <1>4. /\ m.hpa \in Level(own, lvl, 0, vm) /\ m.gpa \in GuestPages
        /\ NoBig(mem, root[vm], m.gpa) /\ InTable(m.gpa)
    <2>1. 0 \in 0 .. (m.left - 1) /\ m.hpa + 0 = m.hpa /\ m.gpa + 0 = m.gpa
      BY <1>2
    <2>2. InTable(m.gpa)
      BY <1>1 DEF vm_ept_map
    <2> QED BY <1>3, <2>1, <2>2
  <1>5. PICK r : r = ept_map(Heap, root[vm], m.gpa, m.hpa)
    OBVIOUS
  <1>6. PICK own2, lvl2 : MapStep(Heap, own, lvl, r.heap, own2, lvl2, vm)
    <2>1. PICK q \in Level(own, lvl, 4, vm) : q = root[vm]
      BY <1>2 DEF MemInv, RootsOK
    <2>2. NoBig(Heap.mem, q, m.gpa)
      BY <1>4, <2>1 DEF Heap
    <2>3. \E o, l : MapStep(Heap, own, lvl, ept_map(Heap, q, m.gpa, m.hpa).heap, o, l, vm)
      BY <1>0, <1>4, <2>2, EptMapShape
    <2> QED BY <1>5, <2>1, <2>3
  <1>7. PICK h : h = r.heap
    OBVIOUS
  <1>8. /\ Shape(h, own2, lvl2) /\ Adds(own, lvl, own2, lvl2, vm) /\ NoRam(lvl, lvl2)
        /\ NoNewBig(Heap, h, lvl)
    BY <1>6, <1>7 DEF MapStep
  <1>9. /\ mem' = h.mem /\ used' = h.used /\ UNCHANGED <<root, gone, regions>>
    BY <1>1, <1>5, <1>7 DEF vm_ept_map
  <1>10. Shape(Heap, own2, lvl2)'
    BY <1>8, <1>9, ShapeNext
  <1>11. \A w \in VM : Live(w)' <=> Live(w)
    BY <1>9 DEF Live
  <1>12. RootsOK(own2, lvl2)'
    <2>1. \A w \in VM : Level(own, lvl, 4, w) \subseteq Level(own2, lvl2, 4, w)
      BY <1>8, AddsLevel
    <2> QED BY <1>9, <1>11, <2>1 DEF MemInv, RootsOK
  <1>13. OwnersOK(own2, lvl2)'
    BY <1>2, <1>8, <1>9, <1>11, AddsKeep
  <1>14. \A w \in VM : Level(own, lvl, 0, w) \subseteq Level(own2, lvl2, 0, w)
    BY <1>8, AddsLevel
  <1>15. RegionsOK(own2, lvl2)'
    <2>1. \A w \in VM : \A i \in DOMAIN regions[w] :
             Ram(regions[w][i]) \subseteq Level(own2, lvl2, 0, w)
      BY <1>14 DEF MemInv, RegionsOK
    <2> QED BY <1>9, <2>1 DEF RegionsOK
  <1>17. RamOK(own2, lvl2)'
    <2>1. \A w \in VM : Level(own2, lvl2, 0, w) \subseteq Level(own, lvl, 0, w)
      BY <1>8 DEF Adds, NoRam, Level, Free
    <2> QED BY <1>9, <1>11, <2>1 DEF MemInv, RamOK, RamOf
  <1>16. MappingOK(own2, lvl2)'
    <2>1. PICK x : x = IF r.ok /\ m.left > 1
                       THEN [gpa |-> m.gpa + 1, hpa |-> m.hpa + 1, left |-> m.left - 1]
                       ELSE Idle
      OBVIOUS
    <2>2. mapping' = [mapping EXCEPT ![vm] = x]
      BY <1>1, <1>5, <2>1 DEF vm_ept_map
    <2>3. mapping \in [VM -> [gpa : Nat, hpa : Nat, left : Nat]]
      BY <1>0 DEF TypeInv, TypeOK
    <2>4. \A w \in VM, y \in GuestPages :
             Live(w) /\ NoBig(mem, root[w], y) => NoBig(h.mem, root[w], y)
      <3>1. \A w \in VM : Live(w) => root[w] \in Frame /\ lvl[root[w]] = 4
        BY DEF MemInv, RootsOK, Level
      <3>2. Heap.mem = mem
        BY DEF Heap
      <3> QED BY <1>8, <3>1, <3>2 DEF NoNewBig
    <2>5. ASSUME NEW w \in VM, mapping'[w].left > 0,
                 NEW k \in 0 .. (mapping'[w].left - 1)
          PROVE  /\ mapping'[w].hpa + k \in Level(own2, lvl2, 0, w)
                 /\ mapping'[w].gpa + k \in GuestPages
                 /\ NoBig(h.mem, root[w], mapping'[w].gpa + k)
                 /\ Live(w)
      <3>1. CASE w # vm
        <4>1. mapping'[w] = mapping[w]
          BY <2>2, <2>3, <3>1
        <4>2. /\ Live(w) /\ mapping[w].hpa + k \in Level(own, lvl, 0, w)
              /\ mapping[w].gpa + k \in GuestPages
              /\ NoBig(mem, root[w], mapping[w].gpa + k)
          BY <2>5, <4>1 DEF MemInv, MappingOK
        <4> QED BY <1>14, <2>4, <4>1, <4>2
      <3>2. CASE w = vm
        <4>1. mapping'[w] = x
          BY <2>2, <2>3, <3>2
        <4>2. r.ok /\ m.left > 1
          <5>1. SUFFICES ASSUME ~(r.ok /\ m.left > 1) PROVE FALSE
            OBVIOUS
          <5>2. x.left = 0
            BY <2>1, <5>1 DEF Idle
          <5> QED BY <2>5, <4>1, <5>2
        <4>3. x.gpa = m.gpa + 1 /\ x.hpa = m.hpa + 1 /\ x.left = m.left - 1
          BY <2>1, <4>2
        <4>4. k \in 0 .. ((m.left - 1) - 1)
          BY <2>5, <4>1, <4>3
        <4>5. /\ k + 1 \in 0 .. (m.left - 1)
              /\ m.hpa + 1 + k = m.hpa + (k + 1) /\ m.gpa + 1 + k = m.gpa + (k + 1)
          BY <1>2, <4>4
        <4>6. /\ m.hpa + (k + 1) \in Level(own, lvl, 0, vm)
              /\ m.gpa + (k + 1) \in GuestPages
              /\ NoBig(mem, root[vm], m.gpa + (k + 1))
          BY <1>3, <4>5
        <4>7. NoBig(h.mem, root[vm], m.gpa + (k + 1))
          BY <1>2, <2>4, <4>6
        <4> QED BY <1>2, <1>14, <3>2, <4>1, <4>3, <4>5, <4>6, <4>7
      <3> QED BY <3>1, <3>2
    <2>6. \A w \in VM : mapping'[w].left > 0 => Live(w)'
      <3>1. \A w \in VM : w # vm => mapping'[w] = mapping[w]
        BY <2>2, <2>3
      <3> QED BY <1>2, <1>11, <3>1 DEF MemInv, MappingOK
    <2> QED BY <1>9, <2>5, <2>6 DEF MappingOK
  <1> QED
    BY <1>0, <1>10, <1>12, <1>13, <1>15, <1>16, <1>17 DEF SomePurpose, MemInv

\* A walk stays in the VM's own frames, one level down at a time.
LEMMA DescendShape ==
    ASSUME NEW own, NEW lvl, Shape(Heap, own, lvl), NEW k \in 1..4, NEW vm,
           NEW X \in SUBSET Level(own, lvl, k, vm), NEW i \in Idx
    PROVE  Descend(X, i) \in SUBSET Level(own, lvl, k - 1, vm)
  <1>1. SUFFICES ASSUME NEW t \in X, Read(Heap, t, i).present, ~Read(Heap, t, i).big
                 PROVE  Read(Heap, t, i).addr \in Level(own, lvl, k - 1, vm)
    BY DEF Descend
  <1>2. t \in Frame /\ lvl[t] = k /\ own[t] = vm /\ t \in Nat
    BY MemoryAssumption DEF Level, Frame
  <1>3. Read(Heap, t, i) = Heap.mem[t][i]
    BY <1>2, SlotFits DEF Read
  <1>4. EntryFits(Heap.mem[t][i], t, own, lvl)
    BY <1>2 DEF Shape
  <1> QED
    BY <1>1, <1>2, <1>3, <1>4 DEF EntryFits

LEMMA WalkShape ==
    ASSUME NEW own, NEW lvl, MemInv(own, lvl), NEW vm \in VM, Live(vm),
           NEW g \in SafePages
    PROVE  /\ PdptOf(vm, g) \in SUBSET Level(own, lvl, 3, vm)
           /\ PdOf(vm, g) \in SUBSET Level(own, lvl, 2, vm)
           /\ PtOf(vm, g) \in SUBSET Level(own, lvl, 1, vm)
           /\ ept_translate(vm, g) \in SUBSET Level(own, lvl, 0, vm)
  <1>0. Shape(Heap, own, lvl)
    BY DEF MemInv
  <1>1. /\ EPT_PML4_INDEX(g) \in Idx /\ EPT_PDP_INDEX(g) \in Idx
        /\ EPT_PD_INDEX(g) \in Idx /\ EPT_PT_INDEX(g) \in Idx
    BY FitIndex DEF SafePages
  <1>2. \A k \in 1..4 : \A X \in SUBSET Level(own, lvl, k, vm), i \in Idx :
           Descend(X, i) \in SUBSET Level(own, lvl, k - 1, vm)
    BY <1>0, DescendShape
  <1>3. {root[vm]} \in SUBSET Level(own, lvl, 4, vm)
    BY DEF MemInv, RootsOK
  <1>4. PdptOf(vm, g) \in SUBSET Level(own, lvl, 3, vm)
    <2>1. 4 \in 1..4 /\ 4 - 1 = 3
      OBVIOUS
    <2>2. Descend({root[vm]}, EPT_PML4_INDEX(g)) \in SUBSET Level(own, lvl, 4 - 1, vm)
      BY <1>1, <1>2, <1>3, <2>1
    <2> QED BY <2>1, <2>2 DEF PdptOf
  <1>5. PdOf(vm, g) \in SUBSET Level(own, lvl, 2, vm)
    <2>1. 3 \in 1..4 /\ 3 - 1 = 2
      OBVIOUS
    <2>2. Descend(PdptOf(vm, g), EPT_PDP_INDEX(g)) \in SUBSET Level(own, lvl, 3 - 1, vm)
      BY <1>1, <1>2, <1>4, <2>1
    <2> QED BY <2>1, <2>2 DEF PdOf
  <1>6. PtOf(vm, g) \in SUBSET Level(own, lvl, 1, vm)
    <2>1. 2 \in 1..4 /\ 2 - 1 = 1
      OBVIOUS
    <2>2. Descend(PdOf(vm, g), EPT_PD_INDEX(g)) \in SUBSET Level(own, lvl, 2 - 1, vm)
      BY <1>1, <1>2, <1>5, <2>1
    <2> QED BY <2>1, <2>2 DEF PtOf
  <1>7. ept_translate(vm, g) \in SUBSET Level(own, lvl, 0, vm)
    <2>1. 1 \in 1..4 /\ 1 - 1 = 0
      OBVIOUS
    <2>2. Descend(PtOf(vm, g), EPT_PT_INDEX(g)) \in SUBSET Level(own, lvl, 1 - 1, vm)
      BY <1>1, <1>2, <1>6, <2>1
    <2> QED BY <2>1, <2>2 DEF ept_translate
  <1> QED
    BY <1>4, <1>5, <1>6, <1>7

\* Large pages go into tables of the middle levels of the VM itself, which is
\* not mapping small ones meanwhile.
LEMMA LargeMem ==
    ASSUME NEW own, NEW lvl, MemInv(own, lvl), NEW vm \in VM, NEW g \in GuestPages,
           ept_map_2mb(vm, g) \/ ept_map_1gb(vm, g), ~spilled'
    PROVE  SomePurpose'
  <1>0. TypeInv /\ TypeInv' /\ Shape(Heap, own, lvl) /\ Heap \in HeapType
    BY LargeType DEF MemInv, TypeInv
  <1>1. /\ Live(vm) /\ mapping[vm] = Idle /\ g \in SafePages
        /\ UNCHANGED <<root, gone, regions, used, mapping>>
    BY DEF ept_map_2mb, ept_map_1gb, WriteLarge, SafePages
  <1>2. PICK t \in Frame, i \in Idx, a \in Nat :
           /\ lvl[t] \in {2, 3} /\ own[t] = vm
           /\ mem' = Write(Heap, t, i, LargePage(a)).mem
    <2>1. PdptOf(vm, g) \in SUBSET Level(own, lvl, 3, vm)
      BY <1>1, WalkShape
    <2>2. PdOf(vm, g) \in SUBSET Level(own, lvl, 2, vm)
      BY <1>1, WalkShape
    <2>3. EPT_PD_INDEX(g) \in Idx /\ EPT_PDP_INDEX(g) \in Idx
      BY <1>1, FitIndex DEF SafePages
    <2>4. Fanout \in Nat \ {0} /\ Fanout * Fanout \in Nat \ {0} /\ LargeHost \in Nat
      BY MemoryAssumption
    <2>5. PICK t \in Frame, i \in Idx, n \in Nat \ {0} :
             /\ lvl[t] \in {2, 3} /\ own[t] = vm
             /\ WriteLarge(vm, t, i, g, n)
      <3>1. CASE ept_map_2mb(vm, g)
        <4>1. PICK pd \in PdOf(vm, g) : WriteLarge(vm, pd, EPT_PD_INDEX(g), g, Fanout)
          BY <3>1 DEF ept_map_2mb
        <4>2. pd \in Frame /\ lvl[pd] \in {2, 3} /\ own[pd] = vm
          BY <2>2 DEF Level
        <4> QED BY <2>3, <2>4, <4>1, <4>2
      <3>2. CASE ept_map_1gb(vm, g)
        <4>1. PICK pdpt \in PdptOf(vm, g) :
                 WriteLarge(vm, pdpt, EPT_PDP_INDEX(g), g, Fanout * Fanout)
          BY <3>2 DEF ept_map_1gb
        <4>2. pdpt \in Frame /\ lvl[pdpt] \in {2, 3} /\ own[pdpt] = vm
          BY <2>1 DEF Level
        <4> QED BY <2>3, <2>4, <4>1, <4>2
      <3> QED BY <3>1, <3>2
    <2>6. LargeHost \div n \in Nat
      BY <2>4
    <2>7. t \in Nat
      BY MemoryAssumption DEF Frame
    <2>8. ~Wild(t, i)
      BY <2>7, SlotFits
    <2>9. mem' = Write(Heap, t, i, LargePage(LargeHost \div n)).mem
      BY <2>5, <2>8 DEF WriteLarge
    <2> QED BY <2>5, <2>6, <2>9
  <1>3. PICK e \in Entry : e = LargePage(a)
    BY DEF LargePage, Entry
  <1>4. PICK h : h = Write(Heap, t, i, e)
    OBVIOUS
  <1>5. Shape(h, own, lvl)
    <2>1. EntryFits(e, t, own, lvl) /\ lvl[t] \in 1..4
      BY <1>2, <1>3 DEF EntryFits, LargePage
    <2> QED BY <1>0, <1>4, <2>1, WriteShape
  <1>6. /\ h.used = used
        /\ h.mem = [Heap.mem EXCEPT ![t] = [Heap.mem[t] EXCEPT ![i] = e]]
    <2>1. h.used = Heap.used
      BY <1>4 DEF Write
    <2>2. h.mem = [Heap.mem EXCEPT ![t] = [Heap.mem[t] EXCEPT ![i] = e]]
      BY <1>0, <1>4, ReadWriteFits
    <2> QED BY <2>1, <2>2 DEF Heap
  <1>7. mem' = h.mem /\ used' = h.used
    BY <1>1, <1>2, <1>3, <1>4, <1>6
  <1>8. Shape(Heap, own, lvl)'
    BY <1>5, <1>7, ShapeNext
  <1>9. \A f \in Frame : f # t => h.mem[f] = mem[f]
    BY <1>0, <1>6 DEF HeapType, Heap
  <1>10. /\ RootsOK(own, lvl)' /\ OwnersOK(own, lvl)' /\ RegionsOK(own, lvl)'
         /\ RamOK(own, lvl)'
    BY <1>1 DEF MemInv, RootsOK, OwnersOK, RegionsOK, RamOK, RamOf, Live
  <1>11. MappingOK(own, lvl)'
    <2>1. ASSUME NEW w \in VM, mapping[w].left > 0, NEW k \in 0 .. (mapping[w].left - 1)
          PROVE  /\ Live(w)
                 /\ mapping[w].hpa + k \in Level(own, lvl, 0, w)
                 /\ mapping[w].gpa + k \in GuestPages
                 /\ NoBig(mem', root[w], mapping[w].gpa + k)
      <3>1. w # vm
        BY <1>1, <2>1 DEF Idle
      <3>2. PICK m : m = h.mem
        OBVIOUS
      <3>3. \A f \in Frame : own[f] = w /\ lvl[f] \in 2..4 => m[f] = mem[f]
        BY <1>2, <1>9, <3>1, <3>2
      <3>4. /\ mapping[w].hpa + k \in Level(own, lvl, 0, w)
            /\ mapping[w].gpa + k \in GuestPages
            /\ NoBig(m, root[w], mapping[w].gpa + k)
        BY <2>1, <3>3, MappingKept
      <3>5. Live(w)
        BY <2>1 DEF MemInv, MappingOK
      <3> QED BY <1>7, <3>2, <3>4, <3>5
    <2>2. \A w \in VM : mapping[w].left > 0 => Live(w)'
      BY <1>1 DEF MemInv, MappingOK, Live
    <2> QED BY <1>1, <2>1, <2>2 DEF MappingOK
  <1> QED
    BY <1>0, <1>8, <1>10, <1>11 DEF SomePurpose, MemInv

\* A step that changes nothing but the history of unmapped pages.
LEMMA QuietMem ==
    ASSUME NEW own, NEW lvl, MemInv(own, lvl), TypeInv',
           UNCHANGED <<root, gone, regions, mem, used, mapping>>
    PROVE  SomePurpose'
  <1>1. Shape(Heap, own, lvl)'
    BY DEF MemInv, Heap, Shape
  <1>2. RootsOK(own, lvl)' /\ OwnersOK(own, lvl)' /\ RegionsOK(own, lvl)' /\ RamOK(own, lvl)'
    BY DEF MemInv, RootsOK, OwnersOK, RegionsOK, RamOK, RamOf, Live
  <1>3. MappingOK(own, lvl)'
    BY DEF MemInv, MappingOK, Live
  <1> QED
    BY <1>1, <1>2, <1>3 DEF SomePurpose, MemInv

\* Until an entry has spilled, every frame has its purpose.
SafeInv == TypeInv /\ (~spilled => SomePurpose)

LEMMA SpillLasts == [Next]_vars /\ spilled => spilled'
  <1> SUFFICES ASSUME [Next]_vars, spilled PROVE spilled'
    OBVIOUS
  <1>1. CASE UNCHANGED vars
    BY <1>1 DEF vars
  <1>2. ASSUME NEW vm \in VM, vm_create(vm) \/ vm_destroy(vm) \/ vm_reset(vm)
        PROVE  spilled'
    BY <1>2 DEF vm_create, vm_destroy, vm_reset
  <1>3. ASSUME NEW vm \in VM, NEW g \in GuestPages, NEW size \in Sizes,
               vm_alloc_memory(vm, g, size)
        PROVE  spilled'
    BY <1>3 DEF vm_alloc_memory
  <1>4. ASSUME NEW vm \in VM, vm_ept_map(vm) PROVE spilled'
    BY <1>4 DEF vm_ept_map
  <1>5. ASSUME NEW vm \in VM, NEW g \in GuestPages,
               ept_map_2mb(vm, g) \/ ept_map_1gb(vm, g) \/ vm_ept_unmap(vm, g)
        PROVE  spilled'
    BY <1>5 DEF ept_map_2mb, ept_map_1gb, WriteLarge, vm_ept_unmap
  <1> QED
    BY <1>1, <1>2, <1>3, <1>4, <1>5 DEF Next

LEMMA NextMem == SafeInv /\ [Next]_vars => SafeInv'
  <1> SUFFICES ASSUME SafeInv, [Next]_vars, ~spilled' PROVE SomePurpose'
    BY NextType DEF SafeInv
  <1>1. ~spilled
    BY SpillLasts
  <1>2. PICK own, lvl : MemInv(own, lvl)
    BY <1>1 DEF SafeInv, SomePurpose
  <1>3. TypeInv'
    BY NextType DEF SafeInv
  <1>4. CASE UNCHANGED vars
    BY <1>2, <1>3, <1>4, QuietMem DEF vars
  <1>5. CASE \E vm \in VM, g \in GuestPages : vm_ept_unmap(vm, g)
    BY <1>2, <1>3, <1>5, QuietMem DEF vm_ept_unmap
  <1>6. CASE Next
    BY <1>2, <1>5, <1>6, CreateMem, DestroyMem, ResetMem, AllocMemoryMem, EptMapMem, LargeMem
    DEF Next
  <1> QED
    BY <1>4, <1>6

\* Frames have one purpose and one owner, which the walks respect.
LEMMA PurposeIsolates == SafeInv => Isolation
  <1> SUFFICES ASSUME ~spilled, NEW own, NEW lvl, MemInv(own, lvl) PROVE Isolation
    BY DEF SafeInv, SomePurpose, Isolation
  <1>1. \A vm \in VM : Live(vm) =>
           TablesOf(vm) \subseteq {f \in Frame : lvl[f] \in 1..4 /\ own[f] = vm}
    <2>1. SUFFICES ASSUME NEW vm \in VM, Live(vm), NEW f \in TablesOf(vm)
                   PROVE  f \in Frame /\ lvl[f] \in 1..4 /\ own[f] = vm
      OBVIOUS
    <2>2. CASE f = root[vm]
      BY <2>1, <2>2 DEF MemInv, RootsOK, Level
    <2>3. CASE \E g \in SafePages : f \in PdptOf(vm, g) \cup PdOf(vm, g) \cup PtOf(vm, g)
      <3>1. PICK g \in SafePages : f \in PdptOf(vm, g) \cup PdOf(vm, g) \cup PtOf(vm, g)
        BY <2>3
      <3>2. \/ f \in Level(own, lvl, 3, vm) \/ f \in Level(own, lvl, 2, vm)
            \/ f \in Level(own, lvl, 1, vm)
        BY <2>1, <3>1, WalkShape
      <3> QED BY <3>2 DEF Level
    <2> QED BY <2>1, <2>2, <2>3 DEF TablesOf
  <1>2. ASSUME NEW vm \in VM, Live(vm) PROVE Reach(vm) \subseteq RamOf(vm)
    <2>1. \A g \in SafePages : ept_translate(vm, g) \subseteq Level(own, lvl, 0, vm)
      BY <1>2, WalkShape
    <2> QED BY <1>2, <2>1 DEF Reach, MemInv, RamOK
  <1>3. \A w \in VM : RamOf(w) \subseteq {f \in Frame : lvl[f] = 0 /\ own[f] = w}
    BY DEF MemInv, RegionsOK, RamOf, Level
  <1>4. \A f \in Frame : lvl[f] \in 0..4 => f \in used
    BY DEF MemInv, Shape, Heap, Free
  <1>5. ASSUME NEW vm \in VM, Live(vm)
        PROVE  RamOf(vm) \cup TablesOf(vm) \subseteq used
    BY <1>1, <1>3, <1>4, <1>5
  <1>6. ASSUME NEW vm \in VM, Live(vm), NEW w \in VM, Live(w)
        PROVE  /\ RamOf(vm) \cap TablesOf(w) = {}
               /\ w # vm => /\ RamOf(vm) \cap RamOf(w) = {}
                            /\ TablesOf(vm) \cap TablesOf(w) = {}
    BY <1>1, <1>3, <1>6
  <1> QED
    BY <1>2, <1>5, <1>6 DEF Isolation

\* For any number of VMs and any set of guest pages, and whatever the calls on
\* other VMs do between the pages of a mapping: until an entry is written
\* behind the frame of its table, what vm_gpa_to_hpa answers for a safe page
\* of a VM is RAM of that VM and of no other, and no page table.
THEOREM GuestsIsolated == Spec => []Isolation
  <1>1. Init => SafeInv
    BY InitType, InitMem DEF SafeInv
  <1> QED
    BY <1>1, NextMem, PurposeIsolates, PTL DEF Spec
=============================================================================
