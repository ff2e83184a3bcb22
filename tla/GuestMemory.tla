---------------------------- MODULE GuestMemory ----------------------------
(***************************************************************************)
(* Guest memory: the extended page tables of mmu/ept.c and the functions   *)
(* of hypervisor.c that give a VM its root table and its RAM.              *)
(*                                                                         *)
(* Host memory is an array of page frames under malloc.  A page table is a *)
(* frame like any other: an entry is found by adding an index to the       *)
(* address of the table, with no check that the result is still inside it. *)
(* The bit fields of ept_pte_t and its siblings add up to 65 bits, so an   *)
(* entry takes 16 bytes and a frame holds EntriesPerPage = 256 of the      *)
(* Fanout = 512 entries that an index can name; the others lie in the      *)
(* frame behind it.                                                        *)
(*                                                                         *)
(* Every VM may be inside one vm_alloc_memory, which maps a page a step;   *)
(* calls on different VMs interleave with it.  Translations are those of   *)
(* the code's own walk, which vm_gpa_to_hpa and through it checkpoints     *)
(* use: the processor expects entries of 8 bytes and does not read these   *)
(* tables as they are laid out, so neither its walks nor its TLB, nor the  *)
(* INVEPT of ept_invalidate, are modelled.                                 *)
(***************************************************************************)
EXTENDS Naturals, Sequences, FiniteSets

CONSTANTS VM,
          MaxFrame,        \* host frames 1..MaxFrame; 0 is the NULL page
          Fanout,          \* 512: the indices of one level
          EntriesPerPage,  \* 256: the entries that fit into a frame
          GuestPages,      \* the guest page numbers in use
          Sizes,           \* sizes of regions, in half pages
          MaxRegions,      \* config->memory_region_count
          MaxUnmapped,     \* bound on the pages in `unmapped'
          LargeHost,       \* host frame that large pages are mapped to
          Absent,          \* the address space of a VM that does not exist
          Released         \* the translation of a page that was unmapped

ASSUME MemoryAssumption ==
    /\ IsFiniteSet(VM)
    /\ MaxFrame \in Nat /\ MaxRegions \in Nat /\ MaxUnmapped \in Nat /\ LargeHost \in Nat
    /\ Fanout \in Nat \ {0} /\ EntriesPerPage \in Nat \ {0}
    /\ GuestPages \subseteq Nat /\ Sizes \subseteq Nat \ {0}

VARIABLES
    root,      \* vm->ept_root, 0 for a VM that does not exist
    gone,      \* the VMs destroyed: a member of VM is one allocation
    regions,   \* vm->memory_regions, as far as memory_region_count
    mem,       \* the contents of every frame, read as table entries
    used,      \* the frames malloc has given out
    mapping,   \* the loop of vm_ept_map a VM is in
    crashed,   \* the process followed a NULL or wild table address
    spilled,   \* history: an entry was written behind the frame of a table
    unmapped   \* history: the pages vm_ept_unmap was called for, and that
               \* were not mapped again

vars == <<root, gone, regions, mem, used, mapping, crashed, spilled, unmapped>>

Frame == 1 .. MaxFrame
\* An entry that a walk follows holds the address of a frame.
Entry == {e \in [present : BOOLEAN, big : BOOLEAN, addr : Nat] :
             e.present /\ ~e.big => e.addr \in Frame}
Zero  == [present |-> FALSE, big |-> FALSE, addr |-> 0]
Points(f) == [present |-> TRUE, big |-> FALSE, addr |-> f]
Blank == [i \in 0 .. (EntriesPerPage - 1) |-> Zero]

Region == [gpa : Nat, hpa : Nat, size : Nat]
Idle == [gpa |-> 0, hpa |-> 0, left |-> 0]

Live(vm) == root[vm] # 0

\* (size + PAGE_SIZE - 1) >> PAGE_SHIFT and size / PAGE_SIZE + 1.
PagesMapped(size)    == (size + 1) \div 2
PagesAllocated(size) == size \div 2 + 1
\* The frames of a region.
Ram(r) == r.hpa .. (r.hpa + PagesAllocated(r.size) - 1)

EPT_PT_INDEX(g)   == g % Fanout
EPT_PD_INDEX(g)   == (g \div Fanout) % Fanout
EPT_PDP_INDEX(g)  == (g \div (Fanout * Fanout)) % Fanout
EPT_PML4_INDEX(g) == (g \div (Fanout * Fanout * Fanout)) % Fanout

\* The entries of guest page g lie in the frames of their tables: below 1 MB,
\* and in the lower half of every larger unit.
InTable(g) ==
    /\ EPT_PT_INDEX(g) < EntriesPerPage /\ EPT_PD_INDEX(g) < EntriesPerPage
    /\ EPT_PDP_INDEX(g) < EntriesPerPage /\ EPT_PML4_INDEX(g) < EntriesPerPage
SafePages == {g \in GuestPages : InTable(g)}

-----------------------------------------------------------------------------
(* Frames and entries.  A heap is a record of the variables mem and used.  *)

Heap == [mem |-> mem, used |-> used]

Fits(h, f, n) == f + n - 1 <= MaxFrame /\ (f .. (f + n - 1)) \cap h.used = {}
Room(h, n) == \E f \in Frame : Fits(h, f, n)

\* aligned_alloc: some free range.
aligned_alloc(h, n) == CHOOSE f \in Frame : Fits(h, f, n)

\* Mutant: the memset is missing.
MutAllocDirty(h, n) ==
    LET f == aligned_alloc(h, n)
    IN  [used |-> h.used \cup (f .. (f + n - 1)), mem |-> h.mem]

\* All of it zeroed.
ept_alloc_pages(h, n) ==
    LET f == aligned_alloc(h, n)
        new == f .. (f + n - 1)
    IN  [used |-> h.used \cup new,
         mem  |-> [k \in Frame |-> IF k \in new THEN Blank ELSE h.mem[k]]]

\* Where entry i of the table at frame t really is.
Slot(t, i) == t + i \div EntriesPerPage
Wild(t, i) == t = 0 \/ Slot(t, i) \notin Frame
Read(h, t, i) == h.mem[Slot(t, i)][i % EntriesPerPage]
Write(h, t, i, e) == [h EXCEPT !.mem[Slot(t, i)][i % EntriesPerPage] = e]

-----------------------------------------------------------------------------
(* The walks.                                                              *)

\* Mutant: tests the wrong thing and allocates a table every time.
MutAllocAlways(h, t, i) ==
    IF Wild(t, i) \/ ~Room(h, 1)
    THEN h
    ELSE Write(ept_alloc_pages(h, 1), t, i, Points(aligned_alloc(h, 1)))

\* ept_alloc_pdpt, ept_alloc_pd, ept_alloc_pt: the caller ignores a failure,
\* which leaves the entry as it was.
ept_alloc_table(h, t, i) ==
    IF Wild(t, i) \/ Read(h, t, i).present \/ ~Room(h, 1)
    THEN h
    ELSE Write(ept_alloc_pages(h, 1), t, i, Points(aligned_alloc(h, 1)))

Child(h, t, i) == IF Wild(t, i) THEN 0 ELSE Read(h, t, i).addr

\* The heap after ept_map of one 4 KB page, and the page table it ends in:
\* 0 when the process has crashed on the way.
ept_map(h0, pml4, g, f) ==
    LET h1   == ept_alloc_table(h0, pml4, EPT_PML4_INDEX(g))
        pdpt == Child(h1, pml4, EPT_PML4_INDEX(g))
        h2   == ept_alloc_table(h1, pdpt, EPT_PDP_INDEX(g))
        pd   == Child(h2, pdpt, EPT_PDP_INDEX(g))
        h3   == ept_alloc_table(h2, pd, EPT_PD_INDEX(g))
        pt   == Child(h3, pd, EPT_PD_INDEX(g))
    IN  [ok   |-> ~Wild(pt, EPT_PT_INDEX(g)),
         heap |-> IF Wild(pt, EPT_PT_INDEX(g)) THEN h3
                  ELSE Write(h3, pt, EPT_PT_INDEX(g), Points(f))]

\* The walk of ept_lookup: the tables of each level that guest page g is looked
\* up in, as sets with at most one element, empty where an entry is missing
\* (NEXUSVM_ERR_NOT_FOUND) or is a large page.  At a 1 GB page the code goes
\* on as if it were a table; it is left to its callers not to ask there.
Descend(tables, i) ==
    {Read(Heap, t, i).addr : t \in {k \in tables : /\ ~Wild(k, i)
                                                 /\ Read(Heap, k, i).present
                                                 /\ ~Read(Heap, k, i).big}}
PdptOf(vm, g) == Descend({root[vm]}, EPT_PML4_INDEX(g))
PdOf(vm, g)   == Descend(PdptOf(vm, g), EPT_PDP_INDEX(g))
PtOf(vm, g)   == Descend(PdOf(vm, g), EPT_PD_INDEX(g))

In1gb(vm, g) == \E t \in PdptOf(vm, g) : Read(Heap, t, EPT_PDP_INDEX(g)).big
In2mb(vm, g) == \E t \in PdOf(vm, g) : Read(Heap, t, EPT_PD_INDEX(g)).big

\* ept_translate and vm_gpa_to_hpa of a 4 KB page: the host frame, if any.
ept_translate(vm, g) == Descend(PtOf(vm, g), EPT_PT_INDEX(g))

-----------------------------------------------------------------------------
(* Creation and destruction, as far as memory is concerned.                *)

Init ==
    /\ root = [vm \in VM |-> 0] /\ gone = {}
    /\ regions = [vm \in VM |-> << >>]
    /\ mem = [f \in Frame |-> Blank]
    /\ used = {}
    /\ mapping = [vm \in VM |-> Idle]
    /\ crashed = FALSE /\ spilled = FALSE /\ unmapped = {}

\* vm_create: ept_alloc_root.  Without a free frame it fails and unwinds.
vm_create(vm) ==
    /\ ~crashed /\ ~Live(vm) /\ vm \notin gone /\ Room(Heap, 1)
    /\ LET h == ept_alloc_pages(Heap, 1) IN mem' = h.mem /\ used' = h.used
    /\ root' = [root EXCEPT ![vm] = aligned_alloc(Heap, 1)]
    /\ regions' = [regions EXCEPT ![vm] = << >>]
    /\ UNCHANGED <<gone, mapping, crashed, spilled, unmapped>>

OfOthers(vm) == {x \in unmapped : x[1] # vm}

\* vm_destroy: ept_free_root frees the PML4 and nothing below it; the RAM of
\* the regions and the lower tables stay allocated for ever.
vm_destroy(vm) ==
    /\ ~crashed /\ Live(vm) /\ mapping[vm] = Idle
    /\ used' = used \ {root[vm]}
    /\ root' = [root EXCEPT ![vm] = 0] /\ gone' = gone \cup {vm}
    /\ regions' = [regions EXCEPT ![vm] = << >>]
    /\ unmapped' = OfOthers(vm)
    /\ UNCHANGED <<mem, mapping, crashed, spilled>>

\* A cold vm_reset, as far as memory is concerned: ept_clear_root.  The lower
\* tables and the RAM stay allocated, and the regions stay on record.
vm_reset(vm) ==
    /\ ~crashed /\ Live(vm) /\ mapping[vm] = Idle
    /\ mem' = [mem EXCEPT ![root[vm]] = Blank]
    /\ unmapped' = OfOthers(vm)
    /\ UNCHANGED <<root, gone, regions, used, mapping, crashed, spilled>>

-----------------------------------------------------------------------------
(* Mapping.                                                                *)

\* vm_alloc_memory up to its call of vm_ept_map.  The caller's duties: no more
\* regions than the array was created with (nothing checks), and no 4 KB
\* page inside a large one (ept_map would take its address for a table's).
vm_alloc_memory(vm, g, size) ==
    /\ ~crashed /\ Live(vm) /\ mapping[vm] = Idle
    /\ Room(Heap, PagesAllocated(size)) /\ Len(regions[vm]) < MaxRegions
    /\ \A k \in 0 .. (PagesMapped(size) - 1) :
          /\ g + k \in GuestPages
          /\ ~In1gb(vm, g + k) /\ ~In2mb(vm, g + k)
    /\ LET h == ept_alloc_pages(Heap, PagesAllocated(size)) IN mem' = h.mem /\ used' = h.used
    /\ LET f == aligned_alloc(Heap, PagesAllocated(size)) IN
          /\ regions' = [regions EXCEPT ![vm] =
                            Append(@, [gpa |-> g, hpa |-> f, size |-> size])]
          /\ mapping' = [mapping EXCEPT ![vm] =
                            [gpa |-> g, hpa |-> f, left |-> PagesMapped(size)]]
    /\ UNCHANGED <<root, gone, crashed, spilled, unmapped>>

\* Mutant: forgets to shift the host address down to a page number.
MutMapUnshifted(vm) ==
    /\ ~crashed /\ mapping[vm].left > 0
    /\ LET m == mapping[vm]
           r == ept_map(Heap, root[vm], m.gpa, m.hpa * 2)
       IN  /\ mem' = r.heap.mem /\ used' = r.heap.used
           /\ crashed' = ~r.ok
           /\ mapping' = [mapping EXCEPT ![vm] =
                  IF r.ok /\ m.left > 1
                  THEN [gpa |-> m.gpa + 1, hpa |-> m.hpa + 1, left |-> m.left - 1]
                  ELSE Idle]
           /\ spilled' = (spilled \/ ~InTable(m.gpa))
           /\ unmapped' = unmapped \ {<<vm, m.gpa>>}
    /\ UNCHANGED <<root, gone, regions>>

\* One iteration of the loop of vm_ept_map.  A table that could not be
\* allocated is followed all the same, to address 0.
vm_ept_map(vm) ==
    /\ ~crashed /\ mapping[vm].left > 0
    /\ LET m == mapping[vm]
           r == ept_map(Heap, root[vm], m.gpa, m.hpa)
       IN  /\ mem' = r.heap.mem /\ used' = r.heap.used
           /\ crashed' = ~r.ok
           /\ mapping' = [mapping EXCEPT ![vm] =
                  IF r.ok /\ m.left > 1
                  THEN [gpa |-> m.gpa + 1, hpa |-> m.hpa + 1, left |-> m.left - 1]
                  ELSE Idle]
           /\ spilled' = (spilled \/ ~InTable(m.gpa))
           /\ unmapped' = unmapped \ {<<vm, m.gpa>>}
    /\ UNCHANGED <<root, gone, regions>>

LargePage(addr) == [present |-> TRUE, big |-> TRUE, addr |-> addr]

\* The entry of a large page over the n guest pages from g is written.
WriteLarge(vm, t, i, g, n) ==
    /\ crashed' = Wild(t, i)
    /\ mem' = IF Wild(t, i) THEN mem ELSE Write(Heap, t, i, LargePage(LargeHost \div n)).mem
    /\ spilled' = (spilled \/ ~InTable(g))
    /\ unmapped' = {x \in unmapped : x[1] = vm => x[2] \div n # g \div n}
    /\ UNCHANGED <<root, gone, regions, used, mapping>>

\* ept_map_2mb, whose caller has the range to itself; a page table that the
\* entry pointed to is forgotten.  The address is stored shifted by 21 bits.
ept_map_2mb(vm, g) ==
    /\ ~crashed /\ Live(vm) /\ mapping[vm] = Idle
    /\ g % Fanout = 0
    /\ \E pd \in PdOf(vm, g) : WriteLarge(vm, pd, EPT_PD_INDEX(g), g, Fanout)

\* ept_map_1gb, likewise one level up, shifted by 30 bits.
ept_map_1gb(vm, g) ==
    /\ ~crashed /\ Live(vm) /\ mapping[vm] = Idle
    /\ g % (Fanout * Fanout) = 0
    /\ \E pdpt \in PdptOf(vm, g) :
          WriteLarge(vm, pdpt, EPT_PDP_INDEX(g), g, Fanout * Fanout)

\* vm_ept_unmap of a mapped page: ept_unmap finds the entry and leaves it
\* ("... traverse and clear ...").  ept_set_memory_type, which changes a copy
\* of each entry, does as little.
vm_ept_unmap(vm, g) ==
    /\ ~crashed /\ Live(vm) /\ (ept_translate(vm, g) # {} \/ In2mb(vm, g))
    /\ Cardinality(unmapped) < MaxUnmapped
    /\ unmapped' = unmapped \cup {<<vm, g>>}
    /\ UNCHANGED <<root, gone, regions, mem, used, mapping, crashed, spilled>>

Next ==
    \E vm \in VM :
       \/ vm_create(vm) \/ vm_destroy(vm) \/ vm_reset(vm)
       \/ \E g \in GuestPages, size \in Sizes : vm_alloc_memory(vm, g, size)
       \/ vm_ept_map(vm)
       \/ \E g \in GuestPages : ept_map_2mb(vm, g) \/ ept_map_1gb(vm, g) \/ vm_ept_unmap(vm, g)

Spec == Init /\ [][Next]_vars

-----------------------------------------------------------------------------
(* Properties.                                                             *)

\* The variables keep their types; a VM never has more regions than the
\* array memory_regions was created for.
TypeOK ==
    /\ root \in [VM -> 0 .. MaxFrame]
    /\ gone \subseteq VM
    /\ regions \in [VM -> Seq(Region)]
    /\ \A vm \in VM : Len(regions[vm]) <= MaxRegions
    /\ mem \in [Frame -> [0 .. (EntriesPerPage - 1) -> Entry]]
    /\ used \subseteq Frame
    /\ mapping \in [VM -> [gpa : Nat, hpa : Nat, left : Nat]]
    /\ crashed \in BOOLEAN /\ spilled \in BOOLEAN
    /\ unmapped \subseteq VM \X GuestPages

\* The page tables that a walk of vm to a safe page meets, the frames such
\* walks end in, and the RAM that was allocated for vm.
TablesOf(vm) ==
    {root[vm]} \cup UNION {PdptOf(vm, g) \cup PdOf(vm, g) \cup PtOf(vm, g) : g \in SafePages}
Reach(vm) == UNION {ept_translate(vm, g) : g \in SafePages}
RamOf(vm) == UNION {Ram(regions[vm][i]) : i \in DOMAIN regions[vm]}

\* What vm_gpa_to_hpa answers for a VM is RAM of that VM, which is still
\* allocated and neither a page table nor RAM of another VM, and no two VMs
\* share a table: although tables and RAM are never freed, roots are freed,
\* reused and cleared, and calls on different VMs interleave between pages.
\* All that until an entry is written behind the frame of its table, which
\* any page from 1 MB on does: from then on nothing holds.
Isolation ==
    ~spilled => \A vm \in VM : Live(vm) =>
        /\ Reach(vm) \subseteq RamOf(vm)
        /\ RamOf(vm) \cup TablesOf(vm) \subseteq used
        /\ \A w \in VM : Live(w) =>
              /\ RamOf(vm) \cap TablesOf(w) = {}
              /\ w # vm => /\ RamOf(vm) \cap RamOf(w) = {}
                           /\ TablesOf(vm) \cap TablesOf(w) = {}

\* The page tables implement one address space per VM, on the safe pages and
\* until an entry has spilled: mapping a page, with the tables that have to
\* be allocated for it, changes that page's translation and no other, in
\* this VM and in all others.
SpaceOf(vm) ==
    [g \in SafePages |-> CASE <<vm, g>> \in unmapped      -> Released
                          [] In1gb(vm, g) \/ In2mb(vm, g) -> {0}
                          [] OTHER                        -> ept_translate(vm, g)]
space == [vm \in VM |-> IF Live(vm) THEN SpaceOf(vm) ELSE Absent]
Spaces == INSTANCE AddressSpaces WITH
    GuestPages <- SafePages, Frame <- {{f} : f \in Frame}, Unmapped <- {}, Large <- {0},
    Spans <- {{g \in SafePages : g \div n = k \div n} :
                 k \in GuestPages, n \in {Fanout, Fanout * Fanout}}
RefinesAddressSpaces == Spaces!Init /\ [][spilled' \/ Spaces!Next]_space
=============================================================================
