--------------------------- MODULE AddressSpaces ---------------------------
(***************************************************************************)
(* What guest memory promises: every live VM has an address space of its   *)
(* own, a map from guest pages to host frames.  Spaces change one page at  *)
(* a time, a frame is given to a VM only while no other live VM can reach  *)
(* it, and a translation lasts until it is replaced, unmapped or cleared,  *)
(* or its VM is destroyed.  Of an unmapped page nothing is promised until  *)
(* it is mapped again.                                                     *)
(***************************************************************************)
CONSTANTS VM, GuestPages, Frame,
          Absent,      \* the VM does not exist
          Unmapped,    \* the page has no translation
          Released,    \* the page was unmapped
          Large,       \* the page lies in a 2 MB or 1 GB mapping
          Spans        \* the sets of guest pages one large mapping covers

VARIABLE space

Empty == [g \in GuestPages |-> Unmapped]

\* No other live VM reaches frame f.
Private(vm, f) ==
    \A w \in VM \ {vm} : space[w] # Absent => \A g \in GuestPages : space[w][g] # f

(* Each operation says how the space of vm changes, from old to new.       *)

Create(old, new) == old = Absent /\ new = Empty

Destroy(old, new) == old # Absent /\ new = Absent

Clear(old, new) == old # Absent /\ new = Empty

MapPage(vm, old, new) ==
    /\ old # Absent /\ new # Absent
    /\ \E g \in GuestPages :
          /\ new[g] \in Frame /\ old[g] # Large /\ Private(vm, new[g])
          /\ new = [old EXCEPT ![g] = new[g]]

MapLarge(old, new) ==
    /\ old # Absent
    /\ \E span \in Spans :
          new = [g \in GuestPages |-> IF g \in span THEN Large ELSE old[g]]

Unmap(old, new) ==
    /\ old # Absent
    /\ \E g \in GuestPages : old[g] # Unmapped /\ new = [old EXCEPT ![g] = Released]

Changes(vm, old, new) ==
    \/ Create(old, new) \/ Destroy(old, new) \/ Clear(old, new)
    \/ MapPage(vm, old, new) \/ MapLarge(old, new) \/ Unmap(old, new)

Init == space = [vm \in VM |-> Absent]

\* One space changes at a time.
Next == \E vm \in VM : \E old \in {space[vm]}, new \in {space'[vm]} :
    /\ old # new /\ Changes(vm, old, new)
    /\ space' = [space EXCEPT ![vm] = new]

Spec == Init /\ [][Next]_space
=============================================================================
