--------------------------- MODULE MCGuestMemory ---------------------------
(* GuestMemory for TLC: VMs are interchangeable.                           *)
EXTENDS GuestMemory, TLC
VmSymmetry == Permutations(VM)
=============================================================================
