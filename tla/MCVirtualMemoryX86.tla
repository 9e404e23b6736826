------------------------- MODULE MCVirtualMemoryX86 -------------------------
(* A small machine for VirtualMemoryX86: structures of four entries, of which
   0 is the kernel's and 1 is the one newVSpace() sets. *)
EXTENDS VirtualMemoryX86

V(d, t) == [pde |-> d, pte |-> t]

(* Two pages of a table of one's own; through entry 1, two entries of the page
   directory of the kernel. *)
Addresses == {V(2, 0), V(2, 1), V(1, 2), V(1, 3)}
=============================================================================
