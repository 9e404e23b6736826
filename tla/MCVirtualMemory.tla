--------------------------- MODULE MCVirtualMemory ---------------------------
(* A small machine for VirtualMemory: structures of two entries, regions of
   four frames (so that some structures start a region and others do not). *)
EXTENDS VirtualMemory

V(a, b, c, d) == [pml4e |-> a, pdpte |-> b, pde |-> c, pte |-> d]

(* A page of the kernel; two pages of one 2M region and one of the next. *)
Addresses == {V(1, 1, 0, 0), V(0, 0, 0, 0), V(0, 0, 0, 1), V(0, 0, 1, 0)}

(* Frames that start a region (4 and 8) between others. *)
Orders == {<<5, 4, 6, 8, 7>>}
=============================================================================
