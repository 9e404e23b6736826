-------------------------- MODULE MCPhysicalMemory --------------------------
(* Small machines for PhysicalMemory: 4-byte pages, an 8-bit length, a
   bitmap of 12 items of 2 bits, that is 24 frames of which 0..12 are looked
   at by the search, as frames 0..2^20 of 2^23 are in the kernel. *)
EXTENDS PhysicalMemory, TLC

Ram(s, e) == [start |-> s, end |-> e, available |-> TRUE]
Hole(s, e) == [start |-> s, end |-> e, available |-> FALSE]

(* Low memory, a hole, high memory; and maps with a range that ends inside
   a page, that overlaps another one, that starts inside a page, that is
   shorter than a page, that goes beyond the bitmap, and no map at all. *)
OrdinaryMaps == { <<Ram(0, 6), Hole(6, 8), Ram(8, 64)>>,
                  <<Ram(0, 8), Ram(20, 30), Hole(32, 48), Ram(48, 90)>> }
OddMaps == { <<Ram(0, 96)>>, <<Ram(8, 40), Ram(24, 60)>>, <<Ram(24, 41), Ram(42, 60)>>,
             <<Ram(24, 52), Ram(56, 58)>>, <<Ram(24, 120)>>, <<>> }
(* A machine with little memory, and one that has memory above the part of
   the bitmap that is searched. *)
SmallMaps == { <<Ram(0, 6), Hole(6, 8), Ram(8, 40)>> }
SplitMaps == { <<Ram(0, 6), Hole(6, 8), Ram(8, 28), Hole(28, 56), Ram(56, 96)>> }
Maps == SmallMaps \cup SplitMaps \cup OrdinaryMaps \cup OddMaps

Symmetry == Permutations(Owner)
=============================================================================
