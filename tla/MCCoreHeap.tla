----------------------------- MODULE MCCoreHeap -----------------------------
(* Small heaps for CoreHeap: pages of 5 words, a zone of 3 pages.  Memory is
   mapped with, and users store, words that look like infos of small blocks. *)
EXTENDS CoreHeap

(* What users store looks like a small free block. *)
UserWords == {Info(2, FALSE, TRUE)}

(* Both kinds of garbage, next to each other. *)
MixedMemories == {[a \in Address |-> IF a % 2 = 0 THEN Info(1, TRUE, FALSE)
                                      ELSE Info(2, FALSE, TRUE)]}
=============================================================================
