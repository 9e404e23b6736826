----------------------------- MODULE MCPageZones -----------------------------
(* Requests, with regions of two pages: one of three regions, one strictly
   inside it, two next to it that share a region, and one over its end. *)
EXTENDS PageZones

Requests == {<<2, 8>>, <<4, 6>>, <<8, 9>>, <<9, 10>>, <<6, 9>>}
=============================================================================
