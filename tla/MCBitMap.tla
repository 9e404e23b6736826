------------------------------ MODULE MCBitMap ------------------------------
(* A bitmap of three items of two bits: six indices, of which a search looks at
   the first four. *)
EXTENDS BitMap

MCStarts == {-1, 0, 2, 3, 4}
=============================================================================
