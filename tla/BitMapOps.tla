----------------------------- MODULE BitMapOps -----------------------------
(***************************************************************************)
(* The bitmap of core/tachyon.collections/BitMap.cc as its users see it:   *)
(* the set of the indices whose bit is 1.  Module BitMap keeps the bytes   *)
(* and is shown to implement these operators.                              *)
(***************************************************************************)
EXTENDS Integers

CONSTANTS
    ByteCount,      \* byteCount: bytes of storage behind the bitmap
    ITEM_BITS       \* bits per stored item, 8 in the code

ASSUME BitMapAssumption ==
    /\ ByteCount \in Nat \ {0}
    /\ ITEM_BITS \in Nat \ {0, 1}

(* BitMap::size() *)
Size == ByteCount * ITEM_BITS

(* What CHECK_INDEX lets through; any other index is KFATAL. *)
Index == 0..(Size - 1)

(* set() over several indices, and setAll() *)
SetBits(bits, idx, value) == IF value THEN bits \cup idx ELSE bits \ idx

AllBits(value) == IF value THEN Index ELSE {}

Smallest(S) == CHOOSE x \in S : \A y \in S : x <= y

(***************************************************************************)
(* getIndexOf(value, start): the loop runs while                           *)
(* start <= byteCount * sizeof(memory[0]), which is a number of bytes, so  *)
(* only the first bits of the bitmap are ever looked at.                   *)
(***************************************************************************)
LastSearched == ByteCount

Hits(bits, value, start) ==
    {i \in (IF start < 0 THEN 0 ELSE start)..LastSearched : (i \in bits) = value}

NotFound == -1

GetIndexOf(bits, value, start) ==
    IF Hits(bits, value, start) = {} THEN NotFound
    ELSE Smallest(Hits(bits, value, start))
=============================================================================
