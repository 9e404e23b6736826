------------------------------- MODULE BitMap -------------------------------
(***************************************************************************)
(* core/tachyon.collections/BitMap.cc with its bytes.  getIndexOf() is one *)
(* step per turn of its loop.                                              *)
(***************************************************************************)
EXTENDS BitMapOps

CONSTANTS
    Starts,     \* arguments of getIndexOf(), also negative and too large ones
    Probes      \* arguments of set() and get(), also too large ones

ASSUME BitMapArguments == Starts \subseteq Int /\ Probes \subseteq Nat

VARIABLES
    memory,
    search,     \* the running call of getIndexOf(), if any
    call,       \* history: the call that has just returned
    halted      \* a failed CHECK_INDEX

bitMapVars == <<memory, search, call, halted>>

Item == 0..(ByteCount - 1)
ByteBits == 0..(ITEM_BITS - 1)
NoSearch == [running |-> FALSE]
NoCall == [op |-> "none"]

(* GET_BIT and SET_BIT: a byte is the set of its bits that are 1. *)
GetBit(mem, num) == num % ITEM_BITS \in mem[num \div ITEM_BITS]

SetBit_NoComplement(mem, num, val) ==
    [mem EXCEPT ![num \div ITEM_BITS] =
        IF val THEN @ \cup {num % ITEM_BITS} ELSE @ \cap {num % ITEM_BITS}]
SetBit(mem, num, val) ==
    [mem EXCEPT ![num \div ITEM_BITS] =
        IF val THEN @ \cup {num % ITEM_BITS} ELSE @ \ {num % ITEM_BITS}]

CheckIndex(i) == i \div ITEM_BITS < ByteCount

(* The storage is not cleared by the constructor. *)
BitMapInit ==
    /\ memory \in [Item -> SUBSET ByteBits]
    /\ search = NoSearch
    /\ call = NoCall
    /\ halted = FALSE

Quiet == ~halted /\ search = NoSearch

set(index, value) ==
    /\ Quiet
    /\ IF CheckIndex(index)
       THEN /\ memory' = SetBit(memory, index, value)
            /\ call' = [op |-> "set", index |-> index, value |-> value]
            /\ UNCHANGED halted
       ELSE halted' = TRUE /\ UNCHANGED <<memory, call>>
    /\ UNCHANGED search

(* get() only changes something when the index is out of range. *)
get(index) ==
    /\ Quiet /\ ~CheckIndex(index)
    /\ halted' = TRUE
    /\ UNCHANGED <<memory, search, call>>

(* setAll(); clear() is setAll(FALSE) *)
setAll(value) ==
    /\ Quiet
    /\ memory' = [i \in Item |-> IF value THEN ByteBits ELSE {}]
    /\ call' = [op |-> "setAll", value |-> value]
    /\ UNCHANGED <<search, halted>>

getIndexOf(value, start) ==
    /\ Quiet
    /\ search' = [running |-> TRUE, value |-> value, arg |-> start,
                  start |-> IF start < 0 THEN 0 ELSE start]
    /\ UNCHANGED <<memory, call, halted>>

Return(result) ==
    /\ search' = NoSearch
    /\ call' = [op |-> "getIndexOf", value |-> search.value, start |-> search.arg,
                result |-> result]
    /\ UNCHANGED <<memory, halted>>

InRange == search.start <= ByteCount

SearchHit ==
    /\ search.running /\ InRange
    /\ GetBit(memory, search.start) = search.value
    /\ Return(search.start)

SearchOn ==
    /\ search.running /\ InRange
    /\ GetBit(memory, search.start) # search.value
    /\ search' = [search EXCEPT !.start = @ + 1]
    /\ UNCHANGED <<memory, call, halted>>

SearchMiss ==
    /\ search.running /\ ~InRange
    /\ Return(NotFound)

Abort == halted /\ UNCHANGED bitMapVars

BitMapNext ==
    \/ \E i \in Probes : get(i) \/ \E v \in BOOLEAN : set(i, v)
    \/ \E v \in BOOLEAN : setAll(v) \/ \E s \in Starts : getIndexOf(v, s)
    \/ SearchHit \/ SearchOn \/ SearchMiss
    \/ Abort

BitMapSpec == BitMapInit /\ [][BitMapNext]_bitMapVars
-----------------------------------------------------------------------------
BitMapTypeOK ==
    /\ memory \in [Item -> SUBSET ByteBits]
    /\ search \in [running : {TRUE}, value : BOOLEAN, arg : Int, start : Nat] \cup {NoSearch}
    /\ halted \in BOOLEAN

Bits == {i \in Index : GetBit(memory, i)}

BS == INSTANCE BitSet WITH bits <- Bits

(* BitMap.cc 7-51: the bytes behave as the set of indices that PhysicalMemory
   works with: set() changes its own bit and no neighbour in the byte, and
   the loop of getIndexOf() returns what GetIndexOf says. *)
ImplementsBitSet == BS!Spec
=============================================================================
