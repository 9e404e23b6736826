------------------------------- MODULE BitSet -------------------------------
(* What a BitMap promises: a set of indices that can be changed one by one or
   as a whole, and searched. *)
EXTENDS BitMapOps

CONSTANT Starts     \* where a search may start

VARIABLES
    bits,
    call    \* the call that has just returned, with its arguments and result

NoCall == [op |-> "none"]

Init == bits \subseteq Index /\ call = NoCall

set(i, v) ==
    /\ bits' = SetBits(bits, {i}, v)
    /\ call' = [op |-> "set", index |-> i, value |-> v]

setAll(v) ==
    /\ bits' = AllBits(v)
    /\ call' = [op |-> "setAll", value |-> v]

getIndexOf(v, s) ==
    /\ call' = [op |-> "getIndexOf", value |-> v, start |-> s,
                result |-> GetIndexOf(bits, v, s)]
    /\ UNCHANGED bits

Next ==
    \/ \E i \in Index, v \in BOOLEAN : set(i, v)
    \/ \E v \in BOOLEAN : setAll(v) \/ \E s \in Starts : getIndexOf(v, s)

Spec == Init /\ [][Next]_<<bits, call>>
=============================================================================
