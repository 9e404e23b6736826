--------------------------- MODULE FrameAllocator ---------------------------
(***************************************************************************)
(* What the users of PhysicalMemory rely on.  While the machine boots the  *)
(* set of free frames is put together; from then on an owner is granted a  *)
(* run of consecutive free frames, which nobody else has until the owner   *)
(* gives it back.  Frame 0 (whose address is the failure value) and the    *)
(* frames of the kernel image are never granted.                           *)
(***************************************************************************)
EXTENDS Integers

CONSTANTS Frame, Owner, Protected

VARIABLES
    booted,
    pool,       \* the free frames
    hold        \* the frames each owner has

vars == <<booted, pool, hold>>

Run == {a..b : a, b \in Frame}

Init ==
    /\ booted = FALSE
    /\ pool \in SUBSET Frame
    /\ hold = [o \in Owner |-> {}]

Boot ==
    /\ ~booted
    /\ booted' \in BOOLEAN
    /\ pool' \in SUBSET Frame
    /\ booted' => pool' \cap Protected = {}
    /\ UNCHANGED hold

Grant(o) ==
    /\ booted
    /\ hold[o] = {}
    /\ hold'[o] \in Run \ {{}}
    /\ hold'[o] \subseteq pool
    /\ hold' = [hold EXCEPT ![o] = hold'[o]]
    /\ pool' = pool \ hold'[o]
    /\ UNCHANGED booted

Release(o) ==
    /\ booted
    /\ pool' = pool \cup hold[o]
    /\ hold' = [hold EXCEPT ![o] = {}]
    /\ UNCHANGED booted

Next == Boot \/ \E o \in Owner : Grant(o) \/ Release(o)

Spec == Init /\ [][Next]_vars
=============================================================================
