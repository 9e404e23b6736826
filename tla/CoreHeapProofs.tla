--------------------------- MODULE CoreHeapProofs ---------------------------
(***************************************************************************)
(* Proofs about CoreHeap, for every zone, page size and word size, every   *)
(* set of requests, whatever the frames hold when they are mapped and      *)
(* whatever the callers store.                                             *)
(***************************************************************************)
EXTENDS CoreHeap, WellFoundedInduction, TLAPS

(* The block structure of a memory m with the blocks at B and the break at
   top: what Tiling and FootersMatch say of the current one. *)
Structure(m, B, top) ==
    /\ Base \in B /\ B \subseteq Address
    /\ \A b \in B : b + 2 <= top /\ (CHEAP_NEXT_BLOCK(m, b) \in B \/ CHEAP_NEXT_BLOCK(m, b) = top)
    /\ \A b, c \in B : b < c => CHEAP_NEXT_BLOCK(m, b) <= c
    /\ \A b \in B : CHEAP_NEXT_BLOCK(m, b) # top =>
         /\ m[CHEAP_FOOTER(m, b)].size = m[b].size
         /\ m[CHEAP_FOOTER(m, b)].present = m[b].present

(* allocate() stands on a block, in a heap that has one; a heap without pages
   has no blocks. *)
ReqInv ==
    /\ req.running => req.ptr \in blocks /\ brk # Base
    /\ brk = Base => blocks = {} /\ live = {}

IInv ==
    /\ TypeOK /\ FaultsOnlyWhenFull
    /\ ~faulted => Tiling /\ FootersMatch /\ LiveArePresent /\ Coalesced /\ ReqInv
-----------------------------------------------------------------------------
(* Of the blocks in front of an address one is the last. *)
LEMMA LargestExists ==
    ASSUME NEW h \in Nat, NEW T \in SUBSET Nat, T # {}, \A x \in T : x <= h
    PROVE  \E x \in T : \A y \in T : y <= x
<1> DEFINE R == OpToRel(<, Nat)
           D == {h - x : x \in T}
<1>1. IsWellFoundedOn(R, Nat)
  BY NatLessThanWellFounded, Zenon
<1>2. D \in SUBSET Nat /\ D # {}
  <2>1. \A x \in T : h - x \in Nat
    OBVIOUS
  <2>2. PICK x \in T : TRUE
    OBVIOUS
  <2>3. h - x \in D
    OBVIOUS
  <2> QED BY <2>1, <2>3
<1>3. PICK d \in D : \A e \in D : ~ (<<e, d>> \in R)
  <2> HIDE DEF R, D
  <2> QED BY <1>1, <1>2, WFMin, Zenon
<1>4. \A e \in D : ~ (e < d)
  BY <1>2, <1>3 DEF OpToRel
<1>5. PICK x \in T : d = h - x
  OBVIOUS
<1>6. \A y \in T : ~ (h - y < h - x)
  BY <1>4, <1>5
<1>7. \A y \in T : y \in Nat /\ x \in Nat
  OBVIOUS
<1>8. \A y \in T : y <= x
  BY <1>6, <1>7
<1> QED BY <1>8

(* CoreHeap.cc 110: in front of every block but the first one ends another. *)
LEMMA BlockBefore ==
    ASSUME NEW m \in [Address -> Word], NEW B, NEW top \in Base..ZoneEnd,
           Structure(m, B, top), NEW h \in B, h # Base
    PROVE  \E p \in B : p < h /\ CHEAP_NEXT_BLOCK(m, p) = h
<1> Base \in Nat \ {0} /\ ZoneEnd \in Nat
  BY HeapAssumption
<1> DEFINE T == {b \in B : b < h}
<1>1. B \subseteq Nat /\ Base \in B /\ \A b \in B : Base <= b /\ b < ZoneEnd
  BY DEF Structure, Address
<1>2. T \in SUBSET Nat /\ T # {} /\ h \in Nat /\ \A x \in T : x <= h
  <2>1. h \in Nat /\ Base < h
    BY <1>1
  <2>2. Base \in T
    BY <1>1, <2>1
  <2>3. T \in SUBSET Nat
    BY <1>1
  <2>4. \A x \in T : x <= h
    BY <1>1, <2>1
  <2> QED BY <2>1, <2>2, <2>3, <2>4
<1>3. PICK p \in T : \A y \in T : y <= p
  <2> HIDE DEF T
  <2> QED BY <1>2, LargestExists
<1>4. CHEAP_NEXT_BLOCK(m, p) <= h
  BY <1>3 DEF Structure
<1>5. h + 2 <= top
  BY DEF Structure
<1>6. m[p].size \in Nat
  BY <1>3 DEF Structure, Word
<1>7. CHEAP_NEXT_BLOCK(m, p) \in Nat /\ CHEAP_NEXT_BLOCK(m, p) > p
  BY <1>1, <1>6 DEF CHEAP_NEXT_BLOCK, CHEAP_BLOCKSZ
<1>8. CHEAP_NEXT_BLOCK(m, p) # top
  BY <1>2, <1>4, <1>5, <1>7
<1>9. CHEAP_NEXT_BLOCK(m, p) \in B
  BY <1>8 DEF Structure
<1>10. ~(CHEAP_NEXT_BLOCK(m, p) < h)
  BY <1>1, <1>3, <1>7, <1>9
<1>11. CHEAP_NEXT_BLOCK(m, p) = h
  BY <1>2, <1>4, <1>7, <1>10
<1> QED BY <1>3, <1>11

(* Memory keeps its structure when the words from q up to e, which are whole
   blocks or the last block and what the break has grown by, are made into
   blocks at C and nothing else is stored to. *)
Retiled(m, n, B, top, t, q, e, C) ==
    /\ Structure(m, B, top) /\ q \in B /\ q < e
    /\ (e \in B /\ t = top) \/ (e = t /\ top <= t)
    /\ \A a \in Address : a < q \/ a >= e => n[a] = m[a]
    /\ q \in C /\ C \subseteq q..(e - 2)
    /\ \A c \in C : CHEAP_NEXT_BLOCK(n, c) \in C \/ CHEAP_NEXT_BLOCK(n, c) = e
    /\ \A c, d \in C : c < d => CHEAP_NEXT_BLOCK(n, c) <= d
    /\ \A c \in C : CHEAP_NEXT_BLOCK(n, c) # t =>
         /\ n[CHEAP_FOOTER(n, c)].size = n[c].size
         /\ n[CHEAP_FOOTER(n, c)].present = n[c].present

Outside(B, q, e) == {b \in B : b < q \/ b >= e}

(* The blocks outside of what is stored to are what they were. *)
LEMMA OutsideSame ==
    ASSUME NEW m \in [Address -> Word], NEW n \in [Address -> Word], NEW B, NEW C,
           NEW top \in Base..ZoneEnd, NEW t \in Base..ZoneEnd, NEW q, NEW e \in Int,
           Retiled(m, n, B, top, t, q, e, C), NEW b \in Outside(B, q, e)
    PROVE  /\ b \in Address /\ n[b] = m[b] /\ CHEAP_NEXT_BLOCK(n, b) = CHEAP_NEXT_BLOCK(m, b)
           /\ CHEAP_NEXT_BLOCK(m, b) \in Nat /\ b + 2 <= CHEAP_NEXT_BLOCK(m, b)
           /\ CHEAP_FOOTER(n, b) = CHEAP_FOOTER(m, b)
           /\ n[CHEAP_FOOTER(m, b)] = m[CHEAP_FOOTER(m, b)]
           /\ b < q => CHEAP_NEXT_BLOCK(m, b) <= q /\ CHEAP_NEXT_BLOCK(m, b) \in B
           /\ b >= e => t = top
           /\ b + 2 <= t
<1> Base \in Nat \ {0} /\ ZoneEnd \in Nat
  BY HeapAssumption
<1>1. b \in B /\ b \in Address /\ q \in B /\ q \in Address /\ (b < q \/ b >= e)
  BY DEF Outside, Retiled, Structure
<1>2. b \in Nat /\ q \in Nat
  BY <1>1 DEF Address
<1>3. n[b] = m[b]
  BY <1>1 DEF Retiled
<1>4. PICK s \in Nat : s = m[b].size
  BY <1>1 DEF Word
<1>5. /\ CHEAP_NEXT_BLOCK(m, b) = b + 2 + s /\ CHEAP_NEXT_BLOCK(n, b) = b + 2 + s
      /\ CHEAP_FOOTER(m, b) = b + 1 + s /\ CHEAP_FOOTER(n, b) = b + 1 + s
  BY <1>2, <1>3, <1>4 DEF CHEAP_NEXT_BLOCK, CHEAP_FOOTER, CHEAP_BLOCKSZ
<1>6. b + 2 <= top /\ q + 2 <= top /\ (b + 2 + s \in B \/ b + 2 + s = top)
  BY <1>1, <1>5 DEF Structure, Retiled
<1>7. b < q => b + 2 + s <= q
  BY <1>1, <1>5 DEF Structure, Retiled
<1>8. b < q => b + 2 + s \in B
  BY <1>2, <1>6, <1>7
<1>9. b >= e => t = top
  BY <1>2, <1>6 DEF Retiled
<1>10. b + 2 <= t
  BY <1>2, <1>6 DEF Retiled
<1>11. b + 2 + s <= top
  <2>1. b + 2 + s \in B => b + 2 + s + 2 <= top
    BY DEF Structure, Retiled
  <2> QED BY <2>1, <1>2, <1>6
<1>12. b + 1 + s \in Address /\ (b + 1 + s < q \/ b + 1 + s >= e)
  BY <1>1, <1>2, <1>7, <1>11 DEF Address
<1>13. n[b + 1 + s] = m[b + 1 + s]
  BY <1>12 DEF Retiled
<1> QED BY <1>1, <1>2, <1>3, <1>5, <1>7, <1>8, <1>9, <1>10, <1>13

(* The blocks outside and those made inside are the structure of the result. *)
LEMMA RetileKeeps ==
    ASSUME NEW m \in [Address -> Word], NEW n \in [Address -> Word], NEW B, NEW C,
           NEW top \in Base..ZoneEnd, NEW t \in Base..ZoneEnd, NEW q, NEW e \in Int,
           Retiled(m, n, B, top, t, q, e, C)
    PROVE  Structure(n, Outside(B, q, e) \cup C, t)
<1> DEFINE D == Outside(B, q, e)
<1> Base \in Nat \ {0} /\ ZoneEnd \in Nat
  BY HeapAssumption
<1>0. /\ q \in B /\ q \in Address /\ q \in Nat /\ B \subseteq Address /\ q < e /\ q \in C
      /\ C \subseteq q..(e - 2) /\ D \subseteq Address
  <2>1. q \in B /\ B \subseteq Address /\ q < e /\ q \in C /\ C \subseteq q..(e - 2)
    BY DEF Retiled, Structure
  <2>2. q \in Address /\ q \in Nat
    BY <2>1 DEF Address
  <2>3. D \subseteq Address
    BY <2>1 DEF Outside
  <2> QED BY <2>1, <2>2, <2>3
<1>1. e <= t
  BY DEF Retiled, Structure
<1>2. \A b \in D : b \in Nat /\ (b < q \/ b >= e)
  BY <1>0 DEF Outside, Address
<1>3. Base \in D \cup C /\ D \cup C \subseteq Address
  <2>1. Base \in B /\ Base <= q
    BY <1>0 DEF Retiled, Structure, Address
  <2>2. Base \in D \cup C
    BY <2>1, <1>0 DEF Outside
  <2>3. C \subseteq Address
    BY <2>1, <1>0, <1>1 DEF Address
  <2> QED BY <2>2, <2>3, <1>0
<1>4. ASSUME NEW b \in D
      PROVE  /\ b + 2 <= t
             /\ CHEAP_NEXT_BLOCK(n, b) \in D \cup C \/ CHEAP_NEXT_BLOCK(n, b) = t
             /\ CHEAP_NEXT_BLOCK(n, b) # t =>
                 /\ n[CHEAP_FOOTER(n, b)].size = n[b].size
                 /\ n[CHEAP_FOOTER(n, b)].present = n[b].present
  <2>1. /\ n[b] = m[b] /\ CHEAP_NEXT_BLOCK(n, b) = CHEAP_NEXT_BLOCK(m, b)
        /\ CHEAP_NEXT_BLOCK(m, b) \in Nat /\ b + 2 <= CHEAP_NEXT_BLOCK(m, b)
        /\ CHEAP_FOOTER(n, b) = CHEAP_FOOTER(m, b)
        /\ n[CHEAP_FOOTER(m, b)] = m[CHEAP_FOOTER(m, b)]
        /\ b < q => CHEAP_NEXT_BLOCK(m, b) <= q /\ CHEAP_NEXT_BLOCK(m, b) \in B
        /\ b >= e => t = top
        /\ b + 2 <= t
    BY OutsideSame
  <2>2. b \in B /\ b \in Nat /\ (b < q \/ b >= e)
    BY <1>2 DEF Outside
  <2>3. CASE b < q
    <3>1. CHEAP_NEXT_BLOCK(n, b) \in D \cup C
      BY <2>1, <2>3, <1>0 DEF Outside
    <3>2. CHEAP_NEXT_BLOCK(m, b) # top
      <4>1. q + 2 <= top
        BY <1>0 DEF Retiled, Structure
      <4> QED BY <4>1, <2>1, <2>3, <1>0
    <3>3. /\ m[CHEAP_FOOTER(m, b)].size = m[b].size
          /\ m[CHEAP_FOOTER(m, b)].present = m[b].present
      BY <3>2, <2>2 DEF Retiled, Structure
    <3> QED BY <3>1, <3>3, <2>1
  <2>4. CASE b >= e
    <3>1. t = top
      BY <2>1, <2>4
    <3>2. CHEAP_NEXT_BLOCK(m, b) \in B \/ CHEAP_NEXT_BLOCK(m, b) = top
      BY <2>2 DEF Retiled, Structure
    <3>3. CHEAP_NEXT_BLOCK(m, b) \in B => CHEAP_NEXT_BLOCK(m, b) \in D
      BY <2>1, <2>2, <2>4 DEF Outside
    <3>4. CHEAP_NEXT_BLOCK(m, b) # top =>
            /\ m[CHEAP_FOOTER(m, b)].size = m[b].size
            /\ m[CHEAP_FOOTER(m, b)].present = m[b].present
      BY <2>2 DEF Retiled, Structure
    <3> QED BY <3>1, <3>2, <3>3, <3>4, <2>1
  <2> QED BY <2>2, <2>3, <2>4
<1>5. ASSUME NEW b \in C
      PROVE  /\ b + 2 <= t
             /\ CHEAP_NEXT_BLOCK(n, b) \in D \cup C \/ CHEAP_NEXT_BLOCK(n, b) = t
             /\ CHEAP_NEXT_BLOCK(n, b) # t =>
                 /\ n[CHEAP_FOOTER(n, b)].size = n[b].size
                 /\ n[CHEAP_FOOTER(n, b)].present = n[b].present
  <2>1. b + 2 <= t
    BY <1>0, <1>1
  <2>2. CHEAP_NEXT_BLOCK(n, b) \in C \/ CHEAP_NEXT_BLOCK(n, b) = e
    BY DEF Retiled
  <2>3. e \in D \/ e = t
    BY <1>0 DEF Retiled, Outside
  <2> QED BY <2>1, <2>2, <2>3 DEF Retiled
<1>6. ASSUME NEW b \in D \cup C, NEW c \in D \cup C, b < c
      PROVE  CHEAP_NEXT_BLOCK(n, b) <= c
  <2>1. CASE b \in D /\ c \in D
    <3>1. CHEAP_NEXT_BLOCK(n, b) = CHEAP_NEXT_BLOCK(m, b)
      BY <2>1, OutsideSame
    <3>2. b \in B /\ c \in B
      BY <2>1 DEF Outside
    <3>3. CHEAP_NEXT_BLOCK(m, b) <= c
      BY <3>2, <1>6 DEF Retiled, Structure
    <3> QED BY <3>1, <3>3
  <2>2. CASE b \in D /\ c \in C
    <3>1. b < q
      BY <2>2, <1>0, <1>2, <1>6
    <3>2. CHEAP_NEXT_BLOCK(n, b) \in Nat /\ CHEAP_NEXT_BLOCK(n, b) <= q
      BY <3>1, <2>2, OutsideSame
    <3> QED BY <3>2, <2>2, <1>0
  <2>3. CASE b \in C /\ c \in D
    <3>1. c >= e
      BY <2>3, <1>0, <1>2, <1>6
    <3>2. CHEAP_NEXT_BLOCK(n, b) \in Int /\ CHEAP_NEXT_BLOCK(n, b) <= e
      <4>1. CHEAP_NEXT_BLOCK(n, b) \in C \/ CHEAP_NEXT_BLOCK(n, b) = e
        BY <2>3 DEF Retiled
      <4>2. \A c0 \in C : c0 \in Int /\ c0 <= e
        BY <1>0
      <4> QED BY <4>1, <4>2
    <3> QED BY <3>1, <3>2, <2>3, <1>2
  <2>4. CASE b \in C /\ c \in C
    BY <2>4, <1>6 DEF Retiled
  <2> QED BY <2>1, <2>2, <2>3, <2>4
<1> HIDE DEF D
<1>7. Structure(n, D \cup C, t)
  BY <1>3, <1>4, <1>5, <1>6 DEF Structure
<1> QED BY <1>7 DEF D

(* What LiveArePresent and Coalesced say of the current memory, of any m. *)
Marked(m, B, top, L) ==
    /\ \A b \in L : b.hdr \in B /\ m[b.hdr].present /\ m[b.hdr].size = b.words
    /\ \A h \in B : m[h].present => \E b \in L : b.hdr = h
    /\ \A h \in B : CHEAP_NEXT_BLOCK(m, h) = top => ~m[h].present
    /\ \A b \in B : CHEAP_NEXT_BLOCK(m, b) \in B => m[b].present \/ m[CHEAP_NEXT_BLOCK(m, b)].present

(* The flags of the blocks made at C, in the place of those from q up to e,
   fit the blocks K that callers have then and the neighbours. *)
Remarked(m, n, B, t, q, e, C, L, K) ==
    /\ \A b \in K : \/ b \in L /\ (b.hdr < q \/ b.hdr >= e)
                    \/ b.hdr \in C /\ n[b.hdr].present /\ n[b.hdr].size = b.words
    /\ \A b \in L : b.hdr < q \/ b.hdr >= e => b \in K
    /\ \A c \in C : n[c].present => \E b \in K : b.hdr = c
    /\ \A c \in C : CHEAP_NEXT_BLOCK(n, c) = t => ~n[c].present
    /\ \A b \in B : b < q /\ CHEAP_NEXT_BLOCK(m, b) = q => m[b].present \/ n[q].present
    /\ \A c \in C : CHEAP_NEXT_BLOCK(n, c) \in C => n[c].present \/ n[CHEAP_NEXT_BLOCK(n, c)].present
    /\ \A c \in C : CHEAP_NEXT_BLOCK(n, c) = e /\ e \in B => n[c].present \/ m[e].present

(* Then they fit everywhere. *)
LEMMA RemarkKeeps ==
    ASSUME NEW m \in [Address -> Word], NEW n \in [Address -> Word], NEW B, NEW C,
           NEW top \in Base..ZoneEnd, NEW t \in Base..ZoneEnd, NEW q, NEW e \in Int,
           NEW L, NEW K,
           Retiled(m, n, B, top, t, q, e, C), Marked(m, B, top, L),
           Remarked(m, n, B, t, q, e, C, L, K)
    PROVE  Marked(n, Outside(B, q, e) \cup C, t, K)
<1> DEFINE D == Outside(B, q, e)
<1> Base \in Nat \ {0} /\ ZoneEnd \in Nat
  BY HeapAssumption
<1>0. /\ q \in B /\ q \in Nat /\ B \subseteq Address /\ q < e /\ q \in C /\ C \subseteq q..(e - 2)
      /\ B \subseteq Nat
  BY DEF Retiled, Structure, Address
<1>1. \A b \in D : b \in B /\ b \in Nat /\ (b < q \/ b >= e)
  BY <1>0 DEF Outside
<1>2. \A b \in D : n[b] = m[b] /\ CHEAP_NEXT_BLOCK(n, b) = CHEAP_NEXT_BLOCK(m, b)
  BY OutsideSame
<1>3. \A b \in K : b.hdr \in D \cup C /\ n[b.hdr].present /\ n[b.hdr].size = b.words
  <2> SUFFICES ASSUME NEW b \in K
               PROVE  b.hdr \in D \cup C /\ n[b.hdr].present /\ n[b.hdr].size = b.words
    OBVIOUS
  <2>1. CASE b \in L /\ (b.hdr < q \/ b.hdr >= e)
    <3>1. b.hdr \in B /\ m[b.hdr].present /\ m[b.hdr].size = b.words
      BY <2>1 DEF Marked
    <3>2. b.hdr \in D
      BY <3>1, <2>1 DEF Outside
    <3> QED BY <3>1, <3>2, <1>2
  <2>2. CASE b.hdr \in C /\ n[b.hdr].present /\ n[b.hdr].size = b.words
    BY <2>2
  <2> QED BY <2>1, <2>2 DEF Remarked
<1>4. \A h \in D \cup C : n[h].present => \E b \in K : b.hdr = h
  <2> SUFFICES ASSUME NEW h \in D \cup C, n[h].present
               PROVE  \E b \in K : b.hdr = h
    OBVIOUS
  <2>1. CASE h \in D
    <3>1. h \in B /\ (h < q \/ h >= e) /\ m[h].present
      BY <2>1, <1>1, <1>2
    <3>2. PICK b \in L : b.hdr = h
      BY <3>1 DEF Marked
    <3> QED BY <3>1, <3>2 DEF Remarked
  <2>2. CASE h \in C
    BY <2>2 DEF Remarked
  <2> QED BY <2>1, <2>2
<1>5. \A h \in D \cup C : CHEAP_NEXT_BLOCK(n, h) = t => ~n[h].present
  <2> SUFFICES ASSUME NEW h \in D \cup C, CHEAP_NEXT_BLOCK(n, h) = t
               PROVE  ~n[h].present
    OBVIOUS
  <2>1. CASE h \in D
    <3>1. /\ h \in B /\ n[h] = m[h] /\ CHEAP_NEXT_BLOCK(n, h) = CHEAP_NEXT_BLOCK(m, h)
          /\ (h < q => CHEAP_NEXT_BLOCK(m, h) <= q /\ CHEAP_NEXT_BLOCK(m, h) \in B)
          /\ (h >= e => t = top)
      BY <2>1, <1>1, OutsideSame
    <3>2. q + 2 <= top /\ top <= t
      BY <1>0 DEF Retiled, Structure
    <3>3. ~(h < q)
      BY <3>1, <3>2, <1>0
    <3>4. t = top
      BY <3>1, <3>3, <2>1, <1>1
    <3> QED BY <3>1, <3>4 DEF Marked
  <2>2. CASE h \in C
    BY <2>2 DEF Remarked
  <2> QED BY <2>1, <2>2
<1>6. \A b \in D \cup C : CHEAP_NEXT_BLOCK(n, b) \in D \cup C
                           => n[b].present \/ n[CHEAP_NEXT_BLOCK(n, b)].present
  <2> SUFFICES ASSUME NEW b \in D \cup C, NEW x \in D \cup C, x = CHEAP_NEXT_BLOCK(n, b)
               PROVE  n[b].present \/ n[x].present
    BY Zenon
  <2>1. CASE b \in D /\ x \in D
    <3>1. b \in B /\ x \in B /\ x = CHEAP_NEXT_BLOCK(m, b) /\ n[b] = m[b] /\ n[x] = m[x]
      BY <2>1, <1>1, <1>2
    <3> QED BY <3>1 DEF Marked
  <2>2. CASE b \in D /\ x \in C
    <3>1. /\ b \in B /\ b \in Nat /\ x = CHEAP_NEXT_BLOCK(m, b) /\ n[b] = m[b]
          /\ b + 2 <= x /\ (b < q => x <= q) /\ (b < q \/ b >= e)
      BY <2>2, <1>1, OutsideSame
    <3>2. x \in Nat /\ q <= x /\ x <= e - 2
      BY <2>2, <1>0
    <3>3. b < q /\ x = q
      BY <3>1, <3>2, <1>0
    <3> QED BY <3>1, <3>3 DEF Remarked
  <2>3. CASE b \in C /\ x \in C
    BY <2>3 DEF Remarked
  <2>4. CASE b \in C /\ x \in D /\ x \notin C
    <3>1. x = e
      BY <2>4 DEF Retiled
    <3>2. e \in B /\ n[e] = m[e]
      BY <3>1, <2>4, <1>1, <1>2
    <3> QED BY <3>1, <3>2, <2>4 DEF Remarked
  <2> QED BY <2>1, <2>2, <2>3, <2>4
<1> HIDE DEF D
<1>7. Marked(n, D \cup C, t, K)
  BY <1>3, <1>4, <1>5, <1>6 DEF Marked
<1> QED BY <1>7 DEF D
-----------------------------------------------------------------------------
(* The memory n has the infos of a block at h and f, and otherwise is m. *)
Updated(m, n, h, f, size, present) ==
    /\ n \in [Address -> Word]
    /\ n[h].size = size /\ n[h].present = present
    /\ n[f].size = size /\ n[f].present = present
    /\ \A a \in Address : a # h /\ a # f => n[a] = m[a]

(* CHEAP_BLOCK_UPDATE writes the two infos of a block. *)
LEMMA UpdateWrites ==
    ASSUME NEW m, NEW n, NEW h, NEW f, NEW size, NEW present \in BOOLEAN,
           m \in [Address -> Word], h \in Address, f \in Address, size \in Nat, f = h + 1 + size,
           n = Update(m, h, size, present)
    PROVE  Updated(m, n, h, f, size, present)
<1> USE DEF Updated
<1>1. h \in Nat /\ h # h + 1 + size
  BY HeapAssumption DEF Address
<1>2. Info(size, present, FALSE) \in Word /\ Info(size, present, TRUE) \in Word
  BY DEF Info, Word
<1>3. \A x \in BOOLEAN : Info(size, present, x).size = size /\ Info(size, present, x).present = present
  BY DEF Info
<1> QED BY <1>1, <1>2, <1>3 DEF Update

(* The invariant gives Structure and Marked, in a heap with pages. *)
LEMMA PartsOf ==
    ASSUME TypeOK, Tiling, FootersMatch, LiveArePresent, Coalesced, brk # Base
    PROVE  Structure(mem, blocks, brk) /\ Marked(mem, blocks, brk, live)
<1>1. Structure(mem, blocks, brk)
  BY DEF TypeOK, Tiling, FootersMatch, NextOf, Structure
<1>2. Marked(mem, blocks, brk, live)
  BY DEF LiveArePresent, Coalesced, NextOf, Marked
<1> QED BY <1>1, <1>2

(* The step makes the words from q up to e into the blocks at C. *)
Rebuilt(q, e, C) ==
    /\ mem' \in [Address -> Word] /\ brk' \in Base..ZoneEnd /\ brk' # Base
    /\ Retiled(mem, mem', blocks, brk, brk', q, e, C)
    /\ Remarked(mem, mem', blocks, brk', q, e, C, live, live')
    /\ blocks' = Outside(blocks, q, e) \cup C

(* Such a step keeps the structure of the heap. *)
LEMMA RebuiltKeeps ==
    ASSUME TypeOK, Tiling, FootersMatch, LiveArePresent, Coalesced, brk # Base,
           NEW q, NEW e \in Int, NEW C, Rebuilt(q, e, C)
    PROVE  (Tiling /\ FootersMatch /\ LiveArePresent /\ Coalesced)' /\ blocks' \subseteq Address
<1>1. Structure(mem, blocks, brk) /\ Marked(mem, blocks, brk, live)
  BY PartsOf
<1>2. mem \in [Address -> Word] /\ brk \in Base..ZoneEnd
  BY DEF TypeOK
<1>3. Structure(mem', blocks', brk')
  BY <1>2, RetileKeeps DEF Rebuilt
<1>4. Marked(mem', blocks', brk', live')
  BY <1>1, <1>2, RemarkKeeps DEF Rebuilt
<1>5. blocks' \subseteq Address
  BY <1>3 DEF Structure
<1>6. (Tiling /\ FootersMatch)'
  BY <1>3 DEF Tiling, FootersMatch, NextOf, Structure
<1>7. (LiveArePresent /\ Coalesced)'
  BY <1>4 DEF LiveArePresent, Coalesced, NextOf, Marked
<1> QED BY <1>5, <1>6, <1>7

(* A block of the heap, and where the next one starts. *)
LEMMA BlockFacts ==
    ASSUME NEW m \in [Address -> Word], NEW B, NEW top \in Base..ZoneEnd,
           Structure(m, B, top), NEW h \in B
    PROVE  /\ h \in Address /\ h \in Nat /\ Base <= h /\ m[h].size \in Nat
           /\ CHEAP_NEXT_BLOCK(m, h) = h + 2 + m[h].size
           /\ CHEAP_NEXT_BLOCK(m, h) \in Nat /\ CHEAP_NEXT_BLOCK(m, h) <= top
           /\ CHEAP_NEXT_BLOCK(m, h) \in B \/ CHEAP_NEXT_BLOCK(m, h) = top
<1>0. Base \in Nat \ {0} /\ ZoneEnd \in Nat
  BY HeapAssumption
<1>1. h \in Address /\ h \in Nat /\ Base <= h /\ m[h].size \in Nat
  BY <1>0 DEF Structure, Address, Word
<1>2. CHEAP_NEXT_BLOCK(m, h) = h + 2 + m[h].size
  BY <1>1 DEF CHEAP_NEXT_BLOCK, CHEAP_BLOCKSZ
<1>3. CHEAP_NEXT_BLOCK(m, h) \in Nat
  BY <1>1, <1>2
<1>4. CHEAP_NEXT_BLOCK(m, h) \in B \/ CHEAP_NEXT_BLOCK(m, h) = top
  BY DEF Structure
<1>5. CHEAP_NEXT_BLOCK(m, h) \in B => CHEAP_NEXT_BLOCK(m, h) + 2 <= top
  BY DEF Structure
<1>6. CHEAP_NEXT_BLOCK(m, h) <= top
  BY <1>0, <1>3, <1>4, <1>5
<1> QED BY <1>1, <1>2, <1>3, <1>4, <1>6
-----------------------------------------------------------------------------
(* The state in which a call has blocks to work on. *)
HeapReady ==
    /\ TypeOK /\ Tiling /\ FootersMatch /\ LiveArePresent /\ Coalesced /\ ReqInv
    /\ brk # Base

(* allocate() splits the block it found in two. *)
LEMMA FoundRebuilds ==
    ASSUME HeapReady, AllocFound
    PROVE  \E e \in Int : \E C :
             /\ Rebuilt(req.ptr, e, C)
             /\ \A b \in live : b.hdr < req.ptr \/ b.hdr >= e
<1> USE DEF HeapReady
<1>0. Base \in Nat \ {0} /\ ZoneEnd \in Nat
  BY HeapAssumption
<1>1. Structure(mem, blocks, brk) /\ Marked(mem, blocks, brk, live)
  BY PartsOf
<1>2. mem \in [Address -> Word] /\ brk \in Base..ZoneEnd
  BY DEF TypeOK
<1>3. PICK q \in blocks : q = req.ptr
  BY DEF AllocFound, ReqInv
<1>4. PICK w \in Nat : w = req.words
  <2>1. req # NoReq
    BY DEF AllocFound, NoReq
  <2>2. req \in [running : {TRUE}, words : Nat, ptr : Address]
    BY <2>1 DEF TypeOK
  <2> QED BY <2>2
<1>5. PICK e \in Nat : e = CHEAP_NEXT_BLOCK(mem, q)
  BY <1>1, <1>2, BlockFacts
<1>6. /\ q \in Address /\ q \in Nat /\ Base <= q /\ mem[q].size = e - q - 2 /\ e <= brk
      /\ e \in blocks \/ e = brk
  BY <1>1, <1>2, <1>5, BlockFacts
<1>7. ~mem[q].present /\ mem[q].size >= w + 2
  BY <1>3, <1>4 DEF AllocFound, FreeAndLargeEnough, CHEAP_BLOCKSZ
<1>8. q + w + 4 <= e
  BY <1>6, <1>7
<1> DEFINE r == q + 2 + w
           m1 == Update(mem, r, e - r - 2, FALSE)
           C == {q, r}
<1>9. /\ r \in Address /\ r \in Nat /\ e - r - 2 \in Nat /\ r + 1 + (e - r - 2) = e - 1
      /\ e - 1 \in Address /\ q + 1 + w = r - 1 /\ r - 1 \in Address
  BY <1>0, <1>2, <1>6, <1>8 DEF Address
<1>10. /\ mem' = Update(m1, q, w, TRUE) /\ blocks' = blocks \cup {r}
       /\ live' = live \cup {[hdr |-> q, words |-> w]} /\ brk' = brk
  <2>1. req.ptr + CHEAP_BLOCKSZ(req.words) = r /\ mem[req.ptr].size - CHEAP_BLOCKSZ(req.words) = e - r - 2
    BY <1>3, <1>4, <1>6 DEF CHEAP_BLOCKSZ
  <2> QED BY <2>1, <1>3, <1>4 DEF AllocFound
<1>11. /\ m1 \in [Address -> Word] /\ m1[r].size = e - r - 2 /\ m1[r].present = FALSE
       /\ m1[e - 1].size = e - r - 2 /\ m1[e - 1].present = FALSE
       /\ \A a \in Address : a # r /\ a # e - 1 => m1[a] = mem[a]
  <2>1. Updated(mem, m1, r, e - 1, e - r - 2, FALSE)
    BY <1>2, <1>9, UpdateWrites
  <2> QED BY <2>1 DEF Updated
<1> HIDE DEF m1
<1>12. /\ mem' \in [Address -> Word] /\ mem'[q].size = w /\ mem'[q].present = TRUE
       /\ mem'[r - 1].size = w /\ mem'[r - 1].present = TRUE
       /\ \A a \in Address : a # q /\ a # r - 1 => mem'[a] = m1[a]
  <2>1. Updated(m1, mem', q, r - 1, w, TRUE)
    BY <1>6, <1>9, <1>10, <1>11, UpdateWrites
  <2> QED BY <2>1 DEF Updated
<1>13. mem'[r] = m1[r] /\ mem'[e - 1] = m1[e - 1]
  BY <1>6, <1>8, <1>9, <1>12
<1>14. \A a \in Address : a < q \/ a >= e => mem'[a] = mem[a]
  <2> SUFFICES ASSUME NEW a \in Address, a < q \/ a >= e
               PROVE  mem'[a] = mem[a]
    OBVIOUS
  <2>1. a \in Nat
    BY <1>0 DEF Address
  <2>2. a # q /\ a # r - 1 /\ a # r /\ a # e - 1
    BY <2>1, <1>6, <1>8
  <2> QED BY <2>2, <1>11, <1>12
<1>15. /\ CHEAP_NEXT_BLOCK(mem', q) = r /\ CHEAP_FOOTER(mem', q) = r - 1
       /\ CHEAP_NEXT_BLOCK(mem', r) = e /\ CHEAP_FOOTER(mem', r) = e - 1
  BY <1>6, <1>9, <1>11, <1>12, <1>13 DEF CHEAP_NEXT_BLOCK, CHEAP_FOOTER, CHEAP_BLOCKSZ
<1>16. q < r /\ q < e /\ r + 2 <= e /\ r # brk
  BY <1>6, <1>8, <1>2
<1>17. Retiled(mem, mem', blocks, brk, brk', q, e, C)
  <2>1. (e \in blocks /\ brk' = brk) \/ (e = brk' /\ brk <= brk')
    BY <1>2, <1>6, <1>10
  <2>2. C \subseteq q..(e - 2)
    BY <1>6, <1>9, <1>16
  <2>3. \A c \in C : CHEAP_NEXT_BLOCK(mem', c) \in C \/ CHEAP_NEXT_BLOCK(mem', c) = e
    BY <1>15
  <2>4. \A c, d \in C : c < d => CHEAP_NEXT_BLOCK(mem', c) <= d
    BY <1>6, <1>9, <1>15, <1>16
  <2>5. \A c \in C : /\ mem'[CHEAP_FOOTER(mem', c)].size = mem'[c].size
                     /\ mem'[CHEAP_FOOTER(mem', c)].present = mem'[c].present
    <3>1. /\ mem'[CHEAP_FOOTER(mem', q)].size = mem'[q].size
          /\ mem'[CHEAP_FOOTER(mem', q)].present = mem'[q].present
      BY <1>12, <1>15
    <3>2. /\ mem'[CHEAP_FOOTER(mem', r)].size = mem'[r].size
          /\ mem'[CHEAP_FOOTER(mem', r)].present = mem'[r].present
      BY <1>11, <1>13, <1>15
    <3> QED BY <3>1, <3>2
  <2> QED BY <2>1, <2>2, <2>3, <2>4, <2>5, <1>1, <1>14, <1>16 DEF Retiled
<1>18. \A b \in live : b.hdr < q \/ b.hdr >= e
  <2> SUFFICES ASSUME NEW b \in live
               PROVE  b.hdr < q \/ b.hdr >= e
    OBVIOUS
  <2>1. b.hdr \in blocks /\ mem[b.hdr].present
    BY <1>1 DEF Marked
  <2>2. b.hdr # q /\ b.hdr \in Nat
    <3>1. b.hdr # q
      BY <2>1, <1>7, Zenon
    <3> QED BY <3>1, <2>1, <1>1, <1>2, BlockFacts
  <2>3. b.hdr > q => b.hdr >= e
    BY <2>1, <2>2, <1>1, <1>5, <1>6 DEF Structure
  <2> QED BY <2>2, <2>3, <1>6
<1>19. Remarked(mem, mem', blocks, brk', q, e, C, live, live')
  <2>1. \A b \in live' : \/ b \in live /\ (b.hdr < q \/ b.hdr >= e)
                         \/ b.hdr \in C /\ mem'[b.hdr].present /\ mem'[b.hdr].size = b.words
    <3>1. \A b \in live' : b \in live \/ b = [hdr |-> q, words |-> w]
      BY <1>10
    <3>2. \A b : b = [hdr |-> q, words |-> w] => b.hdr = q /\ b.words = w
      OBVIOUS
    <3> QED BY <3>1, <3>2, <1>12, <1>18
  <2>2. \A b \in live : b \in live'
    BY <1>10
  <2>3. \A c \in C : mem'[c].present => \E b \in live' : b.hdr = c
    <3>1. [hdr |-> q, words |-> w] \in live' /\ [hdr |-> q, words |-> w].hdr = q
      BY <1>10
    <3>2. ~mem'[r].present
      BY <1>11, <1>13
    <3> QED BY <3>1, <3>2
  <2>4. \A c \in C : CHEAP_NEXT_BLOCK(mem', c) = brk' => ~mem'[c].present
    BY <1>10, <1>11, <1>13, <1>15, <1>16
  <2>5. mem'[q].present
    BY <1>12
  <2>6. \A c \in C : CHEAP_NEXT_BLOCK(mem', c) \in C
                       => mem'[c].present \/ mem'[CHEAP_NEXT_BLOCK(mem', c)].present
    BY <2>5, <1>6, <1>9, <1>15, <1>16
  <2>7. e \in blocks => mem[e].present
    BY <1>1, <1>5, <1>7 DEF Marked
  <2> QED BY <2>1, <2>2, <2>3, <2>4, <2>5, <2>6, <2>7 DEF Remarked
<1>20. blocks' = Outside(blocks, q, e) \cup C
  <2>1. \A b \in blocks : b \in Nat /\ (b > q => b >= e)
    BY <1>0, <1>1, <1>5, <1>6 DEF Structure, Address
  <2>2. \A b \in blocks : b # q => b \in Outside(blocks, q, e)
    BY <2>1, <1>6 DEF Outside
  <2> QED BY <2>2, <1>10 DEF Outside
<1>21. Rebuilt(q, e, C)
  BY <1>2, <1>10, <1>12, <1>17, <1>19, <1>20 DEF Rebuilt
<1> HIDE DEF C
<1> QED BY <1>3, <1>18, <1>21

(* A block that allocate() finds no next one behind is the last one. *)
LEMMA NoNextIsLast ==
    ASSUME HeapReady, NEW q \in blocks, ~HasNext(q)
    PROVE  CHEAP_NEXT_BLOCK(mem, q) = brk /\ ~mem[q].present
<1> USE DEF HeapReady
<1>1. Structure(mem, blocks, brk) /\ Marked(mem, blocks, brk, live)
  BY PartsOf
<1>2. mem \in [Address -> Word] /\ brk \in Base..ZoneEnd /\ Base \in Nat /\ ZoneEnd \in Nat
  BY HeapAssumption DEF TypeOK
<1>3. CHEAP_NEXT_BLOCK(mem, q) \in Nat /\ CHEAP_NEXT_BLOCK(mem, q) <= brk
  BY <1>1, <1>2, BlockFacts
<1>4. CHEAP_NEXT_BLOCK(mem, q) = brk
  BY <1>2, <1>3 DEF HasNext
<1> QED BY <1>1, <1>4 DEF Marked

(* allocate() makes the last block one page longer. *)
LEMMA GrowRebuilds ==
    ASSUME HeapReady, AllocGrow, brk' # brk
    PROVE  \E e \in Int : \E C :
             /\ Rebuilt(req.ptr, e, C) /\ blocks' = blocks
             /\ \A b \in live : b.hdr < req.ptr \/ b.hdr >= e
<1> USE DEF HeapReady
<1>0. Base \in Nat \ {0} /\ ZoneEnd \in Nat /\ PageWords \in Nat /\ PageWords >= 2
  BY HeapAssumption
<1>1. Structure(mem, blocks, brk) /\ Marked(mem, blocks, brk, live)
  BY PartsOf
<1>2. mem \in [Address -> Word] /\ brk \in Base..ZoneEnd
  BY DEF TypeOK
<1>3. PICK q \in blocks : q = req.ptr
  BY DEF AllocGrow, ReqInv
<1>4. CHEAP_NEXT_BLOCK(mem, q) = brk /\ ~mem[q].present
  BY <1>3, NoNextIsLast DEF AllocGrow
<1>5. q \in Address /\ q \in Nat /\ Base <= q /\ mem[q].size \in Nat /\ brk = q + 2 + mem[q].size
  BY <1>1, <1>2, <1>4, BlockFacts
<1>6. PICK e \in Nat : e = brk + PageWords /\ e <= ZoneEnd /\ brk' = e
  BY <1>0, <1>2 DEF AllocGrow, Increase
<1>7. e - q - 2 \in Nat /\ mem[q].size + PageWords = e - q - 2
  BY <1>0, <1>5, <1>6
<1>8. /\ mem' = Update(mem, q, e - q - 2, FALSE) /\ UNCHANGED <<live, blocks>>
  BY <1>3, <1>7 DEF AllocGrow
<1>9. e - 1 \in Address /\ e - 1 = q + 1 + (e - q - 2)
  BY <1>0, <1>5, <1>6 DEF Address
<1>10. /\ mem' \in [Address -> Word]
       /\ mem'[q].size = e - q - 2 /\ mem'[q].present = FALSE
       /\ mem'[e - 1].size = e - q - 2 /\ mem'[e - 1].present = FALSE
       /\ \A a \in Address : a # q /\ a # e - 1 => mem'[a] = mem[a]
  <2>1. Updated(mem, mem', q, e - 1, e - q - 2, FALSE)
    BY <1>2, <1>5, <1>7, <1>8, <1>9, UpdateWrites
  <2> QED BY <2>1 DEF Updated
<1>11. CHEAP_NEXT_BLOCK(mem', q) = e /\ CHEAP_FOOTER(mem', q) = e - 1
  BY <1>5, <1>10 DEF CHEAP_NEXT_BLOCK, CHEAP_FOOTER, CHEAP_BLOCKSZ
<1>12. q < e /\ q <= e - 2 /\ brk <= e
  BY <1>0, <1>5, <1>6
<1>13. \A a \in Address : a < q \/ a >= e => mem'[a] = mem[a]
  BY <1>0, <1>5, <1>10, <1>12 DEF Address
<1>14. Retiled(mem, mem', blocks, brk, brk', q, e, {q})
  <2>1. {q} \subseteq q..(e - 2)
    BY <1>5, <1>12
  <2> QED BY <2>1, <1>1, <1>5, <1>6, <1>10, <1>11, <1>12, <1>13 DEF Retiled
<1>15. \A b \in blocks : b # q => b \in Nat /\ b < q
  <2> SUFFICES ASSUME NEW b \in blocks, b # q
               PROVE  b \in Nat /\ b < q
    OBVIOUS
  <2>1. b \in Nat /\ b + 2 <= brk /\ (q < b => brk <= b)
    BY <1>1, <1>2, <1>4, BlockFacts DEF Structure
  <2> QED BY <2>1, <1>5
<1>16. \A b \in live : b.hdr < q
  <2>1. \A b \in live : b.hdr \in blocks /\ b.hdr # q
    BY <1>1, <1>4 DEF Marked
  <2> QED BY <2>1, <1>15
<1>17. Remarked(mem, mem', blocks, brk', q, e, {q}, live, live')
  <2>1. e \notin blocks
    BY <1>5, <1>12, <1>15
  <2>2. \A b \in blocks : CHEAP_NEXT_BLOCK(mem, b) = q => mem[b].present
    BY <1>1, <1>4 DEF Marked
  <2>3. q # e
    BY <1>5, <1>12
  <2> QED BY <2>1, <2>2, <2>3, <1>8, <1>10, <1>11, <1>16 DEF Remarked
<1>18. blocks' = Outside(blocks, q, e) \cup {q}
  BY <1>8, <1>15 DEF Outside
<1>19. Rebuilt(q, e, {q})
  <2>1. brk' \in Base..ZoneEnd /\ brk' # Base
    BY <1>0, <1>5, <1>6
  <2> QED BY <2>1, <1>10, <1>14, <1>17, <1>18 DEF Rebuilt
<1> QED BY <1>3, <1>8, <1>16, <1>19

(* A caller stores into its block: both infos stay. *)
LEMMA WriteRebuilds ==
    ASSUME HeapReady, NEW b \in live, NEW w \in DataWords, UserWrite(b, w)
    PROVE  \E q, e \in Int : \E C : Rebuilt(q, e, C) /\ blocks' = blocks
<1> USE DEF HeapReady
<1>0. Base \in Nat \ {0} /\ ZoneEnd \in Nat /\ w \in Word
  BY HeapAssumption
<1>1. Structure(mem, blocks, brk) /\ Marked(mem, blocks, brk, live)
  BY PartsOf
<1>2. mem \in [Address -> Word] /\ brk \in Base..ZoneEnd
  BY DEF TypeOK
<1>3. PICK q \in blocks : q = b.hdr /\ mem[q].present /\ mem[q].size = b.words
  BY <1>1 DEF Marked
<1>4. PICK e \in Nat : e = CHEAP_NEXT_BLOCK(mem, q)
  BY <1>1, <1>2, BlockFacts
<1>5. /\ q \in Address /\ q \in Nat /\ Base <= q /\ mem[q].size = e - q - 2 /\ e - q - 2 \in Nat /\ e <= brk
      /\ e \in blocks \/ e = brk
  BY <1>1, <1>2, <1>4, BlockFacts
<1>6. Data(b) = (q + 1)..(e - 2)
  BY <1>3, <1>5 DEF Data
<1>7. mem' = [a \in Address |-> IF a \in Data(b) THEN w ELSE mem[a]] /\ UNCHANGED <<brk, live, blocks>>
  BY DEF UserWrite
<1>8. mem' \in [Address -> Word]
  BY <1>0, <1>2, <1>7
<1>9. \A a \in Address : a \notin (q + 1)..(e - 2) => mem'[a] = mem[a]
  BY <1>6, <1>7
<1>10. q < e /\ q <= e - 2 /\ e - 1 \in Address
  BY <1>0, <1>2, <1>5 DEF Address
<1>11. mem'[q] = mem[q] /\ mem'[e - 1] = mem[e - 1]
  BY <1>5, <1>9, <1>10
<1>12. \A a \in Address : a < q \/ a >= e => mem'[a] = mem[a]
  BY <1>0, <1>5, <1>9, <1>10 DEF Address
<1>13. /\ CHEAP_NEXT_BLOCK(mem', q) = e /\ CHEAP_FOOTER(mem', q) = e - 1 /\ CHEAP_FOOTER(mem, q) = e - 1
  BY <1>5, <1>11 DEF CHEAP_NEXT_BLOCK, CHEAP_FOOTER, CHEAP_BLOCKSZ
<1>14. e # brk
  BY <1>1, <1>3, <1>4 DEF Marked
<1>15. mem[e - 1].size = mem[q].size /\ mem[e - 1].present = mem[q].present
  BY <1>1, <1>4, <1>13, <1>14 DEF Structure
<1>16. Retiled(mem, mem', blocks, brk, brk', q, e, {q})
  <2>1. {q} \subseteq q..(e - 2)
    BY <1>5, <1>10
  <2>2. /\ mem'[CHEAP_FOOTER(mem', q)].size = mem'[q].size
        /\ mem'[CHEAP_FOOTER(mem', q)].present = mem'[q].present
    BY <1>11, <1>13, <1>15
  <2>3. e \in blocks /\ brk' = brk
    BY <1>5, <1>7, <1>14
  <2>4. q < e /\ CHEAP_NEXT_BLOCK(mem', q) = e
    BY <1>10, <1>13
  <2>5. ~(q < q)
    BY <1>5
  <2> QED BY <2>1, <2>2, <2>3, <2>4, <2>5, <1>1, <1>12, Zenon DEF Retiled
<1>17. \A c \in blocks : c # q => c \in Nat /\ (c < q \/ c >= e)
  <2> SUFFICES ASSUME NEW c \in blocks, c # q
               PROVE  c \in Nat /\ (c < q \/ c >= e)
    OBVIOUS
  <2>1. c \in Nat /\ (q < c => e <= c)
    BY <1>1, <1>2, <1>4, BlockFacts DEF Structure
  <2> QED BY <2>1, <1>5
<1>18. Remarked(mem, mem', blocks, brk', q, e, {q}, live, live')
  <2>1. \A c \in live' : \/ c \in live /\ (c.hdr < q \/ c.hdr >= e)
                         \/ c.hdr \in {q} /\ mem'[c.hdr].present /\ mem'[c.hdr].size = c.words
    <3> SUFFICES ASSUME NEW c \in live
                 PROVE  \/ c.hdr < q \/ c.hdr >= e
                        \/ c.hdr = q /\ mem'[c.hdr].present /\ mem'[c.hdr].size = c.words
      BY <1>7
    <3>1. c.hdr \in blocks /\ mem[c.hdr].present /\ mem[c.hdr].size = c.words
      BY <1>1 DEF Marked
    <3>2. CASE c.hdr = q
      BY <3>1, <3>2, <1>11
    <3>3. CASE c.hdr # q
      BY <3>1, <3>3, <1>17
    <3> QED BY <3>2, <3>3
  <2>2. \E c \in live' : c.hdr = q
    BY <1>3, <1>7
  <2>3. mem'[q].present
    BY <1>3, <1>11
  <2>4. e # brk' /\ live' = live
    BY <1>7, <1>14
  <2> QED BY <2>1, <2>2, <2>3, <2>4, <1>13 DEF Remarked
<1>19. blocks' = Outside(blocks, q, e) \cup {q}
  BY <1>7, <1>17 DEF Outside
<1>20. Rebuilt(q, e, {q})
  BY <1>2, <1>7, <1>8, <1>16, <1>18, <1>19 DEF Rebuilt
<1> QED BY <1>5, <1>7, <1>20

(* free(): where the merged block starts, found through the footer in front. *)
LEMMA MergedStart ==
    ASSUME HeapReady, NEW h \in blocks, mem[h].present, NEW nb \in Nat, nb = CHEAP_NEXT_BLOCK(mem, h)
    PROVE  /\ ~PrevIsCorrupt(h)
           /\ \E q \in blocks :
                /\ q = MergedHdr(h) /\ q <= h /\ MergedBack(h) = Update(mem, q, nb - q - 2, FALSE)
                /\ PrevIsFree(h) => /\ q # h /\ ~mem[q].present /\ CHEAP_NEXT_BLOCK(mem, q) = h
                /\ ~PrevIsFree(h) =>
                     /\ q = h
                     /\ \A b \in blocks : CHEAP_NEXT_BLOCK(mem, b) = h => mem[b].present
<1> USE DEF HeapReady
<1>0. Base \in Nat \ {0} /\ ZoneEnd \in Nat
  BY HeapAssumption
<1>1. Structure(mem, blocks, brk) /\ Marked(mem, blocks, brk, live)
  BY PartsOf
<1>2. mem \in [Address -> Word] /\ brk \in Base..ZoneEnd
  BY DEF TypeOK
<1>3. h \in Nat /\ Base <= h /\ mem[h].size \in Nat /\ nb = h + 2 + mem[h].size /\ h + 2 <= brk
  BY <1>1, <1>2, BlockFacts DEF Structure
<1>4. CASE h = Base
  <2>1. ~PrevIsFree(h) /\ MergedHdr(h) = h
    BY <1>0, <1>4 DEF PrevIsFree, MergedHdr
  <2>2. MergedBack(h) = Update(mem, h, nb - h - 2, FALSE)
    <3>1. mem[h].size = nb - h - 2
      BY <1>3
    <3> QED BY <3>1, <2>1 DEF MergedBack
  <2>3. \A b \in blocks : CHEAP_NEXT_BLOCK(mem, b) # h
    <3> SUFFICES ASSUME NEW b \in blocks
                 PROVE  CHEAP_NEXT_BLOCK(mem, b) # h
      OBVIOUS
    <3>1. b \in Nat /\ Base <= b /\ mem[b].size \in Nat /\ CHEAP_NEXT_BLOCK(mem, b) = b + 2 + mem[b].size
      BY <1>1, <1>2, BlockFacts
    <3> QED BY <3>1, <1>0, <1>4
  <2>4. ~PrevIsCorrupt(h) /\ h <= h
    BY <2>1, <1>3 DEF PrevIsCorrupt
  <2> QED BY <2>1, <2>2, <2>3, <2>4, Zenon
<1>5. CASE h # Base
  <2>1. PICK p \in blocks : p < h /\ CHEAP_NEXT_BLOCK(mem, p) = h
    BY <1>1, <1>2, <1>5, BlockBefore
  <2>2. p \in Nat /\ Base <= p /\ mem[p].size \in Nat /\ h = p + 2 + mem[p].size
    BY <2>1, <1>1, <1>2, BlockFacts
  <2>3. h # brk
    BY <1>0, <1>2, <1>3
  <2>4. CHEAP_FOOTER(mem, p) = h - 1
    BY <2>2 DEF CHEAP_FOOTER
  <2>5. mem[h - 1].size = mem[p].size /\ mem[h - 1].present = mem[p].present
    BY <2>1, <2>3, <2>4, <1>1 DEF Structure
  <2>6. PrevIsFree(h) <=> ~mem[p].present
    BY <2>2, <2>5, <1>0, <1>3 DEF PrevIsFree
  <2>7. PrevHdr(h) = p
    <3>1. PICK s \in Nat : s = mem[p].size
      BY <2>2
    <3>2. PrevHdr(h) = h - 1 - 1 - s /\ h = p + 2 + s
      BY <3>1, <2>2, <2>5 DEF PrevHdr, CHEAP_HEADER
    <3>3. h - 1 - 1 - s = p
      BY <3>2, <2>2, <1>3
    <3> QED BY <3>2, <3>3
  <2>8. ~PrevIsCorrupt(h)
    BY <2>2, <2>7, <1>0 DEF PrevIsCorrupt
  <2>9. CASE PrevIsFree(h)
    <3>1. CHEAP_BLOCKSZ(mem[p].size) + mem[h].size = nb - p - 2
      BY <2>2, <1>3 DEF CHEAP_BLOCKSZ
    <3>2. MergedBack(h) = Update(mem, p, nb - p - 2, FALSE) /\ MergedHdr(h) = p
      BY <3>1, <2>7, <2>9 DEF MergedBack, MergedHdr
    <3>3. p <= h /\ p # h
      BY <2>1, <2>2, <1>3
    <3> QED BY <3>2, <3>3, <2>1, <2>6, <2>8, <2>9
  <2>10. CASE ~PrevIsFree(h)
    <3>1. mem[h].size = nb - h - 2
      BY <1>3
    <3>2. MergedBack(h) = Update(mem, h, nb - h - 2, FALSE) /\ MergedHdr(h) = h
      BY <3>1, <2>10 DEF MergedBack, MergedHdr
    <3>3. ASSUME NEW b \in blocks, CHEAP_NEXT_BLOCK(mem, b) = h
          PROVE  b = p
      <4>1. b \in Nat /\ mem[b].size \in Nat /\ h = b + 2 + mem[b].size
        BY <3>3, <1>1, <1>2, BlockFacts
      <4>2. ~(b < p) /\ ~(p < b)
        BY <4>1, <2>1, <2>2, <3>3, <1>1, <1>3 DEF Structure
      <4> QED BY <4>1, <4>2, <2>2
    <3>4. \A b \in blocks : CHEAP_NEXT_BLOCK(mem, b) = h => mem[b].present
      BY <3>3, <2>6, <2>10
    <3>5. h <= h
      BY <1>3
    <3> QED BY <3>2, <3>4, <3>5, <2>8, <2>10, Zenon
  <2> QED BY <2>9, <2>10
<1> QED BY <1>4, <1>5

(* The merged block of the one from h up to nb starts at q. *)
MergedFrom(h, nb, q) ==
    /\ nb = CHEAP_NEXT_BLOCK(mem, h) /\ q = MergedHdr(h) /\ q <= h
    /\ MergedBack(h) = Update(mem, q, nb - q - 2, FALSE)
    /\ PrevIsFree(h) => q # h /\ ~mem[q].present /\ CHEAP_NEXT_BLOCK(mem, q) = h
    /\ ~PrevIsFree(h) => q = h

(* What free() leaves behind: one free block from q up to e, in the place of
   the blocks there. *)
MergedInto(q, h, nb, e) ==
    /\ nb <= e /\ (e \in blocks \/ e = brk)
    /\ \A c \in blocks : q <= c /\ c < e => c = h \/ ~mem[c].present
    /\ e \in blocks => mem[e].present
    /\ mem' \in [Address -> Word]
    /\ mem'[q].size = e - q - 2 /\ mem'[q].present = FALSE
    /\ mem'[e - 1].size = e - q - 2 /\ mem'[e - 1].present = FALSE
    /\ \A a \in Address : a # q /\ a # nb - 1 /\ a # e - 1 => mem'[a] = mem[a]

(* free(): where the merged block ends, found through the header behind. *)
LEMMA MergedEnd ==
    ASSUME HeapReady, NEW h \in blocks, mem[h].present, FreeBlock(h), ~PrevIsCorrupt(h),
           NEW nb \in blocks, NEW q \in blocks, MergedFrom(h, nb, q)
    PROVE  \E e \in Nat : MergedInto(q, h, nb, e) /\ blocks' = Outside(blocks, q, e) \cup {q}
<1> USE DEF HeapReady, MergedFrom
<1>0. Base \in Nat \ {0} /\ ZoneEnd \in Nat
  BY HeapAssumption
<1>1. Structure(mem, blocks, brk) /\ Marked(mem, blocks, brk, live)
  BY PartsOf
<1>2. mem \in [Address -> Word] /\ brk \in Base..ZoneEnd
  BY DEF TypeOK
<1>3. /\ q \in Address /\ q \in Nat /\ Base <= q /\ h \in Nat /\ nb \in Nat /\ nb \in Address
      /\ nb + 2 <= brk /\ h + 2 <= nb /\ mem[h].size \in Nat
  <2>1. q \in Address /\ q \in Nat /\ Base <= q
    BY <1>1, <1>2, BlockFacts
  <2>2. h \in Nat /\ mem[h].size \in Nat /\ nb = h + 2 + mem[h].size
    BY <1>1, <1>2, BlockFacts
  <2>3. nb \in Nat /\ nb \in Address /\ nb + 2 <= brk
    BY <1>1, <1>2, BlockFacts DEF Structure
  <2> QED BY <2>1, <2>2, <2>3
<1> DEFINE m1 == MergedBack(h)
<1>4. nb - q - 2 \in Nat /\ nb - 1 \in Address /\ nb - 1 = q + 1 + (nb - q - 2) /\ nb # q /\ nb # nb - 1
  BY <1>0, <1>2, <1>3 DEF Address
<1>5. /\ m1 \in [Address -> Word] /\ m1[q].size = nb - q - 2 /\ m1[q].present = FALSE
      /\ m1[nb - 1].size = nb - q - 2 /\ m1[nb - 1].present = FALSE
      /\ \A a \in Address : a # q /\ a # nb - 1 => m1[a] = mem[a]
  <2>1. Updated(mem, m1, q, nb - 1, nb - q - 2, FALSE)
    BY <1>2, <1>3, <1>4, UpdateWrites
  <2> QED BY <2>1 DEF Updated
<1>6. mem' = MergedNext(m1, q) /\ blocks' = MergedBlocks(m1, h)
  BY DEF FreeBlock
<1> HIDE DEF m1
<1>7. CHEAP_NEXT_BLOCK(m1, q) = nb /\ m1[nb] = mem[nb]
  BY <1>3, <1>4, <1>5 DEF CHEAP_NEXT_BLOCK, CHEAP_BLOCKSZ
<1>8. NextIsFree(m1, q) <=> ~mem[nb].present
  BY <1>2, <1>3, <1>7 DEF NextIsFree
<1>9. \A c \in blocks : c \in Nat /\ (c < q \/ c = q \/ c = h \/ c >= nb)
  <2> SUFFICES ASSUME NEW c \in blocks
               PROVE  c \in Nat /\ (c < q \/ c = q \/ c = h \/ c >= nb)
    OBVIOUS
  <2>1. c \in Nat
    BY <1>1, <1>2, BlockFacts
  <2>2. h < c => nb <= c
    BY <1>1 DEF Structure
  <2>3. PrevIsFree(h) => (q < c => h <= c)
    BY <1>1 DEF Structure
  <2> QED BY <2>1, <2>2, <2>3, <1>3
<1>10. CASE mem[nb].present
  <2>1. mem' = m1
    BY <1>6, <1>8, <1>10 DEF MergedNext
  <2>2. blocks' = blocks \ (IF PrevIsFree(h) THEN {h} ELSE {})
    BY <1>6, <1>8, <1>10 DEF MergedBlocks
  <2>3. blocks' = Outside(blocks, q, nb) \cup {q}
    <3>1. \A c \in blocks : c \in Outside(blocks, q, nb) <=> c # q /\ c # h
      BY <1>3, <1>9 DEF Outside
    <3>2. PrevIsFree(h) <=> h # q
      OBVIOUS
    <3> QED BY <2>2, <3>1, <3>2 DEF Outside
  <2>4. MergedInto(q, h, nb, nb)
    <3>1. \A c \in blocks : q <= c /\ c < nb => c = h \/ ~mem[c].present
      BY <1>3, <1>9
    <3> QED BY <3>1, <2>1, <1>3, <1>5, <1>10 DEF MergedInto
  <2> QED BY <2>3, <2>4, <1>3
<1>11. CASE ~mem[nb].present
  <2>1. PICK e \in Nat : e = CHEAP_NEXT_BLOCK(mem, nb)
    BY <1>1, <1>2, BlockFacts
  <2>2. mem[nb].size \in Nat /\ mem[nb].size = e - nb - 2 /\ e <= brk /\ (e \in blocks \/ e = brk)
    <3>1. mem[nb].size \in Nat /\ e = nb + 2 + mem[nb].size /\ e <= brk /\ (e \in blocks \/ e = brk)
      BY <2>1, <1>1, <1>2, BlockFacts
    <3> QED BY <3>1, <1>3
  <2>3. e \in blocks => mem[e].present
    BY <2>1, <1>1, <1>11 DEF Marked
  <2>4. nb + 2 <= e /\ e - q - 2 \in Nat /\ e - 1 \in Address /\ e - 1 = q + 1 + (e - q - 2)
    BY <2>2, <1>0, <1>2, <1>3 DEF Address
  <2>5. mem' = Update(m1, q, e - q - 2, FALSE)
    <3>1. m1[q].size + CHEAP_BLOCKSZ(m1[nb].size) = e - q - 2
      BY <2>2, <1>3, <1>5, <1>7 DEF CHEAP_BLOCKSZ
    <3> QED BY <3>1, <1>6, <1>7, <1>8, <1>11 DEF MergedNext
  <2>6. /\ mem' \in [Address -> Word]
        /\ mem'[q].size = e - q - 2 /\ mem'[q].present = FALSE
        /\ mem'[e - 1].size = e - q - 2 /\ mem'[e - 1].present = FALSE
        /\ \A a \in Address : a # q /\ a # e - 1 => mem'[a] = m1[a]
    <3>1. Updated(m1, mem', q, e - 1, e - q - 2, FALSE)
      BY <2>4, <2>5, <1>3, <1>5, UpdateWrites
    <3> QED BY <3>1 DEF Updated
  <2>7. MergedInto(q, h, nb, e)
    <3>1. \A c \in blocks : c > nb => c >= e
      BY <2>1, <1>1, <1>9 DEF Structure
    <3>2. \A c \in blocks : q <= c /\ c < e => c = h \/ ~mem[c].present
      BY <3>1, <1>3, <1>9, <1>11
    <3> QED BY <3>2, <2>2, <2>3, <2>4, <2>6, <1>3, <1>5 DEF MergedInto
  <2>8. blocks' = blocks \ ((IF PrevIsFree(h) THEN {h} ELSE {}) \cup {nb})
    BY <1>6, <1>7, <1>8, <1>11 DEF MergedBlocks
  <2>9. blocks' = Outside(blocks, q, e) \cup {q}
    <3>1. \A c \in blocks : c > nb => c >= e
      BY <2>1, <1>1, <1>9 DEF Structure
    <3>2. \A c \in blocks : c \in Outside(blocks, q, e) <=> c # q /\ c # h /\ c # nb
      BY <3>1, <2>4, <1>3, <1>9 DEF Outside
    <3>3. PrevIsFree(h) <=> h # q
      OBVIOUS
    <3> QED BY <2>8, <3>2, <3>3, <1>4 DEF Outside
  <2> QED BY <2>7, <2>9
<1> QED BY <1>10, <1>11

(* free() makes the block it is given, and its free neighbours, one block. *)
LEMMA FreeRebuilds ==
    ASSUME HeapReady, NEW b \in live, free(b)
    PROVE  \E q, e \in Int : /\ Rebuilt(q, e, {q})
                             /\ \A c \in live' : c \in live /\ (c.hdr < q \/ c.hdr >= e)
<1> USE DEF HeapReady
<1>0. Base \in Nat \ {0} /\ ZoneEnd \in Nat
  BY HeapAssumption
<1>1. Structure(mem, blocks, brk) /\ Marked(mem, blocks, brk, live)
  BY PartsOf
<1>2. mem \in [Address -> Word] /\ brk \in Base..ZoneEnd
  BY DEF TypeOK
<1>3. PICK h \in blocks : h = b.hdr /\ mem[h].present /\ mem[h].size = b.words
  BY <1>1 DEF Marked
<1>4. PICK nb \in blocks : nb = CHEAP_NEXT_BLOCK(mem, h)
  BY <1>1, <1>3 DEF Structure, Marked
<1>5. nb \in Nat /\ nb <= brk /\ h \in Nat /\ h + 2 <= nb
  <2>1. nb \in Nat /\ nb <= brk /\ h \in Nat /\ nb = h + 2 + mem[h].size /\ mem[h].size \in Nat
    BY <1>1, <1>2, <1>4, BlockFacts
  <2> QED BY <2>1
<1>6. FreeBlock(h) /\ live' = live \ {b} /\ brk' = brk
  BY <1>3 DEF free
<1>7. PICK q \in blocks :
        /\ q = MergedHdr(h) /\ q <= h /\ MergedBack(h) = Update(mem, q, nb - q - 2, FALSE)
        /\ PrevIsFree(h) => /\ q # h /\ ~mem[q].present /\ CHEAP_NEXT_BLOCK(mem, q) = h
        /\ ~PrevIsFree(h) =>
             /\ q = h
             /\ \A c \in blocks : CHEAP_NEXT_BLOCK(mem, c) = h => mem[c].present
  BY <1>3, <1>4, <1>5, MergedStart
<1>8. ~PrevIsCorrupt(h)
  BY <1>3, <1>4, <1>5, MergedStart
<1>9. PICK e \in Nat : MergedInto(q, h, nb, e) /\ blocks' = Outside(blocks, q, e) \cup {q}
  <2>1. MergedFrom(h, nb, q)
    BY <1>4, <1>7 DEF MergedFrom
  <2> HIDE DEF HeapReady
  <2> QED BY <2>1, <1>3, <1>6, <1>8, MergedEnd
<1>10. /\ q \in Nat /\ q \in Address /\ q < e /\ q <= e - 2 /\ nb <= e /\ e <= brk
       /\ e - q - 2 \in Nat
  <2>1. q \in Nat /\ q \in Address
    BY <1>1, <1>2, BlockFacts
  <2>2. nb <= e /\ e <= brk
    <3>1. e \in blocks => e + 2 <= brk
      BY <1>1 DEF Structure
    <3> QED BY <3>1, <1>0, <1>2, <1>9 DEF MergedInto
  <2> QED BY <2>1, <2>2, <1>5, <1>7
<1>11. CHEAP_NEXT_BLOCK(mem', q) = e /\ CHEAP_FOOTER(mem', q) = e - 1
  BY <1>9, <1>10 DEF MergedInto, CHEAP_NEXT_BLOCK, CHEAP_FOOTER, CHEAP_BLOCKSZ
<1>12. \A a \in Address : a < q \/ a >= e => mem'[a] = mem[a]
  <2> SUFFICES ASSUME NEW a \in Address, a < q \/ a >= e
               PROVE  mem'[a] = mem[a]
    OBVIOUS
  <2>1. a \in Nat
    BY <1>0 DEF Address
  <2>2. a # q /\ a # nb - 1 /\ a # e - 1
    BY <2>1, <1>5, <1>7, <1>10
  <2> QED BY <2>2, <1>9 DEF MergedInto
<1>13. Retiled(mem, mem', blocks, brk, brk', q, e, {q})
  <2>1. {q} \subseteq q..(e - 2)
    BY <1>10
  <2>2. /\ mem'[CHEAP_FOOTER(mem', q)].size = mem'[q].size
        /\ mem'[CHEAP_FOOTER(mem', q)].present = mem'[q].present
    BY <1>9, <1>11 DEF MergedInto
  <2>3. (e \in blocks /\ brk' = brk) \/ (e = brk' /\ brk <= brk')
    BY <1>0, <1>2, <1>6, <1>9 DEF MergedInto
  <2>4. q < e /\ ~(q < q)
    BY <1>10
  <2> QED BY <2>1, <2>2, <2>3, <2>4, <1>1, <1>11, <1>12, Zenon DEF Retiled
<1>14. \A c \in live' : c \in live /\ (c.hdr < q \/ c.hdr >= e)
  <2> SUFFICES ASSUME NEW c \in live, c # b
               PROVE  c.hdr < q \/ c.hdr >= e
    BY <1>6
  <2>1. c.hdr \in blocks /\ mem[c.hdr].present /\ mem[c.hdr].size = c.words
    BY <1>1 DEF Marked
  <2>2. c.hdr # h
    <3>1. c \in [hdr : Address, words : Nat] /\ b \in [hdr : Address, words : Nat]
      BY DEF TypeOK
    <3>2. c.hdr = b.hdr /\ c.words = b.words => c = b
      BY <3>1
    <3> QED BY <3>2, <2>1, <1>3
  <2>3. c.hdr \in Nat
    BY <2>1, <1>1, <1>2, BlockFacts
  <2>4. ~(q <= c.hdr /\ c.hdr < e)
    BY <2>1, <2>2, <1>9 DEF MergedInto
  <2> QED BY <2>3, <2>4, <1>10
<1>15. Remarked(mem, mem', blocks, brk', q, e, {q}, live, live')
  <2>1. mem'[q].present = FALSE /\ (e \in blocks => mem[e].present)
    BY <1>9 DEF MergedInto
  <2>2. \A c \in live : c.hdr < q \/ c.hdr >= e => c \in live'
    <3>1. ~(b.hdr < q) /\ ~(b.hdr >= e)
      BY <1>3, <1>5, <1>7, <1>10
    <3> QED BY <3>1, <1>6
  <2>3. \A c \in blocks : c < q /\ CHEAP_NEXT_BLOCK(mem, c) = q => mem[c].present
    BY <1>1, <1>7 DEF Marked
  <2>4. CHEAP_NEXT_BLOCK(mem', q) # q
    BY <1>10, <1>11
  <2> QED BY <2>1, <2>2, <2>3, <2>4, <1>14 DEF Remarked
<1>16. Rebuilt(q, e, {q})
  <2>1. mem' \in [Address -> Word] /\ brk' \in Base..ZoneEnd /\ brk' # Base
    BY <1>2, <1>6, <1>9 DEF MergedInto
  <2> QED BY <2>1, <1>9, <1>13, <1>15 DEF Rebuilt
<1>17. q \in Int /\ e \in Int
  BY <1>10
<1> QED BY <1>14, <1>16, <1>17, Zenon
-----------------------------------------------------------------------------
(* CoreHeap.cc init(): the heap starts as one free block of a page. *)
LEMMA InitStep ==
    ASSUME TypeOK, LiveArePresent, ReqInv, brk = Base, HeapInit, live' = live
    PROVE  /\ (Tiling /\ FootersMatch /\ LiveArePresent /\ Coalesced)'
           /\ mem' \in [Address -> Word] /\ brk' \in Base..ZoneEnd /\ brk' # Base
           /\ blocks' = {Base} /\ live' = {}
<1>0. /\ Base \in Nat \ {0} /\ ZoneEnd \in Nat /\ PageWords \in Nat /\ PageWords >= 2
      /\ ZoneEnd >= Base + PageWords
  BY HeapAssumption
<1>1. brk' = Base + PageWords /\ blocks' = {Base} /\ live' = {}
  BY <1>0 DEF HeapInit, Increase, ReqInv
<1>2. Base \in Address /\ PageWords - 2 \in Nat
  BY <1>0 DEF Address
<1>3. /\ mem' \in [Address -> Word] /\ mem'[Base].size = PageWords - 2 /\ mem'[Base].present = FALSE
  <2>1. Info(PageWords - 2, FALSE, FALSE) \in Word
    BY <1>2 DEF Info, Word
  <2>2. Info(PageWords - 2, FALSE, FALSE).size = PageWords - 2 /\ Info(PageWords - 2, FALSE, FALSE).present = FALSE
    BY DEF Info
  <2> QED BY <1>2, <2>1, <2>2 DEF HeapInit, TypeOK
<1>4. CHEAP_NEXT_BLOCK(mem', Base) = brk'
  BY <1>0, <1>1, <1>3 DEF CHEAP_NEXT_BLOCK, CHEAP_BLOCKSZ
<1>5. brk' \in Base..ZoneEnd /\ brk' # Base /\ Base + 2 <= brk' /\ ~(Base < Base)
  BY <1>0, <1>1
<1>6. Tiling' /\ FootersMatch'
  BY <1>1, <1>4, <1>5 DEF Tiling, FootersMatch, NextOf
<1>7. LiveArePresent'
  BY <1>1, <1>3 DEF LiveArePresent
<1>8. Coalesced'
  BY <1>1, <1>4, <1>5 DEF Coalesced, NextOf
<1> QED BY <1>1, <1>3, <1>5, <1>6, <1>7, <1>8

(* A call of allocate() starts. *)
LEMMA AllocateIInv ==
    ASSUME IInv, NEW n \in Requests, allocate(n)
    PROVE  IInv'
<1> USE DEF IInv
<1>0. /\ Base \in Nat \ {0} /\ ZoneEnd \in Nat /\ PageWords \in Nat /\ ZoneEnd >= Base + PageWords
      /\ PageWords >= 2 /\ WordBytes \in Nat \ {0} /\ n \in Nat
  BY HeapAssumption
<1>1. ~faulted /\ faulted' = faulted /\ live' = live
  BY DEF allocate
<1>2. Tiling /\ FootersMatch /\ LiveArePresent /\ Coalesced /\ ReqInv /\ TypeOK
  BY <1>1
<1>3. CHEAP_ALIGN_UP(n) \in Nat
  BY <1>0 DEF CHEAP_ALIGN_UP
<1>4. Base \in Address
  BY <1>0 DEF Address
<1>5. req' \in [running : {TRUE}, words : Nat, ptr : Address] /\ req'.ptr = Base
  BY <1>3, <1>4 DEF allocate
<1>6. /\ (Tiling /\ FootersMatch /\ LiveArePresent /\ Coalesced)'
      /\ mem' \in [Address -> Word] /\ brk' \in Base..ZoneEnd /\ brk' # Base
      /\ Base \in blocks' /\ blocks' \subseteq Address
  <2>1. CASE brk = Base
    <3>1. HeapInit
      BY <2>1 DEF allocate
    <3> QED BY <3>1, <2>1, <1>1, <1>2, <1>4, InitStep
  <2>2. CASE brk # Base
    <3>1. UNCHANGED <<mem, brk, blocks, live>>
      BY <2>2, <1>1 DEF allocate
    <3>2. (Tiling /\ FootersMatch /\ LiveArePresent /\ Coalesced)'
      BY <3>1, <1>2 DEF Tiling, FootersMatch, LiveArePresent, Coalesced, NextOf,
                        CHEAP_NEXT_BLOCK, CHEAP_FOOTER
    <3> QED BY <3>1, <3>2, <2>2, <1>2 DEF TypeOK, Tiling
  <2> QED BY <2>1, <2>2
<1>7. TypeOK'
  <2>1. \A b \in live' : b \in [hdr : Address, words : Nat]
    BY <1>1, <1>2 DEF TypeOK
  <2> QED BY <2>1, <1>1, <1>2, <1>5, <1>6 DEF TypeOK
<1>8. ReqInv'
  BY <1>5, <1>6 DEF ReqInv
<1>9. FaultsOnlyWhenFull'
  BY <1>1 DEF FaultsOnlyWhenFull
<1> QED BY <1>6, <1>7, <1>8, <1>9

(* allocate() returns the block it found. *)
LEMMA FoundIInv ==
    ASSUME IInv, AllocFound
    PROVE  IInv'
<1> USE DEF IInv
<1>1. ~faulted /\ faulted' = faulted /\ brk' = brk /\ req' = NoReq /\ req.running
  BY DEF AllocFound
<1>2. HeapReady
  BY <1>1 DEF HeapReady, ReqInv
<1>3. PICK e \in Int : \E C : Rebuilt(req.ptr, e, C)
  BY <1>2, FoundRebuilds
<1>4. PICK C : Rebuilt(req.ptr, e, C)
  BY <1>3
<1>5. /\ (Tiling /\ FootersMatch /\ LiveArePresent /\ Coalesced)' /\ blocks' \subseteq Address
      /\ mem' \in [Address -> Word] /\ brk # Base
  BY <1>2, <1>4, RebuiltKeeps DEF HeapReady, Rebuilt
<1>6. req \in [running : {TRUE}, words : Nat, ptr : Address]
  <2>1. req # NoReq
    BY <1>1 DEF NoReq
  <2> QED BY <2>1 DEF TypeOK
<1>7. TypeOK'
  <2>1. \A b \in live' : b \in [hdr : Address, words : Nat]
    <3>1. [hdr |-> req.ptr, words |-> req.words] \in [hdr : Address, words : Nat]
      BY <1>6
    <3>2. \A b \in live' : b \in live \/ b = [hdr |-> req.ptr, words |-> req.words]
      BY DEF AllocFound
    <3> QED BY <3>1, <3>2 DEF TypeOK
  <2> QED BY <2>1, <1>1, <1>5 DEF TypeOK
<1>8. ReqInv'
  BY <1>1, <1>5 DEF ReqInv, NoReq
<1>9. FaultsOnlyWhenFull'
  BY <1>1 DEF FaultsOnlyWhenFull
<1> QED BY <1>5, <1>7, <1>8, <1>9

(* allocate() makes the last block longer, or faults. *)
LEMMA GrowIInv ==
    ASSUME IInv, AllocGrow
    PROVE  IInv'
<1> USE DEF IInv
<1>0. /\ Base \in Nat \ {0} /\ ZoneEnd \in Nat /\ PageWords \in Nat /\ PageWords >= 2
  BY HeapAssumption
<1>1. ~faulted /\ live' = live /\ req' = req /\ blocks' = blocks /\ req.running
  BY DEF AllocGrow
<1>2. HeapReady
  BY <1>1 DEF HeapReady, ReqInv
<1>3. CASE brk' # brk
  <2>1. PICK e \in Int : \E C : Rebuilt(req.ptr, e, C)
    BY <1>2, <1>3, GrowRebuilds
  <2>2. PICK C : Rebuilt(req.ptr, e, C)
    BY <2>1
  <2>3. /\ (Tiling /\ FootersMatch /\ LiveArePresent /\ Coalesced)'
        /\ mem' \in [Address -> Word] /\ brk' \in Base..ZoneEnd /\ brk' # Base
    BY <2>2, <1>2, RebuiltKeeps DEF HeapReady, Rebuilt
  <2>4. faulted' = faulted
    BY <1>3 DEF AllocGrow
  <2>5. TypeOK'
    BY <2>3, <2>4, <1>1 DEF TypeOK
  <2>6. ReqInv'
    BY <2>3, <1>1 DEF ReqInv
  <2>7. FaultsOnlyWhenFull'
    BY <2>4, <1>1 DEF FaultsOnlyWhenFull
  <2> QED BY <2>3, <2>5, <2>6, <2>7
<1>4. CASE brk' = brk
  <2>1. faulted' = TRUE /\ mem' = [mem EXCEPT ![req.ptr] = Info(mem[req.ptr].size + PageWords, FALSE, FALSE)]
    BY <1>4 DEF AllocGrow
  <2>2. brk + PageWords > ZoneEnd
    BY <1>0, <1>4 DEF AllocGrow, Increase, TypeOK
  <2>3. mem' \in [Address -> Word]
    <3>1. req.ptr \in Address
      BY <1>1, <1>2 DEF HeapReady, ReqInv, TypeOK
    <3>2. mem[req.ptr].size + PageWords \in Nat
      BY <3>1, <1>0 DEF TypeOK, Word
    <3>3. Info(mem[req.ptr].size + PageWords, FALSE, FALSE) \in Word
      BY <3>2 DEF Info, Word
    <3> QED BY <3>3, <2>1 DEF TypeOK
  <2>4. TypeOK'
    BY <2>1, <2>3, <1>1, <1>4 DEF TypeOK
  <2>5. FaultsOnlyWhenFull'
    BY <2>2, <1>4 DEF FaultsOnlyWhenFull
  <2> QED BY <2>1, <2>4, <2>5
<1> QED BY <1>3, <1>4

(* allocate() looks at the next block. *)
LEMMA AdvanceIInv ==
    ASSUME IInv, AllocAdvance
    PROVE  IInv'
<1> USE DEF IInv
<1>1. ~faulted /\ UNCHANGED <<mem, brk, faulted, live, blocks>> /\ req.running
  BY DEF AllocAdvance
<1>2. HeapReady
  BY <1>1 DEF HeapReady, ReqInv
<1>3. Structure(mem, blocks, brk) /\ mem \in [Address -> Word] /\ brk \in Base..ZoneEnd /\ req.ptr \in blocks
  BY <1>1, <1>2, PartsOf DEF HeapReady, TypeOK, ReqInv
<1>4. /\ CHEAP_NEXT_BLOCK(mem, req.ptr) \in Nat /\ CHEAP_NEXT_BLOCK(mem, req.ptr) < brk
      /\ CHEAP_NEXT_BLOCK(mem, req.ptr) \in blocks \/ CHEAP_NEXT_BLOCK(mem, req.ptr) = brk
  BY <1>3, BlockFacts DEF AllocAdvance, HasNext
<1>5. CHEAP_NEXT_BLOCK(mem, req.ptr) \in blocks
  BY <1>4
<1>6. req \in [running : {TRUE}, words : Nat, ptr : Address]
  <2>1. req # NoReq
    BY <1>1 DEF NoReq
  <2> QED BY <2>1 DEF TypeOK
<1>7. req' \in [running : {TRUE}, words : Nat, ptr : Address] /\ req'.ptr \in blocks
  BY <1>5, <1>6 DEF AllocAdvance, TypeOK
<1>8. TypeOK'
  BY <1>1, <1>7 DEF TypeOK
<1>9. (Tiling /\ FootersMatch /\ LiveArePresent /\ Coalesced)'
  BY <1>1 DEF Tiling, FootersMatch, LiveArePresent, Coalesced, NextOf, CHEAP_NEXT_BLOCK, CHEAP_FOOTER
<1>10. ReqInv' /\ FaultsOnlyWhenFull'
  BY <1>1, <1>2, <1>7 DEF ReqInv, FaultsOnlyWhenFull, HeapReady
<1> QED BY <1>8, <1>9, <1>10

(* free() gives a block back. *)
LEMMA FreeIInv ==
    ASSUME IInv, NEW b \in live, free(b)
    PROVE  IInv'
<1> USE DEF IInv
<1>1. ~faulted /\ ~req.running /\ UNCHANGED <<brk, req, faulted>> /\ live' = live \ {b}
  BY DEF free
<1>2. HeapReady
  BY <1>1 DEF HeapReady, ReqInv
<1>3. PICK q, e \in Int : Rebuilt(q, e, {q})
  BY <1>2, FreeRebuilds
<1>4. /\ (Tiling /\ FootersMatch /\ LiveArePresent /\ Coalesced)' /\ blocks' \subseteq Address
      /\ mem' \in [Address -> Word] /\ brk # Base
  BY <1>2, <1>3, RebuiltKeeps DEF HeapReady, Rebuilt
<1>5. TypeOK'
  <2>1. \A c \in live' : c \in [hdr : Address, words : Nat]
    BY <1>1 DEF TypeOK
  <2> QED BY <2>1, <1>1, <1>4 DEF TypeOK
<1>6. ReqInv' /\ FaultsOnlyWhenFull'
  BY <1>1, <1>4 DEF ReqInv, FaultsOnlyWhenFull
<1> QED BY <1>4, <1>5, <1>6

(* A caller stores into its block. *)
LEMMA WriteIInv ==
    ASSUME IInv, NEW b \in live, NEW w \in DataWords, UserWrite(b, w)
    PROVE  IInv'
<1> USE DEF IInv
<1>1. ~faulted /\ ~req.running /\ UNCHANGED <<brk, req, faulted, live, blocks>>
  BY DEF UserWrite
<1>2. HeapReady
  BY <1>1 DEF HeapReady, ReqInv
<1>3. PICK q, e \in Int : \E C : Rebuilt(q, e, C)
  BY <1>2, WriteRebuilds
<1>4. PICK C : Rebuilt(q, e, C)
  BY <1>3
<1>5. /\ (Tiling /\ FootersMatch /\ LiveArePresent /\ Coalesced)'
      /\ mem' \in [Address -> Word] /\ brk # Base
  BY <1>2, <1>4, RebuiltKeeps DEF HeapReady, Rebuilt
<1>6. TypeOK'
  BY <1>1, <1>5 DEF TypeOK
<1>7. ReqInv' /\ FaultsOnlyWhenFull'
  BY <1>1, <1>5 DEF ReqInv, FaultsOnlyWhenFull
<1> QED BY <1>5, <1>6, <1>7

(* The invariant holds of a heap without pages. *)
LEMMA InitIInv == Init => IInv
<1> SUFFICES ASSUME Init PROVE IInv
  OBVIOUS
<1>1. brk \in Base..ZoneEnd
  BY HeapAssumption DEF Init
<1>2. TypeOK
  BY <1>1, HeapAssumption DEF Init, TypeOK
<1>3. Tiling /\ FootersMatch /\ LiveArePresent /\ Coalesced
  BY DEF Init, Tiling, FootersMatch, LiveArePresent, Coalesced
<1>4. ReqInv /\ FaultsOnlyWhenFull
  BY DEF Init, ReqInv, NoReq, FaultsOnlyWhenFull
<1> QED BY <1>2, <1>3, <1>4 DEF IInv

(* Every step keeps the invariant. *)
LEMMA NextIInv == IInv /\ [Next]_vars => IInv'
<1> SUFFICES ASSUME IInv, [Next]_vars PROVE IInv'
  OBVIOUS
<1>1. ASSUME NEW n \in Requests, allocate(n) PROVE IInv'
  BY <1>1, AllocateIInv
<1>2. CASE AllocFound
  BY <1>2, FoundIInv
<1>3. CASE AllocGrow
  BY <1>3, GrowIInv
<1>4. CASE AllocAdvance
  BY <1>4, AdvanceIInv
<1>5. ASSUME NEW b \in live, free(b) PROVE IInv'
  BY <1>5, FreeIInv
<1>6. ASSUME NEW b \in live, NEW w \in DataWords, UserWrite(b, w) PROVE IInv'
  BY <1>6, WriteIInv
<1>7. CASE UNCHANGED vars
  <2>1. UNCHANGED <<mem, brk, req, faulted, live, blocks>>
    BY <1>7 DEF vars
  <2>2. TypeOK' /\ FaultsOnlyWhenFull'
    BY <2>1 DEF IInv, TypeOK, FaultsOnlyWhenFull
  <2>3. ~faulted => (Tiling /\ FootersMatch /\ LiveArePresent /\ Coalesced /\ ReqInv)'
    BY <2>1 DEF IInv, Tiling, FootersMatch, LiveArePresent, Coalesced, ReqInv, NextOf,
                CHEAP_NEXT_BLOCK, CHEAP_FOOTER
  <2> QED BY <2>1, <2>2, <2>3 DEF IInv
<1>8. CASE Fault
  BY <1>7, <1>8 DEF Fault
<1> QED BY <1>1, <1>2, <1>3, <1>4, <1>5, <1>6, <1>7, <1>8 DEF Next, AllocStep

LEMMA SpecIInv == Spec => []IInv
  BY InitIInv, NextIInv, PTL DEF Spec
-----------------------------------------------------------------------------
(* Once nothing is live no block is present, and of two neighbours one is. *)
LEMMA WholeWhenFreed ==
    ASSUME IInv, ~faulted
    PROVE  FreedIsWhole
<1> USE DEF IInv
<1> SUFFICES ASSUME live = {}, brk # Base
             PROVE  blocks = {Base} /\ NextOf(Base) = brk /\ ~mem[Base].present
  BY DEF FreedIsWhole
<1>0. Base \in Nat \ {0} /\ ZoneEnd \in Nat
  BY HeapAssumption
<1>1. Structure(mem, blocks, brk) /\ Marked(mem, blocks, brk, live)
  BY PartsOf
<1>2. mem \in [Address -> Word] /\ brk \in Base..ZoneEnd
  BY DEF TypeOK
<1>3. Base \in blocks
  BY <1>1 DEF Structure
<1>4. \A h \in blocks : ~mem[h].present
  BY <1>1 DEF Marked
<1>5. CHEAP_NEXT_BLOCK(mem, Base) = brk
  <2>1. CHEAP_NEXT_BLOCK(mem, Base) \notin blocks
    BY <1>1, <1>3, <1>4 DEF Marked
  <2> QED BY <2>1, <1>1, <1>3 DEF Structure
<1>6. \A h \in blocks : h = Base
  <2> SUFFICES ASSUME NEW h \in blocks PROVE h = Base
    OBVIOUS
  <2>1. h \in Nat /\ Base <= h /\ h + 2 <= brk
    BY <1>1, <1>2, BlockFacts DEF Structure
  <2>2. Base < h => brk <= h
    BY <1>1, <1>3, <1>5 DEF Structure
  <2> QED BY <2>1, <2>2, <1>0, <1>2
<1> QED BY <1>3, <1>4, <1>5, <1>6 DEF NextOf

(* CoreHeap.cc 58-141: after any sequence of allocate() and free(), with any
   data stored in between, the headers tile the heap, the footers agree with
   them, the present blocks are the ones callers have, no two neighbours are
   free, and a heap with nothing in it is one free block. *)
THEOREM SpecHeapInv == Spec => []HeapInv
<1>1. IInv => HeapInv
  <2> SUFFICES ASSUME IInv PROVE HeapInv
    OBVIOUS
  <2>1. ~faulted => FreedIsWhole
    BY WholeWhenFreed
  <2> QED BY <2>1 DEF HeapInv, IInv
<1> QED BY <1>1, SpecIInv, PTL

(* CoreHeap.cc 58-141: the blocks two callers have never share a word, and lie
   below the break. *)
THEOREM SpecLiveDisjoint == Spec => []LiveDisjoint
<1>1. IInv => LiveDisjoint
  <2> SUFFICES ASSUME IInv, ~faulted
               PROVE  /\ \A b \in live : Data(b) \subseteq Base..(brk - 1)
                      /\ \A b, c \in live : b # c => Data(b) \cap Data(c) = {}
    BY DEF LiveDisjoint
  <2> USE DEF IInv
  <2>0. Base \in Nat \ {0} /\ ZoneEnd \in Nat
    BY HeapAssumption
  <2>1. CASE live = {}
    BY <2>1
  <2>2. CASE live # {}
    <3>1. Structure(mem, blocks, brk) /\ Marked(mem, blocks, brk, live)
      BY <2>2, PartsOf DEF ReqInv
    <3>2. mem \in [Address -> Word] /\ brk \in Base..ZoneEnd
      BY DEF TypeOK
    <3>3. ASSUME NEW b \in live
          PROVE  /\ b.hdr \in blocks /\ b.hdr \in Nat /\ Base <= b.hdr /\ b.words \in Nat
                 /\ CHEAP_NEXT_BLOCK(mem, b.hdr) = b.hdr + 2 + b.words
                 /\ b.hdr + 2 + b.words <= brk
      <4>1. b.hdr \in blocks /\ mem[b.hdr].size = b.words
        BY <3>1 DEF Marked
      <4> QED BY <4>1, <3>1, <3>2, BlockFacts
    <3>4. \A b \in live : Data(b) \subseteq Base..(brk - 1)
      BY <3>2, <3>3, <2>0 DEF Data
    <3>5. ASSUME NEW b \in live, NEW c \in live, b.hdr < c.hdr
          PROVE  Data(b) \cap Data(c) = {}
      <4>1. b.hdr + 2 + b.words <= c.hdr
        BY <3>1, <3>3, <3>5 DEF Structure
      <4> QED BY <4>1, <3>3 DEF Data
    <3>6. ASSUME NEW b \in live, NEW c \in live, b.hdr = c.hdr
          PROVE  b = c
      <4>1. b \in [hdr : Address, words : Nat] /\ c \in [hdr : Address, words : Nat]
        BY DEF TypeOK
      <4>2. b.words = c.words
        BY <3>1, <3>6 DEF Marked
      <4> QED BY <4>1, <4>2, <3>6
    <3>7. \A b, c \in live : b # c => Data(b) \cap Data(c) = {}
      <4> SUFFICES ASSUME NEW b \in live, NEW c \in live, b # c
                   PROVE  Data(b) \cap Data(c) = {}
        OBVIOUS
      <4>1. b.hdr \in Nat /\ c.hdr \in Nat
        BY <3>3
      <4>2. b.hdr < c.hdr \/ c.hdr < b.hdr
        BY <4>1, <3>6
      <4>3. CASE b.hdr < c.hdr
        BY <4>3, <3>5
      <4>4. CASE c.hdr < b.hdr
        <5>1. Data(c) \cap Data(b) = {}
          BY <4>4, <3>5
        <5> QED BY <5>1
      <4> QED BY <4>2, <4>3, <4>4
    <3> QED BY <3>4, <3>7
  <2> QED BY <2>1, <2>2
<1> QED BY <1>1, SpecIInv, PTL

(* CoreHeap.cc 77-82: the store beyond the break, which faults, happens only
   when the zone has no page left. *)
THEOREM SpecFaultsOnlyWhenFull == Spec => []FaultsOnlyWhenFull
<1>1. IInv => FaultsOnlyWhenFull
  BY DEF IInv
<1> QED BY <1>1, SpecIInv, PTL

(* A live block that starts outside of what a step rebuilds lies outside. *)
LEMMA RebuiltKeepsData ==
    ASSUME HeapReady, NEW q, NEW e \in Int, NEW C, Rebuilt(q, e, C),
           NEW b \in live, b.hdr < q \/ b.hdr >= e, NEW a \in Data(b)
    PROVE  mem'[a] = mem[a]
<1> USE DEF HeapReady
<1>0. Base \in Nat \ {0} /\ ZoneEnd \in Nat
  BY HeapAssumption
<1>1. Structure(mem, blocks, brk) /\ Marked(mem, blocks, brk, live)
  BY PartsOf
<1>2. mem \in [Address -> Word] /\ brk \in Base..ZoneEnd
  BY DEF TypeOK
<1>3. PICK h \in blocks : h = b.hdr /\ mem[h].size = b.words
  BY <1>1 DEF Marked
<1>4. PICK s \in Nat : s = b.words
  BY <1>1, <1>2, <1>3, BlockFacts
<1>5. /\ h \in Nat /\ Base <= h /\ CHEAP_NEXT_BLOCK(mem, h) = h + 2 + s /\ h + 2 + s <= brk
  BY <1>1, <1>2, <1>3, <1>4, BlockFacts
<1>6. a \in h + 1..h + s
  BY <1>3, <1>4 DEF Data
<1>7. a \in Nat /\ h < a /\ a <= h + s /\ a \in Address
  BY <1>0, <1>2, <1>5, <1>6 DEF Address
<1>8. q \in blocks /\ q \in Nat
  BY <1>0, <1>1, <1>2, BlockFacts DEF Rebuilt, Retiled
<1>9. h < q => h + 2 + s <= q
  BY <1>1, <1>5, <1>8 DEF Structure
<1>10. a < q \/ a >= e
  BY <1>3, <1>4, <1>5, <1>7, <1>8, <1>9
<1> QED BY <1>7, <1>10 DEF Rebuilt, Retiled

(* At the end of the zone only the header of the last block is stored to. *)
LEMMA FaultKeepsData ==
    ASSUME HeapReady, AllocGrow, brk' = brk, NEW b \in live, NEW a \in Data(b)
    PROVE  mem'[a] = mem[a]
<1> USE DEF HeapReady
<1>0. Base \in Nat \ {0} /\ ZoneEnd \in Nat
  BY HeapAssumption
<1>1. Structure(mem, blocks, brk) /\ Marked(mem, blocks, brk, live)
  BY PartsOf
<1>2. mem \in [Address -> Word] /\ brk \in Base..ZoneEnd
  BY DEF TypeOK
<1>3. PICK h \in blocks : h = b.hdr /\ mem[h].size = b.words /\ mem[h].present
  BY <1>1 DEF Marked
<1>4. PICK s \in Nat : s = b.words
  BY <1>1, <1>2, <1>3, BlockFacts
<1>5. /\ h \in Nat /\ CHEAP_NEXT_BLOCK(mem, h) = h + 2 + s
  BY <1>1, <1>2, <1>3, <1>4, BlockFacts
<1>6. a \in h + 1..h + s
  BY <1>3, <1>4 DEF Data
<1>7. PICK q \in blocks : q = req.ptr
  BY DEF AllocGrow, ReqInv
<1>8. q \in Nat /\ (h < q => h + 2 + s <= q)
  BY <1>1, <1>2, <1>5, BlockFacts DEF Structure
<1>9. a # q
  BY <1>5, <1>6, <1>8
<1>10. mem' = [mem EXCEPT ![q] = Info(mem[q].size + PageWords, FALSE, FALSE)]
  BY <1>7 DEF AllocGrow
<1> QED BY <1>2, <1>9, <1>10

(* CoreHeap.cc 58-141: no step of allocate() or free() changes a word of a
   block somebody has before and after it. *)
THEOREM SpecDataKept == Spec => DataKept
<1> DEFINE A == <<brk, req, live>>' # <<brk, req, live>> =>
                  \A b \in live \cap live' : \A a \in Data(b) : mem'[a] = mem[a]
<1>1. IInv /\ [Next]_vars => [A]_vars
  <2> SUFFICES ASSUME IInv, Next PROVE A
    OBVIOUS
  <2> SUFFICES ASSUME <<brk, req, live>>' # <<brk, req, live>>,
                      NEW b \in live, b \in live', NEW a \in Data(b)
               PROVE  mem'[a] = mem[a]
    OBVIOUS
  <2> HIDE DEF A
  <2>1. ASSUME NEW n \in Requests, allocate(n) PROVE mem'[a] = mem[a]
    <3>1. brk # Base
      BY <2>1 DEF IInv, allocate, ReqInv
    <3> QED BY <3>1, <2>1 DEF allocate
  <2>2. CASE AllocFound
    <3>1. HeapReady
      BY <2>2 DEF IInv, AllocFound, HeapReady, ReqInv
    <3>2. PICK e \in Int : \E C : /\ Rebuilt(req.ptr, e, C)
                                  /\ \A c \in live : c.hdr < req.ptr \/ c.hdr >= e
      BY <3>1, <2>2, FoundRebuilds
    <3> QED BY <3>1, <3>2, RebuiltKeepsData
  <2>3. CASE AllocGrow
    <3>1. HeapReady
      BY <2>3 DEF IInv, AllocGrow, HeapReady, ReqInv
    <3>2. CASE brk' = brk
      BY <3>1, <3>2, <2>3, FaultKeepsData
    <3>3. CASE brk' # brk
      <4>1. PICK e \in Int : \E C : /\ Rebuilt(req.ptr, e, C)
                                    /\ \A c \in live : c.hdr < req.ptr \/ c.hdr >= e
        BY <3>1, <3>3, <2>3, GrowRebuilds
      <4> QED BY <3>1, <4>1, RebuiltKeepsData
    <3> QED BY <3>2, <3>3
  <2>4. CASE AllocAdvance
    BY <2>4 DEF AllocAdvance
  <2>5. ASSUME NEW c \in live, free(c) PROVE mem'[a] = mem[a]
    <3>1. HeapReady
      BY <2>5 DEF IInv, free, HeapReady, ReqInv
    <3>2. PICK q, e \in Int : /\ Rebuilt(q, e, {q})
                              /\ \A d \in live' : d \in live /\ (d.hdr < q \/ d.hdr >= e)
      BY <3>1, <2>5, FreeRebuilds
    <3> QED BY <3>1, <3>2, RebuiltKeepsData
  <2>6. ASSUME NEW c \in live, NEW w \in DataWords, UserWrite(c, w) PROVE mem'[a] = mem[a]
    BY <2>6 DEF UserWrite
  <2>7. CASE Fault
    BY <2>7 DEF Fault, vars
  <2> QED BY <2>1, <2>2, <2>3, <2>4, <2>5, <2>6, <2>7 DEF Next, AllocStep
<1> QED BY <1>1, SpecIInv, PTL DEF Spec, DataKept
=============================================================================
