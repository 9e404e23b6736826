------------------------ MODULE PhysicalMemoryProofs ------------------------
(***************************************************************************)
(* Proofs about PhysicalMemory, for every size of bitmap and page, every   *)
(* memory map, every set of owners and requests.                           *)
(***************************************************************************)
EXTENDS PhysicalMemory, WellFoundedInduction, TLAPS

(* getIndexOf() returns the smallest hit: a non-empty set of naturals has a
   smallest element. *)
LEMMA SmallestExists ==
    ASSUME NEW T \in SUBSET Nat, T # {}
    PROVE  /\ Smallest(T) \in T
           /\ \A y \in T : Smallest(T) <= y
<1> DEFINE R == OpToRel(<, Nat)
<1>1. IsWellFoundedOn(R, Nat)
  BY NatLessThanWellFounded, Zenon
<1>2. PICK x \in T : \A y \in T : ~ (<<y, x>> \in R)
  <2> HIDE DEF R
  <2> QED BY <1>1, WFMin, Zenon
<1>3. \A y \in T : ~ (y < x)
  BY <1>2 DEF OpToRel
<1>4. \A y \in T : x <= y
  BY <1>3
<1> QED BY <1>4 DEF Smallest

(* BitMap::getIndexOf() returns -1 or an index the bitmap has. *)
LEMMA GetIndexOfType ==
    ASSUME NEW bits, NEW value \in BOOLEAN, NEW start \in Int
    PROVE  GetIndexOf(bits, value, start) \in Nat \cup {-1}
<1> DEFINE H == Hits(bits, value, start)
<1>1. H \subseteq Nat
  BY BitMapAssumption DEF Hits, LastSearched
<1>2. CASE H = {}
  BY <1>2 DEF GetIndexOf, NotFound
<1>3. CASE H # {}
  BY <1>1, <1>3, SmallestExists DEF GetIndexOf
<1> QED BY <1>2, <1>3

(* SCALE_TO_INDEX: the frame of an address is a natural number. *)
LEMMA DivNat ==
    ASSUME NEW x \in Nat, NEW a \in Nat \ {0}
    PROVE  x \div a \in Nat
OBVIOUS

(* SCALE_TO_PHYS: the address of a frame is a natural number. *)
LEMMA MulNat ==
    ASSUME NEW x \in Nat, NEW a \in Nat
    PROVE  x * a \in Nat
OBVIOUS

(* SCALE_TO_INDEX undoes SCALE_TO_PHYS. *)
LEMMA MulDiv ==
    ASSUME NEW n \in Nat, NEW a \in Nat \ {0}
    PROVE  (n * a) \div a = n
OBVIOUS

(* ALIGN_DOWN leaves an aligned address alone. *)
LEMMA DivMul ==
    ASSUME NEW x \in Nat, NEW a \in Nat \ {0}, x % a = 0
    PROVE  (x \div a) * a = x
OBVIOUS

(* SCALE_TO_INDEX keeps the order of addresses. *)
LEMMA DivMonotonic ==
    ASSUME NEW x \in Nat, NEW y \in Nat, x <= y, NEW a \in Nat \ {0}
    PROVE  x \div a <= y \div a
OBVIOUS

(* ALIGN_DOWN goes down by less than one page. *)
LEMMA DivBounds ==
    ASSUME NEW x \in Nat, NEW a \in Nat \ {0}
    PROVE  (x \div a) * a <= x /\ x < (x \div a) * a + a
OBVIOUS

(* One page further is the next frame. *)
LEMMA DivStep ==
    ASSUME NEW x \in Nat, NEW a \in Nat \ {0}
    PROVE  (x + a) \div a = (x \div a) + 1
OBVIOUS

(* Counting a region does not wrap when it is not empty. *)
LEMMA ModSmall ==
    ASSUME NEW x \in Nat, NEW a \in Nat \ {0}, x < a
    PROVE  x % a = x
OBVIOUS

(* PAGE_COUNT of a request is at least one frame. *)
LEMMA PageCountPositive ==
    ASSUME NEW x \in Nat \ {0}
    PROVE  PAGE_COUNT(x) \in Nat \ {0}
<1> PAGE_SIZE_DEFAULT \in Nat \ {0}
  BY PageAssumption
<1>1. x \div PAGE_SIZE_DEFAULT \in Nat
  BY DivNat
<1>2. x % PAGE_SIZE_DEFAULT = 0 => x \div PAGE_SIZE_DEFAULT # 0
  <2> SUFFICES ASSUME x % PAGE_SIZE_DEFAULT = 0, x \div PAGE_SIZE_DEFAULT = 0
               PROVE  FALSE
    OBVIOUS
  <2>1. (x \div PAGE_SIZE_DEFAULT) * PAGE_SIZE_DEFAULT = x
    BY DivMul
  <2> QED BY <2>1
<1> QED BY <1>1, <1>2 DEF PAGE_COUNT

(* Even the -1 of a failed scan leaves an address that can be rounded up. *)
LEMMA CandidateRoomAbove ==
    ASSUME NEW start \in Int, NEW align \in Nat, align >= PAGE_SIZE_DEFAULT
    PROVE  SCALE_TO_PHYS(GetIndexOf(spBitmap, FALSE, start)) + align \in Nat
<1> DEFINE j == GetIndexOf(spBitmap, FALSE, start)
<1>1. j \in Nat \cup {-1}
  BY GetIndexOfType
<1> HIDE DEF j
<1>2. ASSUME j = -1 PROVE SCALE_TO_PHYS(j) + align \in Nat
  <2>1. j * PAGE_SIZE_DEFAULT = -PAGE_SIZE_DEFAULT
    BY <1>2, PageAssumption
  <2>2. PAGE_SIZE_DEFAULT \in Nat
    BY PageAssumption
  <2> QED BY <2>1, <2>2 DEF SCALE_TO_PHYS
<1>3. ASSUME j \in Nat PROVE SCALE_TO_PHYS(j) + align \in Nat
  <2>1. j * PAGE_SIZE_DEFAULT \in Nat
    BY <1>3, PageAssumption, MulNat
  <2> QED BY <2>1 DEF SCALE_TO_PHYS
<1>4. SCALE_TO_PHYS(j) + align \in Nat
  BY <1>1, <1>2, <1>3
<1> QED BY <1>4 DEF j

(* The index allocateAligned() tries next is a natural number: the -1 of a
   failed scan is rounded up to 0 and never seen by the loop condition. *)
LEMMA NextCandidateType ==
    ASSUME NEW start \in Int, NEW align \in Nat, align >= PAGE_SIZE_DEFAULT
    PROVE  NextCandidate(start, align) \in Nat
<1> DEFINE j == GetIndexOf(spBitmap, FALSE, start)
           x == SCALE_TO_PHYS(j) + align
<1>2. x \in Nat
  BY CandidateRoomAbove
<1>3. align \in Nat \ {0}
  BY PageAssumption
<1>4. ALIGN_UP(SCALE_TO_PHYS(j), align) \in Nat
  <2>1. x \div align \in Nat
    BY <1>2, <1>3, DivNat
  <2> QED BY <2>1, <1>3, MulNat DEF ALIGN_UP, ALIGN_DOWN
<1> QED BY <1>4, DivNat, PageAssumption DEF NextCandidate, SCALE_TO_INDEX, j
-----------------------------------------------------------------------------
(* reserve(0, 0x100000) sets the bit of frame 0, although it misses the last
   page of its region. *)
LEMMA LowRegionHasZero == 0 \in RegionFrames(0, LowEnd)
<1> DEFINE ps == PAGE_SIZE_DEFAULT
<1>0. ps \in Nat \ {0} /\ WORD \in Nat \ {0} /\ LowEnd \in Nat
  BY PageAssumption, LayoutAssumption
<1>1. ALIGN_DOWN(LowEnd, ps) = LowEnd
  BY <1>0, DivMul, LayoutAssumption DEF ALIGN_DOWN
<1>2. (LowEnd - 0 - ps) % WORD = LowEnd - ps
  BY <1>0, ModSmall, LayoutAssumption
<1>3. (LowEnd - ps) \div ps >= 1
  BY <1>0, DivMonotonic, LayoutAssumption
<1>4. RegionPages(0, LowEnd) >= 1 /\ RegionPages(0, LowEnd) \in Nat
  BY <1>0, <1>1, <1>2, <1>3, DivNat, LayoutAssumption DEF RegionPages
<1>5. SCALE_TO_INDEX(0) = 0
  BY <1>0 DEF SCALE_TO_INDEX
<1>6. 0 \in Index
  BY BitMapAssumption, MulNat DEF Index, Size
<1> QED BY <1>4, <1>5, <1>6 DEF RegionFrames

(* The region reserved for the kernel covers the image: what the last page
   that is missed takes away, the CORE_LMA_START bytes too many give back. *)
LEMMA CoreRegionCoversImage ==
    KernelFrames \cap Index \subseteq
      RegionFrames(CoreStart,
        CoreStart + ALIGN_DOWN(CoreEbss + PAGE_SIZE_DEFAULT, PAGE_SIZE_DEFAULT))
<1> DEFINE ps == PAGE_SIZE_DEFAULT
           c == CoreStart \div ps
           q == CoreEbss \div ps
           end == CoreStart + ALIGN_DOWN(CoreEbss + ps, ps)
<1>0. ps \in Nat \ {0} /\ WORD \in Nat \ {0} /\ CoreStart \in Nat /\ CoreEbss \in Nat
  BY PageAssumption, LayoutAssumption
<1>1. c \in Nat /\ q \in Nat /\ c * ps = CoreStart /\ c >= 1
  <2>1. c \in Nat /\ q \in Nat /\ c * ps = CoreStart
    BY <1>0, DivNat, DivMul, LayoutAssumption
  <2>2. c >= 1
    BY <1>0, <2>1, LayoutAssumption, DivMonotonic
  <2> QED BY <2>1, <2>2
<1>2. ALIGN_DOWN(CoreEbss + ps, ps) = (q + 1) * ps
  BY <1>0, DivStep DEF ALIGN_DOWN
<1>3. end = (c + q + 1) * ps
  BY <1>0, <1>1, <1>2
<1>4. ALIGN_DOWN(end, ps) = end
  <2> HIDE DEF c, q, end
  <2>1. end \div ps = c + q + 1
    BY <1>0, <1>1, <1>3, MulDiv
  <2> QED BY <2>1, <1>3 DEF ALIGN_DOWN
<1>5. end - CoreStart - ps = q * ps
  BY <1>0, <1>1, <1>2
<1>6. q * ps <= CoreEbss /\ q * ps \in Nat
  BY <1>0, DivBounds, DivNat, MulNat
<1>7. (q * ps) % WORD = q * ps
  BY <1>0, <1>6, ModSmall, LayoutAssumption
<1>8. RegionPages(CoreStart, end) = q
  <2> HIDE DEF c, q, end
  <2> QED BY <1>0, <1>1, <1>4, <1>5, <1>7, MulDiv DEF RegionPages
<1>9. (CoreEbss - 1) \div ps <= q
  BY <1>0, DivMonotonic, LayoutAssumption
<1>10. (CoreEbss - 1) \div ps \in Nat
  BY <1>0, DivNat, LayoutAssumption
<1>11. RegionFrames(CoreStart, end) = Index \cap (c..(c + q - 1))
  <2> HIDE DEF q, end
  <2> QED BY <1>8 DEF RegionFrames, SCALE_TO_INDEX
<1>12. KernelFrames = c..((CoreEbss - 1) \div ps)
  BY DEF KernelFrames
<1>13. c..((CoreEbss - 1) \div ps) \subseteq c..(c + q - 1)
  <2> DEFINE e == (CoreEbss - 1) \div ps
  <2> HIDE DEF c, q, e
  <2> QED BY <1>1, <1>9, <1>10 DEF e
<1> HIDE DEF end, c, q
<1> QED BY <1>11, <1>12, <1>13 DEF end
-----------------------------------------------------------------------------
(* An owner that has nothing holds no frame. *)
LEMMA NoExtentEmpty == FramesOf(NoExtent) = {}
BY DEF FramesOf, NoExtent

(* The record for no running search is not one of a running one. *)
LEMMA NoSearchNotSearch == NoSearch \notin Search /\ ~NoSearch.running
BY DEF NoSearch, Search

(* setRegion() keeps to the bitmap; reserving clears no bit and, from a page
   aligned start, sets the bits of its region. *)
LEMMA SetRegionEffect ==
    ASSUME spBitmap \subseteq Index, NEW start, NEW end, NEW value \in BOOLEAN,
           SetRegion(start, end, value)
    PROVE  /\ spBitmap' \subseteq Index
           /\ halted' \in BOOLEAN
           /\ value => spBitmap \subseteq spBitmap'
           /\ value /\ start % PAGE_SIZE_DEFAULT = 0 =>
                RegionFrames(start, end) \subseteq spBitmap'
<1>1. CASE start % PAGE_SIZE_DEFAULT # 0
  BY <1>1 DEF SetRegion
<1>2. CASE start % PAGE_SIZE_DEFAULT = 0
  <2>1. /\ spBitmap' = SetBits(spBitmap, RegionFrames(start, end), value)
        /\ halted' \in BOOLEAN
    BY <1>2 DEF SetRegion
  <2>2. RegionFrames(start, end) \subseteq Index
    BY DEF RegionFrames
  <2> QED BY <2>1, <2>2 DEF SetBits
<1> QED BY <1>1, <1>2

(* tryAllocate() gives an owner that has nothing a run of frames that were
   free, so the accounts stay right and the owners' frames apart. *)
LEMMA GrantEffect ==
    ASSUME IInv, phase = "run", NEW o \in Owner, hold[o] = NoExtent,
           NEW index \in Nat, NEW count \in Nat \ {0},
           Fits(index, count), Grant(o, index, count), UNCHANGED <<phase, usable>>
    PROVE  /\ spBitmap' \subseteq Index
           /\ hold' \in [Owner -> Extent]
           /\ FramesAccounted'
           /\ GrantsDisjoint'
           /\ spBitmap \subseteq spBitmap'
           /\ \A p \in Owner : FramesOf(hold'[p]) \subseteq usable
           /\ \A p \in Owner : hold'[p] = NoExtent \/ hold'[p].count > 0
           /\ FramesOf(hold'[o]) \in {a..b : a, b \in Index} \ {{}}
           /\ FramesOf(hold'[o]) \cap spBitmap = {}
           /\ spBitmap' = spBitmap \cup FramesOf(hold'[o])
<1> DEFINE e == [index |-> index, count |-> count]
           F == FramesOf(e)
<1>1. F \subseteq Index /\ F # {} /\ F \in {a..b : a, b \in Index}
  <2>1. index + count <= Size /\ Size \in Nat
    BY BitMapAssumption, MulNat DEF Fits, Size
  <2>2. F = index..(index + count - 1)
    BY DEF FramesOf
  <2>3. index \in Index /\ index + count - 1 \in Index
    BY <2>1 DEF Index
  <2> HIDE DEF F
  <2>4. F \subseteq Index
    BY <2>1, <2>2 DEF Index
  <2>5. index \in F
    BY <2>2
  <2>6. \E a, b \in Index : F = a..b
    BY <2>2, <2>3
  <2> QED BY <2>4, <2>5, <2>6
<1>2. F \cap spBitmap = {}
  BY DEF Fits
<1>3. hold' = [hold EXCEPT ![o] = e] /\ spBitmap' = spBitmap \cup F
  BY DEF Grant, SetBits
<1>4. e \in Extent /\ e # NoExtent /\ e.count > 0
  BY DEF Extent, NoExtent
<1>5. hold \in [Owner -> Extent] /\ spBitmap \subseteq Index /\ usable \subseteq Index
  BY DEF IInv, TypeOK
<1>6. hold'[o] = e /\ \A p \in Owner : p # o => hold'[p] = hold[p]
  BY <1>3, <1>5
<1>7. spBitmap = (Index \ usable) \cup Held
  BY DEF IInv, FramesAccounted
<1>8. F \subseteq usable /\ F \cap Held = {}
  BY <1>1, <1>2, <1>7
<1> HIDE DEF F, e
<1>9. Held' = Held \cup F
  <2>1. Held' = UNION {FramesOf(hold'[p]) : p \in Owner}
    BY DEF Held, FramesOf
  <2>2. \A p \in Owner : FramesOf(hold'[p]) = IF p = o THEN F ELSE FramesOf(hold[p])
    BY <1>6 DEF F
  <2>3. FramesOf(hold[o]) = {}
    BY NoExtentEmpty
  <2> QED BY <2>1, <2>2, <2>3 DEF Held
<1>10. FramesAccounted'
  BY <1>1, <1>3, <1>5, <1>7, <1>8, <1>9 DEF FramesAccounted, Index
<1>11. GrantsDisjoint'
  <2>1. \A p \in Owner : FramesOf(hold[p]) \cap F = {}
    BY <1>8 DEF Held
  <2>2. \A p, r \in Owner : p # r => FramesOf(hold'[p]) \cap FramesOf(hold'[r]) = {}
    BY <1>6, <2>1 DEF IInv, GrantsDisjoint, F
  <2> QED BY <2>2 DEF GrantsDisjoint, FramesOf
<1>12. \A p \in Owner : FramesOf(hold'[p]) \subseteq usable
  BY <1>6, <1>8 DEF IInv, HoldInv, F
<1>13. \A p \in Owner : hold'[p] = NoExtent \/ hold'[p].count > 0
  BY <1>4, <1>6 DEF IInv, HoldInv
<1> QED BY <1>1, <1>2, <1>3, <1>4, <1>5, <1>6, <1>10, <1>11, <1>12, <1>13 DEF F

(* free() returns exactly what its owner had. *)
LEMMA FreeEffect ==
    ASSUME IInv, phase = "run", NEW o \in Owner, free(o)
    PROVE  /\ spBitmap' \subseteq Index
           /\ hold' \in [Owner -> Extent]
           /\ FramesAccounted'
           /\ GrantsDisjoint'
           /\ \A p \in Owner : FramesOf(hold'[p]) \subseteq usable
           /\ \A p \in Owner : hold'[p] = NoExtent \/ hold'[p].count > 0
           /\ spBitmap' = spBitmap \ FramesOf(hold[o])
           /\ FramesOf(hold[o]) \subseteq Index
<1> DEFINE F == FramesOf(hold[o])
<1>1. spBitmap' = spBitmap \ F /\ hold' = [hold EXCEPT ![o] = NoExtent]
  BY DEF free, SetBits
<1>2. hold \in [Owner -> Extent] /\ spBitmap \subseteq Index /\ usable \subseteq Index
  BY DEF IInv, TypeOK
<1>3. hold'[o] = NoExtent /\ \A p \in Owner : p # o => hold'[p] = hold[p]
  BY <1>1, <1>2
<1>4. spBitmap = (Index \ usable) \cup Held /\ F \subseteq usable
  BY DEF IInv, FramesAccounted, HoldInv
<1>5. \A p \in Owner : p # o => FramesOf(hold[p]) \cap F = {}
  BY DEF IInv, GrantsDisjoint
<1> HIDE DEF F
<1>6. Held' = Held \ F
  <2>1. Held' = UNION {FramesOf(hold'[p]) : p \in Owner}
    BY DEF Held, FramesOf
  <2>2. \A p \in Owner : FramesOf(hold'[p]) = IF p = o THEN {} ELSE FramesOf(hold[p])
    BY <1>3, NoExtentEmpty
  <2>3. \A p \in Owner : FramesOf(hold'[p]) = FramesOf(hold[p]) \ F
    BY <1>5, <2>2 DEF F
  <2> QED BY <2>1, <2>3 DEF Held
<1>7. FramesAccounted'
  <2>1. UNCHANGED <<phase, usable>>
    BY DEF free
  <2> QED BY <1>1, <1>4, <1>6, <2>1 DEF FramesAccounted, Index
<1>8. GrantsDisjoint'
  <2>1. \A p, r \in Owner : p # r => FramesOf(hold'[p]) \cap FramesOf(hold'[r]) = {}
    BY <1>3, NoExtentEmpty DEF IInv, GrantsDisjoint
  <2> QED BY <2>1 DEF GrantsDisjoint, FramesOf
<1>9. \A p \in Owner : FramesOf(hold'[p]) \subseteq usable
  BY <1>3, NoExtentEmpty DEF IInv, HoldInv
<1>10. \A p \in Owner : hold'[p] = NoExtent \/ hold'[p].count > 0
  BY <1>3 DEF IInv, HoldInv
<1>11. hold' \in [Owner -> Extent]
  BY <1>1, <1>2 DEF NoExtent, Extent
<1> QED BY <1>1, <1>2, <1>4, <1>7, <1>8, <1>9, <1>10, <1>11 DEF F
-----------------------------------------------------------------------------
(* Before boot() every bit is set and nobody has a frame. *)
LEMMA InitIInv == Init => IInv
<1> SUFFICES ASSUME Init PROVE IInv
  OBVIOUS
<1> USE DEF Init
<1>1. TypeOK
  <2>1. hold \in [Owner -> Extent]
    BY DEF NoExtent, Extent
  <2>2. spBitmap \subseteq Index /\ usable \subseteq Index
    BY DEF AllBits
  <2>3. halted \in BOOLEAN /\ phase \in {"ranges", "core", "apic", "run"}
    BY Zenon
  <2>4. pos \in Nat \ {0} /\ mmap \in MemoryMaps
    OBVIOUS
  <2> QED BY <2>1, <2>2, <2>3, <2>4 DEF TypeOK
<1>2. FramesAccounted /\ BootInv
  BY DEF FramesAccounted, BootInv
<1>3. GrantsDisjoint /\ HoldInv
  BY NoExtentEmpty DEF GrantsDisjoint, HoldInv
<1> QED BY <1>1, <1>2, <1>3 DEF IInv

(* The steps of boot(). *)
LEMMA BootStepIInv ==
    ASSUME IInv, BootStep
    PROVE  IInv'
<1>0. spBitmap \subseteq Index /\ pos \in Nat \ {0} /\ phase # "run"
  BY DEF IInv, TypeOK, BootStep, BootRange, ReserveLow, ReserveCore, ReserveApic
<1>1. UNCHANGED <<mmap, search, hold>> /\ search = NoSearch
      /\ \A o \in Owner : hold[o] = NoExtent
  BY <1>0 DEF IInv, BootInv, BootStep, BootRange, ReserveLow, ReserveCore, ReserveApic
<1>2. GrantsDisjoint'
  BY <1>1 DEF IInv, GrantsDisjoint, FramesOf
<1>3. Held' = {}
  BY <1>1, NoExtentEmpty DEF Held, FramesOf
<1>4. HoldInv'
  BY <1>1, NoExtentEmpty DEF HoldInv, FramesOf
<1>5. CASE BootRange
  <2>1. spBitmap' \subseteq Index /\ halted' \in BOOLEAN
    BY <1>0, <1>5, SetRegionEffect DEF BootRange, available, IInv, TypeOK
  <2>2. pos' \in Nat \ {0} /\ UNCHANGED <<phase, usable>> /\ phase = "ranges"
    BY <1>0, <1>5 DEF BootRange
  <2> QED BY <1>1, <1>2, <1>4, <2>1, <2>2
          DEF IInv, TypeOK, FramesAccounted, BootInv, Protected, KernelFrames
<1>6. CASE ReserveLow
  <2>1. reserve(0, LowEnd) /\ 0 % PAGE_SIZE_DEFAULT = 0
    BY <1>6, PageAssumption DEF ReserveLow
  <2>2. spBitmap' \subseteq Index /\ halted' \in BOOLEAN /\ 0 \in spBitmap'
    BY <1>0, <2>1, SetRegionEffect, LowRegionHasZero DEF reserve
  <2>3. phase' = "core" /\ UNCHANGED <<pos, usable>>
    BY <1>6 DEF ReserveLow
  <2> QED BY <1>1, <1>2, <1>4, <2>2, <2>3
          DEF IInv, TypeOK, FramesAccounted, BootInv, Protected, KernelFrames
<1>7. CASE ReserveCore
  <2> DEFINE end == CoreStart + ALIGN_DOWN(CoreEbss + PAGE_SIZE_DEFAULT, PAGE_SIZE_DEFAULT)
  <2>1. SetRegion(CoreStart, end, TRUE) /\ CoreStart % PAGE_SIZE_DEFAULT = 0
    BY <1>7, LayoutAssumption DEF ReserveCore, reserve
  <2>2. KernelFrames \cap Index \subseteq RegionFrames(CoreStart, end)
    BY CoreRegionCoversImage
  <2> HIDE DEF end
  <2>3. /\ spBitmap' \subseteq Index
        /\ halted' \in BOOLEAN
        /\ spBitmap \subseteq spBitmap'
        /\ RegionFrames(CoreStart, end) \subseteq spBitmap'
    BY <1>0, <2>1, SetRegionEffect
  <2>4. 0 \in spBitmap
    BY <1>7 DEF IInv, BootInv, ReserveCore
  <2>5. Protected \subseteq spBitmap'
    BY <2>2, <2>3, <2>4 DEF Protected
  <2>6. phase' = "apic" /\ UNCHANGED <<pos, usable>>
    BY <1>7 DEF ReserveCore
  <2> QED BY <1>1, <1>2, <1>4, <2>3, <2>4, <2>5, <2>6
          DEF IInv, TypeOK, FramesAccounted, BootInv, Protected, KernelFrames
<1>8. CASE ReserveApic
  <2>1. /\ spBitmap' \subseteq Index
        /\ halted' \in BOOLEAN
        /\ spBitmap \subseteq spBitmap'
    BY <1>0, <1>8, SetRegionEffect DEF ReserveApic, reserve
  <2>2. Protected \subseteq spBitmap
    BY <1>8 DEF IInv, BootInv, ReserveApic
  <2>3. 0 \in Protected
    BY DEF Protected
  <2>4. phase' = "run" /\ usable' = Index \ spBitmap' /\ UNCHANGED pos
    BY <1>8 DEF ReserveApic
  <2>5. FramesAccounted'
    BY <1>3, <2>1, <2>4 DEF FramesAccounted, Index
  <2>6. TypeOK'
    BY <1>1, <2>1, <2>4 DEF IInv, TypeOK, Index
  <2>7. BootInv'
    BY <1>1, <2>1, <2>2, <2>3, <2>4 DEF BootInv, Protected, KernelFrames
  <2> QED BY <1>2, <1>4, <2>5, <2>6, <2>7 DEF IInv
<1> QED BY <1>5, <1>6, <1>7, <1>8 DEF BootStep

(* What a grant or a release leaves of the invariant, put together. *)
LEMMA RunStepIInv ==
    ASSUME IInv, phase = "run",
           spBitmap' \subseteq Index, hold' \in [Owner -> Extent],
           FramesAccounted', GrantsDisjoint',
           \A p \in Owner : FramesOf(hold'[p]) \subseteq usable,
           \A p \in Owner : hold'[p] = NoExtent \/ hold'[p].count > 0,
           search' = NoSearch, halted' \in BOOLEAN,
           UNCHANGED <<phase, mmap, pos, usable>>
    PROVE  IInv'
<1>1. TypeOK'
  BY DEF IInv, TypeOK
<1>2. Protected \subseteq spBitmap'
  <2>1. Protected \subseteq Index
    BY BitMapAssumption, MulNat DEF Protected, Index, Size
  <2>2. usable \cap Protected = {}
    BY DEF IInv, BootInv
  <2>3. Index \ usable \subseteq spBitmap'
    BY DEF FramesAccounted, Index
  <2> QED BY <2>1, <2>2, <2>3
<1>3. BootInv'
  BY <1>2 DEF IInv, BootInv, Protected, KernelFrames
<1>4. HoldInv'
  BY DEF HoldInv, FramesOf
<1> QED BY <1>1, <1>3, <1>4 DEF IInv

(* Every step of boot(), of the calls and of the search loop keeps the
   invariant. *)
LEMMA NextIInv == IInv /\ [Next]_vars => IInv'
<1> SUFFICES ASSUME IInv, [Next]_vars PROVE IInv'
  OBVIOUS
<1>0. TypeOK /\ HoldInv /\ (phase # "run" => search = NoSearch)
  BY DEF IInv, BootInv
<1>1. CASE UNCHANGED vars
  BY <1>1 DEF vars, IInv, TypeOK, FramesAccounted, Held, GrantsDisjoint, FramesOf,
              BootInv, HoldInv, Protected, KernelFrames, AlignAsserted
<1>2. CASE Abort
  BY <1>1, <1>2 DEF Abort
<1>3. CASE BootStep
  BY <1>3, BootStepIInv
<1>4. ASSUME NEW o \in Owner, NEW l \in Lengths, NEW a \in Aligns, allocateAligned(o, l, a)
      PROVE  IInv'
  <2>1. a \in Nat /\ a >= PAGE_SIZE_DEFAULT /\ SCALE_TO_INDEX(a) \in Int
    BY <1>4, PageAssumption, DivNat DEF allocateAligned, AlignAsserted, SCALE_TO_INDEX
  <2>2. NextCandidate(SCALE_TO_INDEX(a), a) \in Nat
    BY <2>1, NextCandidateType
  <2>3. search' \in Search
    BY <1>4, <2>2 DEF allocateAligned, Search
  <2>4. ~halted /\ phase = "run" /\ hold[o] = NoExtent /\ AlignAsserted(a)
        /\ search'.owner = o /\ search'.align = a
        /\ UNCHANGED <<spBitmap, phase, halted, mmap, pos, hold, usable>>
    BY <1>4 DEF allocateAligned, Idle
  <2>5. TypeOK'
    BY <1>0, <2>3, <2>4 DEF TypeOK
  <2>6. FramesAccounted' /\ GrantsDisjoint'
    BY <2>4 DEF IInv, FramesAccounted, GrantsDisjoint, Held, FramesOf
  <2>7. BootInv'
    BY <2>4 DEF IInv, BootInv, Protected, KernelFrames
  <2>8. HoldInv'
    BY <1>0, <2>4 DEF HoldInv, FramesOf, AlignAsserted
  <2> QED BY <2>5, <2>6, <2>7, <2>8 DEF IInv
<1>5. ASSUME NEW a \in Aligns, allocateAlignedAsserts(a)
      PROVE  IInv'
  BY <1>0, <1>5 DEF allocateAlignedAsserts, Idle, IInv, TypeOK, FramesAccounted, Held,
        GrantsDisjoint, FramesOf, BootInv, HoldInv, Protected, KernelFrames
<1>6. ASSUME NEW o \in Owner, NEW p \in FixedAddrs, NEW l \in Lengths, allocateFixed(o, p, l)
      PROVE  IInv'
  <2> DEFINE i == SCALE_TO_INDEX(p)
             n == PAGE_COUNT(l)
  <2>1. i \in Nat /\ n \in Nat \ {0}
    BY PageAssumption, DivNat, PageCountPositive DEF SCALE_TO_INDEX
  <2>2. ~halted /\ phase = "run" /\ hold[o] = NoExtent /\ search = NoSearch
        /\ UNCHANGED <<phase, mmap, pos, search, usable>>
    BY <1>6 DEF allocateFixed, Idle
  <2> HIDE DEF i, n
  <2>3. CASE Fits(i, n) /\ Grant(o, i, n) /\ UNCHANGED halted
    <3>1. halted' \in BOOLEAN
      BY <1>0, <2>3 DEF TypeOK
    <3>2. /\ spBitmap' \subseteq Index
          /\ hold' \in [Owner -> Extent]
          /\ FramesAccounted' /\ GrantsDisjoint'
          /\ \A q \in Owner : FramesOf(hold'[q]) \subseteq usable
          /\ \A q \in Owner : hold'[q] = NoExtent \/ hold'[q].count > 0
      BY <2>1, <2>2, <2>3, GrantEffect
    <3> QED BY <2>2, <3>1, <3>2, RunStepIInv
  <2>4. CASE UNCHANGED <<spBitmap, hold>> /\ halted' \in BOOLEAN
    BY <1>0, <2>2, <2>4 DEF IInv, TypeOK, FramesAccounted, Held,
        GrantsDisjoint, FramesOf, BootInv, HoldInv, Protected, KernelFrames
  <2>5. \/ Fits(i, n) /\ Grant(o, i, n) /\ UNCHANGED halted
        \/ UNCHANGED <<spBitmap, hold>> /\ halted' \in BOOLEAN
    BY <1>0, <1>6 DEF allocateFixed, TypeOK, i, n
  <2> QED BY <2>3, <2>4, <2>5
<1>7. ASSUME NEW o \in Owner, free(o)
      PROVE  IInv'
  <2>1. phase = "run" /\ search' = NoSearch /\ halted' \in BOOLEAN
        /\ UNCHANGED <<phase, mmap, pos, usable>>
    BY <1>0, <1>7 DEF free, Idle, TypeOK
  <2> QED BY <1>7, <2>1, FreeEffect, RunStepIInv
<1>8. CASE SearchStep
  <2>1. search \in Search /\ phase = "run" /\ hold[search.owner] = NoExtent
        /\ AlignAsserted(search.align) /\ ~halted
    BY <1>0, <1>8, NoSearchNotSearch
       DEF SearchStep, SearchGrant, SearchNext, SearchFails, InLoop, TypeOK, HoldInv
  <2>2. search.owner \in Owner /\ search.index \in Nat /\ search.length \in Lengths
        /\ search.align \in Aligns
    BY <2>1 DEF Search
  <2>3. CASE SearchGrant
    <3> DEFINE n == PAGE_COUNT(search.length)
    <3>1. n \in Nat \ {0}
      BY <2>2, PageAssumption, PageCountPositive
    <3>2. Fits(search.index, n) /\ Grant(search.owner, search.index, n)
          /\ search' = NoSearch /\ halted' \in BOOLEAN
          /\ UNCHANGED <<phase, mmap, pos, usable>>
      BY <1>0, <2>3 DEF SearchGrant, TypeOK
    <3> HIDE DEF n
    <3>3. /\ spBitmap' \subseteq Index
          /\ hold' \in [Owner -> Extent]
          /\ FramesAccounted' /\ GrantsDisjoint'
          /\ \A q \in Owner : FramesOf(hold'[q]) \subseteq usable
          /\ \A q \in Owner : hold'[q] = NoExtent \/ hold'[q].count > 0
      BY <2>1, <2>2, <3>1, <3>2, GrantEffect
    <3> QED BY <2>1, <3>2, <3>3, RunStepIInv
  <2>4. CASE SearchNext
    <3>a. AlignAsserted(search.align) /\ search.index \in Nat /\ search.align \in Aligns
      BY <2>1, <2>2, Zenon
    <3>b. search.align \in Nat /\ search.align >= PAGE_SIZE_DEFAULT
      <4>1. Aligns \subseteq Nat
        BY PageAssumption
      <4> QED BY <3>a, <4>1, Zenon DEF AlignAsserted
    <3>0. search.index + 1 \in Int /\ search.align \in Nat
          /\ search.align >= PAGE_SIZE_DEFAULT
      BY <3>a, <3>b
    <3>1. NextCandidate(search.index + 1, search.align) \in Nat
      BY <3>0, NextCandidateType
    <3>2. search' = [search EXCEPT !.index = NextCandidate(search.index + 1, search.align)]
          /\ UNCHANGED <<spBitmap, phase, halted, mmap, pos, hold, usable>>
      BY <2>4 DEF SearchNext
    <3>3. search' \in Search /\ search'.owner = search.owner /\ search'.align = search.align
      BY <2>1, <3>1, <3>2 DEF Search
    <3>4. TypeOK'
      BY <1>0, <3>2, <3>3 DEF TypeOK
    <3>5. FramesAccounted' /\ GrantsDisjoint'
      BY <3>2 DEF IInv, FramesAccounted, GrantsDisjoint, Held, FramesOf
    <3>6. BootInv'
      BY <2>1, <3>2 DEF IInv, BootInv, Protected, KernelFrames
    <3>7. HoldInv'
      BY <1>0, <2>1, <3>2, <3>3 DEF HoldInv, FramesOf, AlignAsserted
    <3> QED BY <3>4, <3>5, <3>6, <3>7 DEF IInv
  <2>5. CASE SearchFails
    BY <1>0, <2>5 DEF SearchFails, IInv, TypeOK, FramesAccounted, Held,
        GrantsDisjoint, FramesOf, BootInv, HoldInv, Protected, KernelFrames
  <2> QED BY <1>8, <2>3, <2>4, <2>5 DEF SearchStep
<1> QED BY <1>1, <1>2, <1>3, <1>4, <1>5, <1>6, <1>7, <1>8 DEF Next, Call

(* The inductive invariant: the accounts of PhysicalMemory, for every memory
   map, bitmap size, set of owners and requests. *)
THEOREM PhysicalMemoryInvariant == Spec => []IInv
BY InitIInv, NextIInv, PTL DEF Spec

(* The type invariant of PhysicalMemory; in particular the index the search
   loop tries is never the -1 of a failed scan. *)
THEOREM TypeCorrect == Spec => []TypeOK
<1>1. IInv => TypeOK
  BY DEF IInv
<1> QED BY <1>1, PhysicalMemoryInvariant, PTL

(* Once booted, a bit of the bitmap is 1 exactly for the frames boot() did not
   leave free and for those now granted. *)
THEOREM FramesAreAccounted == Spec => []FramesAccounted
<1>1. IInv => FramesAccounted
  BY DEF IInv
<1> QED BY <1>1, PhysicalMemoryInvariant, PTL

(* No frame has two owners. *)
THEOREM GrantsAreDisjoint == Spec => []GrantsDisjoint
<1>1. IInv => GrantsDisjoint
  BY DEF IInv
<1> QED BY <1>1, PhysicalMemoryInvariant, PTL

(* No owner is ever given a frame of the kernel image or frame 0. *)
THEOREM ProtectedFramesNeverGranted == Spec => []ProtectedNeverGranted
<1>1. IInv => ProtectedNeverGranted
  <2> SUFFICES ASSUME IInv PROVE Held \cap Protected = {}
    BY DEF ProtectedNeverGranted
  <2>1. usable \cap Protected = {}
    BY DEF IInv, BootInv
  <2>2. Held \subseteq usable
    BY DEF IInv, HoldInv, Held
  <2> QED BY <2>1, <2>2
<1> QED BY <1>1, PhysicalMemoryInvariant, PTL
-----------------------------------------------------------------------------
(* A grant of PhysicalMemory is a grant of the abstract allocator. *)
LEMMA GrantRefines ==
    ASSUME IInv, phase = "run", NEW o \in Owner, hold[o] = NoExtent,
           NEW index \in Nat, NEW count \in Nat \ {0},
           Fits(index, count), Grant(o, index, count), UNCHANGED <<phase, usable>>
    PROVE  FA!Grant(o)
<1> DEFINE h == [p \in Owner |-> FramesOf(hold[p])]
           hn == [p \in Owner |-> FramesOf(hold'[p])]
<1>1. /\ hn[o] \in {a..b : a, b \in Index} \ {{}}
      /\ hn[o] \cap spBitmap = {}
      /\ spBitmap' = spBitmap \cup hn[o]
  BY GrantEffect
<1>2. hn[o] \subseteq Index
  BY <1>1, GrantEffect
<1>3. h[o] = {}
  BY NoExtentEmpty
<1>4. hn = [h EXCEPT ![o] = hn[o]]
  <2>1. \A p \in Owner : p # o => hold'[p] = hold[p]
    BY DEF Grant, IInv, TypeOK
  <2> QED BY <2>1
<1>5. h' = hn
  BY DEF FramesOf
<1> HIDE DEF hn
<1>6. h'[o] \in FA!Run \ {{}} /\ h'[o] \subseteq Index \ spBitmap
  BY <1>1, <1>2, <1>5 DEF FA!Run
<1>7. h' = [h EXCEPT ![o] = h'[o]]
  BY <1>4, <1>5
<1>8. Index \ spBitmap' = (Index \ spBitmap) \ h'[o]
  BY <1>1, <1>5
<1> QED BY <1>3, <1>6, <1>7, <1>8 DEF FA!Grant, Index, Size

(* A call of free() is a release of the abstract allocator. *)
LEMMA FreeRefines ==
    ASSUME IInv, phase = "run", NEW o \in Owner, free(o)
    PROVE  FA!Release(o)
<1> DEFINE h == [p \in Owner |-> FramesOf(hold[p])]
<1>1. spBitmap' = spBitmap \ FramesOf(hold[o]) /\ FramesOf(hold[o]) \subseteq Index
  BY FreeEffect
<1>2. hold' = [hold EXCEPT ![o] = NoExtent] /\ phase' = phase
  BY DEF free
<1>3. \A p \in Owner : FramesOf(hold'[p]) = IF p = o THEN {} ELSE FramesOf(hold[p])
  BY <1>2, NoExtentEmpty DEF IInv, TypeOK
<1>4. h' = [h EXCEPT ![o] = {}]
  BY <1>3 DEF FramesOf
<1>5. Index \ spBitmap' = (Index \ spBitmap) \cup h[o]
  BY <1>1
<1> QED BY <1>2, <1>4, <1>5 DEF FA!Release, Index, Size

(* Before boot() the abstract allocator is in an initial state too. *)
LEMMA InitRefines == Init => FA!Init
BY NoExtentEmpty DEF Init, FA!Init

(* Each step is a step of the abstract allocator, or none. *)
LEMMA NextRefines == IInv /\ IInv' /\ [Next]_vars => [FA!Next]_(FA!vars)
<1> SUFFICES ASSUME IInv, IInv', [Next]_vars PROVE [FA!Next]_(FA!vars)
  OBVIOUS
<1>0. spBitmap' \subseteq Index
  BY DEF IInv, TypeOK
<1>1. ASSUME UNCHANGED <<spBitmap, phase, hold>>
      PROVE  UNCHANGED FA!vars
  BY <1>1 DEF FA!vars, FramesOf, Index, Size
<1>2. CASE UNCHANGED vars \/ Abort
  BY <1>1, <1>2 DEF vars, Abort
<1>3. CASE BootStep
  <2>1. phase # "run" /\ UNCHANGED hold
    BY <1>3 DEF BootStep, BootRange, ReserveLow, ReserveCore, ReserveApic
  <2>2. phase' = "run" => Protected \subseteq spBitmap'
    BY DEF IInv, BootInv, Protected, KernelFrames
  <2> QED BY <2>1, <2>2 DEF FA!Next, FA!Boot, FramesOf, Index, Size, Protected, KernelFrames
<1>4. ASSUME NEW o \in Owner, NEW l \in Lengths, NEW a \in Aligns, allocateAligned(o, l, a)
      PROVE  UNCHANGED FA!vars
  BY <1>1, <1>4 DEF allocateAligned
<1>5. ASSUME NEW a \in Aligns, allocateAlignedAsserts(a)
      PROVE  UNCHANGED FA!vars
  BY <1>1, <1>5 DEF allocateAlignedAsserts
<1>6. ASSUME NEW o \in Owner, NEW p \in FixedAddrs, NEW l \in Lengths, allocateFixed(o, p, l)
      PROVE  FA!Grant(o) \/ UNCHANGED FA!vars
  <2> DEFINE i == SCALE_TO_INDEX(p)
             n == PAGE_COUNT(l)
  <2>1. i \in Nat /\ n \in Nat \ {0}
    BY PageAssumption, DivNat, PageCountPositive DEF SCALE_TO_INDEX
  <2>2. phase = "run" /\ hold[o] = NoExtent /\ UNCHANGED <<phase, usable>>
    BY <1>6 DEF allocateFixed, Idle
  <2>3. (Fits(i, n) /\ Grant(o, i, n)) \/ UNCHANGED <<spBitmap, hold>>
    BY <1>6 DEF allocateFixed
  <2> HIDE DEF i, n
  <2> QED BY <1>1, <2>1, <2>2, <2>3, GrantRefines
<1>7. ASSUME NEW o \in Owner, free(o)
      PROVE  FA!Release(o)
  BY <1>7, FreeRefines DEF free, Idle
<1>8. CASE SearchStep
  <2>1. CASE SearchGrant
    <3>1. search \in Search /\ phase = "run" /\ hold[search.owner] = NoExtent
      BY <2>1, NoSearchNotSearch DEF SearchGrant, InLoop, IInv, TypeOK, HoldInv, BootInv
    <3>2. search.owner \in Owner /\ search.index \in Nat /\ search.length \in Lengths
      BY <3>1 DEF Search
    <3> DEFINE n == PAGE_COUNT(search.length)
    <3>3. n \in Nat \ {0}
      BY <3>2, PageAssumption, PageCountPositive
    <3>4. Fits(search.index, n) /\ Grant(search.owner, search.index, n)
          /\ UNCHANGED <<phase, usable>>
      BY <2>1 DEF SearchGrant
    <3> HIDE DEF n
    <3> QED BY <3>1, <3>2, <3>3, <3>4, GrantRefines DEF FA!Next
  <2>2. CASE SearchNext \/ SearchFails
    BY <1>1, <2>2 DEF SearchNext, SearchFails
  <2> QED BY <1>8, <2>1, <2>2 DEF SearchStep
<1> QED BY <1>2, <1>3, <1>4, <1>5, <1>6, <1>7, <1>8 DEF Next, Call, FA!Next

(* PhysicalMemory implements FrameAllocator: every step of boot(), of the
   allocation loop and of free() is a step of the abstract allocator or none. *)
THEOREM Implementation == Spec => ImplementsFrameAllocator
BY InitRefines, NextRefines, PhysicalMemoryInvariant, PTL
   DEF Spec, ImplementsFrameAllocator, FA!Spec
-----------------------------------------------------------------------------
(* The index a running search is at stands for an aligned address. *)
CandidateAligned ==
    search # NoSearch => SCALE_TO_PHYS(search.index) % search.align = 0

(* ALIGN_UP gives a multiple of its second argument. *)
LEMMA MulMod ==
    ASSUME NEW n \in Nat, NEW a \in Nat \ {0}
    PROVE  (n * a) % a = 0
OBVIOUS

(* PAGE_COUNT frames are enough for the bytes asked for. *)
LEMMA PageCountCovers ==
    ASSUME NEW x \in Nat
    PROVE  SCALE_TO_PHYS(PAGE_COUNT(x)) >= x
<1> DEFINE p == PAGE_SIZE_DEFAULT
           d == x \div p
<1>1. p \in Nat \ {0}
  BY PageAssumption
<1>2. d \in Nat /\ d * p <= x /\ x < d * p + p
  BY <1>1, DivNat, DivBounds
<1>3. (d + 1) * p = d * p + p
  BY <1>1, <1>2
<1>4. CASE x % p = 0
  <2>1. d * p = x
    BY <1>1, <1>4, DivMul
  <2>2. PAGE_COUNT(x) = d
    BY <1>2, <1>4 DEF PAGE_COUNT
  <2> QED BY <2>1, <2>2 DEF SCALE_TO_PHYS
<1>5. CASE x % p # 0
  <2>1. PAGE_COUNT(x) = d + 1
    BY <1>5 DEF PAGE_COUNT
  <2>2. SCALE_TO_PHYS(PAGE_COUNT(x)) = d * p + p
    BY <1>3, <2>1 DEF SCALE_TO_PHYS
  <2>3. d * p \in Int
    BY <1>1, <1>2
  <2> QED BY <1>1, <1>2, <2>2, <2>3
<1> QED BY <1>4, <1>5

(* What NextCandidate() returns stands for a multiple of the alignment, also
   after a scan that found nothing. *)
LEMMA NextCandidateAligned ==
    ASSUME NEW start \in Int, NEW align \in Nat, AlignAsserted(align)
    PROVE  SCALE_TO_PHYS(NextCandidate(start, align)) % align = 0
<1> DEFINE p == PAGE_SIZE_DEFAULT
           x == SCALE_TO_PHYS(GetIndexOf(spBitmap, FALSE, start))
           k == (x + align) \div align
           m == align \div p
<1>1. p \in Nat \ {0}
  BY PageAssumption
<1>2. align \in Nat \ {0} /\ align >= p /\ align % p = 0
  BY <1>1 DEF AlignAsserted
<1>3. x + align \in Nat
  BY <1>2, CandidateRoomAbove
<1>4. k \in Nat
  BY <1>2, <1>3, DivNat
<1>5. m \in Nat /\ m * p = align
  BY <1>1, <1>2, DivNat, DivMul
<1>6. ALIGN_UP(x, align) = k * align
  BY DEF ALIGN_UP, ALIGN_DOWN
<1> HIDE DEF k, m, x, p
<1>7. k * align = (k * m) * p /\ k * m \in Nat
  BY <1>1, <1>4, <1>5
<1>8. (k * align) \div p = k * m
  BY <1>1, <1>7, MulDiv
<1>9. NextCandidate(start, align) = k * m
  BY <1>6, <1>8 DEF NextCandidate, SCALE_TO_INDEX, x, p
<1>10. SCALE_TO_PHYS(NextCandidate(start, align)) = k * align
  BY <1>7, <1>9 DEF SCALE_TO_PHYS, p
<1> QED BY <1>2, <1>4, <1>10, MulMod

(* Every step keeps the candidate aligned: only the start of a search and its
   next turn choose one. *)
LEMMA NextCandidateStep ==
    IInv /\ CandidateAligned /\ [Next]_vars => CandidateAligned'
<1> SUFFICES ASSUME IInv, CandidateAligned, [Next]_vars
             PROVE  CandidateAligned'
  OBVIOUS
<1>1. CASE UNCHANGED search
  BY <1>1 DEF CandidateAligned, SCALE_TO_PHYS
<1>2. CASE search' = NoSearch
  BY <1>2 DEF CandidateAligned
<1>3. ASSUME NEW o \in Owner, NEW l \in Lengths, NEW a \in Aligns, allocateAligned(o, l, a)
      PROVE  CandidateAligned'
  <2>1. a \in Nat /\ AlignAsserted(a) /\ SCALE_TO_INDEX(a) \in Int
    BY <1>3, PageAssumption, DivNat DEF allocateAligned, SCALE_TO_INDEX
  <2>2. search'.index = NextCandidate(SCALE_TO_INDEX(a), a) /\ search'.align = a
    BY <1>3 DEF allocateAligned
  <2> QED BY <2>1, <2>2, NextCandidateAligned DEF CandidateAligned, SCALE_TO_PHYS
<1>4. CASE SearchNext
  <2>1. search \in Search /\ AlignAsserted(search.align)
    BY <1>4, NoSearchNotSearch DEF SearchNext, InLoop, IInv, TypeOK, HoldInv
  <2>2. search.index \in Nat /\ search.align \in Aligns
    BY <2>1 DEF Search
  <2>a. Aligns \subseteq Nat
    BY PageAssumption
  <2>b. search.align \in Nat /\ search.index \in Nat
    BY <2>2, <2>a, Zenon
  <2>3. search.align \in Nat /\ search.index + 1 \in Int
    BY <2>b
  <2>4. /\ search'.index = NextCandidate(search.index + 1, search.align)
        /\ search'.align = search.align
    BY <1>4, <2>1 DEF SearchNext, Search
  <2> QED BY <2>1, <2>3, <2>4, NextCandidateAligned DEF CandidateAligned, SCALE_TO_PHYS
<1>5. QED
  BY <1>1, <1>2, <1>3, <1>4
     DEF Next, BootStep, BootRange, ReserveLow, ReserveCore, ReserveApic, Call,
         allocateAlignedAsserts, allocateFixed, free, SearchStep, SearchGrant,
         SearchFails, Abort, vars

(* The grant at the end of a search is aligned and large enough. *)
LEMMA GrantStepAligned ==
    IInv /\ CandidateAligned /\ [Next]_vars => AlignedGrant
<1> SUFFICES ASSUME IInv, CandidateAligned, [Next]_vars, search.running, hold' # hold
             PROVE  /\ SCALE_TO_PHYS(hold'[search.owner].index) % search.align = 0
                    /\ SCALE_TO_PHYS(hold'[search.owner].count) >= search.length
  BY DEF AlignedGrant
<1>1. search \in Search /\ search # NoSearch /\ phase = "run"
  BY NoSearchNotSearch DEF IInv, TypeOK, BootInv
<1>2. SearchGrant
  BY <1>1
     DEF Next, BootStep, BootRange, ReserveLow, ReserveCore, ReserveApic, Call, Idle,
         allocateAligned, allocateAlignedAsserts, allocateFixed, free, SearchStep,
         SearchNext, SearchFails, Abort, vars
<1>3. search.owner \in Owner /\ search.length \in Nat
  BY <1>1, PageAssumption DEF Search
<1>4. hold'[search.owner] = [index |-> search.index, count |-> PAGE_COUNT(search.length)]
  BY <1>2, <1>3 DEF SearchGrant, Grant, IInv, TypeOK
<1>5. /\ hold'[search.owner].index = search.index
      /\ hold'[search.owner].count = PAGE_COUNT(search.length)
  BY <1>4
<1> QED BY <1>1, <1>3, <1>5, PageCountCovers DEF CandidateAligned

(* A search that succeeds hands out at least the bytes asked for, from an
   address that is a multiple of the alignment asked for. *)
THEOREM GrantsAreAligned == Spec => GrantsAligned
<1>1. Init => CandidateAligned
  BY DEF Init, CandidateAligned
<1> QED
  BY <1>1, PhysicalMemoryInvariant, NextCandidateStep, GrantStepAligned, PTL
     DEF Spec, GrantsAligned
-----------------------------------------------------------------------------
(* What boot() has made free so far, and what it left free, are whole pages of
   ranges the boot loader reported as available. *)
FreeIsRam ==
    /\ usable \subseteq AvailablePages
    /\ ~halted /\ phase # "run" => Index \ spBitmap \subseteq AvailablePages

(* The order of two numbers of frames is the order of their addresses. *)
LEMMA MulMonotonic ==
    ASSUME NEW x \in Int, NEW y \in Int, x <= y, NEW a \in Nat
    PROVE  x * a <= y * a
OBVIOUS

(* ... and conversely. *)
LEMMA MulCancel ==
    ASSUME NEW x \in Int, NEW y \in Int, NEW a \in Nat \ {0}, x * a < y * a
    PROVE  x < y
OBVIOUS

(* A negative length wraps around once. *)
LEMMA ModWrap ==
    ASSUME NEW x \in Int, NEW a \in Nat \ {0}, x < 0, x + a >= 0
    PROVE  x % a = x + a
OBVIOUS

(* The frames setRegion() goes through are whole pages of its region, unless it
   stops at CHECK_INDEX. *)
LEMMA RegionWithin ==
    ASSUME NEW start \in Nat, NEW end \in Nat, start < WORD, end < WORD,
           start % PAGE_SIZE_DEFAULT = 0,
           ~(/\ RegionPages(start, end) # 0
             /\ SCALE_TO_INDEX(start) + RegionPages(start, end) > Size),
           NEW f \in RegionFrames(start, end)
    PROVE  start <= SCALE_TO_PHYS(f) /\ SCALE_TO_PHYS(f + 1) <= end
<1> DEFINE p == PAGE_SIZE_DEFAULT
           s == start \div p
           e == end \div p
           w == WORD \div p
           n == RegionPages(start, end)
<1>0. p \in Nat \ {0} /\ WORD \in Nat \ {0} /\ Size \in Nat
  BY PageAssumption, BitMapAssumption DEF Size
<1>1. s \in Nat /\ e \in Nat /\ w \in Nat
  BY <1>0, DivNat
<1>2. s * p = start /\ w * p = WORD /\ e * p <= end
  BY <1>0, DivMul, DivBounds, WidthAssumption
<1>3. w > Size + 1
  BY WidthAssumption
<1>4. n = ((e * p - start - p) % WORD) \div p
  BY DEF RegionPages, ALIGN_DOWN
<1>5. f \in Index /\ f \in s..(s + n - 1)
  BY DEF RegionFrames, SCALE_TO_INDEX
<1>6. ~(n # 0 /\ s + n > Size)
  BY DEF SCALE_TO_INDEX
<1>7. e < w /\ s < w
  <2>1. e * p < w * p /\ s * p < w * p
    BY <1>0, <1>1, <1>2
  <2> HIDE DEF e, w, s, p
  <2> QED BY <1>0, <1>1, <2>1, MulCancel
<1> HIDE DEF s, e, w, n, p
<1>8. e * p - start - p = (e - s - 1) * p
  BY <1>0, <1>1, <1>2
<1>9. CASE e >= s + 1
  <2>1. (e - s - 1) * p \in Nat /\ (e - s - 1) * p < WORD
    <3>1. e - s - 1 \in Nat /\ e - s - 1 <= e
      BY <1>1, <1>9
    <3>2. (e - s - 1) * p <= e * p
      BY <3>1, <1>0, <1>1, MulMonotonic
    <3> QED BY <3>1, <3>2, <1>0, <1>2, <1>1, MulNat
  <2>2. n = e - s - 1
    <3>1. ((e - s - 1) * p) % WORD = (e - s - 1) * p
      BY <2>1, <1>0, ModSmall
    <3>2. e - s - 1 \in Nat
      BY <1>1, <1>9
    <3>3. ((e - s - 1) * p) \div p = e - s - 1
      BY <3>2, <1>0, MulDiv
    <3>4. n = (((e - s - 1) * p) % WORD) \div p
      BY <1>4, <1>8
    <3> QED BY <3>1, <3>3, <3>4
  <2>3. f \in Int /\ s <= f /\ f + 1 <= e
    BY <2>2, <1>1, <1>5
  <2>4. s * p <= f * p /\ (f + 1) * p <= e * p
    BY <2>3, <1>0, <1>1, MulMonotonic
  <2>5. f * p \in Int /\ (f + 1) * p \in Int /\ e * p \in Int
    BY <2>3, <1>0, <1>1
  <2> QED BY <2>4, <2>5, <1>2 DEF SCALE_TO_PHYS, p
<1>10. CASE e <= s
  <2>1. (e - s - 1) * p + WORD = (e - s - 1 + w) * p
    BY <1>0, <1>1, <1>2
  <2>2. e - s - 1 + w \in Nat
    BY <1>1, <1>7
  <2>3. (e - s - 1) * p < 0
    BY <1>0, <1>1, <1>10
  <2>4. (e - s - 1) * p \in Int /\ (e - s - 1) * p + WORD >= 0
    BY <2>1, <2>2, <1>0, <1>1, MulNat
  <2>5. n = e - s - 1 + w
    <3>1. ((e - s - 1) * p) % WORD = (e - s - 1 + w) * p
      BY <2>1, <2>3, <2>4, <1>0, ModWrap
    <3>2. ((e - s - 1 + w) * p) \div p = e - s - 1 + w
      BY <2>2, <1>0, MulDiv
    <3>3. n = (((e - s - 1) * p) % WORD) \div p
      BY <1>4, <1>8
    <3> QED BY <3>1, <3>2, <3>3
  <2>6. s + n > Size
    BY <2>5, <1>0, <1>1, <1>3
  <2>7. n = 0
    BY <2>6, <1>6
  <2> QED BY <2>7, <1>1, <1>5
<1> QED BY <1>9, <1>10, <1>1

(* A step of boot() frees whole pages of an available range, or nothing. *)
LEMMA BootStepRam ==
    ASSUME IInv, FreeIsRam, BootStep
    PROVE  FreeIsRam'
<1> DEFINE A == AvailablePages
<1>0. spBitmap \subseteq Index /\ mmap \in MemoryMaps /\ phase # "run" /\ ~halted
  BY DEF IInv, TypeOK, BootStep, BootRange, ReserveLow, ReserveCore, ReserveApic
<1>1. Index \ spBitmap \subseteq A /\ usable \subseteq A
  BY <1>0 DEF FreeIsRam
<1>2. A' = A
  BY DEF AvailablePages, WholePages, BootStep, BootRange, ReserveLow, ReserveCore, ReserveApic
<1>3. CASE BootRange
  <2>1. phase' = phase /\ usable' = usable /\ pos \in DOMAIN mmap
    BY <1>3 DEF BootRange
  <2>2. CASE ~mmap[pos].available
    BY <2>1, <2>2, <1>1, <1>2, <1>3 DEF BootRange, FreeIsRam
  <2>3. CASE mmap[pos].available
    <3> DEFINE r == mmap[pos]
    <3>1. r \in Range /\ r.start < WORD /\ r.end < WORD
      BY <1>0, <2>1, PageAssumption, WidthAssumption
    <3>2. r.start \in Nat /\ r.end \in Nat
      BY <3>1 DEF Range
    <3>3. SetRegion(r.start, r.end, FALSE)
      BY <1>3, <2>3 DEF BootRange, available
    <3>4. WholePages(r) \subseteq A
      BY <2>1, <2>3 DEF AvailablePages
    <3>5. CASE r.start % PAGE_SIZE_DEFAULT # 0
      BY <3>3, <3>5, <2>1, <1>1, <1>2 DEF SetRegion, FreeIsRam
    <3>6. CASE r.start % PAGE_SIZE_DEFAULT = 0 /\ ~halted'
      <4>1. spBitmap' = spBitmap \ RegionFrames(r.start, r.end)
        BY <3>3, <3>6 DEF SetRegion, SetBits
      <4>2. RegionFrames(r.start, r.end) \subseteq WholePages(r)
        <5> SUFFICES ASSUME NEW f \in RegionFrames(r.start, r.end)
                     PROVE  f \in WholePages(r)
          OBVIOUS
        <5>1. ~(/\ RegionPages(r.start, r.end) # 0
                /\ SCALE_TO_INDEX(r.start) + RegionPages(r.start, r.end) > Size)
          BY <3>3, <3>6 DEF SetRegion
        <5>2. r.start <= SCALE_TO_PHYS(f) /\ SCALE_TO_PHYS(f + 1) <= r.end
          BY <3>1, <3>2, <3>6, <5>1, RegionWithin
        <5> QED BY <5>2 DEF WholePages, RegionFrames
      <4> QED BY <4>1, <4>2, <3>4, <2>1, <1>1, <1>2 DEF FreeIsRam
    <3>7. CASE halted'
      BY <3>7, <2>1, <1>1, <1>2 DEF FreeIsRam
    <3> QED BY <3>5, <3>6, <3>7
  <2> QED BY <2>2, <2>3
<1>4. CASE ReserveLow \/ ReserveCore \/ ReserveApic
  <2>1. spBitmap \subseteq spBitmap'
    BY <1>0, <1>4, SetRegionEffect DEF ReserveLow, ReserveCore, ReserveApic, reserve
  <2>2. usable' = usable \/ usable' = Index \ spBitmap'
    BY <1>4 DEF ReserveLow, ReserveCore, ReserveApic
  <2> QED BY <2>1, <2>2, <1>1, <1>2 DEF FreeIsRam
<1> QED BY <1>3, <1>4 DEF BootStep

(* Nothing after boot() changes what it left free. *)
LEMMA FreeIsRamStep == IInv /\ FreeIsRam /\ [Next]_vars => FreeIsRam'
<1> SUFFICES ASSUME IInv, FreeIsRam, [Next]_vars PROVE FreeIsRam'
  OBVIOUS
<1>1. CASE BootStep
  BY <1>1, BootStepRam
<1>2. CASE UNCHANGED vars
  BY <1>2 DEF vars, FreeIsRam, AvailablePages, WholePages
<1>3. CASE Call \/ SearchStep \/ Abort
  <2>1. UNCHANGED <<usable, phase, mmap>>
    BY <1>3 DEF Call, allocateAligned, allocateAlignedAsserts, allocateFixed, free,
                SearchStep, SearchGrant, SearchNext, SearchFails, Abort, vars
  <2>2. phase = "run" \/ UNCHANGED vars
    <3>1. search.running => phase = "run"
      BY NoSearchNotSearch DEF IInv, BootInv
    <3> QED BY <1>3, <3>1 DEF Call, allocateAligned, allocateAlignedAsserts, allocateFixed,
                free, Idle, SearchStep, SearchGrant, SearchNext, SearchFails, InLoop, Abort
  <2>3. AvailablePages' = AvailablePages
    BY <2>1 DEF AvailablePages, WholePages
  <2> QED BY <2>1, <2>2, <2>3, <1>2 DEF FreeIsRam
<1> QED BY <1>1, <1>2, <1>3 DEF Next

(* Nobody is given a frame that is not, as a whole, memory the boot loader
   reported as available. *)
THEOREM GrantsAreWholeRam == Spec => []GrantsAreRam
<1>1. Init => FreeIsRam
  BY DEF Init, FreeIsRam, AllBits
<1>2. IInv /\ FreeIsRam => GrantsAreRam
  BY DEF IInv, HoldInv, FreeIsRam, GrantsAreRam, Held
<1> QED
  BY <1>1, <1>2, PhysicalMemoryInvariant, FreeIsRamStep, PTL DEF Spec
=============================================================================
