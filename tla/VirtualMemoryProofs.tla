------------------------ MODULE VirtualMemoryProofs ------------------------
(***************************************************************************)
(* Proofs about VirtualMemory, for every number of temporary mappings, any *)
(* frames, orders of allocation, address spaces and virtual addresses.     *)
(***************************************************************************)
EXTENDS VirtualMemory, LoopTheorems, TLAPS

(* What an entry can hold. *)
Entries == {Absent} \cup {Pointer(f, l) : f \in TableFrames \cup DataFrames, l \in BOOLEAN}

(* No region is mapped twice. *)
Once(tm) == \A i, j \in Slot : i # j /\ tm[i] = tm[j] => tm[i] = Unused

(* Two entries of structures of a level never refer to the same structure. *)
Single(t, L) ==
    \A f, g \in L, i, j \in Idx :
        t[f][i].present /\ ~t[f][i].large /\ t[g][j].present /\ ~t[g][j].large
        /\ t[f][i].frame = t[g][j].frame => f = g /\ i = j

(* The pml4 structures in S: entry KernelIdx is the pdpt of the kernel, the
   others are not, and refer to pdpt structures in A, no two to the same. *)
TopOk(t, S, A) ==
    /\ PgPml4 \in S /\ PgPdptHigh \in A
    /\ \A s \in S : t[s][KernelIdx] = Pointer(PgPdptHigh, FALSE)
    /\ \A s \in S, i \in Idx : t[s][i].present =>
          ~t[s][i].large /\ t[s][i].frame \in A /\ (i # KernelIdx => t[s][i].frame # PgPdptHigh)
    /\ \A s, r \in S, i, j \in Idx :
          t[s][i].present /\ t[r][j].present /\ t[s][i].frame = t[r][j].frame
          /\ t[s][i].frame # PgPdptHigh => s = r /\ i = j

(* The structures below them: page directories in B, page tables in C. *)
LowOk(t, A, B, C) ==
    /\ \A f \in A, i \in Idx : t[f][i].present => ~t[f][i].large /\ t[f][i].frame \in B
    /\ \A f \in B, i \in Idx : t[f][i].present /\ ~t[f][i].large => t[f][i].frame \in C
    /\ \A f \in C, i \in Idx : ~t[f][i].large
    /\ Single(t, A) /\ Single(t, B)

(* Structures are of one level only, and are allocated unless paging.S has
   them. *)
LevelsOk(U, S, A, B, C) ==
    /\ S \cap (A \cup B \cup C) = {} /\ A \cap (B \cup C) = {} /\ B \cap C = {}
    /\ S \subseteq U \cup {PgPml4} /\ A \subseteq U \cup {PgPdptHigh}
    /\ B \subseteq U \cup {PgPdHigh} /\ C \subseteq U

Shape(t, U, S, A, B, C) == TopOk(t, S, A) /\ LowOk(t, A, B, C) /\ LevelsOk(U, S, A, B, C)

Types ==
    /\ tempMappings \in [Slot -> {Region(f) : f \in TableFrames \cup DataFrames} \cup {Unused}]
    /\ table \in [TableFrames -> [Idx -> Entries]]
    /\ used \subseteq Pool
    /\ spaces \subseteq TableFrames /\ cr3 \in spaces
    /\ halted \in BOOLEAN

IInv ==
    /\ Types /\ Once(tempMappings)
    /\ ~halted => \E A, B, C : Shape(table, used, spaces, A, B, C)
-----------------------------------------------------------------------------
Regs == {Region(f) : f \in TableFrames \cup DataFrames} \cup {Unused}
Ptr == [slot : Slot, off : Nat]

(* The states an operation is computed on. *)
St == [tm : [Slot -> Regs], table : [TableFrames -> [Idx -> Entries]], used : SUBSET Pool,
       status : {"ok", "halt", "absent"}, at : Seq(Ptr), new : Nat]

LEMMA ConstantFacts ==
    /\ TEMPMAP_PAGES \in Nat \ {0} /\ RegionFrames \in Nat \ {0} /\ Slot \subseteq Nat \ {0}
    /\ Pool \subseteq Nat \ {0} /\ DataFrames \subseteq Nat \ {0}
    /\ TableFrames \subseteq Nat \ {0} /\ Pool \subseteq TableFrames
    /\ PgPml4 \in TableFrames \ Pool /\ PgPdptHigh \in TableFrames \ Pool /\ PgPdHigh \in TableFrames \ Pool
    /\ PgPml4 # PgPdptHigh /\ PgPml4 # PgPdHigh /\ PgPdptHigh # PgPdHigh
    /\ KernelIdx \in Nat /\ KernelIdx \in Idx /\ HighIdx \in Idx
    /\ \A v \in Virt : v.pml4e \in Idx /\ v.pdpte \in Idx /\ v.pde \in Idx /\ v.pte \in Idx
<1>1. TEMPMAP_PAGES \in Nat \ {0} /\ RegionFrames \in Nat \ {0} /\ Slot \subseteq Nat \ {0}
  BY VMAssumption DEF Slot
<1>2. /\ Pool \subseteq Nat \ {0} /\ DataFrames \subseteq Nat \ {0}
      /\ {PgPml4, PgPdptHigh, PgPdHigh} \subseteq Nat \ (Pool \cup DataFrames \cup {0})
  BY VMAssumption
<1>3. TableFrames \subseteq Nat \ {0} /\ Pool \subseteq TableFrames
  BY <1>2 DEF TableFrames, KernelTables
<1>4. PgPml4 \in TableFrames \ Pool /\ PgPdptHigh \in TableFrames \ Pool /\ PgPdHigh \in TableFrames \ Pool
  BY <1>2 DEF TableFrames, KernelTables
<1>5. /\ PgPml4 # PgPdptHigh /\ PgPml4 # PgPdHigh /\ PgPdptHigh # PgPdHigh
      /\ KernelIdx \in Nat /\ KernelIdx \in Idx /\ HighIdx \in Idx
  BY VMAssumption
<1>6. \A v \in Virt : v.pml4e \in Idx /\ v.pdpte \in Idx /\ v.pde \in Idx /\ v.pte \in Idx
  BY VMAssumption
<1> QED BY <1>1, <1>2, <1>3, <1>4, <1>5, <1>6

LEMMA EntryFacts ==
    /\ Absent \in Entries /\ Absent.present = FALSE /\ Absent.large = FALSE /\ Absent.frame = 0
    /\ Empty \in [Idx -> Entries] /\ \A i \in Idx : Empty[i] = Absent
    /\ \A f \in TableFrames \cup DataFrames, l \in BOOLEAN : Pointer(f, l) \in Entries
    /\ \A f, l : Pointer(f, l).frame = f /\ Pointer(f, l).present = TRUE /\ Pointer(f, l).large = l
    /\ \A e \in Entries : e.present \in BOOLEAN /\ e.large \in BOOLEAN
    /\ \A e \in Entries : ~e.present => e = Absent
    /\ \A e \in Entries : e.present => e.frame \in TableFrames \cup DataFrames /\ e = Pointer(e.frame, e.large)
    /\ \A e \in Entries : e \in Entry
<1>1. Absent \in Entries /\ Absent.present = FALSE /\ Absent.large = FALSE /\ Absent.frame = 0
  BY DEF Entries, Absent
<1>2. Empty \in [Idx -> Entries] /\ \A i \in Idx : Empty[i] = Absent
  BY <1>1 DEF Empty
<1>3. \A f \in TableFrames \cup DataFrames, l \in BOOLEAN : Pointer(f, l) \in Entries
  BY DEF Entries
<1>4. \A f, l : Pointer(f, l).frame = f /\ Pointer(f, l).present = TRUE /\ Pointer(f, l).large = l
  BY DEF Pointer
<1>5. \A e \in Entries : e = Absent \/ \E f \in TableFrames \cup DataFrames, l \in BOOLEAN : e = Pointer(f, l)
  BY DEF Entries
<1>6. ASSUME NEW e \in Entries PROVE e.present \in BOOLEAN /\ e.large \in BOOLEAN
  <2>1. CASE e = Absent
    BY <1>1, <2>1, Zenon
  <2>2. ASSUME NEW f, NEW l \in BOOLEAN, e = Pointer(f, l)
        PROVE  e.present \in BOOLEAN /\ e.large \in BOOLEAN
    BY <1>4, <2>2, Zenon
  <2> QED BY <1>5, <2>1, <2>2
<1>7. \A e \in Entries : ~e.present => e = Absent
  BY <1>4, <1>5
<1>8. \A e \in Entries : e.present => e.frame \in TableFrames \cup DataFrames /\ e = Pointer(e.frame, e.large)
  BY <1>1, <1>4, <1>5
<1>9. \A e \in Entries : e \in Entry
  <2>1. Absent \in Entry
    BY DEF Absent, Entry
  <2>2. \A f \in TableFrames \cup DataFrames, l \in BOOLEAN : Pointer(f, l) \in Entry
    BY DEF Pointer, Entry
  <2> QED BY <2>1, <2>2, <1>5
<1> QED BY <1>1, <1>2, <1>3, <1>4, <1>6, <1>7, <1>8, <1>9

(* The frame behind the region and the offset of a frame is that frame. *)
LEMMA RegionOffset ==
    ASSUME NEW f \in Nat
    PROVE  /\ Region(f) \in Nat /\ Region(f) # Unused /\ Offset(f) \in Nat
           /\ Region(f) * RegionFrames + Offset(f) = f
<1>1. RegionFrames \in Nat \ {0}
  BY ConstantFacts
<1>2. f \div RegionFrames \in Nat /\ f % RegionFrames \in Nat
  BY <1>1, Z3
<1>3. (f \div RegionFrames) * RegionFrames + (f % RegionFrames) = f
  BY <1>1, Z3
<1> QED BY <1>2, <1>3 DEF Region, Offset, Unused

LEMMA LowestIn ==
    ASSUME NEW T, T \subseteq Nat, T # {}
    PROVE  Lowest(T) \in T
<1>1. \E d \in T : \A c \in T : d <= c
  BY SmallestOf
<1> QED BY <1>1 DEF Lowest

(* The slot pstructMap() takes: the one of the region, or an unused one. *)
SlotChosen(tm, f, s) ==
    \/ s = 0
    \/ s \in Slot /\ tm[s] = Region(f)
    \/ s \in Slot /\ tm[s] = Unused /\ \A j \in Slot : tm[j] # Region(f)

LEMMA SlotForFacts ==
    ASSUME NEW tm, NEW f
    PROVE  SlotChosen(tm, f, SlotFor(tm, f))
<1> DEFINE same == {i \in Slot : tm[i] = Region(f)}
           none == {i \in Slot : tm[i] = Unused}
<1>1. same \subseteq Nat /\ none \subseteq Nat
  BY ConstantFacts
<1>2. CASE same # {}
  <2>1. Lowest(same) \in same
    <3> HIDE DEF same
    <3> QED BY <1>1, <1>2, LowestIn
  <2>2. SlotFor(tm, f) = Lowest(same)
    BY <1>2 DEF SlotFor
  <2> QED BY <2>1, <2>2 DEF SlotChosen
<1>3. CASE same = {} /\ none # {}
  <2>1. Lowest(none) \in none
    <3> HIDE DEF none
    <3> QED BY <1>1, <1>3, LowestIn
  <2>2. SlotFor(tm, f) = Lowest(none)
    BY <1>3 DEF SlotFor
  <2> QED BY <1>3, <2>1, <2>2 DEF SlotChosen
<1>4. CASE same = {} /\ none = {}
  BY <1>4 DEF SlotFor, SlotChosen
<1> QED BY <1>2, <1>3, <1>4
-----------------------------------------------------------------------------
(* A pointer through a temporary mapping to frame f. *)
Points(st, p, f) == p \in Ptr /\ ~Faults(st, p) /\ FrameAt(st, p) = f

(* The mappings there were stay; nothing but the mappings is touched. *)
KeepsSlots(st, y) == \A i \in Slot : st.tm[i] # Unused => y.tm[i] = st.tm[i]
SameTables(st, y) == y.table = st.table /\ y.used = st.used /\ y.new = st.new

(* What pstructMap() does. *)
MapResult(st, f, y) ==
    /\ y \in St /\ Once(y.tm) /\ SameTables(st, y) /\ KeepsSlots(st, y)
    /\ \/ y.status = "halt" /\ y.at = st.at
       \/ y.status = "ok" /\ \E p \in Ptr : y.at = Append(st.at, p) /\ Points(y, p, f)

LEMMA MapFacts ==
    ASSUME NEW st, NEW f, NEW y, st \in St, st.status = "ok", Once(st.tm),
           f \in TableFrames \cup DataFrames, y = PstructMap(st, f)
    PROVE  MapResult(st, f, y)
<1>1. PICK s : s = SlotFor(st.tm, f)
  OBVIOUS
<1>2. SlotChosen(st.tm, f, s)
  BY <1>1, SlotForFacts
<1>3. /\ f \in Nat /\ Region(f) # Unused /\ Offset(f) \in Nat
      /\ Region(f) * RegionFrames + Offset(f) = f
  BY ConstantFacts, RegionOffset
<1>4. st.tm \in [Slot -> Regs] /\ Region(f) \in Regs /\ st.at \in Seq(Ptr)
  BY DEF St, Regs
<1>5. CASE s = 0
  <2>1. y = [st EXCEPT !.status = "halt"]
    BY <1>1, <1>5 DEF PstructMap, Halt
  <2>2. y \in St /\ y.tm = st.tm /\ SameTables(st, y) /\ y.status = "halt" /\ y.at = st.at
    BY <2>1 DEF St, SameTables
  <2> QED BY <2>2 DEF MapResult, KeepsSlots
<1>6. CASE s # 0
  <2>1. s \in Slot /\ (st.tm[s] = Region(f) \/ (st.tm[s] = Unused /\ \A j \in Slot : st.tm[j] # Region(f)))
    BY <1>2, <1>6 DEF SlotChosen
  <2>2. PICK tm1 : tm1 = [st.tm EXCEPT ![s] = Region(f)]
    OBVIOUS
  <2>3. PICK p : p = [slot |-> s, off |-> Offset(f)]
    OBVIOUS
  <2>4. PICK at1 : at1 = Append(st.at, p)
    OBVIOUS
  <2>5. y = [st EXCEPT !.tm = tm1, !.at = at1]
    BY <1>1, <1>6, <2>2, <2>3, <2>4 DEF PstructMap, St
  <2>6. p \in Ptr /\ p.slot = s /\ p.off = Offset(f)
    BY <1>3, <2>1, <2>3 DEF Ptr
  <2>7. at1 \in Seq(Ptr)
    BY <1>4, <2>4, <2>6
  <2>8. tm1 \in [Slot -> Regs] /\ \A i \in Slot : tm1[i] = IF i = s THEN Region(f) ELSE st.tm[i]
    BY <1>4, <2>1, <2>2
  <2>9. /\ y \in St /\ SameTables(st, y) /\ y.status = "ok" /\ y.tm = tm1 /\ y.at = Append(st.at, p)
    BY <2>4, <2>5, <2>7, <2>8 DEF St, SameTables
  <2>10. KeepsSlots(st, y)
    BY <2>1, <2>8, <2>9 DEF KeepsSlots
  <2>11. Once(y.tm)
    <3> SUFFICES ASSUME NEW i \in Slot, NEW j \in Slot, i # j, tm1[i] = tm1[j] PROVE tm1[i] = Unused
      BY <2>9 DEF Once
    <3>1. \A k \in Slot : k # s => st.tm[k] # Region(f)
      BY <1>3, <2>1 DEF Once
    <3>2. CASE i # s /\ j # s
      BY <2>8, <3>2 DEF Once
    <3>3. CASE i = s \/ j = s
      BY <2>8, <3>1, <3>3
    <3> QED BY <3>2, <3>3
  <2>12. Points(y, p, f)
    BY <1>3, <2>1, <2>6, <2>8, <2>9 DEF Points, Faults, FrameAt
  <2> QED BY <2>6, <2>9, <2>10, <2>11, <2>12 DEF MapResult
<1> QED BY <1>5, <1>6

(* A pointer is good for as long as its mapping stays. *)
LEMMA PointsKept ==
    ASSUME NEW st, NEW y, NEW p, NEW f, Points(st, p, f), y.tm[p.slot] = st.tm[p.slot]
    PROVE  Points(y, p, f)
  BY DEF Points, Faults, FrameAt

LEMMA PointsKeptAll ==
    ASSUME NEW st, NEW y, NEW p, NEW f, Points(st, p, f), KeepsSlots(st, y)
    PROVE  Points(y, p, f)
<1>1. p.slot \in Slot /\ st.tm[p.slot] # Unused
  BY DEF Points, Faults, Ptr
<1>2. y.tm[p.slot] = st.tm[p.slot]
  BY <1>1 DEF KeepsSlots
<1> QED BY <1>2, PointsKept

(* Releasing mappings. *)
LEMMA Released ==
    ASSUME NEW tm, NEW tm1, tm \in [Slot -> Regs], Once(tm),
           tm1 \in [Slot -> Regs], \A i \in Slot : tm1[i] \in {tm[i], Unused}
    PROVE  Once(tm1)
  BY DEF Once

UnmapResult(st, y) ==
    /\ y \in St /\ Once(y.tm) /\ SameTables(st, y) /\ y.status = st.status /\ y.at = st.at
    /\ \A i \in Slot : y.tm[i] \in {st.tm[i], Unused}

LEMMA UnmapFacts ==
    ASSUME NEW st, NEW p, NEW y, st \in St, Once(st.tm), p \in Ptr, y = PstructUnmap(st, p)
    PROVE  UnmapResult(st, y)
<1>1. CASE st.status = "ok" /\ p.off = 0
  <2>1. p.slot \in Slot /\ Unused \in Regs
    BY DEF Ptr, Regs
  <2>2. PICK tm1 : tm1 = [st.tm EXCEPT ![p.slot] = Unused]
    OBVIOUS
  <2>3. tm1 \in [Slot -> Regs] /\ \A i \in Slot : tm1[i] \in {st.tm[i], Unused}
    BY <2>1, <2>2 DEF St
  <2>4. y = [st EXCEPT !.tm = tm1]
    BY <1>1, <2>2 DEF PstructUnmap, St
  <2>5. y \in St /\ y.tm = tm1 /\ SameTables(st, y) /\ y.status = st.status /\ y.at = st.at
    BY <2>3, <2>4 DEF St, SameTables
  <2>6. Once(tm1)
    BY <2>3, Released DEF St
  <2> QED BY <2>3, <2>5, <2>6 DEF UnmapResult
<1>2. CASE ~(st.status = "ok" /\ p.off = 0)
  BY <1>2 DEF PstructUnmap, UnmapResult, SameTables
<1> QED BY <1>1, <1>2

LEMMA UnmapFromFacts ==
    ASSUME NEW st, NEW k, NEW y, st \in St, Once(st.tm), y = UnmapFrom(st, k)
    PROVE  UnmapResult(st, y)
<1>1. PICK tm1 : tm1 = [i \in Slot |->
        IF \E j \in 1..k : st.at[j].slot = i /\ st.at[j].off = 0 THEN Unused ELSE st.tm[i]]
  OBVIOUS
<1>2. y = [st EXCEPT !.tm = tm1]
  BY <1>1 DEF UnmapFrom, St
<1>3. tm1 \in [Slot -> Regs] /\ \A i \in Slot : tm1[i] \in {st.tm[i], Unused}
  BY <1>1 DEF St, Regs
<1>4. y \in St /\ y.tm = tm1 /\ SameTables(st, y) /\ y.status = st.status /\ y.at = st.at
  BY <1>2, <1>3 DEF St, SameTables
<1>5. Once(tm1)
  BY <1>3, Released DEF St
<1> QED BY <1>3, <1>4, <1>5 DEF UnmapResult
-----------------------------------------------------------------------------
(* PhysicalMemory hands out a free frame when there is one. *)
LEMMA ChoiceFree ==
    ASSUME NEW st, NEW order \in AllocOrders, Free(st) # {}
    PROVE  Choice(st, order) \in Pool \ st.used
<1> DEFINE T == {i \in DOMAIN order : order[i] \in Free(st)}
<1>1. order \in Seq(Pool) /\ \A f \in Pool : \E i \in DOMAIN order : order[i] = f
  BY VMAssumption
<1>2. T \subseteq Nat
  BY <1>1
<1>3. T # {}
  BY <1>1 DEF Free
<1>4. Lowest(T) \in T
  <2> HIDE DEF T
  <2> QED BY <1>2, <1>3, LowestIn
<1> QED BY <1>4 DEF Choice, Free

(* What allocatePStructAny() does: a free frame is taken and zeroed; the
   mappings there were stay or are released. *)
AllocResult(st, y) ==
    /\ y \in St /\ Once(y.tm)
    /\ \/ y.status = "halt"
       \/ /\ y.status = "ok" /\ y.at = st.at
          /\ y.new \in Pool \ st.used /\ y.used = st.used \cup {y.new}
          /\ y.table = [st.table EXCEPT ![y.new] = Empty]
          /\ \A i \in Slot : st.tm[i] # Unused => y.tm[i] \in {st.tm[i], Unused}

LEMMA AppendLast ==
    ASSUME NEW T, NEW s \in Seq(T), NEW p \in T
    PROVE  /\ Append(s, p) \in Seq(T) /\ Len(Append(s, p)) = Len(s) + 1 /\ Len(s) \in Nat
           /\ Append(s, p)[Len(Append(s, p))] = p
           /\ \A i \in 1..Len(s) : Append(s, p)[i] = s[i]
  OBVIOUS

LEMMA AllocFacts ==
    ASSUME NEW st, NEW order \in AllocOrders, NEW y, st \in St, st.status = "ok", Once(st.tm),
           y = AllocatePStructAny(st, order)
    PROVE  AllocResult(st, y)
<1>1. CASE Free(st) = {}
  <2>1. y = [st EXCEPT !.status = "halt"]
    BY <1>1 DEF AllocatePStructAny, Halt
  <2>2. y \in St /\ y.tm = st.tm /\ y.status = "halt"
    BY <2>1 DEF St
  <2> QED BY <2>2 DEF AllocResult
<1>2. CASE Free(st) # {}
  <2>1. PICK f : f = Choice(st, order)
    OBVIOUS
  <2>2. f \in Pool \ st.used /\ f \in Nat /\ f \in TableFrames
    BY <1>2, <2>1, ChoiceFree, ConstantFacts
  <2>3. PICK u : u = st.used \cup {f}
    OBVIOUS
  <2>4. PICK s0 : s0 = [st EXCEPT !.used = u, !.new = f]
    OBVIOUS
  <2>5. PICK s1 : s1 = PstructMap(s0, f)
    OBVIOUS
  <2>6. /\ s0 \in St /\ s0.tm = st.tm /\ s0.table = st.table /\ s0.used = u /\ s0.new = f
        /\ s0.status = "ok" /\ s0.at = st.at
    BY <2>2, <2>3, <2>4 DEF St
  <2>7. MapResult(s0, f, s1)
    BY <2>2, <2>5, <2>6, MapFacts
  <2>8. y = IF s1.status # "ok" THEN s1
            ELSE PstructUnmap([s1 EXCEPT !.table[f] = Empty, !.at = st.at], Top(s1))
    BY <1>2, <2>1, <2>3, <2>4, <2>5 DEF AllocatePStructAny
  <2>9. CASE s1.status # "ok"
    <3>1. s1.status = "halt" /\ s1 \in St /\ Once(s1.tm)
      BY <2>7, <2>9 DEF MapResult
    <3> QED BY <2>8, <2>9, <3>1 DEF AllocResult
  <2>10. CASE s1.status = "ok"
    <3>1. PICK p \in Ptr : s1.at = Append(st.at, p) /\ Points(s1, p, f)
      BY <2>6, <2>7, <2>10 DEF MapResult
    <3>2. Top(s1) = p
      <4>1. st.at \in Seq(Ptr)
        BY DEF St
      <4> QED BY <3>1, <4>1, AppendLast DEF Top
    <3>3. s1 \in St /\ Once(s1.tm) /\ s1.table = st.table /\ s1.used = u /\ s1.new = f
          /\ KeepsSlots(s0, s1)
      BY <2>6, <2>7 DEF MapResult, SameTables
    <3>4. PICK t1 : t1 = [st.table EXCEPT ![f] = Empty]
      OBVIOUS
    <3>5. t1 \in [TableFrames -> [Idx -> Entries]]
      BY <2>2, <3>4, EntryFacts DEF St
    <3>6. PICK s2 : s2 = [s1 EXCEPT !.table = t1, !.at = st.at]
      OBVIOUS
    <3>7. /\ s2 \in St /\ s2.tm = s1.tm /\ s2.table = t1 /\ s2.used = u /\ s2.new = f
          /\ s2.status = "ok" /\ s2.at = st.at
      BY <2>10, <3>3, <3>5, <3>6 DEF St
    <3>8. y = PstructUnmap(s2, p)
      BY <2>8, <2>10, <3>2, <3>3, <3>4, <3>6
    <3>9. UnmapResult(s2, y)
      BY <3>1, <3>3, <3>7, <3>8, UnmapFacts
    <3>10. /\ y \in St /\ Once(y.tm) /\ y.status = "ok" /\ y.at = st.at
           /\ y.table = t1 /\ y.used = u /\ y.new = f
           /\ \A i \in Slot : y.tm[i] \in {s1.tm[i], Unused}
      BY <3>7, <3>9 DEF UnmapResult, SameTables
    <3>11. \A i \in Slot : st.tm[i] # Unused => y.tm[i] \in {st.tm[i], Unused}
      BY <2>6, <3>3, <3>10 DEF KeepsSlots
    <3> QED BY <2>2, <2>3, <3>4, <3>10, <3>11 DEF AllocResult
  <2> QED BY <2>9, <2>10
<1> QED BY <1>1, <1>2
-----------------------------------------------------------------------------
(* A new structure c2 is entry i of the structure c. *)
Linked(t, U, c, i, c2, t1, U1) ==
    /\ c2 \in Pool \ U /\ U1 = U \cup {c2} /\ ~t[c][i].present
    /\ t1 = [[t EXCEPT ![c2] = Empty] EXCEPT ![c][i] = Pointer(c2, FALSE)]

(* The structure that entry i of c refers to, found or made. *)
Followed(t, U, c, i, force, c2, t1, U1) ==
    \/ t[c][i].present /\ c2 = t[c][i].frame /\ t1 = t /\ U1 = U
    \/ ~force /\ Linked(t, U, c, i, c2, t1, U1)

(* What one level of splitVirtualAndMap() does. *)
DescendResult(st, c, i, force, y) ==
    /\ y \in St /\ Once(y.tm)
    /\ \/ y.status = "halt"
       \/ y.status = "absent" /\ force /\ y.table = st.table /\ y.used = st.used /\ ~st.table[c][i].present
       \/ /\ y.status = "ok"
          /\ \E p \in Ptr, c2 \in TableFrames \cup DataFrames :
                /\ y.at = Append(st.at, p) /\ Points(y, p, c2) /\ Points(y, Top(st), c)
                /\ Followed(st.table, st.used, c, i, force, c2, y.table, y.used)

LEMMA DescendFacts ==
    ASSUME NEW st, NEW c, NEW i \in Idx, NEW force \in BOOLEAN, NEW order, NEW y,
           st \in St, st.status = "ok", Once(st.tm), c \in TableFrames, Points(st, Top(st), c),
           force \/ order \in AllocOrders, y = Descend(st, i, force, order)
    PROVE  DescendResult(st, c, i, force, y)
<1>1. PICK cur : cur = Top(st)
  OBVIOUS
<1>2. FrameAt(st, cur) = c /\ cur \in Ptr /\ cur.slot \in Slot /\ st.tm[cur.slot] # Unused
  BY <1>1 DEF Points, Faults, Ptr
<1>3. PICK e : e = st.table[c][i]
  OBVIOUS
<1>4. e \in Entries
  BY <1>3 DEF St
<1>5. CASE e.present
  <2>1. e.frame \in TableFrames \cup DataFrames
    BY <1>4, <1>5, EntryFacts
  <2>2. y = PstructMap(st, e.frame)
    BY <1>1, <1>2, <1>3, <1>5 DEF Descend
  <2>3. MapResult(st, e.frame, y)
    BY <2>1, <2>2, MapFacts
  <2>4. CASE y.status = "halt"
    BY <2>3, <2>4 DEF MapResult, DescendResult
  <2>5. CASE y.status # "halt"
    <3>1. y \in St /\ Once(y.tm) /\ SameTables(st, y) /\ KeepsSlots(st, y) /\ y.status = "ok"
      BY <2>3, <2>5 DEF MapResult
    <3>2. PICK p \in Ptr : y.at = Append(st.at, p) /\ Points(y, p, e.frame)
      BY <2>3, <2>5 DEF MapResult
    <3>3. Points(y, Top(st), c)
      BY <3>1, PointsKeptAll
    <3>4. Followed(st.table, st.used, c, i, force, e.frame, y.table, y.used)
      BY <1>3, <1>5, <3>1 DEF Followed, SameTables
    <3> QED BY <2>1, <3>1, <3>2, <3>3, <3>4 DEF DescendResult
  <2> QED BY <2>4, <2>5
<1>6. CASE ~e.present /\ force
  <2>1. y = [st EXCEPT !.status = "absent"]
    BY <1>1, <1>2, <1>3, <1>6 DEF Descend
  <2>2. y \in St /\ y.tm = st.tm /\ y.table = st.table /\ y.used = st.used /\ y.status = "absent"
    BY <2>1 DEF St
  <2> QED BY <1>3, <1>6, <2>2 DEF DescendResult
<1>7. CASE ~e.present /\ ~force
  <2>1. PICK s1 : s1 = AllocatePStructAny(st, order)
    OBVIOUS
  <2>2. AllocResult(st, s1)
    BY <1>7, <2>1, AllocFacts
  <2>3. y = IF s1.status # "ok" \/ Faults(s1, cur) THEN Halt(s1)
            ELSE PstructMap([s1 EXCEPT !.table[FrameAt(s1, cur)][i] = Pointer(s1.new, FALSE)], s1.new)
    BY <1>1, <1>2, <1>3, <1>7, <2>1 DEF Descend
  <2>4. s1 \in St /\ Once(s1.tm)
    BY <2>2 DEF AllocResult
  <2>5. CASE s1.status # "ok" \/ Faults(s1, cur)
    <3>1. y = [s1 EXCEPT !.status = "halt"]
      BY <2>3, <2>5 DEF Halt
    <3>2. y \in St /\ y.tm = s1.tm /\ y.status = "halt"
      BY <2>4, <3>1 DEF St
    <3> QED BY <2>4, <3>2 DEF DescendResult
  <2>6. CASE ~(s1.status # "ok" \/ Faults(s1, cur))
    <3>1. /\ s1.status = "ok" /\ s1.at = st.at
          /\ s1.new \in Pool \ st.used /\ s1.used = st.used \cup {s1.new}
          /\ s1.table = [st.table EXCEPT ![s1.new] = Empty]
          /\ \A k \in Slot : st.tm[k] # Unused => s1.tm[k] \in {st.tm[k], Unused}
      BY <2>2, <2>6 DEF AllocResult
    <3>2. PICK c2 : c2 = s1.new
      OBVIOUS
    <3>3. c2 \in TableFrames
      BY <3>1, <3>2, ConstantFacts
    <3>4. s1.tm[cur.slot] = st.tm[cur.slot]
      BY <1>2, <2>6, <3>1 DEF Faults
    <3>5. Points(s1, cur, c)
      BY <1>1, <3>4, PointsKept
    <3>6. FrameAt(s1, cur) = c
      BY <3>5 DEF Points
    <3>7. PICK t1 : t1 = [s1.table EXCEPT ![c][i] = Pointer(c2, FALSE)]
      OBVIOUS
    <3>8. t1 \in [TableFrames -> [Idx -> Entries]]
      <4>1. Pointer(c2, FALSE) \in Entries
        BY <3>3, EntryFacts
      <4>2. s1.table \in [TableFrames -> [Idx -> Entries]]
        BY <2>4 DEF St
      <4> QED BY <3>7, <4>1, <4>2
    <3>9. PICK s2 : s2 = [s1 EXCEPT !.table = t1]
      OBVIOUS
    <3>10. /\ s2 \in St /\ s2.tm = s1.tm /\ s2.table = t1 /\ s2.used = s1.used
           /\ s2.status = "ok" /\ s2.at = st.at
      BY <2>4, <3>1, <3>8, <3>9 DEF St
    <3>11. y = PstructMap(s2, c2)
      <4>1. y = PstructMap([s1 EXCEPT !.table[c][i] = Pointer(c2, FALSE)], c2)
        BY <2>3, <2>6, <3>2, <3>6
      <4>2. [s1 EXCEPT !.table[c][i] = Pointer(c2, FALSE)] = s2
        BY <3>7, <3>9
      <4> QED BY <4>1, <4>2
    <3>12. MapResult(s2, c2, y)
      BY <2>4, <3>3, <3>10, <3>11, MapFacts
    <3>13. CASE y.status = "halt"
      BY <3>12, <3>13 DEF MapResult, DescendResult
    <3>14. CASE y.status # "halt"
      <4>1. y \in St /\ Once(y.tm) /\ SameTables(s2, y) /\ KeepsSlots(s2, y) /\ y.status = "ok"
        BY <3>12, <3>14 DEF MapResult
      <4>2. PICK p \in Ptr : y.at = Append(s2.at, p) /\ Points(y, p, c2)
        BY <3>12, <3>14 DEF MapResult
      <4>3. Points(s2, cur, c)
        BY <3>5, <3>10, PointsKept
      <4>4. Points(y, cur, c)
        BY <4>1, <4>3, PointsKeptAll
      <4>5. y.table = t1 /\ y.used = st.used \cup {c2}
        BY <3>1, <3>2, <3>10, <4>1 DEF SameTables
      <4>6. Linked(st.table, st.used, c, i, c2, y.table, y.used)
        BY <1>3, <1>7, <3>1, <3>2, <3>7, <4>5 DEF Linked
      <4>7. Followed(st.table, st.used, c, i, force, c2, y.table, y.used)
        BY <1>7, <4>6 DEF Followed
      <4> QED BY <1>1, <3>3, <3>10, <4>1, <4>2, <4>4, <4>7 DEF DescendResult
    <3> QED BY <3>13, <3>14
  <2> QED BY <2>5, <2>6
<1> QED BY <1>5, <1>6, <1>7
-----------------------------------------------------------------------------
Tables == [TableFrames -> [Idx -> Entries]]
All(S, A, B, C) == S \cup A \cup B \cup C

(* Among the structures L only entry i of c is new. *)
Changed(t, t1, c, i, e, L) ==
    \A f \in L, j \in Idx : t1[f][j] = IF f = c /\ j = i THEN e ELSE t[f][j]

(* Every address is mapped as it was. *)
SameView(t, t1, S) == \A r \in S, w \in Virt : Resolve(t1, r, w) = Resolve(t, r, w)

LEMMA ShapeIn ==
    ASSUME NEW t, NEW U, NEW S, NEW A, NEW B, NEW C, U \subseteq Pool, Shape(t, U, S, A, B, C)
    PROVE  All(S, A, B, C) \subseteq TableFrames /\ All(S, A, B, C) \cap (Pool \ U) = {}
  BY ConstantFacts DEF Shape, LevelsOk, All

LinkedResult(t, c, i, c2, t1) ==
    /\ t1 \in Tables /\ \A j \in Idx : t1[c2][j] = Absent
    /\ \A f \in TableFrames \ {c2}, j \in Idx :
          t1[f][j] = IF f = c /\ j = i THEN Pointer(c2, FALSE) ELSE t[f][j]

LEMMA LinkedEntries ==
    ASSUME NEW t, NEW U, NEW c, NEW i, NEW c2, NEW t1, NEW U1, t \in Tables, i \in Idx,
           c \in TableFrames, c # c2, Linked(t, U, c, i, c2, t1, U1)
    PROVE  LinkedResult(t, c, i, c2, t1)
<1>1. PICK t0 : t0 = [t EXCEPT ![c2] = Empty]
  OBVIOUS
<1>2. PICK e : e = Pointer(c2, FALSE)
  OBVIOUS
<1>3. c2 \in TableFrames /\ e \in Entries
  BY <1>2, ConstantFacts, EntryFacts DEF Linked
<1>4. t1 = [t0 EXCEPT ![c][i] = e]
  BY <1>1, <1>2 DEF Linked
<1>5. t0 \in [TableFrames -> [Idx -> Entries]] /\ \A f \in TableFrames : t0[f] = IF f = c2 THEN Empty ELSE t[f]
  BY <1>1, <1>3, EntryFacts DEF Tables
<1>6. /\ t1 \in [TableFrames -> [Idx -> Entries]]
      /\ \A f \in TableFrames, j \in Idx : t1[f][j] = IF f = c /\ j = i THEN e ELSE t0[f][j]
  BY <1>3, <1>4, <1>5
<1>7. \A j \in Idx : t1[c2][j] = Absent
  BY <1>3, <1>5, <1>6, EntryFacts
<1>8. \A f \in TableFrames \ {c2}, j \in Idx :
         t1[f][j] = IF f = c /\ j = i THEN e ELSE t[f][j]
  BY <1>5, <1>6
<1> QED BY <1>2, <1>6, <1>7, <1>8 DEF Tables, LinkedResult

(* The entries an address goes through. *)
Hits(t, r, w, c, i) ==
    LET e1 == t[r][w.pml4e]
        e2 == t[e1.frame][w.pdpte]
        e3 == t[e2.frame][w.pde]
    IN  \/ r = c /\ w.pml4e = i
        \/ e1.present /\ e1.frame = c /\ w.pdpte = i
        \/ e1.present /\ e2.present /\ e2.frame = c /\ w.pde = i
        \/ e1.present /\ e2.present /\ e3.present /\ ~e3.large /\ e3.frame = c /\ w.pte = i

(* An address is mapped as before when none of its entries is the new one. *)
LEMMA OffPath ==
    ASSUME NEW t, NEW U, NEW S, NEW A, NEW B, NEW C, Shape(t, U, S, A, B, C),
           NEW t1, NEW c, NEW i, NEW e, Changed(t, t1, c, i, e, All(S, A, B, C)),
           NEW r \in S, NEW w \in Virt, ~Hits(t, r, w, c, i)
    PROVE  Resolve(t1, r, w) = Resolve(t, r, w)
<1>1. w.pml4e \in Idx /\ w.pdpte \in Idx /\ w.pde \in Idx /\ w.pte \in Idx
  BY ConstantFacts
<1>2. PICK e1, e2, e3, e4 : e1 = t[r][w.pml4e] /\ e2 = t[e1.frame][w.pdpte]
                           /\ e3 = t[e2.frame][w.pde] /\ e4 = t[e3.frame][w.pte]
  OBVIOUS
<1>3. /\ ~(r = c /\ w.pml4e = i)
      /\ ~(e1.present /\ e1.frame = c /\ w.pdpte = i)
      /\ ~(e1.present /\ e2.present /\ e2.frame = c /\ w.pde = i)
      /\ ~(e1.present /\ e2.present /\ e3.present /\ ~e3.large /\ e3.frame = c /\ w.pte = i)
  BY <1>2 DEF Hits
<1>4. \A f \in All(S, A, B, C), j \in Idx : ~(f = c /\ j = i) => t1[f][j] = t[f][j]
  BY DEF Changed
<1>5. t1[r][w.pml4e] = e1
  BY <1>1, <1>2, <1>3, <1>4 DEF All
<1>6. e1.present => e1.frame \in A
  BY <1>1, <1>2 DEF Shape, TopOk
<1>7. e1.present => t1[e1.frame][w.pdpte] = e2
  BY <1>1, <1>2, <1>3, <1>4, <1>6 DEF All
<1>8. e1.present /\ e2.present => e2.frame \in B
  BY <1>1, <1>2, <1>6 DEF Shape, LowOk
<1>9. e1.present /\ e2.present => t1[e2.frame][w.pde] = e3
  BY <1>1, <1>2, <1>3, <1>4, <1>8 DEF All
<1>10. e1.present /\ e2.present /\ e3.present /\ ~e3.large => e3.frame \in C
  BY <1>1, <1>2, <1>8 DEF Shape, LowOk
<1>11. e1.present /\ e2.present /\ e3.present /\ ~e3.large => t1[e3.frame][w.pte] = e4
  BY <1>1, <1>2, <1>3, <1>4, <1>10 DEF All
<1> QED BY <1>2, <1>5, <1>7, <1>9, <1>11 DEF Resolve

(* A new structure is below nothing that was there, and changes no address. *)
LinkResult(t, c, i, c2, t1, U1, S, A, B, C) ==
    /\ t1 \in Tables /\ U1 \subseteq Pool /\ t1[c][i] = Pointer(c2, FALSE)
    /\ Changed(t, t1, c, i, Pointer(c2, FALSE), All(S, A, B, C))
    /\ SameView(t, t1, S)
    /\ c \in S => Shape(t1, U1, S, A \cup {c2}, B, C)
    /\ c \in A => Shape(t1, U1, S, A, B \cup {c2}, C)
    /\ c \in B => Shape(t1, U1, S, A, B, C \cup {c2})

LEMMA TopSame ==
    ASSUME NEW t, NEW t1, NEW S, NEW A, TopOk(t, S, A), \A s \in S, j \in Idx : t1[s][j] = t[s][j]
    PROVE  TopOk(t1, S, A)
<1>1. \A s \in S : t1[s][KernelIdx] = t[s][KernelIdx]
  BY ConstantFacts
<1>2. PgPml4 \in S /\ PgPdptHigh \in A /\ \A s \in S : t1[s][KernelIdx] = Pointer(PgPdptHigh, FALSE)
  BY <1>1 DEF TopOk
<1>3. \A s \in S, i \in Idx : t1[s][i].present =>
        ~t1[s][i].large /\ t1[s][i].frame \in A /\ (i # KernelIdx => t1[s][i].frame # PgPdptHigh)
  BY DEF TopOk
<1>4. \A s, r \in S, i, j \in Idx :
        t1[s][i].present /\ t1[r][j].present /\ t1[s][i].frame = t1[r][j].frame
        /\ t1[s][i].frame # PgPdptHigh => s = r /\ i = j
  BY DEF TopOk
<1> QED BY <1>2, <1>3, <1>4 DEF TopOk

LEMMA LinkView ==
    ASSUME NEW t, NEW U, NEW S, NEW A, NEW B, NEW C, Shape(t, U, S, A, B, C),
           NEW t1, NEW c, NEW i, NEW c2, c \in S \cup A \cup B, i \in Idx, ~t[c][i].present,
           Changed(t, t1, c, i, Pointer(c2, FALSE), All(S, A, B, C)), LinkedResult(t, c, i, c2, t1)
    PROVE  SameView(t, t1, S)
<1> SUFFICES ASSUME NEW r \in S, NEW w \in Virt PROVE Resolve(t1, r, w) = Resolve(t, r, w)
  BY DEF SameView
<1>1. CASE ~Hits(t, r, w, c, i)
  <2>1. PICK e : e = Pointer(c2, FALSE)
    OBVIOUS
  <2>2. Changed(t, t1, c, i, e, All(S, A, B, C))
    BY <2>1
  <2> QED BY <1>1, <2>2, OffPath
<1>2. CASE Hits(t, r, w, c, i)
  <2>1. w.pml4e \in Idx /\ w.pdpte \in Idx /\ w.pde \in Idx /\ w.pte \in Idx
    BY ConstantFacts
  <2>2. PICK e1, e2, e3 : e1 = t[r][w.pml4e] /\ e2 = t[e1.frame][w.pdpte] /\ e3 = t[e2.frame][w.pde]
    OBVIOUS
  <2>3. \/ r = c /\ w.pml4e = i
        \/ e1.present /\ e1.frame = c /\ w.pdpte = i
        \/ e1.present /\ e2.present /\ e2.frame = c /\ w.pde = i
        \/ e1.present /\ e2.present /\ e3.present /\ ~e3.large /\ e3.frame = c /\ w.pte = i
    BY <1>2, <2>2 DEF Hits
  <2>4. e1.present => e1.frame \in A
    BY <2>1, <2>2 DEF Shape, TopOk
  <2>5. e1.present /\ e2.present => e2.frame \in B
    BY <2>1, <2>2, <2>4 DEF Shape, LowOk
  <2>6. e1.present /\ e2.present /\ e3.present /\ ~e3.large => e3.frame \in C
    BY <2>1, <2>2, <2>5 DEF Shape, LowOk
  <2>7. S \cap (A \cup B \cup C) = {} /\ A \cap (B \cup C) = {} /\ B \cap C = {}
    BY DEF Shape, LevelsOk
  <2>8. \A f \in All(S, A, B, C), j \in Idx : ~(f = c /\ j = i) => t1[f][j] = t[f][j]
    BY DEF Changed
  <2>9. t1[c][i] = Pointer(c2, FALSE)
    BY DEF Changed, All
  <2>10. /\ t1[c][i].frame = c2 /\ t1[c][i].present /\ ~t1[c][i].large
         /\ \A j \in Idx : ~t1[c2][j].present
    <3>1. t1[c][i].frame = c2 /\ t1[c][i].present = TRUE /\ t1[c][i].large = FALSE
      BY <2>9 DEF Pointer
    <3>2. \A j \in Idx : ~t1[c2][j].present
      BY DEF Absent, LinkedResult
    <3> QED BY <3>1, <3>2
  <2>11. CASE c \in S
    <3>1. r = c /\ w.pml4e = i
      BY <2>3, <2>4, <2>5, <2>6, <2>7, <2>11
    <3>2. Resolve(t, r, w) = 0
      BY <3>1 DEF Resolve
    <3>3. Resolve(t1, r, w) = 0
      BY <2>1, <2>10, <3>1 DEF Resolve
    <3> QED BY <3>2, <3>3
  <2>12. CASE c \in A
    <3>1. e1.present /\ e1.frame = c /\ w.pdpte = i
      BY <2>3, <2>5, <2>6, <2>7, <2>12
    <3>2. Resolve(t, r, w) = 0
      BY <2>2, <3>1 DEF Resolve
    <3>3. t1[r][w.pml4e] = e1
      BY <2>1, <2>2, <2>7, <2>8, <2>12 DEF All
    <3>4. Resolve(t1, r, w) = 0
      BY <2>1, <2>10, <3>1, <3>3 DEF Resolve
    <3> QED BY <3>2, <3>4
  <2>13. CASE c \in B
    <3>1. e1.present /\ e2.present /\ e2.frame = c /\ w.pde = i
      BY <2>3, <2>4, <2>6, <2>7, <2>13
    <3>2. Resolve(t, r, w) = 0
      BY <2>2, <3>1 DEF Resolve
    <3>3. t1[r][w.pml4e] = e1
      BY <2>1, <2>2, <2>7, <2>8, <2>13 DEF All
    <3>4. t1[e1.frame][w.pdpte] = e2
      BY <2>1, <2>2, <2>4, <2>7, <2>8, <2>13, <3>1 DEF All
    <3>5. Resolve(t1, r, w) = 0
      BY <2>1, <2>10, <3>1, <3>3, <3>4 DEF Resolve
    <3> QED BY <3>2, <3>5
  <2> QED BY <2>11, <2>12, <2>13
<1> QED BY <1>1, <1>2

LEMMA LinkFacts ==
    ASSUME NEW t, NEW U, NEW S, NEW A, NEW B, NEW C, t \in Tables, U \subseteq Pool,
           Shape(t, U, S, A, B, C), NEW c, NEW i, NEW c2, NEW t1, NEW U1,
           c \in S \cup A \cup B, i \in Idx, Linked(t, U, c, i, c2, t1, U1)
    PROVE  LinkResult(t, c, i, c2, t1, U1, S, A, B, C)
<1>1. All(S, A, B, C) \subseteq TableFrames /\ All(S, A, B, C) \cap (Pool \ U) = {}
  BY ShapeIn
<1>2. c2 \in Pool \ U /\ U1 = U \cup {c2} /\ ~t[c][i].present
  BY DEF Linked
<1>3. c2 \notin All(S, A, B, C) /\ c \in All(S, A, B, C) /\ c # c2 /\ c \in TableFrames
  BY <1>1, <1>2 DEF All
<1>0. LinkedResult(t, c, i, c2, t1)
  BY <1>3, LinkedEntries
<1>4. /\ t1 \in Tables /\ \A j \in Idx : t1[c2][j] = Absent
      /\ \A f \in TableFrames \ {c2}, j \in Idx :
            t1[f][j] = IF f = c /\ j = i THEN Pointer(c2, FALSE) ELSE t[f][j]
  BY <1>0 DEF LinkedResult
<1>5. Changed(t, t1, c, i, Pointer(c2, FALSE), All(S, A, B, C))
  BY <1>1, <1>3, <1>4 DEF Changed
<1>6. SameView(t, t1, S)
  BY <1>2, <1>0, <1>5, LinkView
<1>7. t1[c][i] = Pointer(c2, FALSE) /\ U1 \subseteq Pool
  BY <1>2, <1>3, <1>5 DEF Changed
<1>8. PICK e : e = Pointer(c2, FALSE)
  OBVIOUS
<1>9. e.frame = c2 /\ e.present /\ ~e.large
  BY <1>8, EntryFacts
<1>10. \A f \in All(S, A, B, C), j \in Idx : t1[f][j] = IF f = c /\ j = i THEN e ELSE t[f][j]
  BY <1>5, <1>8 DEF Changed
<1>11. \A j \in Idx : ~t1[c2][j].present /\ ~t1[c2][j].large
  BY <1>4, EntryFacts
<1>12. S \cap (A \cup B \cup C) = {} /\ A \cap (B \cup C) = {} /\ B \cap C = {}
  BY DEF Shape, LevelsOk
<1>13. c2 # PgPdptHigh /\ c2 # PgPml4
  BY <1>2, ConstantFacts
<1>14. PICK e0 : e0 = Pointer(PgPdptHigh, FALSE)
  OBVIOUS
<1>15. e0.present /\ e0.frame = PgPdptHigh
  BY <1>14, EntryFacts
<1>16. ASSUME c \in S PROVE Shape(t1, U1, S, A \cup {c2}, B, C)
  <2>1. c \notin A \cup B \cup C
    BY <1>12, <1>16
  <2>2. /\ \A f \in A \cup B \cup C, j \in Idx : t1[f][j] = t[f][j]
    BY <1>10, <2>1 DEF All
  <2>3. \A f \in S, j \in Idx : t1[f][j] = IF f = c /\ j = i THEN e ELSE t[f][j]
    BY <1>10 DEF All
  <2>4. TopOk(t1, S, A \cup {c2})
    <3>1. PgPml4 \in S /\ PgPdptHigh \in A \cup {c2}
      BY DEF Shape, TopOk
    <3>2. \A s \in S : t1[s][KernelIdx] = e0
      BY <1>2, <1>14, <1>15, <2>3, ConstantFacts DEF Shape, TopOk
    <3>3. \A s \in S, j \in Idx : t1[s][j].present =>
            ~t1[s][j].large /\ t1[s][j].frame \in A \cup {c2} /\ (j # KernelIdx => t1[s][j].frame # PgPdptHigh)
      BY <1>9, <1>13, <2>3 DEF Shape, TopOk
    <3>4. \A s \in S, j \in Idx : t[s][j].present => t[s][j].frame # c2
      BY <1>3 DEF Shape, TopOk, All
    <3>5. \A s, r \in S, k, j \in Idx :
            t1[s][k].present /\ t1[r][j].present /\ t1[s][k].frame = t1[r][j].frame
            /\ t1[s][k].frame # PgPdptHigh => s = r /\ k = j
      <4>1. \A s, r \in S, k, j \in Idx :
              t[s][k].present /\ t[r][j].present /\ t[s][k].frame = t[r][j].frame
              /\ t[s][k].frame # PgPdptHigh => s = r /\ k = j
        BY DEF Shape, TopOk
      <4> QED BY <1>9, <2>3, <3>4, <4>1
    <3> QED BY <1>14, <3>1, <3>2, <3>3, <3>5 DEF TopOk
  <2>5. LowOk(t1, A \cup {c2}, B, C)
    <3>1. \A f \in A \cup {c2}, j \in Idx : t1[f][j].present => ~t1[f][j].large /\ t1[f][j].frame \in B
      BY <1>11, <2>2 DEF Shape, LowOk
    <3>2. \A f \in B, j \in Idx : t1[f][j].present /\ ~t1[f][j].large => t1[f][j].frame \in C
      BY <2>2 DEF Shape, LowOk
    <3>3. \A f \in C, j \in Idx : ~t1[f][j].large
      BY <2>2 DEF Shape, LowOk
    <3>4. Single(t1, A \cup {c2})
      BY <1>11, <2>2 DEF Shape, LowOk, Single
    <3>5. Single(t1, B)
      BY <2>2 DEF Shape, LowOk, Single
    <3> QED BY <3>1, <3>2, <3>3, <3>4, <3>5 DEF LowOk
  <2>6. LevelsOk(U1, S, A \cup {c2}, B, C)
    BY <1>2, <1>3 DEF Shape, LevelsOk, All
  <2> QED BY <2>4, <2>5, <2>6 DEF Shape
<1>17. ASSUME c \in A PROVE Shape(t1, U1, S, A, B \cup {c2}, C)
  <2>1. c \notin S \cup B \cup C
    BY <1>12, <1>17
  <2>2. /\ \A f \in S \cup B \cup C, j \in Idx : t1[f][j] = t[f][j]
    BY <1>10, <2>1 DEF All
  <2>3. \A f \in A, j \in Idx : t1[f][j] = IF f = c /\ j = i THEN e ELSE t[f][j]
    BY <1>10 DEF All
  <2>4. TopOk(t1, S, A)
    <3>1. TopOk(t, S, A) /\ \A s \in S, j \in Idx : t1[s][j] = t[s][j]
      BY <2>2 DEF Shape
    <3> QED BY <3>1, TopSame
  <2>5. LowOk(t1, A, B \cup {c2}, C)
    <3>1. \A f \in A, j \in Idx : t1[f][j].present => ~t1[f][j].large /\ t1[f][j].frame \in B \cup {c2}
      BY <1>9, <2>3 DEF Shape, LowOk
    <3>2. \A f \in B \cup {c2}, j \in Idx : t1[f][j].present /\ ~t1[f][j].large => t1[f][j].frame \in C
      BY <1>11, <2>2 DEF Shape, LowOk
    <3>3. \A f \in C, j \in Idx : ~t1[f][j].large
      BY <2>2 DEF Shape, LowOk
    <3>4. \A f \in A, j \in Idx : t[f][j].present => t[f][j].frame # c2
      BY <1>3 DEF Shape, LowOk, All
    <3>5. Single(t, A) /\ Single(t, B)
      BY DEF Shape, LowOk
    <3>6. Single(t1, A)
      BY <1>9, <2>3, <3>4, <3>5 DEF Single
    <3>7. Single(t1, B \cup {c2})
      BY <1>11, <2>2, <3>5 DEF Single
    <3> QED BY <3>1, <3>2, <3>3, <3>6, <3>7 DEF LowOk
  <2>6. LevelsOk(U1, S, A, B \cup {c2}, C)
    BY <1>2, <1>3 DEF Shape, LevelsOk, All
  <2> QED BY <2>4, <2>5, <2>6 DEF Shape
<1>18. ASSUME c \in B PROVE Shape(t1, U1, S, A, B, C \cup {c2})
  <2>1. c \notin S \cup A \cup C
    BY <1>12, <1>18
  <2>2. /\ \A f \in S \cup A \cup C, j \in Idx : t1[f][j] = t[f][j]
    BY <1>10, <2>1 DEF All
  <2>3. \A f \in B, j \in Idx : t1[f][j] = IF f = c /\ j = i THEN e ELSE t[f][j]
    BY <1>10 DEF All
  <2>4. TopOk(t1, S, A)
    <3>1. TopOk(t, S, A) /\ \A s \in S, j \in Idx : t1[s][j] = t[s][j]
      BY <2>2 DEF Shape
    <3> QED BY <3>1, TopSame
  <2>5. LowOk(t1, A, B, C \cup {c2})
    <3>1. \A f \in A, j \in Idx : t1[f][j].present => ~t1[f][j].large /\ t1[f][j].frame \in B
      BY <2>2 DEF Shape, LowOk
    <3>2. \A f \in B, j \in Idx : t1[f][j].present /\ ~t1[f][j].large => t1[f][j].frame \in C \cup {c2}
      BY <1>9, <2>3 DEF Shape, LowOk
    <3>3. \A f \in C \cup {c2}, j \in Idx : ~t1[f][j].large
      BY <1>11, <2>2 DEF Shape, LowOk
    <3>4. \A f \in B, j \in Idx : t[f][j].present /\ ~t[f][j].large => t[f][j].frame # c2
      BY <1>3 DEF Shape, LowOk, All
    <3>5. Single(t, A) /\ Single(t, B)
      BY DEF Shape, LowOk
    <3>6. Single(t1, A)
      BY <2>2, <3>5 DEF Single
    <3>7. Single(t1, B)
      BY <1>9, <2>3, <3>4, <3>5 DEF Single
    <3> QED BY <3>1, <3>2, <3>3, <3>6, <3>7 DEF LowOk
  <2>6. LevelsOk(U1, S, A, B, C \cup {c2})
    BY <1>2, <1>3 DEF Shape, LevelsOk, All
  <2> QED BY <2>4, <2>5, <2>6 DEF Shape
<1> QED BY <1>4, <1>5, <1>6, <1>7, <1>16, <1>17, <1>18 DEF LinkResult

(* The entries that were in use stay. *)
Keeps(t, t1, L) == \A f \in L, j \in Idx : t[f][j].present => t1[f][j] = t[f][j]

(* What following an entry leaves: the structure below is of the next level. *)
FollowResult(t, U, c, i, force, c2, t1, U1, S, A, B, C) ==
    /\ t1 \in Tables /\ U1 \subseteq Pool /\ SameView(t, t1, S) /\ Keeps(t, t1, All(S, A, B, C))
    /\ t1[c][i].present /\ t1[c][i].frame = c2 /\ (force => t1 = t /\ U1 = U)
    /\ c \in S => \E A1 : A \subseteq A1 /\ c2 \in A1 /\ Shape(t1, U1, S, A1, B, C)
    /\ c \in A => \E B1 : B \subseteq B1 /\ c2 \in B1 /\ Shape(t1, U1, S, A, B1, C)
    /\ c \in B => \E C1 : C \subseteq C1 /\ (~t1[c][i].large => c2 \in C1) /\ Shape(t1, U1, S, A, B, C1)

LEMMA FollowFacts ==
    ASSUME NEW t, NEW U, NEW S, NEW A, NEW B, NEW C, t \in Tables, U \subseteq Pool,
           Shape(t, U, S, A, B, C), NEW c, NEW i, NEW force, NEW c2, NEW t1, NEW U1,
           c \in S \cup A \cup B, i \in Idx, Followed(t, U, c, i, force, c2, t1, U1)
    PROVE  FollowResult(t, U, c, i, force, c2, t1, U1, S, A, B, C)
<1>1. CASE t[c][i].present /\ c2 = t[c][i].frame /\ t1 = t /\ U1 = U
  <2>1. SameView(t, t1, S) /\ Keeps(t, t1, All(S, A, B, C))
    BY <1>1 DEF SameView, Keeps
  <2>2. c \in S => A \subseteq A /\ c2 \in A /\ Shape(t1, U1, S, A, B, C)
    <3>1. c \in S => c2 \in A
      BY <1>1 DEF Shape, TopOk
    <3> QED BY <1>1, <3>1
  <2>3. c \in A => B \subseteq B /\ c2 \in B /\ Shape(t1, U1, S, A, B, C)
    BY <1>1 DEF Shape, LowOk
  <2>4. c \in B => C \subseteq C /\ (~t1[c][i].large => c2 \in C) /\ Shape(t1, U1, S, A, B, C)
    BY <1>1 DEF Shape, LowOk
  <2>5. c \in S => \E A1 : A \subseteq A1 /\ c2 \in A1 /\ Shape(t1, U1, S, A1, B, C)
    BY <2>2, Zenon
  <2>6. c \in A => \E B1 : B \subseteq B1 /\ c2 \in B1 /\ Shape(t1, U1, S, A, B1, C)
    BY <2>3, Zenon
  <2>7. c \in B => \E C1 : C \subseteq C1 /\ (~t1[c][i].large => c2 \in C1) /\ Shape(t1, U1, S, A, B, C1)
    BY <2>4, Zenon
  <2>8. t1 \in Tables /\ U1 \subseteq Pool /\ t1[c][i].present /\ t1[c][i].frame = c2 /\ (force => t1 = t /\ U1 = U)
    BY <1>1
  <2> QED BY <2>1, <2>5, <2>6, <2>7, <2>8, Zenon DEF FollowResult
<1>2. CASE ~force /\ Linked(t, U, c, i, c2, t1, U1)
  <2>1. LinkResult(t, c, i, c2, t1, U1, S, A, B, C)
    BY <1>2, LinkFacts
  <2>2. /\ t1 \in Tables /\ U1 \subseteq Pool /\ t1[c][i] = Pointer(c2, FALSE)
        /\ Changed(t, t1, c, i, Pointer(c2, FALSE), All(S, A, B, C))
        /\ SameView(t, t1, S) /\ ~t[c][i].present
    BY <1>2, <2>1 DEF LinkResult, Linked
  <2>3. Keeps(t, t1, All(S, A, B, C))
    BY <2>2 DEF Keeps, Changed
  <2>4. t1[c][i].present = TRUE /\ t1[c][i].frame = c2
    BY <2>2 DEF Pointer
  <2>5. c \in S => \E A1 : A \subseteq A1 /\ c2 \in A1 /\ Shape(t1, U1, S, A1, B, C)
    <3> SUFFICES ASSUME c \in S PROVE \E A1 : A \subseteq A1 /\ c2 \in A1 /\ Shape(t1, U1, S, A1, B, C)
      OBVIOUS
    <3>1. PICK A1 : A1 = A \cup {c2}
      OBVIOUS
    <3>2. A \subseteq A1 /\ c2 \in A1 /\ Shape(t1, U1, S, A1, B, C)
      BY <2>1, <3>1 DEF LinkResult
    <3> QED BY <3>2
  <2>6. c \in A => \E B1 : B \subseteq B1 /\ c2 \in B1 /\ Shape(t1, U1, S, A, B1, C)
    <3> SUFFICES ASSUME c \in A PROVE \E B1 : B \subseteq B1 /\ c2 \in B1 /\ Shape(t1, U1, S, A, B1, C)
      OBVIOUS
    <3>1. PICK B1 : B1 = B \cup {c2}
      OBVIOUS
    <3>2. B \subseteq B1 /\ c2 \in B1 /\ Shape(t1, U1, S, A, B1, C)
      BY <2>1, <3>1 DEF LinkResult
    <3> QED BY <3>2
  <2>7. c \in B => \E C1 : C \subseteq C1 /\ (~t1[c][i].large => c2 \in C1) /\ Shape(t1, U1, S, A, B, C1)
    <3> SUFFICES ASSUME c \in B
                 PROVE  \E C1 : C \subseteq C1 /\ (~t1[c][i].large => c2 \in C1) /\ Shape(t1, U1, S, A, B, C1)
      OBVIOUS
    <3>1. PICK C1 : C1 = C \cup {c2}
      OBVIOUS
    <3>2. C \subseteq C1 /\ c2 \in C1 /\ Shape(t1, U1, S, A, B, C1)
      BY <2>1, <3>1 DEF LinkResult
    <3> QED BY <3>2
  <2>8. t1 \in Tables /\ U1 \subseteq Pool /\ t1[c][i].present /\ t1[c][i].frame = c2 /\ (force => t1 = t /\ U1 = U)
    BY <1>2, <2>2, <2>4
  <2> QED BY <2>2, <2>3, <2>5, <2>6, <2>7, <2>8, Zenon DEF FollowResult
<1> QED BY <1>1, <1>2 DEF Followed
-----------------------------------------------------------------------------
(* k structures are mapped, the last is c. *)
Level(st, k, c) ==
    st \in St /\ Once(st.tm) /\ st.status = "ok" /\ Len(st.at) = k /\ Points(st, st.at[k], c)

StepResult(st, k, c, i, force, y) ==
    /\ y \in St /\ Once(y.tm)
    /\ \/ y.status = "halt"
       \/ y.status = "absent" /\ force /\ y.table = st.table /\ y.used = st.used /\ ~st.table[c][i].present
       \/ \E c2 \in TableFrames \cup DataFrames :
            /\ Level(y, k + 1, c2) /\ Points(y, y.at[k], c)
            /\ Followed(st.table, st.used, c, i, force, c2, y.table, y.used)

LEMMA StepFacts ==
    ASSUME NEW st, NEW k \in Nat \ {0}, NEW c, NEW i \in Idx, NEW force \in BOOLEAN, NEW order, NEW y,
           Level(st, k, c), c \in TableFrames,
           force \/ order \in AllocOrders, y = Descend(st, i, force, order)
    PROVE  StepResult(st, k, c, i, force, y)
<1>1. st \in St /\ st.status = "ok" /\ Once(st.tm) /\ Points(st, Top(st), c) /\ st.at \in Seq(Ptr) /\ Len(st.at) = k
  BY DEF Level, Top, St
<1>2. DescendResult(st, c, i, force, y)
  BY <1>1, DescendFacts
<1>3. CASE y.status = "ok"
  <2>1. PICK p \in Ptr, c2 \in TableFrames \cup DataFrames :
          /\ y.at = Append(st.at, p) /\ Points(y, p, c2) /\ Points(y, Top(st), c)
          /\ Followed(st.table, st.used, c, i, force, c2, y.table, y.used)
    BY <1>2, <1>3 DEF DescendResult
  <2>2. Len(y.at) = k + 1 /\ y.at[k + 1] = p /\ y.at[k] = st.at[k]
    BY <1>1, <2>1, AppendLast
  <2>3. Points(y, y.at[k], c)
    BY <1>1, <2>1, <2>2 DEF Top
  <2>4. Level(y, k + 1, c2)
    BY <1>2, <1>3, <2>1, <2>2 DEF Level, DescendResult
  <2> QED BY <1>2, <2>1, <2>3, <2>4 DEF StepResult, DescendResult
<1>4. CASE y.status # "ok"
  BY <1>2, <1>4 DEF StepResult, DescendResult
<1> QED BY <1>3, <1>4

LEMMA Stuck ==
    ASSUME NEW st, NEW i, NEW force, NEW order, st.status # "ok"
    PROVE  Descend(st, i, force, order) = st
  BY DEF Descend

(* The structures v goes through in space s, down to the page directory. *)
Path(t, s, v, c2, c3) ==
    /\ t[s][v.pml4e].present /\ t[s][v.pml4e].frame = c2
    /\ t[c2][v.pdpte].present /\ t[c2][v.pdpte].frame = c3

(* What a walk that succeeds leaves: at[3] is the page directory and at[4],
   when it is needed, what its entry refers to. *)
WalkOk(s, v, large, force, y, A, B, C, c2, c3) ==
    /\ y.used \subseteq Pool /\ Shape(y.table, y.used, spaces, A, B, C) /\ SameView(table, y.table, spaces)
    /\ force => y.table = table /\ y.used = used
    /\ Path(y.table, s, v, c2, c3) /\ c2 \in A /\ c3 \in B /\ Points(y, y.at[3], c3)
    /\ \/ IF force THEN y.table[c3][v.pde].present /\ y.table[c3][v.pde].large ELSE large
       \/ y.table[c3][v.pde].present /\ Points(y, y.at[4], y.table[c3][v.pde].frame)

WalkResult(s, v, large, force, y) ==
    /\ y \in St /\ Once(y.tm)
    /\ \/ y.status = "halt"
       \/ y.status = "absent" /\ force /\ y.table = table /\ y.used = used /\ Resolve(table, s, v) = 0
       \/ y.status = "ok" /\ \E A, B, C, c2, c3 : WalkOk(s, v, large, force, y, A, B, C, c2, c3)

LEMMA KeepsPath ==
    ASSUME NEW t, NEW t1, NEW L, Keeps(t, t1, L), NEW f \in L, NEW j \in Idx, NEW g,
           t[f][j].present, t[f][j].frame = g
    PROVE  t1[f][j].present /\ t1[f][j].frame = g
  BY DEF Keeps

LEMMA WalkFacts ==
    ASSUME Types, Once(tempMappings), NEW A, NEW B, NEW C, Shape(table, used, spaces, A, B, C),
           NEW s \in spaces, NEW v \in Virt, NEW large \in BOOLEAN, NEW force \in BOOLEAN,
           NEW order, force \/ order \in AllocOrders,
           NEW y, y = SplitVirtualAndMap(s, v, large, force, order)
    PROVE  WalkResult(s, v, large, force, y)
<1>1. PICK s0 : s0 = State
  OBVIOUS
<1>2. PICK s1 : s1 = PstructMap(s0, s)
  OBVIOUS
<1>3. PICK s2 : s2 = Descend(s1, v.pml4e, force, order)
  OBVIOUS
<1>4. PICK s3 : s3 = Descend(s2, v.pdpte, force, order)
  OBVIOUS
<1>5. PICK s4 : s4 = Descend(s3, v.pde, force, order)
  OBVIOUS
<1>6. y = IF s3.status = "ok" /\ NoPt(s3, v, large, force) THEN s3 ELSE s4
  BY <1>1, <1>2, <1>3, <1>4, <1>5 DEF SplitVirtualAndMap
<1>7. /\ s0 \in St /\ s0.status = "ok" /\ s0.tm = tempMappings /\ s0.table = table /\ s0.used = used
      /\ s0.at = <<>>
  BY <1>1 DEF State, St, Types, Regs
<1>8. v.pml4e \in Idx /\ v.pdpte \in Idx /\ v.pde \in Idx /\ v.pte \in Idx
  BY ConstantFacts
<1>9. table \in Tables /\ used \subseteq Pool /\ spaces \subseteq TableFrames
  BY DEF Types, Tables
<1>10. MapResult(s0, s, s1)
  BY <1>2, <1>7, <1>9, MapFacts
<1>11. CASE s1.status # "ok"
  <2>1. s1 \in St /\ Once(s1.tm) /\ s1.status = "halt"
    BY <1>10, <1>11 DEF MapResult
  <2>2. s2 = s1 /\ s3 = s1 /\ s4 = s1
    BY <1>3, <1>4, <1>5, <1>11, Stuck
  <2> QED BY <1>6, <2>1, <2>2 DEF WalkResult
<1>12. CASE s1.status = "ok"
  <2>1. PICK p1 \in Ptr : s1.at = Append(s0.at, p1) /\ Points(s1, p1, s)
    BY <1>10, <1>12 DEF MapResult
  <2>2. s1.table = table /\ s1.used = used /\ s1 \in St /\ Once(s1.tm)
    BY <1>7, <1>10 DEF MapResult, SameTables
  <2>3. Len(s1.at) = 1 /\ s1.at[1] = p1
    BY <1>7, <2>1
  <2>4. Level(s1, 1, s)
    BY <1>12, <2>1, <2>2, <2>3 DEF Level
  <2>5. s \in TableFrames
    BY <1>9
  <2>6. StepResult(s1, 1, s, v.pml4e, force, s2)
    BY <1>3, <1>8, <2>4, <2>5, StepFacts
  <2>7. CASE s2.status = "halt"
    <3>1. s2 \in St /\ Once(s2.tm) /\ s2.status # "ok"
      BY <2>6, <2>7 DEF StepResult
    <3>2. s3 = s2 /\ s4 = s2
      BY <1>4, <1>5, <3>1, Stuck
    <3> QED BY <1>6, <2>7, <3>1, <3>2 DEF WalkResult
  <2>8. CASE s2.status = "absent"
    <3>1. s2 \in St /\ Once(s2.tm) /\ force /\ s2.table = table /\ s2.used = used /\ ~table[s][v.pml4e].present
      BY <2>2, <2>6, <2>8 DEF StepResult, Level
    <3>2. s2.status # "ok"
      BY <2>8
    <3>3. s3 = s2 /\ s4 = s2
      BY <1>4, <1>5, <3>2, Stuck
    <3>4. Resolve(table, s, v) = 0
      BY <3>1 DEF Resolve
    <3> QED BY <1>6, <2>8, <3>1, <3>3, <3>4 DEF WalkResult
  <2>9. CASE s2.status = "ok"
    <3>1. PICK c2 \in TableFrames \cup DataFrames :
            /\ Level(s2, 2, c2)
            /\ Followed(table, used, s, v.pml4e, force, c2, s2.table, s2.used)
      BY <2>2, <2>6, <2>9 DEF StepResult
    <3>2. FollowResult(table, used, s, v.pml4e, force, c2, s2.table, s2.used, spaces, A, B, C)
      BY <1>8, <1>9, <3>1, FollowFacts
    <3>3. /\ s2.table \in Tables /\ s2.used \subseteq Pool /\ SameView(table, s2.table, spaces)
          /\ s2.table[s][v.pml4e].present /\ s2.table[s][v.pml4e].frame = c2
          /\ (force => s2.table = table /\ s2.used = used)
      BY <3>2 DEF FollowResult
    <3>4. PICK A1 : c2 \in A1 /\ Shape(s2.table, s2.used, spaces, A1, B, C)
      BY <3>2 DEF FollowResult
    <3>5. c2 \in TableFrames
      BY <3>3, <3>4, ShapeIn DEF All
    <3>6. StepResult(s2, 2, c2, v.pdpte, force, s3)
      BY <1>4, <1>8, <3>1, <3>5, StepFacts
    <3>7. CASE s3.status = "halt"
      <4>1. s3 \in St /\ Once(s3.tm) /\ s3.status # "ok"
        BY <3>6, <3>7 DEF StepResult
      <4>2. s4 = s3
        BY <1>5, <4>1, Stuck
      <4> QED BY <1>6, <3>7, <4>1, <4>2 DEF WalkResult
    <3>8. CASE s3.status = "absent"
      <4>1. s3 \in St /\ Once(s3.tm) /\ force /\ s3.table = s2.table /\ s3.used = s2.used /\ ~s2.table[c2][v.pdpte].present
        BY <3>6, <3>8 DEF StepResult, Level
      <4>2. s3.status # "ok"
        BY <3>8
      <4>3. s4 = s3
        BY <1>5, <4>2, Stuck
      <4>4. s3.table = table /\ s3.used = used
        BY <3>3, <4>1
      <4>5. Resolve(table, s, v) = 0
        BY <3>3, <4>1, <4>4 DEF Resolve
      <4> QED BY <1>6, <3>8, <4>1, <4>3, <4>4, <4>5 DEF WalkResult
    <3>9. CASE s3.status = "ok"
      <4>1. PICK c3 \in TableFrames \cup DataFrames :
              /\ Level(s3, 3, c3)
              /\ Followed(s2.table, s2.used, c2, v.pdpte, force, c3, s3.table, s3.used)
        BY <3>6, <3>9 DEF StepResult
      <4>2. FollowResult(s2.table, s2.used, c2, v.pdpte, force, c3, s3.table, s3.used, spaces, A1, B, C)
        BY <1>8, <3>3, <3>4, <4>1, FollowFacts
      <4>3. /\ s3.table \in Tables /\ s3.used \subseteq Pool /\ SameView(s2.table, s3.table, spaces)
            /\ Keeps(s2.table, s3.table, All(spaces, A1, B, C))
            /\ s3.table[c2][v.pdpte].present /\ s3.table[c2][v.pdpte].frame = c3
            /\ (force => s3.table = s2.table /\ s3.used = s2.used)
        BY <4>2 DEF FollowResult
      <4>4. PICK B1 : c3 \in B1 /\ Shape(s3.table, s3.used, spaces, A1, B1, C)
        BY <3>4, <4>2 DEF FollowResult
      <4>5. c3 \in TableFrames
        BY <4>3, <4>4, ShapeIn DEF All
      <4>6. s3.table[s][v.pml4e].present /\ s3.table[s][v.pml4e].frame = c2
        BY <1>8, <3>3, <4>3, KeepsPath DEF All
      <4>7. Path(s3.table, s, v, c2, c3)
        BY <4>3, <4>6 DEF Path
      <4>8. SameView(table, s3.table, spaces) /\ (force => s3.table = table /\ s3.used = used)
        BY <3>3, <4>3 DEF SameView
      <4>9. s3 \in St /\ Once(s3.tm) /\ Points(s3, s3.at[3], c3)
        BY <4>1 DEF Level
      <4>10. Pde(s3, v) = s3.table[c3][v.pde]
        BY <4>9 DEF Pde, Points
      <4>11. CASE NoPt(s3, v, large, force)
        <5>1. y = s3
          BY <1>6, <3>9, <4>11
        <5>2. IF force THEN s3.table[c3][v.pde].present /\ s3.table[c3][v.pde].large ELSE large
          BY <4>10, <4>11 DEF NoPt
        <5>3. WalkOk(s, v, large, force, y, A1, B1, C, c2, c3)
          BY <3>4, <4>3, <4>4, <4>7, <4>8, <4>9, <5>1, <5>2 DEF WalkOk
        <5> QED BY <3>9, <4>9, <5>1, <5>3 DEF WalkResult
      <4>12. CASE ~NoPt(s3, v, large, force)
        <5>1. y = s4
          BY <1>6, <4>12
        <5>2. StepResult(s3, 3, c3, v.pde, force, s4)
          BY <1>5, <1>8, <4>1, <4>5, StepFacts
        <5>3. CASE s4.status = "halt"
          BY <5>1, <5>2, <5>3 DEF StepResult, WalkResult
        <5>4. CASE s4.status = "absent"
          <6>1. s4 \in St /\ Once(s4.tm) /\ force /\ s4.table = s3.table /\ s4.used = s3.used /\ ~s3.table[c3][v.pde].present
            BY <5>2, <5>4 DEF StepResult, Level
          <6>2. s4.table = table /\ s4.used = used
            BY <4>8, <6>1
          <6>3. Resolve(table, s, v) = 0
            BY <4>7, <6>1, <6>2 DEF Resolve, Path
          <6> QED BY <5>1, <5>4, <6>1, <6>2, <6>3 DEF WalkResult
        <5>5. CASE s4.status = "ok"
          <6>1. PICK c4 \in TableFrames \cup DataFrames :
                  /\ Level(s4, 4, c4) /\ Points(s4, s4.at[3], c3)
                  /\ Followed(s3.table, s3.used, c3, v.pde, force, c4, s4.table, s4.used)
            BY <5>2, <5>5 DEF StepResult
          <6>2. FollowResult(s3.table, s3.used, c3, v.pde, force, c4, s4.table, s4.used, spaces, A1, B1, C)
            BY <1>8, <4>3, <4>4, <6>1, FollowFacts
          <6>3. /\ s4.table \in Tables /\ s4.used \subseteq Pool /\ SameView(s3.table, s4.table, spaces)
                /\ Keeps(s3.table, s4.table, All(spaces, A1, B1, C))
                /\ s4.table[c3][v.pde].present /\ s4.table[c3][v.pde].frame = c4
                /\ (force => s4.table = s3.table /\ s4.used = s3.used)
            BY <6>2 DEF FollowResult
          <6>4. PICK C1 : Shape(s4.table, s4.used, spaces, A1, B1, C1)
            BY <4>4, <6>2 DEF FollowResult
          <6>5. s4.table[s][v.pml4e].present /\ s4.table[s][v.pml4e].frame = c2
            BY <1>8, <4>6, <6>3, KeepsPath DEF All
          <6>6. s4.table[c2][v.pdpte].present /\ s4.table[c2][v.pdpte].frame = c3
            BY <1>8, <3>4, <4>3, <6>3, KeepsPath DEF All
          <6>7. Path(s4.table, s, v, c2, c3)
            BY <6>5, <6>6 DEF Path
          <6>8. SameView(table, s4.table, spaces) /\ (force => s4.table = table /\ s4.used = used)
            BY <4>8, <6>3 DEF SameView
          <6>9. Points(s4, s4.at[4], c4)
            BY <6>1 DEF Level
          <6>10. WalkOk(s, v, large, force, s4, A1, B1, C1, c2, c3)
            BY <3>4, <4>4, <6>1, <6>3, <6>4, <6>7, <6>8, <6>9 DEF WalkOk
          <6> QED BY <5>1, <5>2, <5>5, <6>10 DEF WalkResult, StepResult
        <5> QED BY <5>2, <5>3, <5>4, <5>5 DEF StepResult, St
      <4> QED BY <4>11, <4>12
    <3> QED BY <3>6, <3>7, <3>8, <3>9 DEF StepResult, St
  <2> QED BY <2>6, <2>7, <2>8, <2>9 DEF StepResult, St
<1> QED BY <1>11, <1>12
-----------------------------------------------------------------------------
(* An address that reaches a page directory reaches it the way v does. *)
LEMMA OnePath ==
    ASSUME NEW t, NEW U, NEW S, NEW A, NEW B, NEW C, Shape(t, U, S, A, B, C),
           NEW s \in S, NEW v \in Virt, NEW c2, NEW c3, Path(t, s, v, c2, c3),
           NEW r \in S, NEW w \in Virt, NEW d2, Path(t, r, w, d2, c3)
    PROVE  v.pml4e = w.pml4e /\ v.pdpte = w.pdpte /\ (r = s \/ w.pml4e = KernelIdx)
<1>1. /\ v.pml4e \in Idx /\ v.pdpte \in Idx /\ w.pml4e \in Idx /\ w.pdpte \in Idx
  BY ConstantFacts
<1>2. c2 \in A /\ d2 \in A
  BY <1>1 DEF Path, Shape, TopOk
<1>3. ~t[c2][v.pdpte].large /\ ~t[d2][w.pdpte].large
  BY <1>1, <1>2 DEF Path, Shape, LowOk
<1>4. c2 = d2 /\ v.pdpte = w.pdpte
  BY <1>1, <1>2, <1>3 DEF Path, Shape, LowOk, Single
<1>5. CASE c2 = PgPdptHigh
  BY <1>1, <1>4, <1>5 DEF Path, Shape, TopOk
<1>6. CASE c2 # PgPdptHigh
  BY <1>1, <1>4, <1>6 DEF Path, Shape, TopOk
<1> QED BY <1>4, <1>5, <1>6

SetResult(t, t1, U, S, A, B, C, s, v, large, f) ==
    /\ t1 \in Tables /\ Shape(t1, U, S, A, B, C) /\ Resolve(t1, s, v) = f
    /\ \A r \in S, w \in Virt :
          (r # s /\ w.pml4e # KernelIdx) \/ ~SamePage(v, w, large) => Resolve(t1, r, w) = Resolve(t, r, w)

(* Nothing above the page directories changes, and they lose entries only to
   large pages. *)
LowKept(t, t1, S, A, B, C) ==
    /\ \A f \in S \cup A, j \in Idx : t1[f][j] = t[f][j]
    /\ \A f \in B, j \in Idx : t1[f][j] = t[f][j] \/ ~t1[f][j].present \/ t1[f][j].large
    /\ \A f \in C, j \in Idx : ~t1[f][j].large

LEMMA LowSame ==
    ASSUME NEW t, NEW U, NEW S, NEW A, NEW B, NEW C, Shape(t, U, S, A, B, C), NEW t1,
           LowKept(t, t1, S, A, B, C)
    PROVE  Shape(t1, U, S, A, B, C)
<1> USE DEF LowKept
<1>1. TopOk(t1, S, A)
  <2>1. TopOk(t, S, A) /\ \A r \in S, j \in Idx : t1[r][j] = t[r][j]
    BY DEF Shape
  <2> QED BY <2>1, TopSame
<1>2. \A f \in A, j \in Idx : t1[f][j].present => ~t1[f][j].large /\ t1[f][j].frame \in B
  BY DEF Shape, LowOk
<1>3. \A f \in B, j \in Idx : t1[f][j].present /\ ~t1[f][j].large => t1[f][j].frame \in C
  BY DEF Shape, LowOk
<1>4. Single(t1, A)
  BY DEF Shape, LowOk, Single
<1>5. Single(t1, B)
  BY DEF Shape, LowOk, Single
<1>6. LowOk(t1, A, B, C)
  BY <1>2, <1>3, <1>4, <1>5 DEF LowOk
<1> QED BY <1>1, <1>6 DEF Shape

(* An entry of a page directory, a large page or nothing, is set. *)
LEMMA PdeSet ==
    ASSUME NEW t, NEW U, NEW S, NEW A, NEW B, NEW C, t \in Tables, U \subseteq Pool,
           Shape(t, U, S, A, B, C), NEW s \in S, NEW v \in Virt, NEW c2, NEW c3,
           Path(t, s, v, c2, c3), c2 \in A, c3 \in B,
           NEW e \in Entries, NEW f, (e.present /\ e.large /\ e.frame = f) \/ (~e.present /\ f = 0),
           NEW t1, t1 = [t EXCEPT ![c3][v.pde] = e]
    PROVE  SetResult(t, t1, U, S, A, B, C, s, v, TRUE, f)
<1>1. v.pml4e \in Idx /\ v.pdpte \in Idx /\ v.pde \in Idx /\ v.pte \in Idx
  BY ConstantFacts
<1>2. c3 \in TableFrames /\ All(S, A, B, C) \subseteq TableFrames
  BY ShapeIn DEF All
<1>3. t1 \in Tables /\ \A g \in TableFrames, j \in Idx : t1[g][j] = IF g = c3 /\ j = v.pde THEN e ELSE t[g][j]
  BY <1>1, <1>2 DEF Tables
<1>4. S \cap (A \cup B \cup C) = {} /\ A \cap (B \cup C) = {} /\ B \cap C = {}
  BY DEF Shape, LevelsOk
<1>5. Shape(t1, U, S, A, B, C)
  <2>1. \A g \in S \cup A, j \in Idx : t1[g][j] = t[g][j]
    BY <1>2, <1>3, <1>4 DEF All
  <2>2. \A g \in B, j \in Idx : t1[g][j] = t[g][j] \/ ~t1[g][j].present \/ t1[g][j].large
    BY <1>2, <1>3 DEF All
  <2>3. \A g \in C, j \in Idx : ~t1[g][j].large
    BY <1>2, <1>3, <1>4 DEF All, Shape, LowOk
  <2>4. LowKept(t, t1, S, A, B, C)
    BY <2>1, <2>2, <2>3 DEF LowKept
  <2> QED BY <2>4, LowSame
<1>6. Changed(t, t1, c3, v.pde, e, All(S, A, B, C))
  BY <1>2, <1>3 DEF Changed
<1>7. ASSUME NEW r \in S, NEW w \in Virt, (r # s /\ w.pml4e # KernelIdx) \/ ~SamePage(v, w, TRUE)
      PROVE  Resolve(t1, r, w) = Resolve(t, r, w)
  <2>1. ~Hits(t, r, w, c3, v.pde)
    <3> SUFFICES ASSUME Hits(t, r, w, c3, v.pde) PROVE FALSE
      OBVIOUS
    <3>1. w.pml4e \in Idx /\ w.pdpte \in Idx /\ w.pde \in Idx /\ w.pte \in Idx
      BY ConstantFacts
    <3>2. PICK e1, e2, e3 : e1 = t[r][w.pml4e] /\ e2 = t[e1.frame][w.pdpte] /\ e3 = t[e2.frame][w.pde]
      OBVIOUS
    <3>3. \/ r = c3 /\ w.pml4e = v.pde
          \/ e1.present /\ e1.frame = c3 /\ w.pdpte = v.pde
          \/ e1.present /\ e2.present /\ e2.frame = c3 /\ w.pde = v.pde
          \/ e1.present /\ e2.present /\ e3.present /\ ~e3.large /\ e3.frame = c3 /\ w.pte = v.pde
      BY <3>2 DEF Hits
    <3>4. e1.present => e1.frame \in A
      BY <3>1, <3>2 DEF Shape, TopOk
    <3>5. e1.present /\ e2.present => e2.frame \in B
      BY <3>1, <3>2, <3>4 DEF Shape, LowOk
    <3>6. e1.present /\ e2.present /\ e3.present /\ ~e3.large => e3.frame \in C
      BY <3>1, <3>2, <3>5 DEF Shape, LowOk
    <3>7. e1.present /\ e2.present /\ e2.frame = c3 /\ w.pde = v.pde
      BY <1>4, <3>3, <3>4, <3>5, <3>6
    <3>8. PICK d2 : d2 = e1.frame
      OBVIOUS
    <3>9. Path(t, r, w, d2, c3)
      BY <3>2, <3>7, <3>8 DEF Path
    <3>10. v.pml4e = w.pml4e /\ v.pdpte = w.pdpte /\ (r = s \/ w.pml4e = KernelIdx)
      BY <3>9, OnePath
    <3> QED BY <1>7, <3>7, <3>10 DEF SamePage
  <2> QED BY <1>6, <2>1, OffPath
<1>8. Resolve(t1, s, v) = f
  <2>1. t1[s][v.pml4e] = t[s][v.pml4e] /\ t1[c2][v.pdpte] = t[c2][v.pdpte] /\ t1[c3][v.pde] = e
    BY <1>1, <1>2, <1>3, <1>4 DEF All
  <2> QED BY <2>1 DEF Resolve, Path
<1> QED BY <1>3, <1>5, <1>7, <1>8 DEF SetResult

(* An entry of a page table is set. *)
LEMMA PteSet ==
    ASSUME NEW t, NEW U, NEW S, NEW A, NEW B, NEW C, t \in Tables, U \subseteq Pool,
           Shape(t, U, S, A, B, C), NEW s \in S, NEW v \in Virt, NEW c2, NEW c3, NEW c4,
           Path(t, s, v, c2, c3), c2 \in A, c3 \in B,
           t[c3][v.pde].present, ~t[c3][v.pde].large, t[c3][v.pde].frame = c4,
           NEW e \in Entries, NEW f, e.present /\ ~e.large /\ e.frame = f,
           NEW t1, t1 = [t EXCEPT ![c4][v.pte] = e]
    PROVE  SetResult(t, t1, U, S, A, B, C, s, v, FALSE, f)
<1>1. v.pml4e \in Idx /\ v.pdpte \in Idx /\ v.pde \in Idx /\ v.pte \in Idx
  BY ConstantFacts
<1>0. c4 \in C
  BY <1>1 DEF Shape, LowOk
<1>2. c3 \in TableFrames /\ c4 \in TableFrames /\ All(S, A, B, C) \subseteq TableFrames
  BY <1>0, ShapeIn DEF All
<1>3. t1 \in Tables /\ \A g \in TableFrames, j \in Idx : t1[g][j] = IF g = c4 /\ j = v.pte THEN e ELSE t[g][j]
  BY <1>1, <1>2 DEF Tables
<1>4. S \cap (A \cup B \cup C) = {} /\ A \cap (B \cup C) = {} /\ B \cap C = {}
  BY DEF Shape, LevelsOk
<1>5. Shape(t1, U, S, A, B, C)
  <2>1. \A g \in S \cup A, j \in Idx : t1[g][j] = t[g][j]
    BY <1>0, <1>2, <1>3, <1>4 DEF All
  <2>2. \A g \in B, j \in Idx : t1[g][j] = t[g][j] \/ ~t1[g][j].present \/ t1[g][j].large
    BY <1>0, <1>2, <1>3, <1>4 DEF All
  <2>3. \A g \in C, j \in Idx : ~t1[g][j].large
    BY <1>2, <1>3 DEF All, Shape, LowOk
  <2>4. LowKept(t, t1, S, A, B, C)
    BY <2>1, <2>2, <2>3 DEF LowKept
  <2> QED BY <2>4, LowSame
<1>6. Changed(t, t1, c4, v.pte, e, All(S, A, B, C))
  BY <1>2, <1>3 DEF Changed
<1>7. ASSUME NEW r \in S, NEW w \in Virt, (r # s /\ w.pml4e # KernelIdx) \/ ~SamePage(v, w, FALSE)
      PROVE  Resolve(t1, r, w) = Resolve(t, r, w)
  <2>1. ~Hits(t, r, w, c4, v.pte)
    <3> SUFFICES ASSUME Hits(t, r, w, c4, v.pte) PROVE FALSE
      OBVIOUS
    <3>1. w.pml4e \in Idx /\ w.pdpte \in Idx /\ w.pde \in Idx /\ w.pte \in Idx
      BY ConstantFacts
    <3>2. PICK e1, e2, e3 : e1 = t[r][w.pml4e] /\ e2 = t[e1.frame][w.pdpte] /\ e3 = t[e2.frame][w.pde]
      OBVIOUS
    <3>3. \/ r = c4 /\ w.pml4e = v.pte
          \/ e1.present /\ e1.frame = c4 /\ w.pdpte = v.pte
          \/ e1.present /\ e2.present /\ e2.frame = c4 /\ w.pde = v.pte
          \/ e1.present /\ e2.present /\ e3.present /\ ~e3.large /\ e3.frame = c4 /\ w.pte = v.pte
      BY <3>2 DEF Hits
    <3>4. e1.present => e1.frame \in A
      BY <3>1, <3>2 DEF Shape, TopOk
    <3>5. e1.present /\ e2.present => e2.frame \in B
      BY <3>1, <3>2, <3>4 DEF Shape, LowOk
    <3>6. e1.present /\ e2.present /\ e3.present /\ ~e3.large /\ e3.frame = c4 /\ w.pte = v.pte
      BY <1>0, <1>4, <3>3, <3>4, <3>5
    <3>7. e2.frame = c3 /\ w.pde = v.pde
      <4>1. Single(t, B)
        BY DEF Shape, LowOk
      <4>2. PICK d3 : d3 = e2.frame
        OBVIOUS
      <4>3. /\ d3 \in B /\ t[d3][w.pde].present /\ ~t[d3][w.pde].large
            /\ t[d3][w.pde].frame = t[c3][v.pde].frame
        BY <3>2, <3>5, <3>6, <4>2
      <4>4. d3 = c3 /\ w.pde = v.pde
        BY <1>1, <3>1, <4>1, <4>3 DEF Single
      <4> QED BY <4>2, <4>4
    <3>8. PICK d2 : d2 = e1.frame
      OBVIOUS
    <3>9. Path(t, r, w, d2, c3)
      BY <3>2, <3>6, <3>7, <3>8 DEF Path
    <3>10. v.pml4e = w.pml4e /\ v.pdpte = w.pdpte /\ (r = s \/ w.pml4e = KernelIdx)
      BY <3>9, OnePath
    <3> QED BY <1>7, <3>6, <3>7, <3>10 DEF SamePage
  <2> QED BY <1>6, <2>1, OffPath
<1>8. Resolve(t1, s, v) = f
  <2>1. /\ t1[s][v.pml4e] = t[s][v.pml4e] /\ t1[c2][v.pdpte] = t[c2][v.pdpte]
        /\ t1[c3][v.pde] = t[c3][v.pde] /\ t1[c4][v.pte] = e
    BY <1>0, <1>1, <1>2, <1>3, <1>4 DEF All
  <2> QED BY <2>1 DEF Resolve, Path
<1> QED BY <1>3, <1>5, <1>7, <1>8 DEF SetResult
-----------------------------------------------------------------------------
LEMMA Halted ==
    ASSUME NEW st, NEW y, st \in St, Once(st.tm), y = Halt(st)
    PROVE  y \in St /\ Once(y.tm) /\ y.status = "halt"
<1>1. y \in St /\ y.tm = st.tm /\ y.status = "halt"
  BY DEF Halt, St
<1> QED BY <1>1

(* Only the tables are assigned to. *)
OnlyTable(st, t1, y) ==
    /\ y \in St /\ y.tm = st.tm /\ y.table = t1 /\ y.used = st.used /\ y.status = st.status /\ y.at = st.at

LEMMA TableAssigned ==
    ASSUME NEW st, NEW t1, NEW y, st \in St, t1 \in Tables, y = [st EXCEPT !.table = t1]
    PROVE  OnlyTable(st, t1, y)
  BY DEF OnlyTable, St, Tables

LEMMA SetPdeFacts ==
    ASSUME NEW st, NEW v, NEW e, NEW c3, NEW t1, NEW y, st \in St, Points(st, st.at[3], c3), t1 \in Tables,
           t1 = [st.table EXCEPT ![c3][v.pde] = e], y = SetPde(st, v, e)
    PROVE  OnlyTable(st, t1, y)
<1>1. y = [st EXCEPT !.table = t1]
  BY DEF SetPde, Points
<1> QED BY <1>1, TableAssigned

LEMMA SetPteFacts ==
    ASSUME NEW st, NEW v, NEW e, NEW c4, NEW t1, NEW y, st \in St, Points(st, st.at[4], c4), t1 \in Tables,
           t1 = [st.table EXCEPT ![c4][v.pte] = e], y = SetPte(st, v, e)
    PROVE  OnlyTable(st, t1, y)
<1>1. y = [st EXCEPT !.table = t1]
  BY DEF SetPte, Points
<1> QED BY <1>1, TableAssigned

(* What map() does unless the kernel stops. *)
MapEffect(s, v, f, large, y) ==
    /\ y \in St /\ Once(y.tm)
    /\ y.status # "halt" =>
          /\ \E A, B, C : Shape(y.table, y.used, spaces, A, B, C)
          /\ Resolve(table, s, v) = 0 /\ Resolve(y.table, s, v) = f
          /\ \A r \in spaces, w \in Virt :
                (r # s /\ w.pml4e # KernelIdx) \/ ~SamePage(v, w, large)
                    => Resolve(y.table, r, w) = Resolve(table, r, w)

LEMMA MapLargeFacts ==
    ASSUME NEW st, NEW s \in spaces, NEW v \in Virt, NEW f \in DataFrames,
           NEW A, NEW B, NEW C, NEW c2, NEW c3, st \in St, Once(st.tm), st.status = "ok",
           WalkOk(s, v, TRUE, FALSE, st, A, B, C, c2, c3), NEW y, y = MapLarge(st, v, f)
    PROVE  MapEffect(s, v, f, TRUE, y)
<1>1. Points(st, st.at[3], c3) /\ Pde(st, v) = st.table[c3][v.pde] /\ st.table \in Tables /\ st.used \subseteq Pool
  BY DEF WalkOk, Pde, Points, St, Tables
<1>2. CASE Pde(st, v).present
  <2>1. y = Halt(st)
    BY <1>2 DEF MapLarge
  <2>2. y \in St /\ Once(y.tm) /\ y.status = "halt"
    BY <2>1, Halted
  <2> QED BY <2>2 DEF MapEffect
<1>3. CASE ~Pde(st, v).present
  <2>1. PICK e : e = Pointer(f, TRUE)
    OBVIOUS
  <2>2. e \in Entries /\ e.present = TRUE /\ e.large = TRUE /\ e.frame = f
    <3>1. e \in Entries
      BY <2>1, EntryFacts
    <3> QED BY <2>1, <3>1 DEF Pointer
  <2>3. PICK t1 : t1 = [st.table EXCEPT ![c3][v.pde] = e]
    OBVIOUS
  <2>4. PICK z : z = SetPde(st, v, e)
    OBVIOUS
  <2>5. y = UnmapFrom(z, 3)
    BY <1>3, <2>1, <2>4 DEF MapLarge
  <2>6. SetResult(st.table, t1, st.used, spaces, A, B, C, s, v, TRUE, f)
    <3>1. /\ Shape(st.table, st.used, spaces, A, B, C) /\ Path(st.table, s, v, c2, c3)
          /\ c2 \in A /\ c3 \in B
      BY DEF WalkOk
    <3> QED BY <1>1, <2>2, <2>3, <3>1, PdeSet
  <2>7. OnlyTable(st, t1, z)
    BY <1>1, <2>3, <2>4, <2>6, SetPdeFacts DEF SetResult
  <2>8. UnmapResult(z, y)
    BY <2>5, <2>7, UnmapFromFacts DEF OnlyTable
  <2>9. y \in St /\ Once(y.tm) /\ y.table = t1 /\ y.used = st.used
    BY <2>7, <2>8 DEF OnlyTable, UnmapResult, SameTables
  <2>10. SameView(table, st.table, spaces)
    BY DEF WalkOk
  <2>11. Resolve(table, s, v) = 0
    <3>1. Resolve(st.table, s, v) = 0
      BY <1>1, <1>3 DEF WalkOk, Path, Resolve
    <3> QED BY <2>10, <3>1 DEF SameView
  <2>12. Shape(y.table, y.used, spaces, A, B, C) /\ Resolve(y.table, s, v) = f
    BY <2>6, <2>9 DEF SetResult
  <2>13. \A r \in spaces, w \in Virt :
           (r # s /\ w.pml4e # KernelIdx) \/ ~SamePage(v, w, TRUE)
               => Resolve(y.table, r, w) = Resolve(table, r, w)
    BY <2>6, <2>9, <2>10 DEF SetResult, SameView
  <2>14. \E A1, B1, C1 : Shape(y.table, y.used, spaces, A1, B1, C1)
    BY <2>12
  <2> QED BY <2>9, <2>11, <2>12, <2>13, <2>14 DEF MapEffect
<1> QED BY <1>2, <1>3

LEMMA MapSmallFacts ==
    ASSUME NEW st, NEW s \in spaces, NEW v \in Virt, NEW f \in DataFrames,
           NEW A, NEW B, NEW C, NEW c2, NEW c3, st \in St, Once(st.tm), st.status = "ok",
           WalkOk(s, v, FALSE, FALSE, st, A, B, C, c2, c3), NEW y, y = MapSmall(st, v, f)
    PROVE  MapEffect(s, v, f, FALSE, y)
<1>1. Points(st, st.at[3], c3) /\ Pde(st, v) = st.table[c3][v.pde] /\ st.table \in Tables /\ st.used \subseteq Pool
  BY DEF WalkOk, Pde, Points, St, Tables
<1>2. PICK c4 : c4 = st.table[c3][v.pde].frame
  OBVIOUS
<1>3. Points(st, st.at[4], c4) /\ st.table[c3][v.pde].present
  BY <1>2 DEF WalkOk
<1>4. FrameAt(st, st.at[4]) = c4
  BY <1>3 DEF Points
<1>5. CASE Pde(st, v).large \/ st.table[c4][v.pte].present
  <2>1. y = Halt(st)
    BY <1>4, <1>5 DEF MapSmall
  <2>2. y \in St /\ Once(y.tm) /\ y.status = "halt"
    BY <2>1, Halted
  <2> QED BY <2>2 DEF MapEffect
<1>6. CASE ~(Pde(st, v).large \/ st.table[c4][v.pte].present)
  <2>1. PICK e : e = Pointer(f, FALSE)
    OBVIOUS
  <2>2. e \in Entries /\ e.present = TRUE /\ e.large = FALSE /\ e.frame = f
    <3>1. e \in Entries
      BY <2>1, EntryFacts
    <3> QED BY <2>1, <3>1 DEF Pointer
  <2>3. PICK t1 : t1 = [st.table EXCEPT ![c4][v.pte] = e]
    OBVIOUS
  <2>4. PICK z : z = SetPte(st, v, e)
    OBVIOUS
  <2>5. y = UnmapFrom(z, 4)
    BY <1>4, <1>6, <2>1, <2>4 DEF MapSmall
  <2>6. SetResult(st.table, t1, st.used, spaces, A, B, C, s, v, FALSE, f)
    <3>1. /\ Shape(st.table, st.used, spaces, A, B, C) /\ Path(st.table, s, v, c2, c3)
          /\ c2 \in A /\ c3 \in B
      BY DEF WalkOk
    <3>2. st.table[c3][v.pde].present /\ ~st.table[c3][v.pde].large /\ st.table[c3][v.pde].frame = c4
      BY <1>1, <1>2, <1>3, <1>6
    <3>3. e.present /\ ~e.large /\ e.frame = f
      BY <2>2
    <3> QED BY <1>1, <2>2, <2>3, <3>1, <3>2, <3>3, PteSet
  <2>7. OnlyTable(st, t1, z)
    BY <1>3, <2>3, <2>4, <2>6, SetPteFacts DEF SetResult
  <2>8. UnmapResult(z, y)
    BY <2>5, <2>7, UnmapFromFacts DEF OnlyTable
  <2>9. y \in St /\ Once(y.tm) /\ y.table = t1 /\ y.used = st.used
    BY <2>7, <2>8 DEF OnlyTable, UnmapResult, SameTables
  <2>10. SameView(table, st.table, spaces)
    BY DEF WalkOk
  <2>11. Resolve(table, s, v) = 0
    <3>1. Resolve(st.table, s, v) = 0
      BY <1>1, <1>2, <1>3, <1>6 DEF WalkOk, Path, Resolve
    <3> QED BY <2>10, <3>1 DEF SameView
  <2>12. Shape(y.table, y.used, spaces, A, B, C) /\ Resolve(y.table, s, v) = f
    BY <2>6, <2>9 DEF SetResult
  <2>13. \A r \in spaces, w \in Virt :
           (r # s /\ w.pml4e # KernelIdx) \/ ~SamePage(v, w, FALSE)
               => Resolve(y.table, r, w) = Resolve(table, r, w)
    BY <2>6, <2>9, <2>10 DEF SetResult, SameView
  <2>14. \E A1, B1, C1 : Shape(y.table, y.used, spaces, A1, B1, C1)
    BY <2>12
  <2> QED BY <2>9, <2>11, <2>12, <2>13, <2>14 DEF MapEffect
<1> QED BY <1>5, <1>6

LEMMA MapOpFacts ==
    ASSUME IInv, ~halted, NEW s \in spaces, NEW v \in Virt, NEW f \in DataFrames, NEW large \in BOOLEAN,
           NEW order \in AllocOrders, NEW st, st = SplitVirtualAndMap(s, v, large, FALSE, order),
           NEW y, y = IF st.status # "ok" THEN Halt(st)
                      ELSE IF large THEN MapLarge(st, v, f) ELSE MapSmall(st, v, f)
    PROVE  MapEffect(s, v, f, large, y)
<1>1. Types /\ Once(tempMappings)
  BY DEF IInv
<1>2. PICK A, B, C : Shape(table, used, spaces, A, B, C)
  BY DEF IInv
<1>3. WalkResult(s, v, large, FALSE, st)
  BY <1>1, <1>2, WalkFacts
<1>4. st \in St /\ Once(st.tm)
  BY <1>3 DEF WalkResult
<1>5. CASE st.status # "ok"
  <2>1. y = Halt(st)
    BY <1>5
  <2>2. y \in St /\ Once(y.tm) /\ y.status = "halt"
    BY <1>4, <2>1, Halted
  <2> QED BY <2>2 DEF MapEffect
<1>6. CASE st.status = "ok"
  <2>1. PICK A1, B1, C1, c2, c3 : WalkOk(s, v, large, FALSE, st, A1, B1, C1, c2, c3)
    BY <1>3, <1>6 DEF WalkResult
  <2>2. CASE large = TRUE
    BY <1>4, <1>6, <2>1, <2>2, MapLargeFacts
  <2>3. CASE large = FALSE
    BY <1>4, <1>6, <2>1, <2>3, MapSmallFacts
  <2> QED BY <2>2, <2>3
<1> QED BY <1>5, <1>6

(* What unmap() does unless the kernel stops. *)
UnmapEffect(s, v, y) ==
    /\ y \in St /\ Once(y.tm)
    /\ y.status # "halt" =>
          /\ \E A, B, C : Shape(y.table, y.used, spaces, A, B, C)
          /\ \A r \in spaces, w \in Virt :
                (r # s /\ w.pml4e # KernelIdx) \/ ~SamePage(v, w, TRUE)
                    => Resolve(y.table, r, w) = Resolve(table, r, w)

LEMMA UnmapOpFacts ==
    ASSUME IInv, ~halted, NEW s \in spaces, NEW v \in Virt,
           NEW st, st = SplitVirtualAndMap(s, v, FALSE, TRUE, <<>>),
           NEW y, y = IF st.status # "ok" THEN Halt(st)
                      ELSE IF Pde(st, v).large THEN st ELSE UnmapFrom(SetPde(st, v, Absent), 3)
    PROVE  UnmapEffect(s, v, y)
<1>1. Types /\ Once(tempMappings)
  BY DEF IInv
<1>2. PICK A0, B0, C0 : Shape(table, used, spaces, A0, B0, C0)
  BY DEF IInv
<1>3. WalkResult(s, v, FALSE, TRUE, st)
  BY <1>1, <1>2, WalkFacts
<1>4. st \in St /\ Once(st.tm)
  BY <1>3 DEF WalkResult
<1>5. CASE st.status # "ok"
  <2>1. y = Halt(st)
    BY <1>5
  <2>2. y \in St /\ Once(y.tm) /\ y.status = "halt"
    BY <1>4, <2>1, Halted
  <2> QED BY <2>2 DEF UnmapEffect
<1>6. CASE st.status = "ok"
  <2>1. PICK A, B, C, c2, c3 : WalkOk(s, v, FALSE, TRUE, st, A, B, C, c2, c3)
    BY <1>3, <1>6 DEF WalkResult
  <2>2. /\ Shape(st.table, st.used, spaces, A, B, C) /\ SameView(table, st.table, spaces)
        /\ Path(st.table, s, v, c2, c3) /\ c2 \in A /\ c3 \in B /\ Points(st, st.at[3], c3)
        /\ st.table \in Tables /\ st.used \subseteq Pool
    BY <1>4, <2>1 DEF WalkOk, St, Tables
  <2>3. CASE Pde(st, v).large
    <3>1. y = st
      BY <1>6, <2>3
    <3>2. \E A1, B1, C1 : Shape(y.table, y.used, spaces, A1, B1, C1)
      BY <2>2, <3>1
    <3>3. \A r \in spaces, w \in Virt : Resolve(y.table, r, w) = Resolve(table, r, w)
      BY <2>2, <3>1 DEF SameView
    <3> QED BY <1>4, <3>1, <3>2, <3>3 DEF UnmapEffect
  <2>4. CASE ~Pde(st, v).large
    <3>1. PICK e : e = Absent
      OBVIOUS
    <3>2. e \in Entries /\ ~e.present
      BY <3>1, EntryFacts
    <3>3. PICK t1 : t1 = [st.table EXCEPT ![c3][v.pde] = e]
      OBVIOUS
    <3>4. PICK z : z = SetPde(st, v, e)
      OBVIOUS
    <3>5. y = UnmapFrom(z, 3)
      BY <1>6, <2>4, <3>1, <3>4
    <3>6. SetResult(st.table, t1, st.used, spaces, A, B, C, s, v, TRUE, 0)
      BY <2>2, <3>2, <3>3, PdeSet
    <3>7. OnlyTable(st, t1, z)
      BY <1>4, <2>2, <3>3, <3>4, <3>6, SetPdeFacts DEF SetResult
    <3>8. UnmapResult(z, y)
      BY <1>4, <3>5, <3>7, UnmapFromFacts DEF OnlyTable
    <3>9. y \in St /\ Once(y.tm) /\ y.table = t1 /\ y.used = st.used
      BY <3>7, <3>8 DEF OnlyTable, UnmapResult, SameTables
    <3>10. Shape(y.table, y.used, spaces, A, B, C)
      BY <3>6, <3>9 DEF SetResult
    <3>11. \A r \in spaces, w \in Virt :
             (r # s /\ w.pml4e # KernelIdx) \/ ~SamePage(v, w, TRUE)
                 => Resolve(y.table, r, w) = Resolve(table, r, w)
      BY <2>2, <3>6, <3>9 DEF SetResult, SameView
    <3>12. \E A1, B1, C1 : Shape(y.table, y.used, spaces, A1, B1, C1)
      BY <3>10
    <3> QED BY <3>9, <3>11, <3>12 DEF UnmapEffect
  <2> QED BY <2>3, <2>4
<1> QED BY <1>5, <1>6

(* What getMappedAddr() does: the tables stay. *)
GetEffect(y) ==
    y \in St /\ Once(y.tm) /\ (y.status # "halt" => y.table = table /\ y.used = used)

LEMMA GetOpFacts ==
    ASSUME IInv, ~halted, NEW s \in spaces, NEW v \in Virt,
           NEW st, st = SplitVirtualAndMap(s, v, FALSE, TRUE, <<>>),
           NEW y, y = IF st.status # "ok" THEN st ELSE UnmapFrom(st, Len(st.at))
    PROVE  GetEffect(y)
<1>1. Types /\ Once(tempMappings)
  BY DEF IInv
<1>2. PICK A0, B0, C0 : Shape(table, used, spaces, A0, B0, C0)
  BY DEF IInv
<1>3. WalkResult(s, v, FALSE, TRUE, st)
  BY <1>1, <1>2, WalkFacts
<1>4. st \in St /\ Once(st.tm)
  BY <1>3 DEF WalkResult
<1>5. st.status # "halt" => st.table = table /\ st.used = used
  BY <1>3 DEF WalkResult, WalkOk
<1>6. CASE st.status # "ok"
  BY <1>4, <1>5, <1>6 DEF GetEffect
<1>7. CASE st.status = "ok"
  <2>1. UnmapResult(st, y)
    BY <1>4, <1>7, UnmapFromFacts
  <2> QED BY <1>5, <1>7, <2>1 DEF UnmapResult, SameTables, GetEffect
<1> QED BY <1>6, <1>7

(* newVSpace(): the new pml4 has the entry of the kernel and no other. *)
NewEffect(y) ==
    /\ y \in St /\ Once(y.tm) /\ y.new \in Pool \ used
    /\ \E A, B, C : Shape(y.table, y.used, spaces \cup {y.new}, A, B, C)

LEMMA NewOpFacts ==
    ASSUME IInv, ~halted, NEW order \in AllocOrders, NEW st, st = AllocatePStructAny(State, order),
           st.status = "ok", NEW y, y = KernelEntry(st)
    PROVE  NewEffect(y)
<1>1. Types /\ Once(tempMappings)
  BY DEF IInv
<1>2. PICK A, B, C : Shape(table, used, spaces, A, B, C)
  BY DEF IInv
<1>3. PICK s0 : s0 = State
  OBVIOUS
<1>4. /\ s0 \in St /\ s0.status = "ok" /\ s0.tm = tempMappings /\ s0.table = table /\ s0.used = used
  BY <1>1, <1>3 DEF State, St, Types, Regs
<1>5. AllocResult(s0, st)
  BY <1>1, <1>3, <1>4, AllocFacts
<1>6. PICK n : n = st.new
  OBVIOUS
<1>7. /\ st \in St /\ Once(st.tm) /\ n \in Pool \ used /\ st.used = used \cup {n}
      /\ st.table = [table EXCEPT ![n] = Empty]
  BY <1>4, <1>5, <1>6 DEF AllocResult
<1>8. n \in TableFrames /\ n # PgPml4 /\ n # PgPdptHigh /\ KernelIdx \in Idx /\ PgPdptHigh \in TableFrames
  BY <1>7, ConstantFacts
<1>9. table \in Tables /\ used \subseteq Pool
  BY <1>1 DEF Types, Tables
<1>10. n \notin All(spaces, A, B, C) /\ All(spaces, A, B, C) \subseteq TableFrames
  BY <1>2, <1>7, <1>9, ShapeIn
<1>11. PICK e0 : e0 = Pointer(PgPdptHigh, FALSE)
  OBVIOUS
<1>12. e0 \in Entries /\ e0.present = TRUE /\ e0.large = FALSE /\ e0.frame = PgPdptHigh
  <2>1. e0 \in Entries
    BY <1>8, <1>11, EntryFacts
  <2> QED BY <1>11, <2>1 DEF Pointer
<1>13. PICK t1 : t1 = [st.table EXCEPT ![n][KernelIdx] = e0]
  OBVIOUS
<1>14. st.table \in [TableFrames -> [Idx -> Entries]] /\ \A f \in TableFrames : st.table[f] = IF f = n THEN Empty ELSE table[f]
  BY <1>7, <1>8, <1>9, EntryFacts DEF Tables
<1>15. /\ t1 \in Tables
       /\ \A f \in TableFrames, j \in Idx : t1[f][j] = IF f = n /\ j = KernelIdx THEN e0 ELSE st.table[f][j]
  BY <1>8, <1>12, <1>13, <1>14 DEF Tables
<1>16. /\ \A j \in Idx : t1[n][j] = IF j = KernelIdx THEN e0 ELSE Absent
       /\ \A f \in All(spaces, A, B, C), j \in Idx : t1[f][j] = table[f][j]
  <2>1. \A j \in Idx : Empty[j] = Absent
    BY EntryFacts
  <2>2. \A j \in Idx : t1[n][j] = IF j = KernelIdx THEN e0 ELSE Absent
    BY <1>8, <1>14, <1>15, <2>1
  <2>3. \A f \in All(spaces, A, B, C), j \in Idx : t1[f][j] = table[f][j]
    BY <1>10, <1>14, <1>15
  <2> QED BY <2>2, <2>3
<1>17. y = [st EXCEPT !.table = t1]
  BY <1>6, <1>11, <1>13 DEF KernelEntry
<1>18. OnlyTable(st, t1, y)
  BY <1>7, <1>15, <1>17, TableAssigned
<1>19. y.new = n
  BY <1>6, <1>7, <1>17 DEF St
<1>20. PICK S1 : S1 = spaces \cup {n}
  OBVIOUS
<1>21. TopOk(t1, S1, A)
  <2>1. TopOk(t1, spaces, A)
    <3>1. TopOk(table, spaces, A) /\ \A r \in spaces, j \in Idx : t1[r][j] = table[r][j]
      BY <1>2, <1>16 DEF Shape, All
    <3> QED BY <3>1, TopSame
  <2>2. \A j \in Idx : t1[n][j].present => j = KernelIdx /\ t1[n][j] = e0
    <3>1. ~Absent.present
      BY EntryFacts
    <3> QED BY <1>16, <3>1
  <2>3. PgPml4 \in S1 /\ PgPdptHigh \in A
    BY <1>20, <2>1 DEF TopOk
  <2>4. \A s \in S1 : t1[s][KernelIdx] = Pointer(PgPdptHigh, FALSE)
    BY <1>8, <1>11, <1>16, <1>20, <2>1 DEF TopOk
  <2>5. \A s \in S1, i \in Idx : t1[s][i].present =>
          ~t1[s][i].large /\ t1[s][i].frame \in A /\ (i # KernelIdx => t1[s][i].frame # PgPdptHigh)
    <3> SUFFICES ASSUME NEW s \in S1, NEW i \in Idx, t1[s][i].present
                 PROVE  ~t1[s][i].large /\ t1[s][i].frame \in A /\ (i # KernelIdx => t1[s][i].frame # PgPdptHigh)
      OBVIOUS
    <3>1. CASE s = n
      BY <1>12, <2>2, <2>3, <3>1
    <3>2. CASE s \in spaces
      BY <2>1, <3>2 DEF TopOk
    <3> QED BY <1>20, <3>1, <3>2
  <2>6. \A s, r \in S1, i, j \in Idx :
          t1[s][i].present /\ t1[r][j].present /\ t1[s][i].frame = t1[r][j].frame
          /\ t1[s][i].frame # PgPdptHigh => s = r /\ i = j
    <3> SUFFICES ASSUME NEW s \in S1, NEW r \in S1, NEW i \in Idx, NEW j \in Idx,
                        t1[s][i].present, t1[r][j].present, t1[s][i].frame = t1[r][j].frame,
                        t1[s][i].frame # PgPdptHigh
                 PROVE  s = r /\ i = j
      OBVIOUS
    <3>1. s # n /\ r # n
      BY <1>12, <2>2
    <3>2. s \in spaces /\ r \in spaces
      BY <1>20, <3>1
    <3> QED BY <2>1, <3>2 DEF TopOk
  <2> QED BY <2>3, <2>4, <2>5, <2>6 DEF TopOk
<1>22. LowOk(t1, A, B, C)
  <2>1. \A f \in A \cup B \cup C, j \in Idx : t1[f][j] = table[f][j]
    BY <1>16 DEF All
  <2>2. LowOk(table, A, B, C)
    BY <1>2 DEF Shape
  <2>3. Single(t1, A)
    BY <2>1, <2>2 DEF LowOk, Single
  <2>4. Single(t1, B)
    BY <2>1, <2>2 DEF LowOk, Single
  <2> QED BY <2>1, <2>2, <2>3, <2>4 DEF LowOk
<1>23. LevelsOk(st.used, S1, A, B, C)
  BY <1>2, <1>7, <1>10, <1>20 DEF Shape, LevelsOk, All
<1>24. Shape(y.table, y.used, spaces \cup {y.new}, A, B, C)
  BY <1>18, <1>19, <1>20, <1>21, <1>22, <1>23 DEF Shape, OnlyTable
<1>25. \E A1, B1, C1 : Shape(y.table, y.used, spaces \cup {y.new}, A1, B1, C1)
  BY <1>24
<1> QED BY <1>7, <1>18, <1>19, <1>25 DEF NewEffect, OnlyTable
-----------------------------------------------------------------------------
(* One round of the loop of deleteVSpace(). *)
Round(space, i, x) == IF i - 1 \in Idx THEN FreePdpt(x, table[space][i - 1]) ELSE x

(* The loop stays within what every round stays within. *)
LEMMA FreeLoop ==
    ASSUME NEW space, NEW D, NEW st, st \in D, st = PstructMap(State, space),
           \A i \in 1..KernelIdx : \A x \in D : Round(space, i, x) \in D
    PROVE  FreePdpts(space) \in D
<1> DEFINE n == KernelIdx
           F == [i \in 1..n |-> [x \in D |-> Round(space, i, x)]]
           E == [i \in 0..n |-> D]
<1>0. n \in Nat /\ \A k \in 0..n : E[k] = D
  BY ConstantFacts
<1>1. \A i \in 1..n : \A x \in D : F[i][x] = Round(space, i, x)
  OBVIOUS
<1>2. \A k \in 0..n : k < n => \A x \in E[k] : F[k + 1][x] \in E[k + 1]
  <2> SUFFICES ASSUME NEW k \in 0..n, k < n, NEW x \in D PROVE F[k + 1][x] \in D
    BY <1>0
  <2>1. PICK m : m = k + 1
    OBVIOUS
  <2>2. m \in 1..n
    BY <1>0, <2>1
  <2>3. F[m][x] = Round(space, m, x) /\ Round(space, m, x) \in D
    BY <1>1, <2>2
  <2> QED BY <2>1, <2>3
<1>3. st \in E[0]
  BY <1>0
<1> HIDE DEF F, E, n
<1>4. PICK g : LoopRun(n, st, F, g)
  BY <1>0, LoopExists
<1>5. \A k \in 0..n : g[k] \in D
  <2>1. \A k \in 0..n : g[k] \in E[k]
    BY <1>0, <1>2, <1>3, <1>4, LoopIn
  <2> QED BY <1>0, <2>1
<1>6. g = [i \in 0..n |-> g[i]] /\ DOMAIN g = 0..n
  BY <1>4 DEF LoopRun
<1>7. ASSUME NEW i \in 0..n
      PROVE  g[i] = IF i = 0 THEN st ELSE Round(space, i, g[i - 1])
  <2>1. g[i] = IF i = 0 THEN st ELSE F[i][g[i - 1]]
    BY <1>4 DEF LoopRun
  <2>2. CASE i # 0
    <3>1. i - 1 \in 0..n /\ i \in 1..n
      BY <1>0, <2>2
    <3>2. PICK y : y = g[i - 1]
      OBVIOUS
    <3>3. F[i][y] = Round(space, i, y)
      BY <1>1, <1>5, <3>1, <3>2
    <3> QED BY <2>1, <2>2, <3>2, <3>3, Zenon
  <2> QED BY <2>1, <2>2, Zenon
<1>8. g = [i \in 0..n |-> IF i = 0 THEN st ELSE Round(space, i, g[i - 1])]
  BY <1>6, <1>7, Zenon
<1> DEFINE f == CHOOSE h : h = [i \in 0..n |-> IF i = 0 THEN st ELSE Round(space, i, h[i - 1])]
<1>9. f = [i \in 0..n |-> IF i = 0 THEN st ELSE Round(space, i, f[i - 1])]
  BY <1>8
<1>10. FreePdpts(space) = f[n]
  BY DEF FreePdpts, Round, n
<1> HIDE DEF f
<1>11. \A k \in 0..n : f[k] \in D
  <2> DEFINE T == {k \in 0..n : f[k] \in D}
  <2>1. 0 \in T
    BY <1>0, <1>9
  <2>2. ASSUME NEW k \in T, k \in 0..n /\ k < n PROVE k + 1 \in T
    <3>1. PICK m : m = k + 1
      OBVIOUS
    <3>2. m \in 0..n /\ m # 0 /\ m - 1 = k /\ m \in 1..n
      BY <1>0, <2>2, <3>1
    <3>3. f[m] = Round(space, m, f[m - 1])
      BY <1>9, <3>2, Zenon
    <3>4. PICK y : y = f[k]
      OBVIOUS
    <3>5. Round(space, m, y) \in D
      BY <2>2, <3>2, <3>4 DEF n
    <3>6. f[m] = Round(space, m, y)
      BY <3>2, <3>3, <3>4, Zenon
    <3> QED BY <3>1, <3>2, <3>5, <3>6
  <2> HIDE DEF T
  <2>3. \A k \in 0..n : k \in T
    BY <1>0, <2>1, <2>2, IntervalInduction
  <2> QED BY <2>3 DEF T
<1> QED BY <1>0, <1>10, <1>11

(* The pdpt structures of a space, that of the kernel left out. *)
OwnPdpts(space) ==
    {f \in TableFrames : f # PgPdptHigh /\ \E i \in Idx : table[space][i].present /\ table[space][i].frame = f}

(* What the loop leaves at every round. *)
Freeing(space) ==
    {x \in St : /\ Once(x.tm) /\ x.table = table /\ x.status \in {"ok", "halt"}
                /\ used \ OwnPdpts(space) \subseteq x.used
                /\ x.status = "ok" => Len(x.at) # 0}

LEMMA FreeRound ==
    ASSUME Types, NEW A, NEW B, NEW C, Shape(table, used, spaces, A, B, C), NEW space \in spaces,
           NEW i \in 1..KernelIdx, NEW x \in Freeing(space)
    PROVE  Round(space, i, x) \in Freeing(space)
<1>1. PICK j : j = i - 1
  OBVIOUS
<1>2. PICK e : e = table[space][j]
  OBVIOUS
<1>3. PICK z : z = FreePdpt(x, e)
  OBVIOUS
<1>4. CASE ~(j \in Idx /\ x.status = "ok" /\ e.present /\ e.frame # PgPdptHigh)
  BY <1>1, <1>2, <1>4 DEF Round, FreePdpt
<1>5. CASE j \in Idx /\ x.status = "ok" /\ e.present /\ e.frame # PgPdptHigh
  <2>1. PICK f : f = e.frame
    OBVIOUS
  <2>2. f \in A
    BY <1>2, <1>5, <2>1 DEF Shape, TopOk
  <2>3. f \in TableFrames
    <3>1. used \subseteq Pool
      BY DEF Types
    <3>2. All(spaces, A, B, C) \subseteq TableFrames
      BY <3>1, ShapeIn
    <3> QED BY <2>2, <3>2 DEF All
  <2>4. f \in OwnPdpts(space)
    BY <1>2, <1>5, <2>1, <2>3 DEF OwnPdpts
  <2>5. /\ x \in St /\ Once(x.tm) /\ x.table = table /\ x.status = "ok"
        /\ used \ OwnPdpts(space) \subseteq x.used /\ x.at \in Seq(Ptr)
    BY <1>5 DEF Freeing, St
  <2>6. PICK m : m = PstructMap(x, f)
    OBVIOUS
  <2>7. MapResult(x, f, m)
    BY <2>3, <2>5, <2>6, MapFacts
  <2>8. z = [m EXCEPT !.used = m.used \ {f}]
    BY <1>3, <1>5, <2>1, <2>6 DEF FreePdpt
  <2>9. m \in St /\ Once(m.tm) /\ m.table = table /\ m.used = x.used /\ m.status \in {"ok", "halt"}
    BY <2>5, <2>7 DEF MapResult, SameTables
  <2>10. /\ z \in St /\ z.tm = m.tm /\ z.table = table /\ z.used = x.used \ {f} /\ z.status = m.status
         /\ z.at = m.at
    BY <2>8, <2>9 DEF St
  <2>11. z.status = "ok" => Len(z.at) # 0
    <3> SUFFICES ASSUME z.status = "ok" PROVE Len(z.at) # 0
      OBVIOUS
    <3>1. PICK p \in Ptr : m.at = Append(x.at, p)
      BY <2>7, <2>10 DEF MapResult
    <3>2. Len(m.at) = Len(x.at) + 1 /\ Len(x.at) \in Nat
      BY <2>5, <3>1, AppendLast
    <3> QED BY <2>10, <3>2
  <2>12. used \ OwnPdpts(space) \subseteq z.used
    BY <2>4, <2>5, <2>10
  <2>13. z \in Freeing(space)
    BY <2>9, <2>10, <2>11, <2>12 DEF Freeing
  <2>14. Round(space, i, x) = z
    BY <1>1, <1>2, <1>3, <1>5 DEF Round
  <2> QED BY <2>13, <2>14
<1> QED BY <1>4, <1>5

LEMMA FreeAll ==
    ASSUME Types, Once(tempMappings), NEW A, NEW B, NEW C, Shape(table, used, spaces, A, B, C), NEW space \in spaces
    PROVE  FreePdpts(space) \in Freeing(space)
<1>1. PICK s0 : s0 = State
  OBVIOUS
<1>2. PICK s1 : s1 = PstructMap(s0, space)
  OBVIOUS
<1>3. /\ s0 \in St /\ s0.status = "ok" /\ s0.tm = tempMappings /\ s0.table = table /\ s0.used = used
      /\ s0.at = <<>>
  BY <1>1 DEF State, St, Types, Regs
<1>4. space \in TableFrames
  BY DEF Types
<1>5. MapResult(s0, space, s1)
  BY <1>2, <1>3, <1>4, MapFacts
<1>6. s1 \in St /\ Once(s1.tm) /\ s1.table = table /\ s1.used = used /\ s1.status \in {"ok", "halt"}
  BY <1>3, <1>5 DEF MapResult, SameTables
<1>7. s1.status = "ok" => Len(s1.at) # 0
  <2> SUFFICES ASSUME s1.status = "ok" PROVE Len(s1.at) # 0
    OBVIOUS
  <2>1. PICK p \in Ptr : s1.at = Append(s0.at, p)
    BY <1>5 DEF MapResult
  <2>2. s1.at = <<p>>
    BY <1>3, <2>1
  <2> QED BY <2>2
<1>8. s1 \in Freeing(space)
  BY <1>6, <1>7 DEF Freeing
<1>9. PICK D : D = Freeing(space)
  OBVIOUS
<1>10. \A i \in 1..KernelIdx : \A x \in D : Round(space, i, x) \in D
  BY <1>9, FreeRound
<1>11. s1 = PstructMap(State, space) /\ s1 \in D
  BY <1>1, <1>2, <1>8, <1>9
<1>12. FreePdpts(space) \in D
  BY <1>10, <1>11, FreeLoop
<1> QED BY <1>9, <1>12

(* deleteVSpace(): what is left is as it was. *)
DeleteEffect(space, y) ==
    /\ y \in St /\ Once(y.tm)
    /\ \E A, B, C : Shape(y.table, y.used, spaces \ {space}, A, B, C)

LEMMA DeleteOpFacts ==
    ASSUME IInv, ~halted, NEW space \in spaces, space # PgPml4, NEW st, st = FreePdpts(space),
           st.status = "ok", NEW y, y = PstructUnmap([st EXCEPT !.used = @ \ {space}], st.at[1])
    PROVE  DeleteEffect(space, y)
<1>1. Types /\ Once(tempMappings)
  BY DEF IInv
<1>2. PICK A, B, C : Shape(table, used, spaces, A, B, C)
  BY DEF IInv
<1>3. st \in Freeing(space)
  BY <1>1, <1>2, FreeAll
<1>4. /\ st \in St /\ Once(st.tm) /\ st.table = table /\ used \ OwnPdpts(space) \subseteq st.used
      /\ st.at \in Seq(Ptr) /\ Len(st.at) # 0
  BY <1>3 DEF Freeing, St
<1>5. st.at[1] \in Ptr
  BY <1>4
<1>6. PICK p : p = st.at[1]
  OBVIOUS
<1>7. PICK U : U = st.used \ {space}
  OBVIOUS
<1>8. PICK z : z = [st EXCEPT !.used = U]
  OBVIOUS
<1>9. z \in St /\ z.tm = st.tm /\ z.table = table /\ z.used = U
  BY <1>4, <1>7, <1>8 DEF St
<1>10. y = PstructUnmap(z, p)
  BY <1>6, <1>7, <1>8
<1>11. UnmapResult(z, y)
  BY <1>4, <1>5, <1>6, <1>9, <1>10, UnmapFacts
<1>12. y \in St /\ Once(y.tm) /\ y.table = table /\ y.used = U
  BY <1>9, <1>11 DEF UnmapResult, SameTables
<1>13. PICK S1 : S1 = spaces \ {space}
  OBVIOUS
<1>14. PICK A1 : A1 = A \ OwnPdpts(space)
  OBVIOUS
<1>15. TopOk(table, S1, A1)
  <2>1. TopOk(table, spaces, A)
    BY <1>2 DEF Shape
  <2>2. PgPml4 \in S1 /\ PgPdptHigh \in A1
    BY <1>13, <1>14, <2>1 DEF TopOk, OwnPdpts
  <2>3. \A s \in S1 : table[s][KernelIdx] = Pointer(PgPdptHigh, FALSE)
    BY <1>13, <2>1 DEF TopOk
  <2>4. \A s \in S1, i \in Idx : table[s][i].present =>
          ~table[s][i].large /\ table[s][i].frame \in A1 /\ (i # KernelIdx => table[s][i].frame # PgPdptHigh)
    <3> SUFFICES ASSUME NEW s \in S1, NEW i \in Idx, table[s][i].present
                 PROVE  ~table[s][i].large /\ table[s][i].frame \in A1 /\ (i # KernelIdx => table[s][i].frame # PgPdptHigh)
      OBVIOUS
    <3>1. ~table[s][i].large /\ table[s][i].frame \in A /\ (i # KernelIdx => table[s][i].frame # PgPdptHigh)
      BY <1>13, <2>1 DEF TopOk
    <3>2. table[s][i].frame \notin OwnPdpts(space)
      BY <1>13, <2>1 DEF TopOk, OwnPdpts
    <3> QED BY <1>14, <3>1, <3>2
  <2>5. \A s, r \in S1, i, j \in Idx :
          table[s][i].present /\ table[r][j].present /\ table[s][i].frame = table[r][j].frame
          /\ table[s][i].frame # PgPdptHigh => s = r /\ i = j
    BY <1>13, <2>1 DEF TopOk
  <2> QED BY <2>2, <2>3, <2>4, <2>5 DEF TopOk
<1>16. LowOk(table, A1, B, C)
  BY <1>2, <1>14 DEF Shape, LowOk, Single
<1>17. LevelsOk(U, S1, A1, B, C)
  <2>1. OwnPdpts(space) \subseteq A
    BY <1>2 DEF OwnPdpts, Shape, TopOk
  <2> QED BY <1>2, <1>4, <1>7, <1>13, <1>14, <2>1 DEF Shape, LevelsOk
<1>18. Shape(y.table, y.used, spaces \ {space}, A1, B, C)
  BY <1>12, <1>13, <1>15, <1>16, <1>17 DEF Shape
<1>19. \E A2, B2, C2 : Shape(y.table, y.used, spaces \ {space}, A2, B2, C2)
  BY <1>18
<1> QED BY <1>12, <1>19 DEF DeleteEffect
-----------------------------------------------------------------------------
(* An operation that leaves the structures in order keeps the invariant. *)
LEMMA Applied ==
    ASSUME Types, NEW y, y \in St, Once(y.tm), Apply(y), NEW S, spaces' = S, S \subseteq TableFrames,
           cr3' = cr3, cr3 \in S, y.status # "halt" => \E A, B, C : Shape(y.table, y.used, S, A, B, C)
    PROVE  IInv'
<1>1. tempMappings' = y.tm /\ table' = y.table /\ used' = y.used /\ halted' = (y.status = "halt")
  BY DEF Apply
<1>2. Types'
  <2>1. tempMappings' \in [Slot -> Regs] /\ table' \in [TableFrames -> [Idx -> Entries]] /\ used' \subseteq Pool
    BY <1>1 DEF St
  <2>2. halted' \in BOOLEAN
    BY <1>1, Zenon
  <2> QED BY <2>1, <2>2 DEF Types, Regs
<1>3. Once(tempMappings)'
  BY <1>1 DEF Once
<1>4. (~halted => \E A, B, C : Shape(table, used, spaces, A, B, C))'
  <2> SUFFICES ASSUME ~halted' PROVE \E A, B, C : Shape(table', used', spaces', A, B, C)
    OBVIOUS
  <2>1. PICK A, B, C : Shape(y.table, y.used, S, A, B, C)
    BY <1>1
  <2>2. Shape(table', used', spaces', A, B, C)
    BY <1>1, <2>1
  <2> QED BY <2>2
<1> QED BY <1>2, <1>3, <1>4 DEF IInv

LEMMA Initially ==
    Init => IInv
<1> SUFFICES ASSUME Init PROVE IInv
  OBVIOUS
<1>1. PICK e1 : e1 = Pointer(PgPdptHigh, FALSE)
  OBVIOUS
<1>2. PICK e2 : e2 = Pointer(PgPdHigh, FALSE)
  OBVIOUS
<1>3. /\ e1 \in Entries /\ e1.present = TRUE /\ e1.large = FALSE /\ e1.frame = PgPdptHigh
      /\ e2 \in Entries /\ e2.present = TRUE /\ e2.large = FALSE /\ e2.frame = PgPdHigh
  <2>1. e1 \in Entries /\ e2 \in Entries
    BY <1>1, <1>2, ConstantFacts, EntryFacts
  <2> QED BY <1>1, <1>2, <2>1 DEF Pointer
<1>4. /\ PgPml4 \in TableFrames \ Pool /\ PgPdptHigh \in TableFrames \ Pool /\ PgPdHigh \in TableFrames \ Pool
      /\ PgPml4 # PgPdptHigh /\ PgPml4 # PgPdHigh /\ PgPdptHigh # PgPdHigh
      /\ KernelIdx \in Idx /\ HighIdx \in Idx
  BY ConstantFacts
<1>5. /\ Empty \in [Idx -> Entries] /\ ~Absent.present /\ ~Absent.large
      /\ \A i \in Idx : Empty[i] = Absent
  BY EntryFacts
<1>6. PICK t1 : t1 = [Empty EXCEPT ![KernelIdx] = e1]
  OBVIOUS
<1>7. PICK t2 : t2 = [Empty EXCEPT ![HighIdx] = e2]
  OBVIOUS
<1>8. /\ t1 \in [Idx -> Entries] /\ \A i \in Idx : t1[i] = IF i = KernelIdx THEN e1 ELSE Absent
      /\ t2 \in [Idx -> Entries] /\ \A i \in Idx : t2[i] = IF i = HighIdx THEN e2 ELSE Absent
  BY <1>3, <1>4, <1>5, <1>6, <1>7
<1>9. table = [f \in TableFrames |-> CASE f = PgPml4 -> t1 [] f = PgPdptHigh -> t2 [] OTHER -> Empty]
  BY <1>1, <1>2, <1>6, <1>7 DEF Init
<1>10. table[PgPml4] = t1 /\ table[PgPdptHigh] = t2 /\ table[PgPdHigh] = Empty
  BY <1>4, <1>9
<1>11. \A f \in TableFrames : table[f] \in {t1, t2, Empty}
  BY <1>9
<1>12. table \in [TableFrames -> [Idx -> Entries]]
  BY <1>5, <1>8, <1>9, <1>11
<1>13. Types /\ Once(tempMappings)
  <2>1. /\ tempMappings = [i \in Slot |-> Unused] /\ used = {} /\ spaces = {PgPml4} /\ cr3 = PgPml4
        /\ halted = FALSE
    BY DEF Init
  <2>2. Once(tempMappings)
    BY <2>1 DEF Once
  <2> QED BY <1>4, <1>12, <2>1, <2>2 DEF Types
<1>14. TopOk(table, {PgPml4}, {PgPdptHigh})
  BY <1>1, <1>3, <1>4, <1>5, <1>8, <1>10 DEF TopOk
<1>15. LowOk(table, {PgPdptHigh}, {PgPdHigh}, {})
  <2>1. \A i \in Idx : ~table[PgPdHigh][i].present
    BY <1>5, <1>10
  <2>2. \A i \in Idx : table[PgPdptHigh][i].present => i = HighIdx /\ table[PgPdptHigh][i] = e2
    BY <1>5, <1>8, <1>10
  <2>3. Single(table, {PgPdptHigh}) /\ Single(table, {PgPdHigh})
    BY <2>1, <2>2 DEF Single
  <2> QED BY <1>3, <2>1, <2>2, <2>3 DEF LowOk
<1>16. LevelsOk({}, {PgPml4}, {PgPdptHigh}, {PgPdHigh}, {})
  BY <1>4 DEF LevelsOk
<1>17. used = {} /\ spaces = {PgPml4}
  BY DEF Init
<1>18. Shape(table, used, spaces, {PgPdptHigh}, {PgPdHigh}, {})
  BY <1>14, <1>15, <1>16, <1>17 DEF Shape
<1>19. \E A, B, C : Shape(table, used, spaces, A, B, C)
  BY <1>18
<1> QED BY <1>13, <1>19 DEF IInv

LEMMA StepInv ==
    IInv /\ [Next]_vars => IInv'
<1> SUFFICES ASSUME IInv, [Next]_vars PROVE IInv'
  OBVIOUS
<1>1. Types /\ Once(tempMappings)
  BY DEF IInv
<1>2. spaces \subseteq TableFrames /\ cr3 \in spaces
  BY <1>1 DEF Types
<1>3. ASSUME NEW s \in spaces, NEW v \in Virt, NEW f \in DataFrames, NEW l \in BOOLEAN,
             NEW o \in AllocOrders, map(s, v, f, l, o)
      PROVE  IInv'
  <2>1. ~halted /\ spaces' = spaces /\ cr3' = cr3
    BY <1>3 DEF map, Running
  <2>2. PICK st : st = SplitVirtualAndMap(s, v, l, FALSE, o)
    OBVIOUS
  <2>3. PICK y : y = IF st.status # "ok" THEN Halt(st)
                     ELSE IF l THEN MapLarge(st, v, f) ELSE MapSmall(st, v, f)
    OBVIOUS
  <2>4. Apply(y)
    BY <1>3, <2>2, <2>3 DEF map
  <2>5. MapEffect(s, v, f, l, y)
    BY <2>1, <2>2, <2>3, MapOpFacts
  <2>6. y \in St /\ Once(y.tm) /\ (y.status # "halt" => \E A, B, C : Shape(y.table, y.used, spaces, A, B, C))
    BY <2>5 DEF MapEffect
  <2> QED BY <1>1, <1>2, <2>1, <2>4, <2>6, Applied
<1>4. ASSUME NEW s \in spaces, NEW v \in Virt, unmap(s, v) PROVE IInv'
  <2>1. ~halted /\ spaces' = spaces /\ cr3' = cr3
    BY <1>4 DEF unmap, Running
  <2>2. PICK st : st = SplitVirtualAndMap(s, v, FALSE, TRUE, <<>>)
    OBVIOUS
  <2>3. PICK y : y = IF st.status # "ok" THEN Halt(st)
                     ELSE IF Pde(st, v).large THEN st ELSE UnmapFrom(SetPde(st, v, Absent), 3)
    OBVIOUS
  <2>4. Apply(y)
    BY <1>4, <2>2, <2>3 DEF unmap
  <2>5. UnmapEffect(s, v, y)
    BY <2>1, <2>2, <2>3, UnmapOpFacts
  <2>6. y \in St /\ Once(y.tm) /\ (y.status # "halt" => \E A, B, C : Shape(y.table, y.used, spaces, A, B, C))
    BY <2>5 DEF UnmapEffect
  <2> QED BY <1>1, <1>2, <2>1, <2>4, <2>6, Applied
<1>5. ASSUME NEW s \in spaces, NEW v \in Virt, getMappedAddr(s, v) PROVE IInv'
  <2>1. ~halted /\ spaces' = spaces /\ cr3' = cr3
    BY <1>5 DEF getMappedAddr, Running
  <2>2. PICK st : st = SplitVirtualAndMap(s, v, FALSE, TRUE, <<>>)
    OBVIOUS
  <2>3. PICK y : y = IF st.status # "ok" THEN st ELSE UnmapFrom(st, Len(st.at))
    OBVIOUS
  <2>4. Apply(y)
    BY <1>5, <2>2, <2>3 DEF getMappedAddr
  <2>5. GetEffect(y)
    BY <2>1, <2>2, <2>3, GetOpFacts
  <2>6. y \in St /\ Once(y.tm) /\ (y.status # "halt" => y.table = table /\ y.used = used)
    BY <2>5 DEF GetEffect
  <2>7. PICK A, B, C : Shape(table, used, spaces, A, B, C)
    BY <2>1 DEF IInv
  <2>8. y.status # "halt" => \E A1, B1, C1 : Shape(y.table, y.used, spaces, A1, B1, C1)
    BY <2>6, <2>7
  <2> QED BY <1>1, <1>2, <2>1, <2>4, <2>6, <2>8, Applied
<1>6. ASSUME NEW s \in spaces, activateVSpace(s) PROVE IInv'
  <2>1. /\ cr3' = s /\ tempMappings' = tempMappings /\ table' = table /\ used' = used /\ spaces' = spaces
        /\ halted' = halted
    BY <1>6 DEF activateVSpace
  <2>2. Types'
    BY <1>1, <2>1 DEF Types
  <2>3. Once(tempMappings)'
    BY <1>1, <2>1 DEF Once
  <2>4. (~halted => \E A, B, C : Shape(table, used, spaces, A, B, C))'
    BY <2>1 DEF IInv
  <2> QED BY <2>2, <2>3, <2>4 DEF IInv
<1>7. ASSUME NEW s \in spaces, deleteVSpace(s) PROVE IInv'
  <2>1. ~halted /\ s # cr3 /\ s # PgPml4 /\ cr3' = cr3
    BY <1>7 DEF deleteVSpace, Running
  <2>2. PICK st : st = FreePdpts(s)
    OBVIOUS
  <2>3. /\ Apply(IF st.status # "ok" THEN st ELSE PstructUnmap([st EXCEPT !.used = @ \ {s}], st.at[1]))
        /\ spaces' = IF st.status # "ok" THEN spaces ELSE spaces \ {s}
    BY <1>7, <2>2 DEF deleteVSpace
  <2>4. CASE st.status # "ok"
    <3>1. PICK A, B, C : Shape(table, used, spaces, A, B, C)
      BY <2>1 DEF IInv
    <3>2. st \in Freeing(s)
      BY <1>1, <2>2, <3>1, FreeAll
    <3>3. st \in St /\ Once(st.tm) /\ st.status = "halt"
      BY <2>4, <3>2 DEF Freeing
    <3>4. Apply(st) /\ spaces' = spaces
      BY <2>3, <2>4
    <3> QED BY <1>1, <1>2, <2>1, <3>3, <3>4, Applied
  <2>5. CASE st.status = "ok"
    <3>1. PICK y : y = PstructUnmap([st EXCEPT !.used = @ \ {s}], st.at[1])
      OBVIOUS
    <3>2. DeleteEffect(s, y)
      BY <2>1, <2>2, <2>5, <3>1, DeleteOpFacts
    <3>3. PICK S : S = spaces \ {s}
      OBVIOUS
    <3>4. Apply(y) /\ spaces' = S
      BY <2>3, <2>5, <3>1, <3>3
    <3>5. y \in St /\ Once(y.tm) /\ \E A, B, C : Shape(y.table, y.used, S, A, B, C)
      BY <3>2, <3>3 DEF DeleteEffect
    <3>6. S \subseteq TableFrames /\ cr3 \in S
      BY <1>2, <2>1, <3>3
    <3> QED BY <1>1, <2>1, <3>4, <3>5, <3>6, Applied
  <2> QED BY <2>4, <2>5
<1>8. ASSUME NEW o \in AllocOrders, newVSpace(o) PROVE IInv'
  <2>1. ~halted /\ cr3' = cr3
    BY <1>8 DEF newVSpace, Running
  <2>2. PICK st : st = AllocatePStructAny(State, o)
    OBVIOUS
  <2>3. PICK ok \in BOOLEAN : ok = (st.status = "ok" /\ cr3 = PgPml4 /\ st.new < IdentityFrames)
    BY Zenon
  <2>4. /\ Apply(IF ok THEN KernelEntry(st) ELSE Halt(st))
        /\ spaces' = IF ok THEN spaces \cup {st.new} ELSE spaces
    BY <1>8, <2>2, <2>3 DEF newVSpace
  <2>5. CASE ~ok
    <3>1. PICK y : y = Halt(st)
      OBVIOUS
    <3>2. PICK s0 : s0 = State
      OBVIOUS
    <3>3. s0 \in St /\ s0.status = "ok" /\ s0.tm = tempMappings
      BY <1>1, <3>2 DEF State, St, Types, Regs
    <3>4. AllocResult(s0, st)
      BY <1>1, <2>2, <3>2, <3>3, AllocFacts
    <3>5. y \in St /\ Once(y.tm) /\ y.status = "halt"
      BY <3>1, <3>4, Halted DEF AllocResult
    <3>6. Apply(y) /\ spaces' = spaces
      BY <2>4, <2>5, <3>1
    <3> QED BY <1>1, <1>2, <2>1, <3>5, <3>6, Applied
  <2>6. CASE ok
    <3>1. PICK y : y = KernelEntry(st)
      OBVIOUS
    <3>2. NewEffect(y) /\ st.status = "ok"
      BY <2>1, <2>2, <2>3, <2>6, <3>1, NewOpFacts
    <3>3. PICK S : S = spaces \cup {y.new}
      OBVIOUS
    <3>4. y.new = st.new
      <4>1. PICK t1 : t1 = [st.table EXCEPT ![st.new][KernelIdx] = Pointer(PgPdptHigh, FALSE)]
        OBVIOUS
      <4>2. y = [st EXCEPT !.table = t1]
        BY <3>1, <4>1 DEF KernelEntry
      <4>3. PICK s0 : s0 = State
        OBVIOUS
      <4>4. s0 \in St /\ s0.status = "ok" /\ s0.tm = tempMappings
        BY <1>1, <4>3 DEF State, St, Types, Regs
      <4>5. AllocResult(s0, st)
        BY <1>1, <2>2, <4>3, <4>4, AllocFacts
      <4>6. st \in St
        BY <4>5 DEF AllocResult
      <4> QED BY <4>2, <4>6 DEF St
    <3>5. Apply(y) /\ spaces' = S
      BY <2>4, <2>6, <3>1, <3>3, <3>4
    <3>6. y \in St /\ Once(y.tm) /\ y.new \in Pool /\ \E A, B, C : Shape(y.table, y.used, S, A, B, C)
      BY <3>2, <3>3 DEF NewEffect
    <3>7. S \subseteq TableFrames /\ cr3 \in S
      BY <1>2, <3>3, <3>6, ConstantFacts
    <3> QED BY <1>1, <2>1, <3>5, <3>6, <3>7, Applied
  <2> QED BY <2>5, <2>6
<1>9. ASSUME UNCHANGED vars PROVE IInv'
  <2>1. /\ cr3' = cr3 /\ tempMappings' = tempMappings /\ table' = table /\ used' = used /\ spaces' = spaces
        /\ halted' = halted
    BY <1>9 DEF vars
  <2>2. Types'
    BY <1>1, <2>1 DEF Types
  <2>3. Once(tempMappings)'
    BY <1>1, <2>1 DEF Once
  <2>4. (~halted => \E A, B, C : Shape(table, used, spaces, A, B, C))'
    BY <2>1 DEF IInv
  <2> QED BY <2>2, <2>3, <2>4 DEF IInv
<1>10. CASE Abort
  BY <1>9, <1>10 DEF Abort
<1> QED BY <1>3, <1>4, <1>5, <1>6, <1>7, <1>8, <1>9, <1>10 DEF Next
-----------------------------------------------------------------------------
LEMMA SpecIInv ==
    Spec => []IInv
<1>1. Init => IInv
  BY Initially
<1>2. IInv /\ [Next]_vars => IInv'
  BY StepInv
<1> QED BY <1>1, <1>2, PTL DEF Spec

(* The entries a space reaches are of three levels. *)
LEMMA RefLevels ==
    ASSUME NEW A, NEW B, NEW C, Shape(table, used, spaces, A, B, C), NEW s \in spaces, NEW e \in Refs(s)
    PROVE  /\ e = <<e[1], e[2]>> /\ e[2] \in Idx
           /\ table[e[1]][e[2]].present /\ ~table[e[1]][e[2]].large
           /\ \/ e[1] \in spaces /\ table[e[1]][e[2]].frame \in A
              \/ e[1] \in A /\ table[e[1]][e[2]].frame \in B
              \/ e[1] \in B /\ table[e[1]][e[2]].frame \in C
<1>1. \A d \in PdptRefs(s) : d = <<d[1], d[2]>> /\ d[1] \in spaces /\ d[2] \in Idx
                            /\ table[d[1]][d[2]].present /\ ~table[d[1]][d[2]].large
  BY DEF PdptRefs, Below
<1>2. \A d \in PdptRefs(s) : table[d[1]][d[2]].frame \in A
  BY <1>1 DEF Shape, TopOk
<1>3. Targets(PdptRefs(s)) \subseteq A
  BY <1>2 DEF Targets
<1>4. \A d \in PdRefs(s) : d = <<d[1], d[2]>> /\ d[1] \in A /\ d[2] \in Idx
                          /\ table[d[1]][d[2]].present /\ ~table[d[1]][d[2]].large
  BY <1>3 DEF PdRefs, Below
<1>5. \A d \in PdRefs(s) : table[d[1]][d[2]].frame \in B
  BY <1>4 DEF Shape, LowOk
<1>6. Targets(PdRefs(s)) \subseteq B
  BY <1>5 DEF Targets
<1>7. \A d \in PtRefs(s) : d = <<d[1], d[2]>> /\ d[1] \in B /\ d[2] \in Idx
                          /\ table[d[1]][d[2]].present /\ ~table[d[1]][d[2]].large
  BY <1>6 DEF PtRefs, Below
<1>8. \A d \in PtRefs(s) : table[d[1]][d[2]].frame \in C
  BY <1>7 DEF Shape, LowOk
<1>9. CASE e \in PdptRefs(s)
  BY <1>1, <1>2, <1>9
<1>10. CASE e \in PdRefs(s)
  BY <1>4, <1>5, <1>10
<1>11. CASE e \in PtRefs(s)
  BY <1>7, <1>8, <1>11
<1> QED BY <1>9, <1>10, <1>11 DEF Refs

(* No structure of an existing address space is ever free memory. *)
THEOREM SpecLiveTablesAllocated ==
    Spec => []LiveTablesAllocated
<1>1. IInv => LiveTablesAllocated
  <2> SUFFICES ASSUME IInv PROVE LiveTablesAllocated
    OBVIOUS
  <2>1. TypeOK
    <3>1. \A e \in Entries : e \in Entry
      BY EntryFacts
    <3>2. table \in [TableFrames -> [Idx -> Entries]]
      BY DEF IInv, Types
    <3>3. table \in [TableFrames -> [Idx -> Entry]]
      BY <3>1, <3>2
    <3> QED BY <3>3 DEF IInv, Types, TypeOK
  <2>2. ASSUME ~halted, NEW s \in spaces, NEW f \in (Targets(Refs(s)) \cup {s}) \cap Pool PROVE f \in used
    <3>1. PICK A, B, C : Shape(table, used, spaces, A, B, C)
      BY <2>2 DEF IInv
    <3>2. CASE f = s
      BY <2>2, <3>1, <3>2, ConstantFacts DEF Shape, LevelsOk
    <3>3. CASE f \in Targets(Refs(s))
      <4>1. PICK e \in Refs(s) : f = table[e[1]][e[2]].frame
        BY <3>3 DEF Targets
      <4>2. f \in A \cup B \cup C
        BY <3>1, <4>1, RefLevels
      <4> QED BY <2>2, <3>1, <4>2, ConstantFacts DEF Shape, LevelsOk
    <3> QED BY <2>2, <3>2, <3>3
  <2> QED BY <2>1, <2>2 DEF LiveTablesAllocated
<1> QED BY <1>1, SpecIInv, PTL

(* What is mapped in the kernel's half is mapped the same everywhere. *)
THEOREM SpecKernelMappedEverywhere ==
    Spec => []KernelMappedEverywhere
<1>1. IInv => KernelMappedEverywhere
  <2> SUFFICES ASSUME IInv, ~halted, NEW s \in spaces, NEW v \in Virt, v.pml4e = KernelIdx
               PROVE  Resolve(table, s, v) = Resolve(table, PgPml4, v)
    BY DEF KernelMappedEverywhere
  <2>1. PICK A, B, C : Shape(table, used, spaces, A, B, C)
    BY DEF IInv
  <2>2. table[s][v.pml4e] = table[PgPml4][v.pml4e]
    BY <2>1 DEF Shape, TopOk
  <2> QED BY <2>2 DEF Resolve
<1> QED BY <1>1, SpecIInv, PTL

(* Two structures never share a structure below them but that of the kernel. *)
THEOREM SpecStructuresApart ==
    Spec => []StructuresApart
<1>1. IInv => StructuresApart
  <2> SUFFICES ASSUME IInv, ~halted, NEW s \in spaces, NEW r \in spaces, NEW e \in Refs(s), NEW d \in Refs(r),
                      e # d, table[e[1]][e[2]].frame = table[d[1]][d[2]].frame
               PROVE  table[e[1]][e[2]].frame = PgPdptHigh
    BY DEF StructuresApart
  <2>1. PICK A, B, C : Shape(table, used, spaces, A, B, C)
    BY DEF IInv
  <2>2. PICK f, i, g, j : f = e[1] /\ i = e[2] /\ g = d[1] /\ j = d[2]
    OBVIOUS
  <2>3. /\ e = <<f, i>> /\ i \in Idx /\ table[f][i].present /\ ~table[f][i].large
        /\ \/ f \in spaces /\ table[f][i].frame \in A
           \/ f \in A /\ table[f][i].frame \in B
           \/ f \in B /\ table[f][i].frame \in C
    BY <2>1, <2>2, RefLevels
  <2>4. /\ d = <<g, j>> /\ j \in Idx /\ table[g][j].present /\ ~table[g][j].large
        /\ \/ g \in spaces /\ table[g][j].frame \in A
           \/ g \in A /\ table[g][j].frame \in B
           \/ g \in B /\ table[g][j].frame \in C
    BY <2>1, <2>2, RefLevels
  <2>5. table[f][i].frame = table[g][j].frame /\ ~(f = g /\ i = j)
    BY <2>2, <2>3, <2>4
  <2>6. A \cap (B \cup C) = {} /\ B \cap C = {}
    BY <2>1 DEF Shape, LevelsOk
  <2>7. CASE f \in spaces /\ g \in spaces
    BY <2>1, <2>2, <2>3, <2>4, <2>5, <2>7 DEF Shape, TopOk
  <2>8. CASE f \in A /\ g \in A
    <3>1. Single(table, A)
      BY <2>1 DEF Shape, LowOk
    <3> QED BY <2>3, <2>4, <2>5, <2>8, <3>1 DEF Single
  <2>9. CASE f \in B /\ g \in B
    <3>1. Single(table, B)
      BY <2>1 DEF Shape, LowOk
    <3> QED BY <2>3, <2>4, <2>5, <2>9, <3>1 DEF Single
  <2> QED BY <2>3, <2>4, <2>5, <2>6, <2>7, <2>8, <2>9
<1> QED BY <1>1, SpecIInv, PTL

(* No region is ever mapped through two slots. *)
THEOREM SpecRegionsMappedOnce ==
    Spec => []RegionsMappedOnce
<1>1. IInv => RegionsMappedOnce
  BY DEF IInv, Once, RegionsMappedOnce
<1> QED BY <1>1, SpecIInv, PTL

(* getMappedAddr() returns what the processor would find. *)
THEOREM SpecGetAgrees ==
    Spec => []GetAgrees
<1>1. IInv => GetAgrees
  <2> SUFFICES ASSUME IInv, ~halted, NEW s \in spaces, NEW v \in Virt,
                      SplitVirtualAndMap(s, v, FALSE, TRUE, <<>>).status # "halt"
               PROVE  MappedAddr(s, v) = Resolve(table, s, v)
    BY DEF GetAgrees
  <2>1. Types /\ Once(tempMappings)
    BY DEF IInv
  <2>2. PICK A0, B0, C0 : Shape(table, used, spaces, A0, B0, C0)
    BY DEF IInv
  <2>3. PICK st : st = SplitVirtualAndMap(s, v, FALSE, TRUE, <<>>)
    OBVIOUS
  <2>4. WalkResult(s, v, FALSE, TRUE, st) /\ st.status # "halt"
    BY <2>1, <2>2, <2>3, WalkFacts
  <2>5. MappedAddr(s, v) = IF st.status # "ok" THEN 0
                           ELSE IF Pde(st, v).large THEN Pde(st, v).frame
                           ELSE st.table[FrameAt(st, st.at[4])][v.pte].frame
    BY <2>3 DEF MappedAddr
  <2>6. CASE st.status # "ok"
    BY <2>4, <2>5, <2>6 DEF WalkResult
  <2>7. CASE st.status = "ok"
    <3>1. PICK A, B, C, c2, c3 : WalkOk(s, v, FALSE, TRUE, st, A, B, C, c2, c3)
      BY <2>4, <2>7 DEF WalkResult
    <3>2. /\ st.table = table /\ used \subseteq Pool /\ Shape(table, used, spaces, A, B, C)
          /\ Path(table, s, v, c2, c3) /\ c3 \in B /\ Points(st, st.at[3], c3)
      BY <3>1 DEF WalkOk
    <3>3. PICK e3 : e3 = table[c3][v.pde]
      OBVIOUS
    <3>4. v.pde \in Idx /\ v.pte \in Idx /\ c3 \in TableFrames /\ table \in Tables
          /\ All(spaces, A, B, C) \subseteq TableFrames
      <4>1. All(spaces, A, B, C) \subseteq TableFrames
        BY <3>2, ShapeIn
      <4>2. c3 \in TableFrames
        BY <3>2, <4>1 DEF All
      <4>3. v.pde \in Idx /\ v.pte \in Idx
        BY ConstantFacts
      <4>4. table \in Tables
        BY <2>1 DEF Types, Tables
      <4> QED BY <4>1, <4>2, <4>3, <4>4
    <3>5. Pde(st, v) = e3 /\ e3 \in Entries
      BY <3>2, <3>3, <3>4 DEF Pde, Points, Tables
    <3>6. (e3.present /\ e3.large) \/ (e3.present /\ Points(st, st.at[4], e3.frame))
      BY <3>1, <3>2, <3>3 DEF WalkOk
    <3>7. CASE e3.large
      BY <2>5, <2>7, <3>2, <3>3, <3>5, <3>6, <3>7 DEF Path, Resolve
    <3>8. CASE ~e3.large
      <4>1. PICK c4 : c4 = e3.frame
        OBVIOUS
      <4>2. Points(st, st.at[4], c4) /\ e3.present /\ c4 \in C
        BY <3>2, <3>3, <3>4, <3>6, <3>8, <4>1 DEF Shape, LowOk
      <4>3. PICK e4 : e4 = table[c4][v.pte]
        OBVIOUS
      <4>4. e4 \in Entries
        BY <3>4, <4>2, <4>3 DEF All, Tables
      <4>5. MappedAddr(s, v) = e4.frame
        BY <2>5, <2>7, <3>2, <3>5, <3>8, <4>2, <4>3 DEF Points
      <4>6. Resolve(table, s, v) = IF e4.present THEN e4.frame ELSE 0
        BY <3>2, <3>3, <3>8, <4>1, <4>2, <4>3 DEF Path, Resolve
      <4>7. ~e4.present => e4.frame = 0
        BY <4>4, EntryFacts
      <4> QED BY <4>5, <4>6, <4>7
    <3> QED BY <3>7, <3>8
  <2> QED BY <2>6, <2>7
<1> QED BY <1>1, SpecIInv, PTL

(* map() replaces no mapping, makes the one it was asked for and no other. *)
THEOREM SpecMapExact ==
    Spec => MapExact
<1>1. ASSUME IInv, ~halted', NEW s \in spaces, NEW v \in Virt, NEW f \in DataFrames, NEW l \in BOOLEAN,
             NEW o \in AllocOrders, map(s, v, f, l, o)
      PROVE  /\ Resolve(table, s, v) = 0
             /\ Resolve(table', s, v) = f
             /\ \A r \in spaces, w \in Virt :
                   (r # s /\ w.pml4e # KernelIdx) \/ ~SamePage(v, w, l)
                       => Resolve(table', r, w) = Resolve(table, r, w)
  <2>1. ~halted
    BY <1>1 DEF map, Running
  <2>2. PICK st : st = SplitVirtualAndMap(s, v, l, FALSE, o)
    OBVIOUS
  <2>3. PICK y : y = IF st.status # "ok" THEN Halt(st)
                     ELSE IF l THEN MapLarge(st, v, f) ELSE MapSmall(st, v, f)
    OBVIOUS
  <2>4. Apply(y)
    BY <1>1, <2>2, <2>3 DEF map
  <2>5. table' = y.table /\ y.status # "halt"
    BY <1>1, <2>4 DEF Apply
  <2>6. MapEffect(s, v, f, l, y)
    BY <1>1, <2>1, <2>2, <2>3, MapOpFacts
  <2> QED BY <2>5, <2>6 DEF MapEffect
<1>2. IInv => [table' # table /\ ~halted' =>
        \A s \in spaces, v \in Virt, f \in DataFrames, l \in BOOLEAN, o \in AllocOrders :
            map(s, v, f, l, o) =>
                /\ Resolve(table, s, v) = 0
                /\ Resolve(table', s, v) = f
                /\ \A r \in spaces, w \in Virt :
                      (r # s /\ w.pml4e # KernelIdx) \/ ~SamePage(v, w, l)
                          => Resolve(table', r, w) = Resolve(table, r, w)]_vars
  BY <1>1
<1> QED BY <1>2, SpecIInv, PTL DEF MapExact

(* unmap() changes nothing outside the 2M of the address. *)
THEOREM SpecUnmapLocal ==
    Spec => UnmapLocal
<1>1. ASSUME IInv, ~halted', NEW s \in spaces, NEW v \in Virt, unmap(s, v)
      PROVE  \A r \in spaces, w \in Virt :
                (r # s /\ w.pml4e # KernelIdx) \/ ~SamePage(v, w, TRUE)
                    => Resolve(table', r, w) = Resolve(table, r, w)
  <2>1. ~halted
    BY <1>1 DEF unmap, Running
  <2>2. PICK st : st = SplitVirtualAndMap(s, v, FALSE, TRUE, <<>>)
    OBVIOUS
  <2>3. PICK y : y = IF st.status # "ok" THEN Halt(st)
                     ELSE IF Pde(st, v).large THEN st ELSE UnmapFrom(SetPde(st, v, Absent), 3)
    OBVIOUS
  <2>4. Apply(y)
    BY <1>1, <2>2, <2>3 DEF unmap
  <2>5. table' = y.table /\ y.status # "halt"
    BY <1>1, <2>4 DEF Apply
  <2>6. UnmapEffect(s, v, y)
    BY <1>1, <2>1, <2>2, <2>3, UnmapOpFacts
  <2> QED BY <2>5, <2>6 DEF UnmapEffect
<1>2. IInv => [table' # table /\ ~halted' => \A s \in spaces, v \in Virt :
        unmap(s, v) => \A r \in spaces, w \in Virt :
            (r # s /\ w.pml4e # KernelIdx) \/ ~SamePage(v, w, TRUE)
                => Resolve(table', r, w) = Resolve(table, r, w)]_vars
  BY <1>1
<1> QED BY <1>2, SpecIInv, PTL DEF UnmapLocal
=============================================================================
