----------------------- MODULE VirtualMemoryX86Proofs -----------------------
(***************************************************************************)
(* Proofs about VirtualMemoryX86, for every number of temporary mappings,  *)
(* frames and address spaces, and all virtual addresses.                   *)
(***************************************************************************)
EXTENDS VirtualMemoryX86, WellFoundedInduction, TLAPS

Entry == {Absent} \cup {Pointer(f) : f \in Frames}

(* Only what is in S is mapped temporarily, and that once. *)
Slots(tm, S) ==
    \A i \in Slot : tm[i] # 0 => tm[i] \in S /\ \A j \in Slot : i # j => tm[i] # tm[j]

(* What entry i of the page directory s may refer to: the page directory of
   the kernel, only in entry 4 of the others; the page table of paging.S or,
   once somebody has mapped through such an entry 4, a frame of data, only in
   that of the kernel; a page table that is allocated and is no directory. *)
RefKind(f, s, i, U, S, al) ==
    \/ f = PgPd /\ s # PgPd /\ i = SpaceIdx
    \/ f = PgPt /\ s = PgPd
    \/ f \in DataFrames /\ s = PgPd /\ al
    \/ f \in Pool /\ f \in U /\ f \notin S

(* The address spaces S in memory t, of which U is allocated. *)
Shape(t, U, S, del, al) ==
    /\ PgPd \in S /\ S \subseteq U \cup {PgPd} /\ (PgPd \in U \/ del)
    /\ \A s \in S, i \in Idx : t[s][i].present => RefKind(t[s][i].frame, s, i, U, S, al)
    /\ \A s, r \in S, i, j \in Idx :
         t[s][i].present /\ t[r][j].present /\ t[s][i].frame = t[r][j].frame
         /\ t[s][i].frame \in Pool => s = r /\ i = j

Types ==
    /\ tempMappings \in [Slot -> Frames \cup {0}]
    /\ table \in [Frames -> [Idx -> Entry]]
    /\ used \subseteq Pool \cup {PgPd} /\ spaces \subseteq Pool \cup {PgPd}
    /\ halted \in BOOLEAN /\ deleted \in BOOLEAN /\ aliased \in BOOLEAN

IInv ==
    /\ Types
    /\ Running => Shape(table, used, spaces, deleted, aliased) /\ Slots(tempMappings, spaces)
-----------------------------------------------------------------------------
(* The states an operation is computed on. *)
St == [tm : [Slot -> Frames \cup {0}], table : [Frames -> [Idx -> Entry]],
       used : SUBSET (Pool \cup {PgPd}), status : {"ok", "halt", "absent"}]

LEMMA ConstantFacts ==
    /\ TEMPMAP_PAGES \in Nat /\ 0 \notin Frames
    /\ PgPd \in Frames /\ PgPt \in Frames /\ Pool \subseteq Frames /\ DataFrames \subseteq Frames
    /\ PgPd \notin Pool /\ PgPt \notin Pool /\ PgPd \notin DataFrames /\ PgPt \notin DataFrames
    /\ Pool \cap DataFrames = {} /\ PgPd # PgPt /\ SpaceIdx \in Idx /\ SpaceIdx \notin KernelIdx
    /\ \A v \in Virt : v \in [pde : Idx, pte : Idx] /\ v.pde \in Idx /\ v.pte \in Idx
  BY VMX86Assumption DEF Frames

LEMMA EntryFacts ==
    /\ Absent \in Entry /\ Absent.present = FALSE /\ Empty \in [Idx -> Entry]
    /\ \A f \in Frames : Pointer(f) \in Entry /\ Pointer(f).frame = f /\ Pointer(f).present = TRUE
    /\ \A e \in Entry : e.present \in BOOLEAN
    /\ \A e \in Entry : e.present => e.frame \in Frames /\ e = Pointer(e.frame)
    /\ \A e \in Entry : e \in [frame : Frames \cup {0}, present : BOOLEAN]
<1>1. Absent \in Entry /\ Absent.present = FALSE
  BY DEF Entry, Absent
<1>2. Empty \in [Idx -> Entry]
  BY <1>1 DEF Empty
<1>3. \A f \in Frames : Pointer(f) \in Entry
  BY DEF Entry
<1>4. \A f : Pointer(f).frame = f /\ Pointer(f).present = TRUE
  BY DEF Pointer
<1>5. \A e \in Entry : e = Absent \/ \E f \in Frames : e = Pointer(f)
  BY DEF Entry
<1>6. \A e \in Entry : e.present \in BOOLEAN
  BY <1>1, <1>4, <1>5
<1>7. \A e \in Entry : e.present => e.frame \in Frames /\ e = Pointer(e.frame)
  BY <1>1, <1>4, <1>5
<1>8. \A e \in Entry : e \in [frame : Frames \cup {0}, present : BOOLEAN]
  <2>1. Absent \in [frame : Frames \cup {0}, present : BOOLEAN]
    BY DEF Absent
  <2>2. \A f \in Frames : Pointer(f) \in [frame : Frames \cup {0}, present : BOOLEAN]
    BY DEF Pointer
  <2> QED BY <2>1, <2>2, <1>5
<1> QED BY <1>1, <1>2, <1>3, <1>4, <1>6, <1>7, <1>8

(* The first of some temporary mappings is one of them. *)
LEMMA MinIn ==
    ASSUME NEW T \in SUBSET Slot, T # {}
    PROVE  Min(T) \in T
<1> DEFINE R == OpToRel(<, Nat)
<1>1. IsWellFoundedOn(R, Nat)
  BY NatLessThanWellFounded, Zenon
<1>2. T \in SUBSET Nat
  BY ConstantFacts DEF Slot
<1>3. PICK d \in T : \A e \in T : ~ (<<e, d>> \in R)
  <2> HIDE DEF R
  <2> QED BY <1>1, <1>2, WFMin, Zenon
<1>4. \A e \in T : ~(e < d)
  BY <1>2, <1>3 DEF OpToRel
<1>5. \A e \in T : e \in Nat /\ d \in Nat
  BY <1>2
<1>6. \A e \in T : d <= e
  BY <1>4, <1>5
<1> QED BY <1>6 DEF Min

(* Two states that differ in the temporary mappings only. *)
Same(s, st) == s.table = st.table /\ s.used = st.used /\ s.status = st.status

(* What pstructMap() does: halts, or maps the frame if it is not mapped. *)
Mapped(st, s, f, S) ==
    /\ s \in St
    /\ s.status = "halt" \/ (Same(s, st) /\ Slots(s.tm, S \cup {f}))

LEMMA MapFacts ==
    ASSUME NEW st, NEW s, NEW f, NEW S,
           st \in St, Ok(st), f \in Frames, Slots(st.tm, S), s = PstructMap(st, f)
    PROVE  Mapped(st, s, f, S)
<1>1. CASE SlotFor(st.tm, f) = {}
  <2>1. s = Halt(st)
    BY <1>1 DEF PstructMap
  <2> QED BY <2>1 DEF Halt, St, Mapped
<1>2. CASE SlotFor(st.tm, f) # {}
  <2>1. PICK k \in Slot : k = Min(SlotFor(st.tm, f)) /\ k \in SlotFor(st.tm, f)
    <3>1. SlotFor(st.tm, f) \in SUBSET Slot
      BY DEF SlotFor
    <3> QED BY <3>1, <1>2, MinIn
  <2>2. s = [st EXCEPT !.tm[k] = f]
    BY <2>1, <1>2 DEF PstructMap
  <2>3. s \in St /\ Same(s, st) /\ s.tm = [st.tm EXCEPT ![k] = f]
    BY <2>2 DEF St, Same
  <2>4. st.tm[k] = f \/ (st.tm[k] = 0 /\ \A j \in Slot : st.tm[j] # f)
    BY <2>1 DEF SlotFor
  <2>5. st.tm \in [Slot -> Frames \cup {0}] /\ f # 0
    BY ConstantFacts DEF St
  <2>6. \A j \in Slot : j # k => st.tm[j] # f
    BY <2>4, <2>5 DEF Slots
  <2>7. \A i \in Slot : s.tm[i] = IF i = k THEN f ELSE st.tm[i]
    BY <2>3, <2>5
  <2>8. Slots(s.tm, S \cup {f})
    BY <2>6, <2>7 DEF Slots
  <2> QED BY <2>3, <2>8 DEF Mapped
<1> QED BY <1>1, <1>2

(* What pstructUnmap() does. *)
Unmapped(st, s, f, S) == s \in St /\ Same(s, st) /\ Slots(s.tm, S \ {f})

LEMMA UnmapFacts ==
    ASSUME NEW st, NEW s, NEW f, NEW S,
           st \in St, Ok(st), f \in Frames, Slots(st.tm, S), s = PstructUnmap(st, f)
    PROVE  Unmapped(st, s, f, S)
<1>1. s = [st EXCEPT !.tm = [i \in Slot |-> IF st.tm[i] = f THEN 0 ELSE st.tm[i]]]
  BY DEF PstructUnmap
<1>2. st.tm \in [Slot -> Frames \cup {0}] /\ f # 0
  BY ConstantFacts DEF St
<1>3. s \in St /\ Same(s, st) /\ s.tm = [i \in Slot |-> IF st.tm[i] = f THEN 0 ELSE st.tm[i]]
  BY <1>1, <1>2 DEF St, Same
<1>4. Slots(s.tm, S \ {f})
  BY <1>2, <1>3 DEF Slots
<1> QED BY <1>3, <1>4 DEF Unmapped

(* What allocatePStructAny() does: halts, or hands out an empty structure. *)
Allocated(st, s, new, S) ==
    /\ s \in St
    /\ \/ s.status = "halt"
       \/ /\ new \in Pool /\ s.status = "ok" /\ Slots(s.tm, S)
          /\ s.used = st.used \cup {new} /\ s.table = [st.table EXCEPT ![new] = Empty]

LEMMA AllocateFacts ==
    ASSUME NEW st, NEW s, NEW new, NEW S,
           st \in St, Ok(st), new \in Pool \cup {PgPd, 0}, Slots(st.tm, S),
           s = AllocatePStructAny(st, new)
    PROVE  Allocated(st, s, new, S)
<1>1. CASE new \in {0, PgPd}
  <2>1. s = Halt(st)
    BY <1>1 DEF AllocatePStructAny
  <2> QED BY <2>1 DEF Halt, St, Allocated
<1>2. CASE new \notin {0, PgPd}
  <2>1. new \in Pool /\ new \in Frames
    BY <1>2, ConstantFacts
  <2> DEFINE s0 == [st EXCEPT !.used = st.used \cup {new}]
             s1 == PstructMap(s0, new)
             s2 == [s1 EXCEPT !.table[new] = Empty]
  <2>2. s = PstructUnmap(s2, new)
    BY <1>2 DEF AllocatePStructAny
  <2>3. s0 \in St /\ Ok(s0) /\ s0.tm = st.tm /\ s0.table = st.table /\ s0.used = st.used \cup {new}
    BY <2>1 DEF St, Ok
  <2> HIDE DEF s0
  <2>4. Mapped(s0, s1, new, S)
    BY <2>1, <2>3, MapFacts
  <2> HIDE DEF s1
  <2>5. s1 \in St
    BY <2>4 DEF Mapped
  <2>6. /\ s2 \in St /\ s2.tm = s1.tm /\ s2.used = s1.used /\ s2.status = s1.status
        /\ s2.table = [s1.table EXCEPT ![new] = Empty]
    BY <2>1, <2>5, EntryFacts DEF St
  <2> HIDE DEF s2
  <2>7. CASE s1.status = "halt"
    <3>1. s = s2
      BY <2>2, <2>6, <2>7 DEF PstructUnmap, Ok
    <3> QED BY <3>1, <2>6, <2>7 DEF Allocated
  <2>8. CASE s1.status # "halt"
    <3>1. Same(s1, s0) /\ Slots(s1.tm, S \cup {new})
      BY <2>4, <2>8 DEF Mapped
    <3>2. Ok(s2) /\ Slots(s2.tm, S \cup {new})
      BY <3>1, <2>3, <2>6 DEF Ok, Same
    <3>3. Unmapped(s2, s, new, S \cup {new})
      BY <3>2, <2>1, <2>2, <2>6, UnmapFacts
    <3>4. s \in St /\ Same(s, s2) /\ Slots(s.tm, S)
      BY <3>3 DEF Unmapped, Slots
    <3>5. s.table = [st.table EXCEPT ![new] = Empty] /\ s.used = st.used \cup {new} /\ s.status = "ok"
      BY <3>1, <3>2, <3>4, <2>3, <2>6 DEF Same, Ok
    <3> QED BY <3>4, <3>5, <2>1 DEF Allocated
  <2> QED BY <2>7, <2>8
<1> QED BY <1>1, <1>2

(* What splitVirtualAndMap() does: halts; finds no page table and may not
   allocate one; finds one; or allocates one. *)
Split(s, space, v, force, new) ==
    /\ s \in St
    /\ LET e == table[space][v.pde] IN
       \/ s.status = "halt"
       \/ /\ s.status = "absent" /\ force /\ ~e.present
          /\ s.table = table /\ s.used = used /\ Slots(s.tm, spaces)
       \/ /\ s.status = "ok" /\ e.present
          /\ s.table = table /\ s.used = used /\ Slots(s.tm, spaces \cup {e.frame})
       \/ /\ s.status = "ok" /\ ~force /\ ~e.present /\ new \in Pool
          /\ s.used = used \cup {new} /\ Slots(s.tm, spaces \cup {new})
          /\ s.table = [[table EXCEPT ![new] = Empty] EXCEPT ![space][v.pde] = Pointer(new)]

LEMMA StateFacts ==
    ASSUME Types
    PROVE  /\ State \in St /\ Ok(State) /\ State.tm = tempMappings
           /\ State.table = table /\ State.used = used
  BY DEF Types, State, St, Ok

LEMMA SplitFacts ==
    ASSUME Types, Slots(tempMappings, spaces), NEW space \in spaces, NEW v \in Virt,
           NEW force \in BOOLEAN, NEW new \in Pool \cup {PgPd, 0}, NEW s,
           s = SplitVirtualAndMap(space, v, force, new)
    PROVE  Split(s, space, v, force, new)
<1>1. /\ State \in St /\ Ok(State) /\ State.tm = tempMappings
      /\ State.table = table /\ State.used = used
  BY StateFacts
<1>2. space \in Frames /\ v.pde \in Idx
  BY ConstantFacts DEF Types
<1>3. PICK s1 : s1 = PstructMap(State, space)
  OBVIOUS
<1>4. Mapped(State, s1, space, spaces)
  <2>1. Slots(State.tm, spaces)
    BY <1>1
  <2> QED BY <2>1, <1>1, <1>2, <1>3, MapFacts
<1>5. s1 \in St
  BY <1>4 DEF Mapped
<1>6. CASE s1.status = "halt"
  <2>1. s = s1
    BY <1>3, <1>6 DEF SplitVirtualAndMap, Ok
  <2> QED BY <2>1, <1>5, <1>6 DEF Split
<1>7. CASE s1.status # "halt"
  <2>1. s1.table = table /\ s1.used = used /\ Ok(s1) /\ Slots(s1.tm, spaces)
    <3>1. Same(s1, State) /\ Slots(s1.tm, spaces \cup {space})
      BY <1>4, <1>7 DEF Mapped
    <3>2. spaces \cup {space} = spaces
      OBVIOUS
    <3> QED BY <3>1, <3>2, <1>1 DEF Same, Ok
  <2>2. PICK e \in Entry : e = table[space][v.pde]
    BY <1>2 DEF Types
  <2>3. CASE e.present
    <3>1. s = PstructMap(s1, e.frame)
      BY <1>3, <2>1, <2>2, <2>3 DEF SplitVirtualAndMap, Pt
    <3>2. Mapped(s1, s, e.frame, spaces)
      BY <3>1, <2>1, <2>3, <1>5, EntryFacts, MapFacts
    <3> QED BY <3>2, <2>1, <2>2, <2>3 DEF Mapped, Split, Same, Ok
  <2>4. CASE ~e.present /\ force
    <3>1. s = [s1 EXCEPT !.status = "absent"]
      BY <1>3, <2>1, <2>2, <2>4 DEF SplitVirtualAndMap
    <3>2. s \in St /\ s.table = s1.table /\ s.used = s1.used /\ s.tm = s1.tm /\ s.status = "absent"
      BY <3>1, <1>5 DEF St
    <3> QED BY <3>2, <2>1, <2>2, <2>4 DEF Split
  <2>5. CASE ~e.present /\ ~force
    <3>1. PICK s2 : s2 = AllocatePStructAny(s1, new)
      OBVIOUS
    <3>2. Allocated(s1, s2, new, spaces)
      BY <3>1, <2>1, <1>5, AllocateFacts
    <3>3. s2 \in St
      BY <3>2 DEF Allocated
    <3>4. CASE s2.status = "halt"
      <4>1. s = s2
        BY <1>3, <2>1, <2>2, <2>5, <3>1, <3>4 DEF SplitVirtualAndMap, Ok
      <4> QED BY <4>1, <3>3, <3>4 DEF Split
    <3>5. CASE s2.status # "halt"
      <4>1. /\ new \in Pool /\ s2.status = "ok" /\ Slots(s2.tm, spaces)
            /\ s2.used = used \cup {new} /\ s2.table = [table EXCEPT ![new] = Empty]
        BY <3>2, <3>5, <2>1 DEF Allocated
      <4>2. PICK s3 : s3 = [s2 EXCEPT !.table[space][v.pde] = Pointer(new)]
        OBVIOUS
      <4>3. s = PstructMap(s3, new)
        BY <1>3, <2>1, <2>2, <2>5, <3>1, <4>1, <4>2 DEF SplitVirtualAndMap, Ok
      <4>4. new \in Frames /\ Pointer(new) \in Entry
        BY <4>1, ConstantFacts, EntryFacts
      <4>5. /\ s3 \in St /\ s3.tm = s2.tm /\ s3.used = s2.used /\ s3.status = s2.status
            /\ s3.table = [s2.table EXCEPT ![space][v.pde] = Pointer(new)]
        BY <4>2, <4>4, <3>3, <1>2 DEF St
      <4>6. Mapped(s3, s, new, spaces)
        <5>1. Ok(s3) /\ Slots(s3.tm, spaces)
          BY <4>1, <4>5 DEF Ok
        <5> QED BY <5>1, <4>3, <4>4, <4>5, MapFacts
      <4> QED BY <4>1, <4>5, <4>6, <2>2, <2>5 DEF Mapped, Split, Same
    <3> QED BY <3>4, <3>5
  <2> QED BY <2>3, <2>4, <2>5
<1> QED BY <1>6, <1>7

(* Both structures of an address are unmapped again. *)
LEMMA UnmapBothFacts ==
    ASSUME NEW st, NEW s, NEW space \in Frames, NEW v, NEW pt \in Frames, NEW S,
           st \in St, Ok(st), pt = Pt(st, space, v), Slots(st.tm, S \cup {pt}),
           s = UnmapBoth(st, space, v)
    PROVE  s \in St /\ Same(s, st) /\ Slots(s.tm, S)
<1>1. PICK s1 : s1 = PstructUnmap(st, pt)
  OBVIOUS
<1>2. s = PstructUnmap(s1, space)
  BY <1>1 DEF UnmapBoth
<1>3. Unmapped(st, s1, pt, S \cup {pt})
  BY <1>1, UnmapFacts
<1>4. s1 \in St /\ Same(s1, st) /\ Ok(s1) /\ Slots(s1.tm, S)
  BY <1>3 DEF Unmapped, Slots, Same, Ok
<1>5. Unmapped(s1, s, space, S)
  BY <1>2, <1>4, UnmapFacts
<1> QED BY <1>4, <1>5 DEF Unmapped, Same, Slots
-----------------------------------------------------------------------------
(* An operation ends: the kernel has stopped, or its result is stored. *)
Applied(st) ==
    /\ tempMappings' \in [Slot -> Frames \cup {0}] /\ table' \in [Frames -> [Idx -> Entry]]
    /\ used' \subseteq Pool \cup {PgPd} /\ halted' \in BOOLEAN
    /\ \/ halted'
       \/ /\ st.status # "halt" /\ tempMappings' = st.tm
          /\ table' = st.table /\ used' = st.used

LEMMA ApplyFacts ==
    ASSUME Types, NEW st \in St, Apply(st)
    PROVE  Applied(st)
<1>1. CASE st.status = "halt" \/ ~KernelRuns(st.table, PgPd)
  BY <1>1 DEF Apply, Types, Applied
<1>2. CASE ~(st.status = "halt" \/ ~KernelRuns(st.table, PgPd))
  BY <1>2 DEF Apply, Types, Applied, St
<1> QED BY <1>1, <1>2

(* What is behind an entry of a page directory is not that directory, and is
   another one only through entry 4. *)
LEMMA TargetFacts ==
    ASSUME Types, Shape(table, used, spaces, deleted, aliased), NEW space \in spaces, NEW i \in Idx,
           table[space][i].present
    PROVE  /\ table[space][i].frame \in Frames /\ table[space][i].frame # space
           /\ table[space][i] = Pointer(table[space][i].frame)
           /\ table[space][i].frame \in spaces =>
                table[space][i].frame = PgPd /\ space # PgPd /\ i = SpaceIdx
           /\ RefKind(table[space][i].frame, space, i, used, spaces, aliased)
<1>1. space \in Frames /\ space \in Pool \cup {PgPd}
  BY ConstantFacts DEF Types
<1>2. table[space][i] \in Entry
  BY <1>1 DEF Types
<1>3. RefKind(table[space][i].frame, space, i, used, spaces, aliased)
  BY DEF Shape
<1>4. spaces \subseteq Pool \cup {PgPd}
  BY DEF Types
<1>5. table[space][i].frame # space
  BY <1>1, <1>3, ConstantFacts DEF RefKind
<1>6. table[space][i].frame \in spaces =>
                table[space][i].frame = PgPd /\ space # PgPd /\ i = SpaceIdx
  BY <1>3, <1>4, ConstantFacts DEF RefKind
<1> QED BY <1>2, <1>3, <1>5, <1>6, EntryFacts

(* The memory T, with U allocated, has the page table pt for the address v:
   it was there, or it has been allocated. *)
Found(T, U, space, v, pt) ==
    /\ table[space][v.pde].present /\ pt = table[space][v.pde].frame /\ T = table /\ U = used

Made(T, U, space, v, new, pt) ==
    /\ ~table[space][v.pde].present /\ pt = new /\ new \in Pool /\ U = used \cup {new}
    /\ T = [[table EXCEPT ![new] = Empty] EXCEPT ![space][v.pde] = Pointer(new)]

HasTable(T, U, space, v, new, pt) ==
    /\ T \in [Frames -> [Idx -> Entry]] /\ pt \in Frames /\ pt # space
    /\ T[space][v.pde] = Pointer(pt) /\ U \subseteq Pool \cup {PgPd}
    /\ Found(T, U, space, v, pt) \/ Made(T, U, space, v, new, pt)

(* A structure that is allocated is none of those in use. *)
LEMMA NewFacts ==
    ASSUME Types, Shape(table, used, spaces, deleted, aliased), NEW new \in NewFrames
    PROVE  /\ new \in Pool \cup {PgPd, 0}
           /\ new \in Pool => new \notin used /\ new \notin spaces
<1>1. new = 0 \/ new \in FreeFrames
  BY DEF NewFrames
<1>2. new \in FreeFrames => new \in Pool \cup {PgPd} /\ new \notin used
  BY DEF FreeFrames
<1>3. spaces \subseteq used \cup {PgPd}
  BY DEF Shape
<1>4. 0 \notin Pool
  BY ConstantFacts
<1> QED BY <1>1, <1>2, <1>3, <1>4, ConstantFacts

(* After splitVirtualAndMap() there is a page table. *)
LEMMA SplitHasTable ==
    ASSUME Types, Shape(table, used, spaces, deleted, aliased), NEW space \in spaces, NEW v \in Virt,
           NEW force \in BOOLEAN, NEW new \in Pool \cup {PgPd, 0}, new \in Pool => new \notin spaces,
           NEW s, Split(s, space, v, force, new), Ok(s)
    PROVE  \E pt \in Frames : /\ HasTable(s.table, s.used, space, v, new, pt)
                              /\ pt = Pt(s, space, v) /\ Slots(s.tm, spaces \cup {pt})
                              /\ force => Found(s.table, s.used, space, v, pt)
<1>1. space \in Frames /\ v.pde \in Idx /\ v.pte \in Idx
  BY ConstantFacts DEF Types
<1>2. s.table \in [Frames -> [Idx -> Entry]] /\ s.used \subseteq Pool \cup {PgPd} /\ s.status = "ok"
  BY DEF Split, St, Ok
<1>3. CASE table[space][v.pde].present
  <2>1. /\ s.table = table /\ s.used = used /\ Slots(s.tm, spaces \cup {table[space][v.pde].frame})
    BY <1>2, <1>3 DEF Split
  <2>2. PICK pt \in Frames : /\ pt = table[space][v.pde].frame /\ pt # space
                             /\ table[space][v.pde] = Pointer(pt)
    BY <1>1, <1>3, TargetFacts
  <2>3. Found(s.table, s.used, space, v, pt)
    BY <1>3, <2>1, <2>2 DEF Found
  <2>4. HasTable(s.table, s.used, space, v, new, pt)
    BY <2>1, <2>2, <2>3, <1>2 DEF HasTable
  <2> QED BY <2>1, <2>2, <2>3, <2>4 DEF Pt
<1>4. CASE ~table[space][v.pde].present
  <2>1. /\ ~force /\ new \in Pool /\ s.used = used \cup {new} /\ Slots(s.tm, spaces \cup {new})
        /\ s.table = [[table EXCEPT ![new] = Empty] EXCEPT ![space][v.pde] = Pointer(new)]
    BY <1>2, <1>4 DEF Split
  <2>2. new \in Frames /\ new # space /\ Pointer(new).frame = new
    BY <2>1, ConstantFacts, EntryFacts
  <2>3. s.table[space][v.pde] = Pointer(new)
    BY <2>1, <2>2, <1>1 DEF Types
  <2>4. Made(s.table, s.used, space, v, new, new)
    BY <2>1, <1>4 DEF Made
  <2>5. HasTable(s.table, s.used, space, v, new, new)
    BY <2>2, <2>3, <2>4, <1>2 DEF HasTable
  <2> QED BY <2>1, <2>2, <2>3, <2>5 DEF Pt
<1> QED BY <1>3, <1>4

(* Storing to an entry of the page table and unmapping both structures. *)
StoredTo(st, s, pt, k, e, S) ==
    /\ s \in St /\ s.status = "ok" /\ Slots(s.tm, S) /\ s.used = st.used
    /\ s.table = [st.table EXCEPT ![pt][k] = e]

LEMMA StoreFacts ==
    ASSUME NEW st, NEW s, NEW space, NEW v, NEW pt, NEW S, NEW e,
           st \in St, Ok(st), space \in Frames, v \in Virt, pt \in Frames, pt # space,
           pt = Pt(st, space, v), Slots(st.tm, S \cup {pt}), e \in Entry,
           s = UnmapBoth([st EXCEPT !.table[pt][v.pte] = e], space, v)
    PROVE  StoredTo(st, s, pt, v.pte, e, S)
<1>0. v.pde \in Idx /\ v.pte \in Idx
  BY ConstantFacts
<1>1. PICK s1 : s1 = [st EXCEPT !.table[pt][v.pte] = e]
  OBVIOUS
<1>2. /\ s1 \in St /\ s1.tm = st.tm /\ s1.used = st.used /\ s1.status = st.status
      /\ s1.table = [st.table EXCEPT ![pt][v.pte] = e]
  BY <1>0, <1>1 DEF St
<1>3. Pt(s1, space, v) = pt
  <2>1. s1.table[space] = st.table[space]
    BY <1>2 DEF St
  <2> QED BY <2>1 DEF Pt
<1>4. Ok(s1) /\ Slots(s1.tm, S \cup {pt})
  BY <1>2 DEF Ok
<1>5. s \in St /\ Same(s, s1) /\ Slots(s.tm, S)
  BY <1>1, <1>2, <1>3, <1>4, UnmapBothFacts
<1> QED BY <1>2, <1>4, <1>5 DEF Same, Ok, StoredTo

TypesKept ==
    /\ tempMappings' \in [Slot -> Frames \cup {0}] /\ table' \in [Frames -> [Idx -> Entry]]
    /\ used' \subseteq Pool \cup {PgPd} /\ halted' \in BOOLEAN

(* The step stores e into the page table of v. *)
Stored(space, v, new, e) ==
    \E T : \E pt \in Frames :
       /\ HasTable(T, used', space, v, new, pt) /\ table' = [T EXCEPT ![pt][v.pte] = e]
       /\ Slots(tempMappings', spaces)
       /\ e.present => T[pt][v.pte].present = FALSE
       /\ ~e.present => Found(T, used', space, v, pt)

LEMMA MapStep ==
    ASSUME IInv, Running, NEW space \in spaces, NEW v \in Virt, NEW f \in DataFrames,
           NEW new \in NewFrames, map(space, v, f, new)
    PROVE  TypesKept /\ (halted' \/ Stored(space, v, new, Pointer(f)))
<1> USE DEF IInv
<1>0. /\ Types /\ Shape(table, used, spaces, deleted, aliased) /\ Slots(tempMappings, spaces)
      /\ new \in Pool \cup {PgPd, 0} /\ (new \in Pool => new \notin spaces) /\ space \in Frames
  BY NewFacts, ConstantFacts DEF Types
<1>1. PICK st : st = SplitVirtualAndMap(space, v, FALSE, new)
  OBVIOUS
<1>2. Split(st, space, v, FALSE, new)
  BY <1>0, <1>1, SplitFacts
<1>3. st \in St
  BY <1>2 DEF Split
<1>4. Apply(IF ~Ok(st) \/ st.table[Pt(st, space, v)][v.pte].present THEN Halt(st)
            ELSE UnmapBoth([st EXCEPT !.table[Pt(st, space, v)][v.pte] = Pointer(f)], space, v))
  BY <1>1 DEF map
<1>5. CASE ~Ok(st) \/ st.table[Pt(st, space, v)][v.pte].present
  <2>1. Halt(st) \in St /\ Halt(st).status = "halt"
    BY <1>3 DEF Halt, St
  <2>2. Applied(Halt(st))
    BY <2>1, <1>0, <1>4, <1>5, ApplyFacts
  <2> QED BY <2>1, <2>2 DEF Applied, TypesKept
<1>6. CASE ~(~Ok(st) \/ st.table[Pt(st, space, v)][v.pte].present)
  <2>1. PICK pt \in Frames : /\ HasTable(st.table, st.used, space, v, new, pt)
                             /\ pt = Pt(st, space, v) /\ Slots(st.tm, spaces \cup {pt})
    BY <1>0, <1>2, <1>6, SplitHasTable
  <2>2. pt # space /\ Pointer(f) \in Entry /\ Pointer(f).present = TRUE
    BY <2>1, ConstantFacts, EntryFacts DEF HasTable
  <2>3. PICK s : s = UnmapBoth([st EXCEPT !.table[pt][v.pte] = Pointer(f)], space, v)
    OBVIOUS
  <2>4. /\ s \in St /\ s.status = "ok" /\ Slots(s.tm, spaces) /\ s.used = st.used
        /\ s.table = [st.table EXCEPT ![pt][v.pte] = Pointer(f)]
    <3>1. StoredTo(st, s, pt, v.pte, Pointer(f), spaces)
      <4> HIDE DEF IInv
      <4> QED BY <2>1, <2>2, <2>3, <1>0, <1>3, <1>6, StoreFacts
    <3> QED BY <3>1 DEF StoredTo
  <2>5. Applied(s)
    BY <2>1, <2>3, <2>4, <1>0, <1>4, <1>6, ApplyFacts
  <2>6. st.table[pt][v.pte].present = FALSE
    <3>1. st.table[pt][v.pte] \in Entry
      BY <1>3, ConstantFacts DEF St
    <3> QED BY <3>1, <2>1, <1>6, EntryFacts
  <2>7. CASE ~halted'
    <3>1. table' = s.table /\ used' = s.used /\ tempMappings' = s.tm
      BY <2>5, <2>7 DEF Applied
    <3>2. HasTable(st.table, used', space, v, new, pt) /\ Slots(tempMappings', spaces)
      BY <3>1, <2>1, <2>4
    <3>3. table' = [st.table EXCEPT ![pt][v.pte] = Pointer(f)]
      BY <3>1, <2>4
    <3>4. Stored(space, v, new, Pointer(f))
      BY <3>2, <3>3, <2>2, <2>6, Zenon DEF Stored
    <3> QED BY <3>4, <2>5 DEF Applied, TypesKept
  <2> QED BY <2>5, <2>7 DEF Applied, TypesKept
<1> QED BY <1>5, <1>6

LEMMA UnmapStep ==
    ASSUME IInv, Running, NEW space \in spaces, NEW v \in Virt, unmap(space, v)
    PROVE  TypesKept /\ (halted' \/ Stored(space, v, 0, Absent))
<1> USE DEF IInv
<1>0. /\ Types /\ Shape(table, used, spaces, deleted, aliased) /\ Slots(tempMappings, spaces)
      /\ 0 \in Pool \cup {PgPd, 0} /\ 0 \notin Pool /\ space \in Frames
  BY ConstantFacts DEF Types
<1>1. PICK st : st = SplitVirtualAndMap(space, v, TRUE, 0)
  OBVIOUS
<1>2. Split(st, space, v, TRUE, 0)
  BY <1>0, <1>1, SplitFacts
<1>3. st \in St
  BY <1>2 DEF Split
<1>4. Apply(IF ~Ok(st) THEN Halt(st)
            ELSE UnmapBoth([st EXCEPT !.table[Pt(st, space, v)][v.pte] = Absent], space, v))
  BY <1>1 DEF unmap
<1>5. CASE ~Ok(st)
  <2>1. Halt(st) \in St /\ Halt(st).status = "halt"
    BY <1>3 DEF Halt, St
  <2>2. Applied(Halt(st))
    BY <2>1, <1>0, <1>4, <1>5, ApplyFacts
  <2> QED BY <2>1, <2>2 DEF Applied, TypesKept
<1>6. CASE Ok(st)
  <2>1. PICK pt \in Frames : /\ HasTable(st.table, st.used, space, v, 0, pt)
                             /\ pt = Pt(st, space, v) /\ Slots(st.tm, spaces \cup {pt})
                             /\ Found(st.table, st.used, space, v, pt)
    BY <1>0, <1>2, <1>6, SplitHasTable
  <2>2. pt # space /\ Absent \in Entry /\ Absent.present = FALSE
    BY <2>1, EntryFacts DEF HasTable
  <2>3. PICK s : s = UnmapBoth([st EXCEPT !.table[pt][v.pte] = Absent], space, v)
    OBVIOUS
  <2>4. /\ s \in St /\ s.status = "ok" /\ Slots(s.tm, spaces) /\ s.used = st.used
        /\ s.table = [st.table EXCEPT ![pt][v.pte] = Absent]
    <3>1. StoredTo(st, s, pt, v.pte, Absent, spaces)
      <4> HIDE DEF IInv
      <4> QED BY <2>1, <2>2, <2>3, <1>0, <1>3, <1>6, StoreFacts
    <3> QED BY <3>1 DEF StoredTo
  <2>5. Applied(s)
    BY <2>1, <2>3, <2>4, <1>0, <1>4, <1>6, ApplyFacts
  <2>6. CASE ~halted'
    <3>1. table' = s.table /\ used' = s.used /\ tempMappings' = s.tm
      BY <2>5, <2>6 DEF Applied
    <3> QED BY <3>1, <2>1, <2>2, <2>4, <2>5 DEF Stored, Applied, TypesKept
  <2> QED BY <2>5, <2>6 DEF Applied, TypesKept
<1> QED BY <1>5, <1>6

LEMMA GetStep ==
    ASSUME IInv, Running, NEW space \in spaces, NEW v \in Virt, getMappedAddr(space, v)
    PROVE  /\ TypesKept
           /\ halted' \/ (table' = table /\ used' = used /\ Slots(tempMappings', spaces))
<1> USE DEF IInv
<1>0. /\ Types /\ Shape(table, used, spaces, deleted, aliased) /\ Slots(tempMappings, spaces)
      /\ 0 \in Pool \cup {PgPd, 0} /\ 0 \notin Pool /\ space \in Frames
  BY ConstantFacts DEF Types
<1>1. PICK st : st = SplitVirtualAndMap(space, v, TRUE, 0)
  OBVIOUS
<1>2. Split(st, space, v, TRUE, 0)
  BY <1>0, <1>1, SplitFacts
<1>3. st \in St
  BY <1>2 DEF Split
<1>4. Apply(IF Ok(st) THEN UnmapBoth(st, space, v) ELSE st)
  BY <1>1 DEF getMappedAddr
<1>5. CASE ~Ok(st)
  <2>1. Applied(st)
    BY <1>0, <1>3, <1>4, <1>5, ApplyFacts
  <2>2. st.status = "halt" \/ (st.table = table /\ st.used = used /\ Slots(st.tm, spaces))
    BY <1>2, <1>5 DEF Split, Ok
  <2> QED BY <2>1, <2>2 DEF Applied, TypesKept
<1>6. CASE Ok(st)
  <2>1. PICK pt \in Frames : /\ pt = Pt(st, space, v) /\ Slots(st.tm, spaces \cup {pt})
                             /\ Found(st.table, st.used, space, v, pt)
    BY <1>0, <1>2, <1>6, SplitHasTable
  <2>2. PICK s : s = UnmapBoth(st, space, v)
    OBVIOUS
  <2>3. s \in St /\ Same(s, st) /\ Slots(s.tm, spaces)
    BY <2>1, <2>2, <1>0, <1>3, <1>6, UnmapBothFacts
  <2>4. Applied(s)
    BY <2>2, <2>3, <1>0, <1>4, <1>6, ApplyFacts
  <2>5. st.table = table /\ st.used = used
    BY <2>1 DEF Found
  <2> QED BY <2>3, <2>4, <2>5 DEF Applied, TypesKept, Same
<1> QED BY <1>5, <1>6

(* newVSpace() adds a directory with one entry. *)
NewDirectory == [Empty EXCEPT ![SpaceIdx] = Pointer(PgPd)]

LEMMA NewStep ==
    ASSUME IInv, Running, NEW new \in NewFrames, newVSpace(new)
    PROVE  /\ TypesKept /\ spaces' \subseteq Pool \cup {PgPd}
           /\ halted' \/ /\ new \in Pool /\ spaces' = spaces \cup {new} /\ used' = used \cup {new}
                         /\ table' = [table EXCEPT ![new] = NewDirectory]
                         /\ Slots(tempMappings', spaces)
<1> USE DEF IInv
<1>0. /\ Types /\ Shape(table, used, spaces, deleted, aliased) /\ Slots(tempMappings, spaces)
      /\ new \in Pool \cup {PgPd, 0} /\ SpaceIdx \in Idx /\ Pointer(PgPd) \in Entry
  BY NewFacts, ConstantFacts, EntryFacts
<1>1. PICK st : st = AllocatePStructAny(State, new)
  OBVIOUS
<1>2. Allocated(State, st, new, spaces)
  <2>1. State \in St /\ Ok(State) /\ Slots(State.tm, spaces)
    BY <1>0, StateFacts
  <2> QED BY <2>1, <1>0, <1>1, AllocateFacts
<1>3. st \in St
  BY <1>2 DEF Allocated
<1>4. CASE Ok(st) /\ new < IdentityFrames
  <2>1. /\ new \in Pool /\ new \in Frames /\ Slots(st.tm, spaces)
        /\ st.used = used \cup {new} /\ st.table = [table EXCEPT ![new] = Empty] /\ st.status = "ok"
    BY <1>0, <1>2, <1>4, StateFacts, ConstantFacts DEF Allocated, Ok
  <2>2. PICK s : s = [st EXCEPT !.table[new][SpaceIdx] = Pointer(PgPd)]
    OBVIOUS
  <2>3. /\ s \in St /\ s.tm = st.tm /\ s.used = st.used /\ s.status = st.status
        /\ s.table = [st.table EXCEPT ![new][SpaceIdx] = Pointer(PgPd)]
    BY <2>1, <2>2, <1>0, <1>3 DEF St
  <2>4. Apply(s) /\ spaces' = spaces \cup {new}
    BY <2>2, <1>1, <1>4 DEF newVSpace
  <2>5. Applied(s)
    BY <2>3, <2>4, <1>0, ApplyFacts
  <2>6. s.table = [table EXCEPT ![new] = NewDirectory]
    BY <2>1, <2>3 DEF NewDirectory, Types
  <2>7. spaces' \subseteq Pool \cup {PgPd}
    BY <2>1, <2>4 DEF Types
  <2> QED BY <2>1, <2>3, <2>4, <2>5, <2>6, <2>7 DEF Applied, TypesKept
<1>5. CASE ~(Ok(st) /\ new < IdentityFrames)
  <2>1. Halt(st) \in St /\ Halt(st).status = "halt"
    BY <1>3 DEF Halt, St
  <2>2. Apply(Halt(st)) /\ spaces' = spaces
    BY <1>1, <1>5 DEF newVSpace
  <2>3. Applied(Halt(st))
    BY <2>1, <2>2, <1>0, ApplyFacts
  <2> QED BY <2>1, <2>2, <2>3 DEF Applied, TypesKept, Types
<1> QED BY <1>4, <1>5

LEMMA DeleteStep ==
    ASSUME IInv, Running, NEW space \in spaces, deleteVSpace(space)
    PROVE  /\ TypesKept /\ spaces' \subseteq Pool \cup {PgPd}
           /\ halted' \/ /\ spaces' = spaces \ {space} /\ table' = table
                         /\ used' = used \ (Entries(space) \cup {space})
                         /\ Slots(tempMappings', spaces \ {space})
<1> USE DEF IInv
<1>0. /\ Types /\ Shape(table, used, spaces, deleted, aliased) /\ Slots(tempMappings, spaces)
      /\ space \in Frames
  BY ConstantFacts DEF Types
<1>1. PICK st : st = PstructMap(State, space)
  OBVIOUS
<1>2. Mapped(State, st, space, spaces)
  <2>1. State \in St /\ Ok(State) /\ Slots(State.tm, spaces)
    BY <1>0, StateFacts
  <2> QED BY <2>1, <1>0, <1>1, MapFacts
<1>3. st \in St
  BY <1>2 DEF Mapped
<1>4. CASE Ok(st)
  <2>1. Slots(st.tm, spaces) /\ st.used = used /\ st.table = table
    <3>1. Same(st, State) /\ Slots(st.tm, spaces \cup {space})
      BY <1>2, <1>4 DEF Mapped, Ok
    <3>2. spaces \cup {space} = spaces
      OBVIOUS
    <3> QED BY <3>1, <3>2, <1>0, StateFacts DEF Same
  <2>2. PICK s1 : s1 = [st EXCEPT !.used = st.used \ (Entries(space) \cup {space})]
    OBVIOUS
  <2>3. /\ s1 \in St /\ s1.tm = st.tm /\ s1.status = st.status /\ s1.table = st.table
        /\ s1.used = st.used \ (Entries(space) \cup {space})
    BY <2>2, <1>3 DEF St
  <2>4. PICK s : s = PstructUnmap(s1, space)
    OBVIOUS
  <2>5. Apply(s) /\ spaces' = spaces \ {space}
    BY <2>2, <2>4, <1>1, <1>4 DEF deleteVSpace
  <2>6. Unmapped(s1, s, space, spaces)
    <3>1. Ok(s1) /\ Slots(s1.tm, spaces)
      BY <2>1, <2>3, <1>4 DEF Ok
    <3> QED BY <3>1, <2>3, <2>4, <1>0, UnmapFacts
  <2>7. s \in St /\ s.table = table /\ s.used = used \ (Entries(space) \cup {space})
        /\ Slots(s.tm, spaces \ {space})
    BY <2>1, <2>3, <2>6 DEF Unmapped, Same
  <2>8. Applied(s)
    BY <2>5, <2>7, <1>0, ApplyFacts
  <2>9. spaces' \subseteq Pool \cup {PgPd}
    BY <2>5 DEF Types
  <2> QED BY <2>5, <2>7, <2>8, <2>9 DEF Applied, TypesKept
<1>5. CASE ~Ok(st)
  <2>1. st.status = "halt"
    BY <1>0, <1>2, <1>5, StateFacts DEF Mapped, Same, Ok
  <2>2. Apply(st) /\ spaces' = spaces
    BY <1>1, <1>5 DEF deleteVSpace, PstructUnmap
  <2>3. Applied(st)
    BY <2>2, <1>0, <1>3, ApplyFacts
  <2> QED BY <2>1, <2>2, <2>3 DEF Applied, TypesKept, Types
<1> QED BY <1>4, <1>5
-----------------------------------------------------------------------------
(* Finding or making a page table keeps the address spaces in shape. *)
LEMMA MadeShape ==
    ASSUME Types, Shape(table, used, spaces, deleted, aliased), NEW space \in spaces, NEW v \in Virt,
           NEW new, new \in Pool => new \notin used /\ new \notin spaces,
           NEW T, NEW U, NEW pt, HasTable(T, U, space, v, new, pt)
    PROVE  Shape(T, U, spaces, deleted, aliased)
<1>1. CASE Found(T, U, space, v, pt)
  BY <1>1 DEF Found
<1>2. CASE Made(T, U, space, v, new, pt)
  <2>0. /\ v.pde \in Idx /\ spaces \subseteq Frames /\ new \in Frames /\ new \in Pool
        /\ new \notin used /\ new \notin spaces /\ Pointer(new).frame = new
    BY <1>2, ConstantFacts, EntryFacts DEF Made, Types
  <2>1. U = used \cup {new}
    BY <1>2 DEF Made
  <2>2. \A s \in spaces, i \in Idx : T[s][i] = IF s = space /\ i = v.pde THEN Pointer(new) ELSE table[s][i]
    BY <1>2, <2>0 DEF Made, Types
  <2>3. \A s \in spaces, i \in Idx : table[s][i].present =>
          RefKind(table[s][i].frame, s, i, used, spaces, aliased)
    BY DEF Shape
  <2>4. \A s \in spaces, i \in Idx : table[s][i].present => table[s][i].frame # new
    BY <2>0, <2>3, ConstantFacts DEF RefKind
  <2>5. \A s \in spaces, i \in Idx : T[s][i].present =>
          RefKind(T[s][i].frame, s, i, U, spaces, aliased)
    <3> SUFFICES ASSUME NEW s \in spaces, NEW i \in Idx, T[s][i].present
                 PROVE  RefKind(T[s][i].frame, s, i, U, spaces, aliased)
      OBVIOUS
    <3>1. CASE s = space /\ i = v.pde
      BY <3>1, <2>0, <2>1, <2>2 DEF RefKind
    <3>2. CASE ~(s = space /\ i = v.pde)
      <4>1. T[s][i] = table[s][i]
        BY <3>2, <2>2
      <4>2. RefKind(T[s][i].frame, s, i, used, spaces, aliased)
        BY <4>1, <2>3
      <4> QED BY <4>2, <2>1 DEF RefKind
    <3> QED BY <3>1, <3>2
  <2>6. \A s, r \in spaces, i, j \in Idx :
          T[s][i].present /\ T[r][j].present /\ T[s][i].frame = T[r][j].frame
          /\ T[s][i].frame \in Pool => s = r /\ i = j
    <3> SUFFICES ASSUME NEW s \in spaces, NEW r \in spaces, NEW i \in Idx, NEW j \in Idx,
                        T[s][i].present, T[r][j].present, T[s][i].frame = T[r][j].frame,
                        T[s][i].frame \in Pool
                 PROVE  s = r /\ i = j
      OBVIOUS
    <3>1. CASE s = space /\ i = v.pde
      BY <3>1, <2>0, <2>2, <2>4
    <3>2. CASE r = space /\ j = v.pde
      BY <3>2, <2>0, <2>2, <2>4
    <3>3. CASE ~(s = space /\ i = v.pde) /\ ~(r = space /\ j = v.pde)
      <4>1. T[s][i] = table[s][i] /\ T[r][j] = table[r][j]
        BY <3>3, <2>2
      <4> QED BY <4>1 DEF Shape
    <3> QED BY <3>1, <3>2, <3>3
  <2>7. PgPd \in spaces /\ spaces \subseteq U \cup {PgPd} /\ (PgPd \in U \/ deleted)
    BY <2>1 DEF Shape
  <2> QED BY <2>5, <2>6, <2>7 DEF Shape
<1> QED BY <1>1, <1>2 DEF HasTable

(* Storing to an entry does so too, when a directory that it is in is that of
   the kernel and it gets a frame of data. *)
LEMMA StoreShape ==
    ASSUME NEW T \in [Frames -> [Idx -> Entry]], NEW S, NEW U, NEW del, NEW al, NEW al2,
           Shape(T, U, S, del, al), S \subseteq Frames, al => al2,
           NEW pt \in Frames, NEW k \in Idx, NEW e \in Entry,
           pt \in S => pt = PgPd /\ (e.present => e.frame \in DataFrames /\ al2),
           NEW T2, T2 = [T EXCEPT ![pt][k] = e]
    PROVE  Shape(T2, U, S, del, al2)
<1>1. \A s \in S, i \in Idx : T2[s][i] = IF s = pt /\ i = k THEN e ELSE T[s][i]
  OBVIOUS
<1>2. \A s \in S, i \in Idx : T2[s][i].present => RefKind(T2[s][i].frame, s, i, U, S, al2)
  <2> SUFFICES ASSUME NEW s \in S, NEW i \in Idx, T2[s][i].present
               PROVE  RefKind(T2[s][i].frame, s, i, U, S, al2)
    OBVIOUS
  <2>1. CASE s = pt /\ i = k
    BY <2>1, <1>1 DEF RefKind
  <2>2. CASE ~(s = pt /\ i = k)
    <3>1. T2[s][i] = T[s][i]
      BY <2>2, <1>1
    <3>2. RefKind(T2[s][i].frame, s, i, U, S, al)
      BY <3>1 DEF Shape
    <3> QED BY <3>2 DEF RefKind
  <2> QED BY <2>1, <2>2
<1>3. \A s, r \in S, i, j \in Idx :
          T2[s][i].present /\ T2[r][j].present /\ T2[s][i].frame = T2[r][j].frame
          /\ T2[s][i].frame \in Pool => s = r /\ i = j
  <2> SUFFICES ASSUME NEW s \in S, NEW r \in S, NEW i \in Idx, NEW j \in Idx,
                      T2[s][i].present, T2[r][j].present, T2[s][i].frame = T2[r][j].frame,
                      T2[s][i].frame \in Pool
               PROVE  s = r /\ i = j
    OBVIOUS
  <2>1. ~(s = pt /\ i = k) /\ ~(r = pt /\ j = k)
    BY <1>1, ConstantFacts
  <2>2. T2[s][i] = T[s][i] /\ T2[r][j] = T[r][j]
    BY <2>1, <1>1
  <2> QED BY <2>2 DEF Shape
<1> QED BY <1>2, <1>3 DEF Shape

(* map() and unmap() keep the address spaces in shape. *)
LEMMA StoredShape ==
    ASSUME IInv, Running, NEW space \in spaces, NEW v \in Virt,
           NEW new, new \in Pool => new \notin used /\ new \notin spaces,
           NEW e \in Entry, e.present => e.frame \in DataFrames,
           Stored(space, v, new, e), aliased' = (aliased \/ Through(space, v)),
           UNCHANGED <<spaces, deleted>>
    PROVE  Shape(table', used', spaces', deleted', aliased') /\ Slots(tempMappings', spaces')
<1>0. Types /\ Shape(table, used, spaces, deleted, aliased)
  BY DEF IInv
<1>1. PICK T : \E pt \in Frames : /\ HasTable(T, used', space, v, new, pt)
                                  /\ table' = [T EXCEPT ![pt][v.pte] = e]
  BY DEF Stored
<1>2. PICK pt \in Frames : /\ HasTable(T, used', space, v, new, pt)
                           /\ table' = [T EXCEPT ![pt][v.pte] = e]
  BY <1>1
<1>3. Shape(T, used', spaces, deleted, aliased)
  BY <1>0, <1>2, MadeShape
<1>4. v.pde \in Idx /\ v.pte \in Idx /\ spaces \subseteq Frames /\ T \in [Frames -> [Idx -> Entry]]
  BY <1>0, <1>2, ConstantFacts DEF Types, HasTable
<1>5. pt \in spaces => pt = PgPd /\ aliased' = TRUE
  <2>1. CASE Found(T, used', space, v, pt)
    <3>1. pt \in spaces => pt = PgPd /\ space # PgPd /\ v.pde = SpaceIdx
      BY <2>1, <1>0, <1>4, TargetFacts DEF Found
    <3> QED BY <3>1 DEF Through
  <2>2. CASE Made(T, used', space, v, new, pt)
    BY <2>2 DEF Made
  <2> QED BY <2>1, <2>2, <1>2 DEF HasTable
<1>6. aliased => aliased'
  OBVIOUS
<1>7. pt \in spaces => pt = PgPd /\ (e.present => e.frame \in DataFrames /\ aliased')
  BY <1>5
<1>8. PICK al2 : al2 = aliased'
  OBVIOUS
<1>9. PICK T2 : T2 = table'
  OBVIOUS
<1>10. PICK U : U = used'
  OBVIOUS
<1>11. Shape(T2, U, spaces, deleted, al2)
  BY <1>2, <1>3, <1>4, <1>6, <1>7, <1>8, <1>9, <1>10, StoreShape
<1> QED BY <1>8, <1>9, <1>10, <1>11 DEF Stored

LEMMA MapIInv ==
    ASSUME IInv, Running, NEW space \in spaces, NEW v \in Virt, NEW f \in DataFrames,
           NEW new \in NewFrames, map(space, v, f, new)
    PROVE  IInv'
<1>1. TypesKept /\ (halted' \/ Stored(space, v, new, Pointer(f)))
  BY MapStep
<1>2. UNCHANGED <<spaces, deleted>> /\ aliased' = (aliased \/ Through(space, v))
  BY DEF map
<1>3. Types'
  BY <1>1, <1>2 DEF IInv, Types, TypesKept
<1>4. ~halted' => Shape(table', used', spaces', deleted', aliased') /\ Slots(tempMappings', spaces')
  <2>1. new \in Pool => new \notin used /\ new \notin spaces
    BY NewFacts DEF IInv
  <2>2. Pointer(f) \in Entry /\ Pointer(f).frame = f
    BY ConstantFacts, EntryFacts
  <2> QED BY <2>1, <2>2, <1>1, <1>2, StoredShape
<1> QED BY <1>3, <1>4 DEF IInv, Running

LEMMA UnmapIInv ==
    ASSUME IInv, Running, NEW space \in spaces, NEW v \in Virt, unmap(space, v)
    PROVE  IInv'
<1>1. TypesKept /\ (halted' \/ Stored(space, v, 0, Absent))
  BY UnmapStep
<1>2. UNCHANGED <<spaces, deleted>> /\ aliased' = (aliased \/ Through(space, v))
  BY DEF unmap
<1>3. Types'
  BY <1>1, <1>2 DEF IInv, Types, TypesKept
<1>4. ~halted' => Shape(table', used', spaces', deleted', aliased') /\ Slots(tempMappings', spaces')
  <2>1. 0 \notin Pool
    BY ConstantFacts
  <2>2. Absent \in Entry /\ Absent.present = FALSE
    BY EntryFacts
  <2> QED BY <2>1, <2>2, <1>1, <1>2, StoredShape
<1> QED BY <1>3, <1>4 DEF IInv, Running

LEMMA GetIInv ==
    ASSUME IInv, Running, NEW space \in spaces, NEW v \in Virt, getMappedAddr(space, v)
    PROVE  IInv'
<1>1. TypesKept /\ (halted' \/ (table' = table /\ used' = used /\ Slots(tempMappings', spaces)))
  BY GetStep
<1>2. UNCHANGED <<spaces, deleted, aliased>>
  BY DEF getMappedAddr
<1>3. Types'
  BY <1>1, <1>2 DEF IInv, Types, TypesKept
<1> QED BY <1>1, <1>2, <1>3 DEF IInv, Running

LEMMA NewIInv ==
    ASSUME IInv, Running, NEW new \in NewFrames, newVSpace(new)
    PROVE  IInv'
<1>0. Types /\ Shape(table, used, spaces, deleted, aliased)
  BY DEF IInv
<1>1. /\ TypesKept /\ spaces' \subseteq Pool \cup {PgPd}
      /\ halted' \/ /\ new \in Pool /\ spaces' = spaces \cup {new} /\ used' = used \cup {new}
                    /\ table' = [table EXCEPT ![new] = NewDirectory]
                    /\ Slots(tempMappings', spaces)
  BY NewStep
<1>2. UNCHANGED <<deleted, aliased>>
  BY DEF newVSpace
<1>3. Types'
  BY <1>0, <1>1, <1>2 DEF Types, TypesKept
<1>4. ASSUME ~halted'
      PROVE  Shape(table', used', spaces', deleted', aliased') /\ Slots(tempMappings', spaces')
  <2>1. /\ new \in Pool /\ spaces' = spaces \cup {new} /\ used' = used \cup {new}
        /\ table' = [table EXCEPT ![new] = NewDirectory] /\ Slots(tempMappings', spaces)
    BY <1>1, <1>4
  <2>2. new \notin used /\ new \notin spaces /\ spaces \subseteq Frames /\ new \in Frames /\ new # PgPd
    BY <2>1, <1>0, NewFacts, ConstantFacts DEF Types
  <2>3. /\ \A i \in Idx : NewDirectory[i].present => i = SpaceIdx /\ NewDirectory[i].frame = PgPd
    BY EntryFacts, ConstantFacts DEF NewDirectory, Empty
  <2>4. table'[new] = NewDirectory /\ \A s \in spaces : table'[s] = table[s]
    BY <2>1, <2>2, <1>0 DEF Types
  <2>5. \A s \in spaces, i \in Idx : table[s][i].present =>
          /\ RefKind(table[s][i].frame, s, i, used, spaces, aliased)
          /\ table[s][i].frame # new
    <3>1. \A s \in spaces, i \in Idx : table[s][i].present =>
            RefKind(table[s][i].frame, s, i, used, spaces, aliased)
      BY <1>0 DEF Shape
    <3> QED BY <3>1, <2>1, <2>2, ConstantFacts DEF RefKind
  <2>6. \A s \in spaces', i \in Idx : table'[s][i].present =>
          RefKind(table'[s][i].frame, s, i, used', spaces', aliased')
    <3> SUFFICES ASSUME NEW s \in spaces', NEW i \in Idx, table'[s][i].present
                 PROVE  RefKind(table'[s][i].frame, s, i, used', spaces', aliased')
      OBVIOUS
    <3>1. CASE s = new
      BY <3>1, <2>2, <2>3, <2>4 DEF RefKind
    <3>2. CASE s \in spaces
      <4>1. /\ RefKind(table'[s][i].frame, s, i, used, spaces, aliased) /\ table'[s][i].frame # new
        BY <3>2, <2>4, <2>5
      <4> QED BY <4>1, <2>1, <1>2 DEF RefKind
    <3> QED BY <3>1, <3>2, <2>1
  <2>7. \A s, r \in spaces', i, j \in Idx :
          table'[s][i].present /\ table'[r][j].present /\ table'[s][i].frame = table'[r][j].frame
          /\ table'[s][i].frame \in Pool => s = r /\ i = j
    <3> SUFFICES ASSUME NEW s \in spaces', NEW r \in spaces', NEW i \in Idx, NEW j \in Idx,
                        table'[s][i].present, table'[r][j].present,
                        table'[s][i].frame = table'[r][j].frame, table'[s][i].frame \in Pool
                 PROVE  s = r /\ i = j
      OBVIOUS
    <3>1. s # new /\ r # new
      BY <2>3, <2>4, ConstantFacts
    <3>2. s \in spaces /\ r \in spaces
      BY <3>1, <2>1
    <3>3. table'[s] = table[s] /\ table'[r] = table[r]
      BY <3>2, <2>4
    <3> QED BY <3>2, <3>3, <1>0 DEF Shape
  <2>8. PgPd \in spaces' /\ spaces' \subseteq used' \cup {PgPd} /\ (PgPd \in used' \/ deleted')
    BY <2>1, <1>0, <1>2 DEF Shape
  <2>9. Slots(tempMappings', spaces')
    BY <2>1 DEF Slots
  <2> QED BY <2>6, <2>7, <2>8, <2>9 DEF Shape
<1> QED BY <1>3, <1>4 DEF IInv, Running

LEMMA DeleteIInv ==
    ASSUME IInv, Running, NEW space \in spaces, deleteVSpace(space)
    PROVE  IInv'
<1>0. Types /\ Shape(table, used, spaces, deleted, aliased)
  BY DEF IInv
<1>1. /\ TypesKept /\ spaces' \subseteq Pool \cup {PgPd}
      /\ halted' \/ /\ spaces' = spaces \ {space} /\ table' = table
                    /\ used' = used \ (Entries(space) \cup {space})
                    /\ Slots(tempMappings', spaces \ {space})
  BY DeleteStep
<1>2. deleted' = TRUE /\ aliased' = aliased /\ space # PgPd
  BY DEF deleteVSpace
<1>3. Types'
  BY <1>0, <1>1, <1>2 DEF Types, TypesKept
<1>4. ASSUME ~halted'
      PROVE  Shape(table', used', spaces', deleted', aliased') /\ Slots(tempMappings', spaces')
  <2>1. /\ spaces' = spaces \ {space} /\ table' = table
        /\ used' = used \ (Entries(space) \cup {space}) /\ Slots(tempMappings', spaces \ {space})
    BY <1>1, <1>4
  <2>2. \A g \in Entries(space) : \E i \in Idx : table[space][i].present /\ g = table[space][i].frame
    BY DEF Entries
  <2>3. \A s \in spaces, i \in Idx : table[s][i].present =>
          RefKind(table[s][i].frame, s, i, used, spaces, aliased)
    BY <1>0 DEF Shape
  <2>4. \A g \in Entries(space) : g \in Pool \/ g = PgPd
    BY <2>2, <2>3, <1>2 DEF RefKind
  <2>5. \A g \in Entries(space) : g \in spaces => g = PgPd
    BY <2>2, <2>3, <1>0, <1>2, ConstantFacts DEF RefKind, Types
  <2>6. \A s \in spaces, i \in Idx : s # space /\ table[s][i].present /\ table[s][i].frame \in Pool
          => table[s][i].frame \notin Entries(space)
    <3> SUFFICES ASSUME NEW s \in spaces, NEW i \in Idx, s # space, table[s][i].present,
                        table[s][i].frame \in Pool, table[s][i].frame \in Entries(space)
                 PROVE  FALSE
      OBVIOUS
    <3>1. PICK j \in Idx : table[space][j].present /\ table[s][i].frame = table[space][j].frame
      BY <2>2
    <3> QED BY <3>1, <1>0 DEF Shape
  <2>7. \A s \in spaces', i \in Idx : table'[s][i].present =>
          RefKind(table'[s][i].frame, s, i, used', spaces', aliased')
    <3> SUFFICES ASSUME NEW s \in spaces, s # space, NEW i \in Idx, table[s][i].present
                 PROVE  RefKind(table[s][i].frame, s, i, used', spaces', aliased)
      BY <2>1, <1>2
    <3>1. RefKind(table[s][i].frame, s, i, used, spaces, aliased)
      BY <2>3
    <3>2. CASE table[s][i].frame \in Pool
      <4>1. table[s][i].frame \in used /\ table[s][i].frame \notin spaces
        BY <3>1, <3>2, ConstantFacts DEF RefKind
      <4>2. table[s][i].frame \notin Entries(space) /\ table[s][i].frame # space
        BY <4>1, <3>2, <2>6
      <4> QED BY <4>1, <4>2, <3>2, <2>1 DEF RefKind
    <3>3. CASE table[s][i].frame \notin Pool
      BY <3>1, <3>3 DEF RefKind
    <3> QED BY <3>2, <3>3
  <2>8. \A s, r \in spaces', i, j \in Idx :
          table'[s][i].present /\ table'[r][j].present /\ table'[s][i].frame = table'[r][j].frame
          /\ table'[s][i].frame \in Pool => s = r /\ i = j
    BY <2>1, <1>0 DEF Shape
  <2>9. PgPd \in spaces' /\ spaces' \subseteq used' \cup {PgPd} /\ deleted'
    <3>1. PgPd \in spaces /\ spaces \subseteq used \cup {PgPd}
      BY <1>0 DEF Shape
    <3> QED BY <3>1, <2>1, <2>5, <1>2
  <2> QED BY <2>1, <2>7, <2>8, <2>9 DEF Shape
<1> QED BY <1>3, <1>4 DEF IInv, Running

(* The structures of paging.S. *)
LEMMA InitIInv == Init => IInv
<1> SUFFICES ASSUME Init PROVE IInv
  OBVIOUS
<1>1. /\ \A i \in Idx : table[PgPd][i] = IF i \in KernelIdx THEN Pointer(PgPt) ELSE Absent
      /\ \A i \in Idx : table[PgPt][i] = IF i = 0 THEN Absent ELSE Pointer(PgPt)
      /\ \A f \in Frames : f # PgPd /\ f # PgPt => table[f] = Empty
  BY ConstantFacts DEF Init
<1>2. table \in [Frames -> [Idx -> Entry]]
  <2>1. DOMAIN table = Frames /\ table = [f \in Frames |-> table[f]]
    BY DEF Init
  <2>2. \A f \in Frames : table[f] \in [Idx -> Entry]
    <3> SUFFICES ASSUME NEW f \in Frames PROVE table[f] \in [Idx -> Entry]
      OBVIOUS
    <3>1. CASE f = PgPd
      <4>1. table[f] = [i \in Idx |-> IF i \in KernelIdx THEN Pointer(PgPt) ELSE Absent]
        BY <3>1, ConstantFacts DEF Init
      <4> QED BY <4>1, EntryFacts, ConstantFacts
    <3>2. CASE f = PgPt
      <4>1. table[f] = [i \in Idx |-> IF i = 0 THEN Absent ELSE Pointer(PgPt)]
        BY <3>2, ConstantFacts DEF Init
      <4> QED BY <4>1, EntryFacts, ConstantFacts
    <3>3. CASE f # PgPd /\ f # PgPt
      BY <3>3, <1>1, EntryFacts
    <3> QED BY <3>1, <3>2, <3>3
  <2> QED BY <2>1, <2>2
<1>3. Types
  BY <1>2 DEF Init, Types
<1>4. spaces = {PgPd} /\ used = {PgPd}
  BY DEF Init
<1>5. \A i \in Idx : table[PgPd][i].present => table[PgPd][i].frame = PgPt
  BY <1>1, EntryFacts, ConstantFacts
<1>6. Shape(table, used, spaces, deleted, aliased)
  BY <1>4, <1>5, ConstantFacts DEF Shape, RefKind
<1>7. Slots(tempMappings, spaces)
  BY DEF Init, Slots
<1> QED BY <1>3, <1>6, <1>7 DEF IInv

(* Every operation keeps the invariant. *)
LEMMA NextIInv == IInv /\ [Next]_vars => IInv'
<1> SUFFICES ASSUME IInv, [Next]_vars PROVE IInv'
  OBVIOUS
<1>1. ASSUME NEW s \in spaces, NEW v \in Virt, NEW f \in DataFrames, NEW new \in NewFrames, map(s, v, f, new)
      PROVE  IInv'
  BY <1>1, MapIInv DEF map
<1>2. ASSUME NEW s \in spaces, NEW v \in Virt, unmap(s, v) PROVE IInv'
  BY <1>2, UnmapIInv DEF unmap
<1>3. ASSUME NEW s \in spaces, NEW v \in Virt, getMappedAddr(s, v) PROVE IInv'
  BY <1>3, GetIInv DEF getMappedAddr
<1>4. ASSUME NEW s \in spaces, activateVSpace(s) PROVE IInv'
  <2>1. UNCHANGED <<tempMappings, table, used, spaces, deleted, aliased>> /\ halted' \in BOOLEAN /\ Running
    BY <1>4 DEF activateVSpace, KernelRuns
  <2>2. Types'
    BY <2>1 DEF IInv, Types
  <2> QED BY <2>1, <2>2 DEF IInv
<1>5. ASSUME NEW s \in spaces, deleteVSpace(s) PROVE IInv'
  BY <1>5, DeleteIInv DEF deleteVSpace
<1>6. ASSUME NEW new \in NewFrames, newVSpace(new) PROVE IInv'
  BY <1>6, NewIInv DEF newVSpace
<1>7. CASE UNCHANGED vars
  BY <1>7 DEF vars, IInv, Types, Running
<1>8. CASE Abort
  BY <1>7, <1>8 DEF Abort
<1> QED BY <1>1, <1>2, <1>3, <1>4, <1>5, <1>6, <1>7, <1>8 DEF Next

LEMMA SpecIInv == Spec => []IInv
  BY InitIInv, NextIInv, PTL DEF Spec
-----------------------------------------------------------------------------
(* x86/VirtualMemory.cc 44-51, 146-150, 213-214: however many lookups failed,
   what stays mapped temporarily are address spaces that exist, each once, so
   there are never more of these than of those. *)
THEOREM SpecSlotsAreSpaces == Spec => []SlotsAreSpaces
<1>1. IInv => SlotsAreSpaces
  BY DEF IInv, SlotsAreSpaces, Slots
<1> QED BY <1>1, SpecIInv, PTL

(* x86/VirtualMemory.cc 110-115, 251-265: creating, filling and deleting any
   number of address spaces never frees a structure of one that exists, nor
   shares one, but for the page directory of the kernel and for data mapped
   through entry 4. *)
THEOREM SpecOnlyKernelPdLost == Spec => []OnlyKernelPdLost
<1>1. IInv => OnlyKernelPdLost
  <2> SUFFICES ASSUME IInv PROVE OnlyKernelPdLost
    OBVIOUS
  <2>1. TypeOK
    <3>1. table \in [Frames -> [Idx -> [frame : Frames \cup {0}, present : BOOLEAN]]]
      BY EntryFacts DEF IInv, Types
    <3> QED BY <3>1 DEF IInv, Types, TypeOK
  <2>2. ASSUME Running
        PROVE  /\ spaces \ used \subseteq IF deleted THEN {PgPd} ELSE {}
               /\ \A r \in Refs :
                   \/ Target(r) \in used \cup {PgPt}
                   \/ Target(r) = PgPd /\ deleted
                   \/ r[1] = PgPd /\ Target(r) \in DataFrames /\ aliased
               /\ \A r, q \in Refs : r # q /\ Target(r) = Target(q) =>
                   Target(r) \in {PgPd, PgPt} \/ (aliased /\ Target(r) \in DataFrames)
    <3>1. Shape(table, used, spaces, deleted, aliased) /\ deleted \in BOOLEAN
      BY <2>2 DEF IInv, Types
    <3>2. spaces \ used \subseteq IF deleted THEN {PgPd} ELSE {}
      BY <3>1 DEF Shape
    <3>3. \A r \in Refs : r[1] \in spaces /\ r[2] \in Idx /\ table[r[1]][r[2]].present /\ r = <<r[1], r[2]>>
      BY DEF Refs
    <3>4. \A r \in Refs : RefKind(Target(r), r[1], r[2], used, spaces, aliased)
      BY <3>1, <3>3 DEF Shape, Target
    <3>5. \A r \in Refs :
            \/ Target(r) \in used \cup {PgPt}
            \/ Target(r) = PgPd /\ deleted
            \/ r[1] = PgPd /\ Target(r) \in DataFrames /\ aliased
      BY <3>1, <3>4 DEF Shape, RefKind
    <3>6. \A r, q \in Refs : r # q /\ Target(r) = Target(q) =>
            Target(r) \in {PgPd, PgPt} \/ (aliased /\ Target(r) \in DataFrames)
      <4> SUFFICES ASSUME NEW r \in Refs, NEW q \in Refs, Target(r) = Target(q), Target(r) \in Pool
                   PROVE  r = q
        BY <3>4 DEF RefKind
      <4>1. r[1] = q[1] /\ r[2] = q[2]
        BY <3>1, <3>3 DEF Shape, Target
      <4> QED BY <4>1, <3>3
    <3> QED BY <3>2, <3>5, <3>6
  <2> QED BY <2>1, <2>2 DEF OnlyKernelPdLost
<1> QED BY <1>1, SpecIInv, PTL

(* Finding or making a page table changes the translation of no page. *)
LEMMA MadeResolves ==
    ASSUME Types, Shape(table, used, spaces, deleted, aliased), NEW s \in spaces, NEW v \in Virt,
           NEW new, new \in Pool => new \notin used /\ new \notin spaces,
           NEW T, NEW U, NEW pt, HasTable(T, U, s, v, new, pt),
           NEW r \in spaces, NEW w \in Virt, ~Through(r, w)
    PROVE  Resolve(T, r, w) = Resolve(table, r, w)
<1>1. CASE Found(T, U, s, v, pt)
  BY <1>1 DEF Found
<1>2. CASE Made(T, U, s, v, new, pt)
  <2>0. /\ v.pde \in Idx /\ w.pde \in Idx /\ w.pte \in Idx /\ spaces \subseteq Frames
        /\ new \in Frames /\ new \in Pool /\ new \notin used /\ new \notin spaces
    BY <1>2, ConstantFacts DEF Made, Types
  <2>1. /\ T[new] = Empty /\ \A x \in Frames : x # new /\ x # s => T[x] = table[x]
        /\ \A i \in Idx : i # v.pde => T[s][i] = table[s][i]
        /\ T[s][v.pde] = Pointer(new)
    BY <1>2, <2>0 DEF Made, Types
  <2>2. CASE r = s /\ w.pde = v.pde
    <3>1. Pointer(new).frame = new /\ Empty[w.pte] = Absent /\ Absent.present = FALSE
      BY <2>0, EntryFacts DEF Empty
    <3>2. Resolve(T, r, w) = 0
      BY <3>1, <2>1, <2>2 DEF Resolve
    <3>3. Resolve(table, r, w) = 0
      BY <2>2, <1>2 DEF Resolve, Made
    <3> QED BY <3>2, <3>3
  <2>3. CASE ~(r = s /\ w.pde = v.pde)
    <3>1. T[r][w.pde] = table[r][w.pde]
      BY <2>0, <2>1, <2>3
    <3>2. CASE table[r][w.pde].present
      <4>1. /\ table[r][w.pde].frame \in Frames
            /\ table[r][w.pde].frame \in spaces => table[r][w.pde].frame = PgPd /\ r # PgPd /\ w.pde = SpaceIdx
            /\ RefKind(table[r][w.pde].frame, r, w.pde, used, spaces, aliased)
        BY <3>2, <2>0, TargetFacts
      <4>2. table[r][w.pde].frame # new /\ table[r][w.pde].frame # s
        BY <4>1, <2>0, ConstantFacts DEF RefKind, Through
      <4>3. T[table[r][w.pde].frame] = table[table[r][w.pde].frame]
        BY <4>1, <4>2, <2>1
      <4> QED BY <4>3, <3>1 DEF Resolve
    <3>3. CASE ~table[r][w.pde].present
      BY <3>1, <3>3 DEF Resolve
    <3> QED BY <3>2, <3>3
  <2> QED BY <2>2, <2>3
<1> QED BY <1>1, <1>2 DEF HasTable

(* A store to the page table of v is seen at v, and nowhere else. *)
LEMMA StoredResolves ==
    ASSUME IInv, Running, NEW s \in spaces, NEW v \in Virt, ~Through(s, v),
           NEW new, new \in Pool => new \notin used /\ new \notin spaces,
           NEW e \in Entry, Stored(s, v, new, e)
    PROVE  /\ e.present => Resolve(table, s, v) = 0 /\ Resolve(table', s, v) = e.frame
           /\ ~e.present => Resolve(table', s, v) = 0
           /\ OthersKept(s, v)
<1>0. Types /\ Shape(table, used, spaces, deleted, aliased)
  BY DEF IInv
<1>1. PICK T : \E pt \in Frames : /\ HasTable(T, used', s, v, new, pt)
                                  /\ table' = [T EXCEPT ![pt][v.pte] = e]
                                  /\ e.present => T[pt][v.pte].present = FALSE
  BY DEF Stored
<1>2. PICK pt \in Frames : /\ HasTable(T, used', s, v, new, pt)
                           /\ table' = [T EXCEPT ![pt][v.pte] = e]
                           /\ e.present => T[pt][v.pte].present = FALSE
  BY <1>1
<1>3. Shape(T, used', spaces, deleted, aliased)
  BY <1>0, <1>2, MadeShape
<1>4. /\ v.pde \in Idx /\ v.pte \in Idx /\ spaces \subseteq Frames /\ T \in [Frames -> [Idx -> Entry]]
      /\ T[s][v.pde] = Pointer(pt) /\ pt # s
  BY <1>0, <1>2, ConstantFacts DEF Types, HasTable
<1>5. Pointer(pt).frame = pt /\ Pointer(pt).present
  BY EntryFacts
<1>6. pt \notin spaces
  <2>1. CASE Found(T, used', s, v, pt)
    <3>1. pt \in spaces => pt = PgPd /\ s # PgPd /\ v.pde = SpaceIdx
      BY <2>1, <1>0, <1>4, TargetFacts DEF Found
    <3> QED BY <3>1 DEF Through
  <2>2. CASE Made(T, used', s, v, new, pt)
    BY <2>2 DEF Made
  <2> QED BY <2>1, <2>2, <1>2 DEF HasTable
<1>7. /\ \A x \in Frames : x # pt => table'[x] = T[x]
      /\ \A i \in Idx : i # v.pte => table'[pt][i] = T[pt][i]
      /\ table'[pt][v.pte] = e
  BY <1>2, <1>4
<1>8. Resolve(table', s, v) = IF e.present THEN e.frame ELSE 0
  BY <1>4, <1>5, <1>7 DEF Resolve
<1>9. e.present => Resolve(table, s, v) = 0
  <2>1. Resolve(T, s, v) = Resolve(table, s, v)
    BY <1>0, <1>2, MadeResolves
  <2>2. e.present => Resolve(T, s, v) = 0
    BY <1>2, <1>4, <1>5 DEF Resolve
  <2> QED BY <2>1, <2>2
<1>10. ASSUME NEW r \in spaces, NEW w \in Virt, ~Through(r, w), <<r, w>> # <<s, v>>,
              ~SharedTable(s, v, r, w)
       PROVE  Resolve(table', r, w) = Resolve(table, r, w)
  <2>0. w.pde \in Idx /\ w.pte \in Idx /\ r \in Frames /\ r # pt
    BY <1>4, <1>6, ConstantFacts
  <2>1. Resolve(T, r, w) = Resolve(table, r, w)
    BY <1>0, <1>2, <1>10, MadeResolves
  <2>2. table'[r] = T[r]
    BY <2>0, <1>7
  <2>3. CASE ~T[r][w.pde].present
    BY <2>1, <2>2, <2>3 DEF Resolve
  <2>4. CASE T[r][w.pde].present /\ (T[r][w.pde].frame # pt \/ w.pte # v.pte)
    <3>1. T[r][w.pde].frame \in Frames
      BY <2>0, <2>4, <1>4, EntryFacts
    <3>2. table'[T[r][w.pde].frame][w.pte] = T[T[r][w.pde].frame][w.pte]
      BY <3>1, <2>0, <2>4, <1>7
    <3> QED BY <3>2, <2>1, <2>2, <2>4 DEF Resolve
  <2>5. CASE T[r][w.pde].present /\ T[r][w.pde].frame = pt /\ w.pte = v.pte
    <3>1. pt \in Pool => r = s /\ w.pde = v.pde
      BY <2>0, <2>5, <1>3, <1>4, <1>5 DEF Shape
    <3>2. pt \notin Pool
      <4>1. r = s /\ w.pde = v.pde => w = v
        BY <2>5, ConstantFacts
      <4> QED BY <4>1, <3>1, <1>10
    <3>3. RefKind(pt, s, v.pde, used', spaces, aliased) /\ RefKind(pt, r, w.pde, used', spaces, aliased)
      BY <2>0, <2>5, <1>3, <1>4, <1>5 DEF Shape
    <3>4. s = PgPd /\ r = PgPd /\ pt \in DataFrames \cup {PgPt}
      BY <3>2, <3>3, <1>10 DEF RefKind, Through
    <3>5. T = table
      BY <3>2, <1>2 DEF HasTable, Found, Made
    <3>6. table[r][w.pde] = Pointer(pt)
      BY <3>5, <2>0, <2>5, <1>4, EntryFacts
    <3> QED BY <3>4, <3>5, <3>6, <2>5, <1>4, <1>5, <1>10 DEF SharedTable
  <2> QED BY <2>3, <2>4, <2>5
<1>11. OthersKept(s, v)
  BY <1>10 DEF OthersKept
<1> QED BY <1>8, <1>9, <1>11

(* x86/VirtualMemory.cc 167-208: in every history of the address spaces map()
   replaces no mapping and makes the one it is asked for, unmap() takes one
   away, and no other page changes, but for the exceptions of the property. *)
THEOREM SpecMapUnmapExact == Spec => MapUnmapExact
<1> DEFINE A == table' # table /\ ~halted' => \A s \in spaces, v \in Virt : ~Through(s, v) =>
        /\ \A f \in DataFrames, new \in NewFrames : map(s, v, f, new) =>
              Resolve(table, s, v) = 0 /\ Resolve(table', s, v) = f /\ OthersKept(s, v)
        /\ unmap(s, v) => Resolve(table', s, v) = 0 /\ OthersKept(s, v)
<1>1. IInv => A
  <2> SUFFICES ASSUME IInv, ~halted', NEW s \in spaces, NEW v \in Virt, ~Through(s, v)
               PROVE  /\ \A f \in DataFrames, new \in NewFrames : map(s, v, f, new) =>
                            Resolve(table, s, v) = 0 /\ Resolve(table', s, v) = f /\ OthersKept(s, v)
                      /\ unmap(s, v) => Resolve(table', s, v) = 0 /\ OthersKept(s, v)
    OBVIOUS
  <2>1. ASSUME NEW f \in DataFrames, NEW new \in NewFrames, map(s, v, f, new)
        PROVE  Resolve(table, s, v) = 0 /\ Resolve(table', s, v) = f /\ OthersKept(s, v)
    <3>1. Running
      BY <2>1 DEF map
    <3>2. Stored(s, v, new, Pointer(f))
      BY <3>1, <2>1, MapStep
    <3>3. new \in Pool => new \notin used /\ new \notin spaces
      BY <3>1, NewFacts DEF IInv
    <3>4. Pointer(f) \in Entry /\ Pointer(f).frame = f /\ Pointer(f).present
      BY ConstantFacts, EntryFacts
    <3> QED BY <3>1, <3>2, <3>3, <3>4, StoredResolves
  <2>2. ASSUME unmap(s, v)
        PROVE  Resolve(table', s, v) = 0 /\ OthersKept(s, v)
    <3>1. Running
      BY <2>2 DEF unmap
    <3>2. Stored(s, v, 0, Absent)
      BY <3>1, <2>2, UnmapStep
    <3>3. 0 \notin Pool /\ Absent \in Entry /\ ~Absent.present
      BY ConstantFacts, EntryFacts
    <3> QED BY <3>1, <3>2, <3>3, StoredResolves
  <2> QED BY <2>1, <2>2
<1>2. IInv /\ [Next]_vars => [A]_vars
  BY <1>1
<1> HIDE DEF A
<1>3. Spec => [][A]_vars
  BY <1>2, SpecIInv, PTL DEF Spec
<1> QED BY <1>3 DEF MapUnmapExact, A
=============================================================================
