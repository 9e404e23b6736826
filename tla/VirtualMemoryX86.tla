-------------------------- MODULE VirtualMemoryX86 --------------------------
(***************************************************************************)
(* The x86 address spaces, core/tachyon.memory/x86/VirtualMemory.cc: page  *)
(* directories and page tables, reached through temporary mappings of one  *)
(* 4K page each.  A pointer to a structure is therefore its frame, for as  *)
(* long as a slot maps it.  table[f][i] is entry i of the structure in     *)
(* frame f, a virtual address its two indices.  An operation is computed   *)
(* on a record st that is passed along the calls it makes; the frame that  *)
(* PhysicalMemory chooses, should it be asked for one, is a parameter.     *)
(***************************************************************************)
EXTENDS Integers, FiniteSets, FiniteSetsExt

CONSTANTS
    TEMPMAP_PAGES,      \* number of temporary mappings
    IdentityFrames,     \* frames below 4M, mapped at their own address at boot
    Pool,               \* frames PhysicalMemory may hand out for structures
    DataFrames,         \* frames the callers of map() have
    Idx,                \* the entries of a structure that addresses of Virt use
    Virt,               \* virtual addresses [pde, pte]
    KernelIdx,          \* 0, 768 and 1023: the kernel's entries
    SpaceIdx,           \* 4: the entry newVSpace() sets
    PgPd, PgPt,         \* the structures of paging.S
    MaxSpaces           \* bound on the spaces that exist at the same time

ASSUME VMX86Assumption ==
    /\ TEMPMAP_PAGES \in Nat \ {0} /\ IdentityFrames \in Nat /\ MaxSpaces \in Nat
    /\ Virt \subseteq [pde : Idx, pte : Idx]
    /\ KernelIdx \subseteq Idx /\ SpaceIdx \in Idx \ KernelIdx
    /\ Pool \cup DataFrames \cup {PgPd, PgPt} \subseteq Nat \ {0}
    /\ Pool \cap DataFrames = {} /\ {PgPd, PgPt} \cap (Pool \cup DataFrames) = {}
    /\ PgPd # PgPt

VARIABLES
    tempMappings,       \* slot -> frame, or 0
    table,              \* also of data frames, should one be taken for a table
    used,               \* frames of Pool, and PgPd, that are allocated
    spaces,             \* the page directories of the address spaces there are
    halted,
    deleted, aliased    \* history: a space was deleted; entry 4 was mapped through

vars == <<tempMappings, table, used, spaces, halted, deleted, aliased>>

Slot == 1..TEMPMAP_PAGES
Frames == Pool \cup DataFrames \cup {PgPd, PgPt}
Absent == [frame |-> 0, present |-> FALSE]
Pointer(f) == [frame |-> f, present |-> TRUE]
Empty == [i \in Idx |-> Absent]

(* paging.S: the first 4M at their own address and in the higher half, but for
   the page at 0. *)
Init ==
    /\ tempMappings = [i \in Slot |-> 0]
    /\ table = [f \in Frames |->
                  CASE f = PgPd -> [i \in Idx |-> IF i \in KernelIdx THEN Pointer(PgPt) ELSE Absent]
                    [] f = PgPt -> [i \in Idx |-> IF i = 0 THEN Absent ELSE Pointer(PgPt)]
                    [] OTHER    -> Empty]
    /\ used = {PgPd} /\ spaces = {PgPd}
    /\ halted = FALSE /\ deleted = FALSE /\ aliased = FALSE
-----------------------------------------------------------------------------
State == [tm |-> tempMappings, table |-> table, used |-> used, status |-> "ok"]
Halt(st) == [st EXCEPT !.status = "halt"]
Ok(st) == st.status = "ok"

(* pstructMap(): the slot that maps the frame already, else the first unused
   one; no slot is KFATAL. *)
SlotFor(tm, f) ==
    LET same == {i \in Slot : tm[i] = f}
    IN  IF same # {} THEN same ELSE {i \in Slot : tm[i] = 0}

PstructMap(st, f) ==
    IF ~Ok(st) THEN st
    ELSE IF SlotFor(st.tm, f) = {} THEN Halt(st)
    ELSE [st EXCEPT !.tm[Min(SlotFor(st.tm, f))] = f]

PstructUnmap(st, f) ==
    IF ~Ok(st) THEN st
    ELSE [st EXCEPT !.tm = [i \in Slot |-> IF @[i] = f THEN 0 ELSE @[i]]]

(* allocatePStructAny(): without a free frame the search does not end; when
   the frame is the page directory in use, zeroing it ends the kernel. *)
AllocatePStructAny(st, new) ==
    IF ~Ok(st) \/ new \in {0, PgPd} THEN Halt(st)
    ELSE PstructUnmap([PstructMap([st EXCEPT !.used = @ \cup {new}], new)
                           EXCEPT !.table[new] = Empty], new)

(* splitVirtualAndMap(): the page directory and the page table of v are
   mapped, which is allocated when it may be.  When it may not, the page
   directory stays mapped. *)
Pt(st, space, v) == st.table[space][v.pde].frame

SplitVirtualAndMap(space, v, force, new) ==
    LET s1 == PstructMap(State, space)
        s2 == AllocatePStructAny(s1, new)
        s3 == [s2 EXCEPT !.table[space][v.pde] = Pointer(new)]
        present == table[space][v.pde].present
    IN  IF ~Ok(s1) THEN s1
        ELSE IF present THEN PstructMap(s1, Pt(s1, space, v))
        ELSE IF force THEN [s1 EXCEPT !.status = "absent"]
        ELSE IF ~Ok(s2) THEN s2
        ELSE PstructMap(s3, new)

UnmapBoth(st, space, v) == PstructUnmap(PstructUnmap(st, Pt(st, space, v)), space)

(* The kernel goes on as long as its own entries are there; what a kernel that
   has stopped leaves behind is not kept. *)
KernelRuns(t, space) == \A i \in KernelIdx : t[space][i] = Pointer(PgPt)

Apply(st) ==
    IF st.status = "halt" \/ ~KernelRuns(st.table, PgPd)
    THEN halted' = TRUE /\ UNCHANGED <<tempMappings, table, used>>
    ELSE /\ tempMappings' = st.tm /\ table' = st.table /\ used' = st.used
         /\ UNCHANGED halted
-----------------------------------------------------------------------------
Running == ~halted
FreeFrames == (Pool \cup {PgPd}) \ used
NewFrames == IF FreeFrames = {} THEN {0} ELSE FreeFrames
Through(space, v) == space # PgPd /\ v.pde = SpaceIdx

map(space, v, f, new) ==
    /\ Running
    /\ \E st \in {SplitVirtualAndMap(space, v, FALSE, new)} :
         LET pt == Pt(st, space, v) IN
         Apply(IF ~Ok(st) \/ st.table[pt][v.pte].present THEN Halt(st)
               ELSE UnmapBoth([st EXCEPT !.table[pt][v.pte] = Pointer(f)], space, v))
    /\ aliased' = (aliased \/ Through(space, v))
    /\ UNCHANGED <<spaces, deleted>>

unmap_WholeTable(space, v) ==
    /\ Running
    /\ \E st \in {SplitVirtualAndMap(space, v, TRUE, 0)} :
         Apply(IF ~Ok(st) THEN Halt(st)
               ELSE UnmapBoth([st EXCEPT !.table[Pt(st, space, v)] = Empty], space, v))
    /\ aliased' = (aliased \/ Through(space, v))
    /\ UNCHANGED <<spaces, deleted>>
unmap_FreesTable(space, v) ==
    /\ Running
    /\ \E st \in {SplitVirtualAndMap(space, v, TRUE, 0)} :
         LET pt == Pt(st, space, v) IN
         Apply(IF ~Ok(st) THEN Halt(st)
               ELSE UnmapBoth([st EXCEPT !.table[pt][v.pte] = Absent, !.used = @ \ {pt}], space, v))
    /\ aliased' = (aliased \/ Through(space, v))
    /\ UNCHANGED <<spaces, deleted>>
unmap(space, v) ==
    /\ Running
    /\ \E st \in {SplitVirtualAndMap(space, v, TRUE, 0)} :
         Apply(IF ~Ok(st) THEN Halt(st)
               ELSE UnmapBoth([st EXCEPT !.table[Pt(st, space, v)][v.pte] = Absent], space, v))
    /\ aliased' = (aliased \/ Through(space, v))
    /\ UNCHANGED <<spaces, deleted>>

getMappedAddr(space, v) ==
    /\ Running
    /\ \E st \in {SplitVirtualAndMap(space, v, TRUE, 0)} :
         Apply(IF Ok(st) THEN UnmapBoth(st, space, v) ELSE st)
    /\ UNCHANGED <<spaces, deleted, aliased>>

(* activateVSpace(): the next instruction is fetched through the new space. *)
activateVSpace(space) ==
    /\ Running /\ halted' = ~KernelRuns(table, space)
    /\ UNCHANGED <<tempMappings, table, used, spaces, deleted, aliased>>

(* newVSpace(): stores through the physical address of the new directory. *)
newVSpace(new) ==
    /\ Running /\ Cardinality(spaces) < MaxSpaces
    /\ \E st \in {AllocatePStructAny(State, new)} :
         LET ok == Ok(st) /\ new < IdentityFrames IN
         /\ Apply(IF ok THEN [st EXCEPT !.table[new][SpaceIdx] = Pointer(PgPd)] ELSE Halt(st))
         /\ spaces' = IF ok THEN spaces \cup {new} ELSE spaces
    /\ UNCHANGED <<deleted, aliased>>

(* deleteVSpace(): whatever its entries refer to is freed, then the directory
   itself. *)
Entries(space) == {table[space][i].frame : i \in {j \in Idx : table[space][j].present}}

deleteVSpace_KeepsSlot(space) ==
    /\ Running /\ space # PgPd
    /\ \E st \in {PstructMap(State, space)} :
         /\ Apply(IF Ok(st) THEN [st EXCEPT !.used = @ \ (Entries(space) \cup {space})] ELSE st)
         /\ spaces' = IF Ok(st) THEN spaces \ {space} ELSE spaces
    /\ deleted' = TRUE
    /\ UNCHANGED aliased
deleteVSpace(space) ==
    /\ Running /\ space # PgPd
    /\ \E st \in {PstructMap(State, space)} :
         /\ Apply(PstructUnmap(IF Ok(st)
                               THEN [st EXCEPT !.used = @ \ (Entries(space) \cup {space})]
                               ELSE st, space))
         /\ spaces' = IF Ok(st) THEN spaces \ {space} ELSE spaces
    /\ deleted' = TRUE
    /\ UNCHANGED aliased

Abort == halted /\ UNCHANGED vars

Next ==
    \/ \E s \in spaces, v \in Virt, f \in DataFrames, new \in NewFrames : map(s, v, f, new)
    \/ \E s \in spaces, v \in Virt : unmap(s, v) \/ getMappedAddr(s, v)
    \/ \E s \in spaces : activateVSpace(s) \/ deleteVSpace(s)
    \/ \E new \in NewFrames : newVSpace(new)
    \/ Abort

Spec == Init /\ [][Next]_vars
-----------------------------------------------------------------------------
TypeOK ==
    /\ tempMappings \in [Slot -> Frames \cup {0}]
    /\ table \in [Frames -> [Idx -> [frame : Frames \cup {0}, present : BOOLEAN]]]
    /\ used \subseteq Pool \cup {PgPd} /\ spaces \subseteq Pool \cup {PgPd}
    /\ {halted, deleted, aliased} \subseteq BOOLEAN

Refs == {r \in spaces \X Idx : table[r[1]][r[2]].present}
Target(r) == table[r[1]][r[2]].frame

(* VirtualMemory.cc 110-115, 251-265: the structures of the existing address
   spaces are allocated and no two spaces share one, whatever was deleted
   before, with two exceptions: the kernel's own page directory is free memory
   once a space was deleted, and a frame mapped through entry 4 of a space is
   taken for a page table of the kernel, at every entry it is mapped to. *)
OnlyKernelPdLost ==
    /\ TypeOK
    /\ Running =>
        /\ spaces \ used \subseteq IF deleted THEN {PgPd} ELSE {}
        /\ \A r \in Refs :
            \/ Target(r) \in used \cup {PgPt}
            \/ Target(r) = PgPd /\ deleted
            \/ r[1] = PgPd /\ Target(r) \in DataFrames /\ aliased
        /\ \A r, q \in Refs : r # q /\ Target(r) = Target(q) =>
            Target(r) \in {PgPd, PgPt} \/ (aliased /\ Target(r) \in DataFrames)

(* VirtualMemory.cc 44-51, 146-150, 213-214: a lookup that fails leaves a
   temporary mapping behind, but never more than one for each address space
   that exists, and never one of memory that was freed. *)
SlotsAreSpaces ==
    Running => \A i, j \in Slot : tempMappings[i] # 0 =>
        /\ tempMappings[i] \in spaces
        /\ i # j => tempMappings[i] # tempMappings[j]

(* The translation the processor does: the frame v is mapped to, or 0. *)
Resolve(t, s, v) ==
    LET d == t[s][v.pde] IN
    IF d.present /\ t[d.frame][v.pte].present THEN t[d.frame][v.pte].frame ELSE 0

(* Two entries of the kernel's page directory that refer to one table: the one
   of paging.S, or a frame mapped through entry 4. *)
SharedTable(s, v, r, w) ==
    /\ s = PgPd /\ r = PgPd /\ w.pte = v.pte
    /\ table[s][v.pde] = table[r][w.pde]
    /\ table[s][v.pde].frame \in DataFrames \cup {PgPt}

OthersKept(s, v) ==
    \A r \in spaces, w \in Virt :
        ~Through(r, w) /\ <<r, w>> # <<s, v>> /\ ~SharedTable(s, v, r, w)
            => Resolve(table', r, w) = Resolve(table, r, w)

(* VirtualMemory.cc 167-208: map() replaces no mapping and makes the one it is
   asked for, unmap() takes one away, and neither changes another page of any
   address space, unless they go through entry 4 of a created space, which is
   the page directory of the kernel, or the kernel has the page twice. *)
MapUnmapExact ==
    [][table' # table /\ ~halted' => \A s \in spaces, v \in Virt : ~Through(s, v) =>
        /\ \A f \in DataFrames, new \in NewFrames : map(s, v, f, new) =>
              Resolve(table, s, v) = 0 /\ Resolve(table', s, v) = f /\ OthersKept(s, v)
        /\ unmap(s, v) => Resolve(table', s, v) = 0 /\ OthersKept(s, v)]_vars
=============================================================================
