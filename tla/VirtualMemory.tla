---------------------------- MODULE VirtualMemory ----------------------------
(***************************************************************************)
(* The x86_64 address spaces, core/tachyon.memory/x86_64/VirtualMemory.cc. *)
(* Paging structures are frames; the kernel reaches one only through a     *)
(* temporary mapping of the 2M region the frame lies in.  table[f][i] is   *)
(* entry i of the structure in frame f.  A virtual address is its four     *)
(* indices.  An operation is computed on a record st that is passed along  *)
(* the calls it makes: the slots tm, the tables, the allocated frames, and *)
(* a status ("halt" after KFATAL or a page fault of the kernel itself).    *)
(* Frames come from PhysicalMemory, which may choose any free one.         *)
(***************************************************************************)
EXTENDS Integers, Sequences, FiniteSets

CONSTANTS
    TEMPMAP_PAGES,      \* number of temporary mappings
    RegionFrames,       \* frames of 4K in a region of 2M
    IdentityFrames,     \* frames below 4M, mapped at their own address at boot
    Pool,               \* frames PhysicalMemory may hand out for structures
    AllocOrders,        \* orders in which PhysicalMemory may prefer them
    DataFrames,         \* frames the callers of map() have
    Virt,               \* virtual addresses [pml4e, pdpte, pde, pte]
    Idx,                \* the entries of a structure that these addresses use
    KernelIdx,          \* 511: the pml4 entry of the kernel's half
    HighIdx,            \* the pdpt entry of the kernel's -2GB
    PgPml4, PgPdptHigh, PgPdHigh,   \* the structures of paging.S
    MaxSpaces           \* bound on the spaces that exist at the same time

ASSUME VMAssumption ==
    /\ TEMPMAP_PAGES \in Nat \ {0} /\ RegionFrames \in Nat \ {0}
    /\ IdentityFrames \in Nat /\ MaxSpaces \in Nat
    /\ Pool \subseteq Nat \ {0} /\ DataFrames \subseteq Nat \ {0}
    /\ Virt \subseteq [pml4e : Idx, pdpte : Idx, pde : Idx, pte : Idx]
    /\ KernelIdx \in Nat /\ Idx \subseteq 0..KernelIdx /\ KernelIdx \in Idx /\ HighIdx \in Idx
    /\ \A o \in AllocOrders : o \in Seq(Pool) /\ \A f \in Pool : \E i \in DOMAIN o : o[i] = f
    /\ {PgPml4, PgPdptHigh, PgPdHigh} \subseteq Nat \ (Pool \cup DataFrames \cup {0})
    /\ PgPml4 # PgPdptHigh /\ PgPml4 # PgPdHigh /\ PgPdptHigh # PgPdHigh

VARIABLES
    tempMappings,       \* slot -> region, or Unused
    table,
    used,               \* frames of Pool that are allocated
    spaces,             \* the pml4 frames of the address spaces there are
    cr3,
    halted

vars == <<tempMappings, table, used, spaces, cr3, halted>>

Slot == 1..TEMPMAP_PAGES
Unused == -1
KernelTables == {PgPml4, PgPdptHigh, PgPdHigh}
TableFrames == Pool \cup KernelTables
Absent == [frame |-> 0, present |-> FALSE, large |-> FALSE]
Pointer(f, large) == [frame |-> f, present |-> TRUE, large |-> large]
Empty == [i \in Idx |-> Absent]

Region(f) == f \div RegionFrames
Offset(f) == f % RegionFrames

(* paging.S; the entries of the kernel image itself, and the identity mapping
   of the first 4M, are not among the addresses of Virt. *)
Init ==
    /\ tempMappings = [i \in Slot |-> Unused]
    /\ table = [f \in TableFrames |->
                  CASE f = PgPml4     -> [Empty EXCEPT ![KernelIdx] = Pointer(PgPdptHigh, FALSE)]
                    [] f = PgPdptHigh -> [Empty EXCEPT ![HighIdx] = Pointer(PgPdHigh, FALSE)]
                    [] OTHER          -> Empty]
    /\ used = {}
    /\ spaces = {PgPml4}
    /\ cr3 = PgPml4
    /\ halted = FALSE
-----------------------------------------------------------------------------
Lowest(S) == CHOOSE i \in S : \A j \in S : i <= j

(* pstructMap(): a slot that maps the region already, else an unused one; no
   slot is KFATAL.  The address it returns is the slot and the offset. *)
SlotFor_UnusedFirst(tm, f) ==
    LET none == {i \in Slot : tm[i] = Unused}
    IN  IF none # {} THEN Lowest(none) ELSE 0
SlotFor(tm, f) ==
    LET same == {i \in Slot : tm[i] = Region(f)}
        none == {i \in Slot : tm[i] = Unused}
    IN  IF same # {} THEN Lowest(same) ELSE IF none # {} THEN Lowest(none) ELSE 0

Halt(st) == [st EXCEPT !.status = "halt"]

(* The pointer to frame f is appended to st.at. *)
PstructMap(st, f) ==
    LET s == SlotFor(st.tm, f) IN
    IF st.status # "ok" THEN st
    ELSE IF s = 0 THEN Halt(st)
    ELSE [st EXCEPT !.tm[s] = Region(f),
                    !.at = Append(@, [slot |-> s, off |-> Offset(f)])]

(* pstructUnmap(): compares the address with the start of each slot. *)
PstructUnmap(st, p) ==
    IF st.status = "ok" /\ p.off = 0 THEN [st EXCEPT !.tm[p.slot] = Unused] ELSE st

(* What a pointer into a slot refers to; through an unused slot it faults. *)
Faults(st, p) == st.tm[p.slot] = Unused
FrameAt(st, p) == st.tm[p.slot] * RegionFrames + p.off

Top(st) == st.at[Len(st.at)]

Free(st) == Pool \ st.used

(* PhysicalMemory::allocateAligned(); its search never ends when there is
   nothing, so the kernel stops there as well. *)
Choice(st, order) ==
    order[Lowest({i \in DOMAIN order : order[i] \in Free(st)})]

(* allocatePStructAny(): the new frame is st.new. *)
AllocatePStructAny_NotZeroed(st, order) ==
    IF st.status # "ok" THEN st
    ELSE IF Free(st) = {} THEN Halt(st)
    ELSE [st EXCEPT !.used = @ \cup {Choice(st, order)}, !.new = Choice(st, order)]
AllocatePStructAny(st, order) ==
    IF st.status # "ok" THEN st
    ELSE IF Free(st) = {} THEN Halt(st)
    ELSE LET f  == Choice(st, order)
             s1 == PstructMap([st EXCEPT !.used = @ \cup {f}, !.new = f], f)
         IN  IF s1.status # "ok" THEN s1
             ELSE PstructUnmap([s1 EXCEPT !.table[f] = Empty, !.at = st.at], Top(s1))

(* One level of splitVirtualAndMap(): the structure that entry i of the
   current one points to, allocated when it may be, is mapped. *)
Descend(st, i, force, order) ==
    IF st.status # "ok" THEN st
    ELSE LET cur == Top(st)
             e   == st.table[FrameAt(st, cur)][i]
             s1  == AllocatePStructAny(st, order)
         IN  IF e.present THEN PstructMap(st, e.frame)
             ELSE IF force THEN [st EXCEPT !.status = "absent"]
             ELSE IF s1.status # "ok" \/ Faults(s1, cur) THEN Halt(s1)
             ELSE PstructMap([s1 EXCEPT !.table[FrameAt(s1, cur)][i] = Pointer(s1.new, FALSE)],
                             s1.new)

State == [tm |-> tempMappings, table |-> table, used |-> used,
          status |-> "ok", at |-> <<>>, new |-> 0]

(* The entry of the page directory, once three levels are mapped. *)
Pde(st, v) == st.table[FrameAt(st, st.at[3])][v.pde]

(* splitVirtualAndMap(): at = <<pml4, pdpt, pd>> and pt when there is one. *)
NoPt(st, v, large, force) ==
    IF force THEN Pde(st, v).present /\ Pde(st, v).large ELSE large

SplitVirtualAndMap(space, v, large, force, order) ==
    LET s1 == PstructMap(State, space)
        s2 == Descend(s1, v.pml4e, force, order)
        s3 == Descend(s2, v.pdpte, force, order)
    IN  IF s3.status = "ok" /\ NoPt(s3, v, large, force) THEN s3
        ELSE Descend(s3, v.pde, force, order)

(* pstructUnmap() of the first k structures. *)
UnmapFrom(st, k) ==
    [st EXCEPT !.tm = [i \in Slot |->
        IF \E j \in 1..k : st.at[j].slot = i /\ st.at[j].off = 0 THEN Unused ELSE @[i]]]

(* The state an operation leaves behind. *)
Apply(result) ==
    \E st \in {result} :
        /\ tempMappings' = st.tm
        /\ table' = st.table
        /\ used' = st.used
        /\ halted' = (st.status = "halt")
-----------------------------------------------------------------------------
Running == ~halted

SetPde(st, v, e) == [st EXCEPT !.table[FrameAt(st, st.at[3])][v.pde] = e]

SetPte(st, v, e) == [st EXCEPT !.table[FrameAt(st, st.at[4])][v.pte] = e]

MapLarge(st, v, f) ==
    IF Pde(st, v).present THEN Halt(st)
    ELSE UnmapFrom(SetPde(st, v, Pointer(f, TRUE)), 3)

MapSmall(st, v, f) ==
    IF Pde(st, v).large \/ st.table[FrameAt(st, st.at[4])][v.pte].present THEN Halt(st)
    ELSE UnmapFrom(SetPte(st, v, Pointer(f, FALSE)), 4)

map(space, v, f, large, order) ==
    /\ Running
    /\ \E st \in {SplitVirtualAndMap(space, v, large, FALSE, order)} :
         Apply(IF st.status # "ok" THEN Halt(st)
               ELSE IF large THEN MapLarge(st, v, f) ELSE MapSmall(st, v, f))
    /\ UNCHANGED <<spaces, cr3>>

(* unmap(): for a large page a warning and a return that leaves the temporary
   mappings behind; for a small one the page directory entry is cleared. *)
unmap_FreesPt(space, v) ==
    /\ Running
    /\ \E st \in {SplitVirtualAndMap(space, v, FALSE, TRUE, <<>>)} :
         Apply(IF st.status # "ok" THEN Halt(st)
               ELSE IF Pde(st, v).large THEN st
               ELSE UnmapFrom([st EXCEPT !.used = @ \ {Pde(st, v).frame}], 4))
    /\ UNCHANGED <<spaces, cr3>>
unmap_DropsPd(space, v) ==
    /\ Running
    /\ \E st \in {SplitVirtualAndMap(space, v, FALSE, TRUE, <<>>)} :
         Apply(IF st.status # "ok" THEN Halt(st)
               ELSE IF Pde(st, v).large THEN st
               ELSE UnmapFrom([st EXCEPT !.table[FrameAt(st, st.at[2])][v.pdpte] = Absent], 3))
    /\ UNCHANGED <<spaces, cr3>>
unmap(space, v) ==
    /\ Running
    /\ \E st \in {SplitVirtualAndMap(space, v, FALSE, TRUE, <<>>)} :
         Apply(IF st.status # "ok" THEN Halt(st)
               ELSE IF Pde(st, v).large THEN st
               ELSE UnmapFrom(SetPde(st, v, Absent), 3))
    /\ UNCHANGED <<spaces, cr3>>

(* getMappedAddr(): what it returns, the frame or 0, and what it leaves. *)
MappedAddr_SmallOnly(space, v) ==
    LET st == SplitVirtualAndMap(space, v, FALSE, TRUE, <<>>) IN
    IF st.status # "ok" \/ Pde(st, v).large THEN 0
    ELSE st.table[FrameAt(st, st.at[4])][v.pte].frame
MappedAddr(space, v) ==
    LET st == SplitVirtualAndMap(space, v, FALSE, TRUE, <<>>) IN
    IF st.status # "ok" THEN 0
    ELSE IF Pde(st, v).large THEN Pde(st, v).frame
    ELSE st.table[FrameAt(st, st.at[4])][v.pte].frame

getMappedAddr(space, v) ==
    /\ Running
    /\ \E st \in {SplitVirtualAndMap(space, v, FALSE, TRUE, <<>>)} :
         Apply(IF st.status # "ok" THEN st ELSE UnmapFrom(st, Len(st.at)))
    /\ UNCHANGED <<spaces, cr3>>

activateVSpace(space) ==
    /\ Running /\ cr3 # space
    /\ cr3' = space
    /\ UNCHANGED <<tempMappings, table, used, spaces, halted>>

(* newVSpace(): the entry of the kernel is stored through the physical
   address of the new structure, which only the first 4M of the boot
   address space can take. *)
KernelEntry_Missing(st) == st
KernelEntry_WholeBootSpace(st) == [st EXCEPT !.table[st.new] = st.table[PgPml4]]
KernelEntry(st) ==
    [st EXCEPT !.table[st.new][KernelIdx] = Pointer(PgPdptHigh, FALSE)]

newVSpace(order) ==
    /\ Running /\ Cardinality(spaces) < MaxSpaces
    /\ \E st \in {AllocatePStructAny(State, order)} :
         LET ok == st.status = "ok" /\ cr3 = PgPml4 /\ st.new < IdentityFrames
         IN  /\ Apply(IF ok THEN KernelEntry(st) ELSE Halt(st))
             /\ spaces' = IF ok THEN spaces \cup {st.new} ELSE spaces
    /\ UNCHANGED cr3

(* deleteVSpace(): the entries of the pml4 are followed with their flag bits
   still on, so that every structure below is read a few bytes off, where no
   entry of a structure below 16M looks present; nothing below the pdpt is
   freed, and the temporary mapping of the pdpt is not released. *)
FreePdpt(st, e) ==
    IF st.status = "ok" /\ e.present /\ e.frame # PgPdptHigh
    THEN [PstructMap(st, e.frame) EXCEPT !.used = @ \ {e.frame}] ELSE st

FreePdpts(space) ==
    LET st[i \in 0..KernelIdx] ==
            IF i = 0 THEN PstructMap(State, space)
            ELSE IF i - 1 \in Idx THEN FreePdpt(st[i - 1], table[space][i - 1])
            ELSE st[i - 1]
    IN  st[KernelIdx]

deleteVSpace(space) ==
    /\ Running /\ space # cr3 /\ space # PgPml4
    /\ \E st \in {FreePdpts(space)} :
         /\ Apply(IF st.status # "ok" THEN st
                  ELSE PstructUnmap([st EXCEPT !.used = @ \ {space}], st.at[1]))
         /\ spaces' = IF st.status # "ok" THEN spaces ELSE spaces \ {space}
    /\ UNCHANGED cr3

Abort == halted /\ UNCHANGED vars

Next ==
    \/ \E s \in spaces, v \in Virt, f \in DataFrames, l \in BOOLEAN, o \in AllocOrders :
            map(s, v, f, l, o)
    \/ \E s \in spaces, v \in Virt : unmap(s, v) \/ getMappedAddr(s, v)
    \/ \E s \in spaces : activateVSpace(s) \/ deleteVSpace(s)
    \/ \E o \in AllocOrders : newVSpace(o)
    \/ Abort

Spec == Init /\ [][Next]_vars
-----------------------------------------------------------------------------
Entry == [frame : TableFrames \cup DataFrames \cup {0}, present : BOOLEAN, large : BOOLEAN]

TypeOK ==
    /\ tempMappings \in [Slot -> {Region(f) : f \in TableFrames \cup DataFrames} \cup {Unused}]
    /\ table \in [TableFrames -> [Idx -> Entry]]
    /\ used \subseteq Pool
    /\ spaces \subseteq TableFrames /\ cr3 \in spaces
    /\ halted \in BOOLEAN

(* The translation the processor does: the frame v is mapped to, or 0. *)
Resolve(t, s, v) ==
    LET e1 == t[s][v.pml4e]
        e2 == t[e1.frame][v.pdpte]
        e3 == t[e2.frame][v.pde]
        e4 == t[e3.frame][v.pte]
    IN  IF ~e1.present \/ ~e2.present \/ ~e3.present THEN 0
        ELSE IF e3.large THEN e3.frame
        ELSE IF e4.present THEN e4.frame ELSE 0

(* The entries of a space that point to structures, as <<holder, index>>. *)
Below(fs) == {e \in fs \X Idx : table[e[1]][e[2]].present /\ ~table[e[1]][e[2]].large}
Targets(es) == {table[e[1]][e[2]].frame : e \in es}

PdptRefs(s) == Below({s})
PdRefs(s) == Below(Targets(PdptRefs(s)))
PtRefs(s) == Below(Targets(PdRefs(s)))
Refs(s) == PdptRefs(s) \cup PdRefs(s) \cup PtRefs(s)

(* VirtualMemory.cc 94-121, 343-377: no structure of an existing address space
   is free memory, whatever has been unmapped and deleted before. *)
LiveTablesAllocated ==
    /\ TypeOK
    /\ ~halted => \A s \in spaces :
        (Targets(Refs(s)) \cup {s}) \cap Pool \subseteq used

(* VirtualMemory.cc 330-341: what is mapped in the kernel's half is mapped the
   same in every address space, also what was mapped after it was created. *)
KernelMappedEverywhere ==
    ~halted => \A s \in spaces, v \in Virt :
        v.pml4e = KernelIdx => Resolve(table, s, v) = Resolve(table, PgPml4, v)

(* VirtualMemory.cc 143-211, 330-377: apart from the kernel's half two
   structures never share a structure below them, within an address space or
   across two. *)
StructuresApart ==
    ~halted => \A s, r \in spaces : \A e \in Refs(s), d \in Refs(r) :
        e # d /\ table[e[1]][e[2]].frame = table[d[1]][d[2]].frame
            => table[e[1]][e[2]].frame = PgPdptHigh

SamePage(v, w, large) ==
    /\ v.pml4e = w.pml4e /\ v.pdpte = w.pdpte /\ v.pde = w.pde
    /\ large \/ v.pte = w.pte

(* VirtualMemory.cc 215-258: map() replaces no mapping, makes the one it was
   asked for and changes no other page of this or another address space. *)
MapExact ==
    [][table' # table /\ ~halted' =>
        \A s \in spaces, v \in Virt, f \in DataFrames, l \in BOOLEAN, o \in AllocOrders :
            map(s, v, f, l, o) =>
                /\ Resolve(table, s, v) = 0
                /\ Resolve(table', s, v) = f
                /\ \A r \in spaces, w \in Virt :
                      (r # s /\ w.pml4e # KernelIdx) \/ ~SamePage(v, w, l)
                          => Resolve(table', r, w) = Resolve(table, r, w)]_vars

(* VirtualMemory.h:44 "the mapped physical address, or 0 if not mapped":
   getMappedAddr() agrees with what the processor does, as long as there are
   temporary mappings left to look with. *)
GetAgrees ==
    ~halted => \A s \in spaces, v \in Virt :
        SplitVirtualAndMap(s, v, FALSE, TRUE, <<>>).status # "halt"
            => MappedAddr(s, v) = Resolve(table, s, v)

(* VirtualMemory.cc 41-68: the leftovers of earlier walks never map a region
   a second time, so that what the slots are lost to is bounded by the regions
   structures lie in, not by the number of calls. *)
RegionsMappedOnce ==
    \A i, j \in Slot : i # j /\ tempMappings[i] = tempMappings[j] => tempMappings[i] = Unused

(* VirtualMemory.cc 260-290: unmap() changes nothing outside the 2M of the
   address, there or in another address space (the kernel's half is the same
   in all of them). *)
UnmapLocal ==
    [][table' # table /\ ~halted' => \A s \in spaces, v \in Virt :
        unmap(s, v) => \A r \in spaces, w \in Virt :
            (r # s /\ w.pml4e # KernelIdx) \/ ~SamePage(v, w, TRUE)
                => Resolve(table', r, w) = Resolve(table, r, w)]_vars

(* VirtualMemory.h:29 "unmaps a virtual address, freeing it for subsequent
   map() calls", with page sizes "automatically detected". *)
UnmapFrees ==
    [][~halted' => \A s \in spaces, v \in Virt :
        unmap(s, v) => Resolve(table', s, v) = 0]_vars
=============================================================================
