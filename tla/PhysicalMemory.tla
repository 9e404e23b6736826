--------------------------- MODULE PhysicalMemory ---------------------------
(***************************************************************************)
(* The frame allocator, core/tachyon.memory/PhysicalMemory.cc, together    *)
(* with the part of boot() (core/tachyon.boot/Entry.cc) and of             *)
(* LocalApic::init() that fills it.  spBitmap is the set of the indices    *)
(* whose bit is 1 (frame in use or not memory).  An address is a number of *)
(* bytes, a frame is PAGE_SIZE_DEFAULT bytes.                              *)
(*                                                                         *)
(* The kernel runs on one processor with interrupts off, so a call of      *)
(* allocateAligned() that has started (search) is the only thing running   *)
(* until it returns.  Its loop is one step per iteration, which is what    *)
(* makes the question whether it returns at all visible.                   *)
(***************************************************************************)
EXTENDS BitMapOps, Sequences

CONSTANTS
    PAGE_SIZE_DEFAULT,
    WORD,           \* 2^w for the unsigned length of setRegion()
    Owner,          \* users of frames: the heap zones, paging structures, stacks
    Lengths,        \* lengths asked for, in bytes
    Aligns,         \* alignments asked for, in bytes, powers of two
    FixedAddrs,     \* addresses asked for with allocateFixed()
    MemoryMaps,     \* memory maps the boot loader may pass
    LowEnd,         \* 0x100000
    CoreStart,      \* CORE_LMA_START
    CoreEbss,       \* _core_lma_ebss
    ApicBase        \* LocalApic::getPhysicalBase()

Range == [start : Nat, end : Nat, available : BOOLEAN]

ASSUME PageAssumption ==
    /\ PAGE_SIZE_DEFAULT \in Nat \ {0}
    /\ WORD \in Nat \ {0}
    /\ Lengths \subseteq Nat \ {0}
    /\ Aligns \subseteq Nat \ {0}
    /\ FixedAddrs \subseteq Nat
    /\ \A m \in MemoryMaps : m \in Seq(Range)

(* Addresses have the width of that length, which counts more frames than the
   bitmap has. *)
ASSUME WidthAssumption ==
    /\ WORD % PAGE_SIZE_DEFAULT = 0
    /\ WORD \div PAGE_SIZE_DEFAULT > Size + 1
    /\ \A m \in MemoryMaps : \A i \in DOMAIN m : m[i].start < WORD /\ m[i].end < WORD

ASSUME PowerOfTwoAssumption == \A a \in Aligns : \E i \in 0..30 : a = 2^i

(* The kernel's own regions: page aligned where boot() does not round. *)
ASSUME LayoutAssumption ==
    /\ LowEnd \in Nat /\ LowEnd % PAGE_SIZE_DEFAULT = 0
    /\ LowEnd >= 2 * PAGE_SIZE_DEFAULT /\ LowEnd < WORD
    /\ CoreStart \in Nat /\ CoreStart % PAGE_SIZE_DEFAULT = 0
    /\ CoreStart >= PAGE_SIZE_DEFAULT
    /\ CoreEbss \in Nat /\ CoreEbss > CoreStart
    /\ CoreEbss + PAGE_SIZE_DEFAULT < WORD
    /\ ApicBase \in Nat

VARIABLES
    spBitmap,
    phase,          \* how far boot() has come
    halted,         \* KFATAL or a failed KASSERTM: abort() never returns
    mmap, pos,      \* the boot loader's memory map and the range boot() is at
    search,         \* the running call of allocateAligned(), if any
    hold,           \* history: the extent each owner has been given
    usable          \* history: the frames that were free when boot() was done

vars == <<spBitmap, phase, halted, mmap, pos, search, hold, usable>>

NoExtent == [index |-> 0, count |-> 0]

NoSearch == [running |-> FALSE]

Extent == [index : Nat, count : Nat]

Search == [running : {TRUE}, owner : Owner, length : Lengths,
           align : Aligns, index : Nat]

FramesOf(e) == e.index..(e.index + e.count - 1)

Held == UNION {FramesOf(hold[o]) : o \in Owner}
-----------------------------------------------------------------------------
SCALE_TO_INDEX(x) == x \div PAGE_SIZE_DEFAULT

SCALE_TO_PHYS(i) == i * PAGE_SIZE_DEFAULT

PAGE_COUNT(x) ==
    (x \div PAGE_SIZE_DEFAULT) + (IF x % PAGE_SIZE_DEFAULT # 0 THEN 1 ELSE 0)

ALIGN_DOWN(x, a) == (x \div a) * a

(* Adds a, not a - 1: an aligned x moves up as well. *)
ALIGN_UP_Forgets(x, a) == x + PAGE_SIZE_DEFAULT
ALIGN_UP_RoundsDown(x, a) == ALIGN_DOWN(x, a)
ALIGN_UP(x, a) == ALIGN_DOWN(x + a, a)

Init ==
    /\ spBitmap = AllBits(TRUE)
    /\ phase = "ranges"
    /\ halted = FALSE
    /\ mmap \in MemoryMaps
    /\ pos = 1
    /\ search = NoSearch
    /\ hold = [o \in Owner |-> NoExtent]
    /\ usable = {}
-----------------------------------------------------------------------------
(***************************************************************************)
(* setRegion(start, end, value).  The loop subtracts a page before it      *)
(* tests, so it runs for one page less than the region has, and for        *)
(* 2^w / page size - 1 pages when the region is empty: then it runs into   *)
(* CHECK_INDEX.                                                            *)
(***************************************************************************)
RegionPages(start, end) ==
    ((ALIGN_DOWN(end, PAGE_SIZE_DEFAULT) - start - PAGE_SIZE_DEFAULT) % WORD)
        \div PAGE_SIZE_DEFAULT

RegionFrames(start, end) ==
    Index \cap (SCALE_TO_INDEX(start)..
                (SCALE_TO_INDEX(start) + RegionPages(start, end) - 1))

SetRegion(start, end, value) ==
    IF start % PAGE_SIZE_DEFAULT # 0
    THEN halted' = TRUE /\ UNCHANGED spBitmap
    ELSE /\ spBitmap' = SetBits(spBitmap, RegionFrames(start, end), value)
         /\ halted' = /\ RegionPages(start, end) # 0
                      /\ SCALE_TO_INDEX(start) + RegionPages(start, end) > Size

available(start, end) == SetRegion(start, end, FALSE)

reserve(start, end) == SetRegion(start, end, TRUE)

(* One turn of boot()'s loop over the memory map. *)
BootRange_AllRanges ==
    /\ ~halted /\ phase = "ranges" /\ pos \in DOMAIN mmap
    /\ available(mmap[pos].start, mmap[pos].end)
    /\ pos' = pos + 1
    /\ UNCHANGED <<phase, mmap, search, hold, usable>>
BootRange ==
    /\ ~halted /\ phase = "ranges" /\ pos \in DOMAIN mmap
    /\ IF mmap[pos].available
       THEN available(mmap[pos].start, mmap[pos].end)
       ELSE UNCHANGED <<spBitmap, halted>>
    /\ pos' = pos + 1
    /\ UNCHANGED <<phase, mmap, search, hold, usable>>

ReserveLow_Skipped ==
    /\ ~halted /\ phase = "ranges" /\ pos \notin DOMAIN mmap
    /\ phase' = "core"
    /\ UNCHANGED <<spBitmap, halted, mmap, pos, search, hold, usable>>
ReserveLow ==
    /\ ~halted /\ phase = "ranges" /\ pos \notin DOMAIN mmap
    /\ reserve(0, LowEnd)
    /\ phase' = "core"
    /\ UNCHANGED <<mmap, pos, search, hold, usable>>

(* The length that is added to CORE_LMA_START is itself counted from 0, so
   the region goes CORE_LMA_START bytes further than the image. *)
ReserveCore_ToEbss ==
    /\ ~halted /\ phase = "core"
    /\ reserve(CoreStart,
               ALIGN_DOWN(CoreEbss + PAGE_SIZE_DEFAULT, PAGE_SIZE_DEFAULT))
    /\ phase' = "apic"
    /\ UNCHANGED <<mmap, pos, search, hold, usable>>
ReserveCore ==
    /\ ~halted /\ phase = "core"
    /\ reserve(CoreStart,
               CoreStart + ALIGN_DOWN(CoreEbss + PAGE_SIZE_DEFAULT, PAGE_SIZE_DEFAULT))
    /\ phase' = "apic"
    /\ UNCHANGED <<mmap, pos, search, hold, usable>>

(* LocalApic::init(); what it maps is in module VirtualMemory. *)
ReserveApic ==
    /\ ~halted /\ phase = "apic"
    /\ reserve(ApicBase, ApicBase + PAGE_SIZE_DEFAULT)
    /\ phase' = "run"
    /\ usable' = Index \ spBitmap'
    /\ UNCHANGED <<mmap, pos, search, hold>>
-----------------------------------------------------------------------------
(* A call can start: boot() is done with the bitmap, nothing else runs. *)
Idle == ~halted /\ phase = "run" /\ search = NoSearch

(* The test of tryAllocate(); its stores follow where it is used. *)
Fits_FirstFrameOnly(index, count) ==
    /\ index + count <= Size
    /\ index \notin spBitmap
Fits(index, count) ==
    /\ index + count <= Size
    /\ FramesOf([index |-> index, count |-> count]) \cap spBitmap = {}

Grant(o, index, count) ==
    /\ spBitmap' = SetBits(spBitmap,
                           FramesOf([index |-> index, count |-> count]), TRUE)
    /\ hold' = [hold EXCEPT ![o] = [index |-> index, count |-> count]]

(* The aligned index above the first free one from start on; getIndexOf()'s
   -1 becomes address -PAGE_SIZE_DEFAULT, which is rounded to index 0. *)
NextCandidate(start, align) ==
    SCALE_TO_INDEX(ALIGN_UP(SCALE_TO_PHYS(GetIndexOf(spBitmap, FALSE, start)), align))

AlignAsserted(align) ==
    /\ align >= PAGE_SIZE_DEFAULT
    /\ align % PAGE_SIZE_DEFAULT = 0

allocateAligned(o, length, align) ==
    /\ Idle /\ hold[o] = NoExtent
    /\ AlignAsserted(align)
    /\ search' = [running |-> TRUE, owner |-> o, length |-> length, align |-> align,
                  index |-> NextCandidate(SCALE_TO_INDEX(align), align)]
    /\ UNCHANGED <<spBitmap, phase, halted, mmap, pos, hold, usable>>

allocateAlignedAsserts(align) ==
    /\ Idle
    /\ ~AlignAsserted(align)
    /\ halted' = TRUE
    /\ UNCHANGED <<spBitmap, phase, mmap, pos, search, hold, usable>>

(* The condition of the search loop; the index is never -1. *)
InLoop == search.running /\ search.index <= Size

SearchGrant ==
    /\ InLoop /\ Fits(search.index, PAGE_COUNT(search.length))
    /\ Grant(search.owner, search.index, PAGE_COUNT(search.length))
    /\ search' = NoSearch
    /\ UNCHANGED <<phase, halted, mmap, pos, usable>>

SearchNext_FromAlign ==
    /\ InLoop /\ ~Fits(search.index, PAGE_COUNT(search.length))
    /\ search' = [search EXCEPT
                    !.index = NextCandidate(SCALE_TO_INDEX(search.align), search.align)]
    /\ UNCHANGED <<spBitmap, phase, halted, mmap, pos, hold, usable>>
SearchNext ==
    /\ InLoop /\ ~Fits(search.index, PAGE_COUNT(search.length))
    /\ search' = [search EXCEPT !.index = NextCandidate(search.index + 1, search.align)]
    /\ UNCHANGED <<spBitmap, phase, halted, mmap, pos, hold, usable>>

(* KWARN and return 0 *)
SearchFails ==
    /\ search.running /\ ~InLoop
    /\ search' = NoSearch
    /\ UNCHANGED <<spBitmap, phase, halted, mmap, pos, hold, usable>>

SearchStep == SearchGrant \/ SearchNext \/ SearchFails

allocateFixed(o, phys, length) ==
    /\ Idle /\ hold[o] = NoExtent
    /\ IF phys % PAGE_SIZE_DEFAULT # 0
       THEN halted' = TRUE /\ UNCHANGED <<spBitmap, hold>>
       ELSE /\ IF Fits(SCALE_TO_INDEX(phys), PAGE_COUNT(length))
               THEN Grant(o, SCALE_TO_INDEX(phys), PAGE_COUNT(length))
               ELSE UNCHANGED <<spBitmap, hold>>
            /\ UNCHANGED halted
    /\ UNCHANGED <<phase, mmap, pos, search, usable>>

free_KeepsLast(o) ==
    /\ Idle /\ hold[o] # NoExtent
    /\ spBitmap' = SetBits(spBitmap, FramesOf([hold[o] EXCEPT !.count = @ - 1]), FALSE)
    /\ hold' = [hold EXCEPT ![o] = NoExtent]
    /\ UNCHANGED <<phase, halted, mmap, pos, search, usable>>
free(o) ==
    /\ Idle /\ hold[o] # NoExtent
    /\ spBitmap' = SetBits(spBitmap, FramesOf(hold[o]), FALSE)
    /\ hold' = [hold EXCEPT ![o] = NoExtent]
    /\ UNCHANGED <<phase, halted, mmap, pos, search, usable>>

(* abort(): cli and a hlt loop *)
Abort == halted /\ UNCHANGED vars

BootStep == BootRange \/ ReserveLow \/ ReserveCore \/ ReserveApic

Call ==
    \/ \E o \in Owner, l \in Lengths, a \in Aligns : allocateAligned(o, l, a)
    \/ \E a \in Aligns : allocateAlignedAsserts(a)
    \/ \E o \in Owner, p \in FixedAddrs, l \in Lengths : allocateFixed(o, p, l)
    \/ \E o \in Owner : free(o)

Next == BootStep \/ Call \/ SearchStep \/ Abort

(* A loop that has been entered keeps running: nothing else can run. *)
Spec == Init /\ [][Next]_vars /\ WF_vars(SearchStep)
-----------------------------------------------------------------------------
TypeOK ==
    /\ spBitmap \subseteq Index
    /\ phase \in {"ranges", "core", "apic", "run"}
    /\ halted \in BOOLEAN
    /\ mmap \in MemoryMaps
    /\ pos \in Nat \ {0}
    /\ search \in Search \cup {NoSearch}
    /\ hold \in [Owner -> Extent]
    /\ usable \subseteq Index

(* PhysicalMemory.cc 48-68 and 105-111: once booted, the bits that are 1 are
   exactly the frames boot() did not leave free and the frames now granted:
   no sequence of calls loses a frame or frees one twice. *)
FramesAccounted ==
    phase = "run" => spBitmap = (Index \ usable) \cup Held

(* PhysicalMemory.cc 48-68: a frame never has two owners. *)
GrantsDisjoint ==
    \A o, p \in Owner : o # p => FramesOf(hold[o]) \cap FramesOf(hold[p]) = {}

KernelFrames == (CoreStart \div PAGE_SIZE_DEFAULT)..((CoreEbss - 1) \div PAGE_SIZE_DEFAULT)

Protected == {0} \cup (KernelFrames \cap Index)

(* Entry.cc 85-91: whatever the memory map says, no one is given a frame of
   the running kernel image, or frame 0, whose address callers of
   allocateAligned() take for a failure. *)
ProtectedNeverGranted == Held \cap Protected = {}

WholePages(r) ==
    {f \in Index : r.start <= SCALE_TO_PHYS(f) /\ SCALE_TO_PHYS(f + 1) <= r.end}

AvailablePages == UNION {WholePages(mmap[i]) : i \in {j \in DOMAIN mmap : mmap[j].available}}

(* PhysicalMemory.cc 24-37, Entry.cc 79-81: nobody is given a frame that is
   not, as a whole, memory the boot loader reported as available, even when a
   range starts or ends inside a page or is shorter than one. *)
GrantsAreRam == Held \subseteq AvailablePages

(* What makes the three above inductive: the bits boot() sets stay set until
   it is done, grants come out of what it left free, and a running search is
   for an owner that has nothing. *)
BootInv ==
    /\ phase # "ranges" => 0 \in spBitmap
    /\ phase \in {"apic", "run"} => Protected \subseteq spBitmap
    /\ usable \cap Protected = {}
    /\ phase # "run" => search = NoSearch /\ \A o \in Owner : hold[o] = NoExtent

HoldInv ==
    /\ \A o \in Owner : FramesOf(hold[o]) \subseteq usable
    /\ \A o \in Owner : hold[o] = NoExtent \/ hold[o].count > 0
    /\ search # NoSearch =>
         /\ ~halted
         /\ hold[search.owner] = NoExtent
         /\ AlignAsserted(search.align)

IInv == TypeOK /\ FramesAccounted /\ GrantsDisjoint /\ BootInv /\ HoldInv

AlignedGrant ==
    search.running /\ hold' # hold =>
        LET e == hold'[search.owner] IN
        /\ SCALE_TO_PHYS(e.index) % search.align = 0
        /\ SCALE_TO_PHYS(e.count) >= search.length

(* PhysicalMemory.cc 70-92: a successful search hands out what was asked for:
   enough whole frames, starting at a multiple of the alignment (a large page
   is mapped by its address without the low bits). *)
GrantsAligned == [][AlignedGrant]_vars

FA == INSTANCE FrameAllocator WITH
        Frame <- Index,
        booted <- phase = "run",
        pool <- Index \ spBitmap,
        hold <- [o \in Owner |-> FramesOf(hold[o])]

(* PhysicalMemory implements the frame allocator its users rely on. *)
ImplementsFrameAllocator == FA!Spec

(* A free aligned run at k that the scan can stop at: a frame just below it is
   free and in the part that is scanned. *)
Reachable(k, count, a) ==
    /\ Fits(k, count)
    /\ \/ \E j \in (k - a + 1)..(k - 1) : j \in 1..LastSearched /\ j \notin spBitmap
       \/ k - a \in 1..LastSearched /\ Fits(k - a, count)

Findable ==
    LET a == SCALE_TO_INDEX(search.align)
    IN  /\ search.running
        /\ \E k \in Index : k % a = 0 /\ Reachable(k, PAGE_COUNT(search.length), a)

(* PhysicalMemory.cc 81-88: the search ends whenever there is a free aligned
   run with a free frame just below it in the scanned part of the bitmap; the
   restart at index 0 means that no such run is missed, wherever the search
   began. *)
FindableEnds == Findable ~> ~search.running

(* PhysicalMemory.cc:90 "allocation failed" and x86_64/VirtualMemory.cc:97
   "out of physical memory": a call that cannot be served returns 0. *)
SearchEnds == search.running ~> ~search.running
=============================================================================
