------------------------------ MODULE PageZones ------------------------------
(***************************************************************************)
(* Who may put pages where in the kernel's half of the address space:      *)
(* VirtualZoneManager hands out zones of it, a BreakPageAllocator fills    *)
(* one zone with pages from the bottom up.  Module PhysicalMemory (frames) *)
(* and module VirtualMemory (page tables) are taken here for what those    *)
(* two classes see of them: a set of free frames, one frame standing for   *)
(* the 4K or the 2M asked for, and per region of 2M whether the page       *)
(* directory has nothing, a page table or a large page there.              *)
(* Addresses are numbers of small pages.                                   *)
(***************************************************************************)
EXTENDS Integers

CONSTANTS
    MAX_VZONES,
    Extents,        \* the <<start, end>> the callers of define() ask for
    RegionPages,    \* small pages in a large one
    NumFrames,      \* frames PhysicalMemory has
    Device,         \* the frame of the local APIC, not one of them
    MaxIncrease     \* bound on the pages of one increase() or decrease()

ASSUME ZonesAssumption ==
    /\ MAX_VZONES \in Nat \ {0} /\ RegionPages \in Nat \ {0}
    /\ NumFrames \in Nat /\ MaxIncrease \in Nat /\ Device \in Nat /\ Device > NumFrames
    /\ \A e \in Extents : e \in Nat \X Nat /\ 0 < e[1] /\ e[1] < e[2]

VARIABLES
    zones,          \* the array of VirtualZone
    allocators,     \* zone -> its BreakPageAllocator, or None
    pd,             \* region -> "none", "table" or "large"
    mapped,         \* page -> frame, or NotMapped
    free,           \* the frames PhysicalMemory has free
    halted,
    shrunk          \* history: decrease() has been called

vars == <<zones, allocators, pd, mapped, free, halted, shrunk>>

Zone == 1..MAX_VZONES
Regions == UNION {0..((e[2] - 1) \div RegionPages) : e \in Extents}
PagesOf(r) == (r * RegionPages)..(r * RegionPages + RegionPages - 1)
Pages == UNION {PagesOf(r) : r \in Regions}
NotMapped == -1
None == [brk |-> 0, large |-> FALSE]

Init ==
    /\ zones = [z \in Zone |-> [start |-> 0, end |-> 0, use |-> FALSE]]
    /\ allocators = [z \in Zone |-> None]
    /\ pd = [r \in Regions |-> "none"]
    /\ mapped = [p \in Pages |-> NotMapped]
    /\ free = 1..NumFrames
    /\ halted = FALSE
    /\ shrunk = FALSE
-----------------------------------------------------------------------------
Unset(z) == zones[z].start = 0 /\ zones[z].end = 0

(* The test of define(): an edge of the old zone lies in the new one. *)
Collides_OnEnd(z, start, end) == zones[z].end > start /\ zones[z].end <= end
Collides(z, start, end) ==
    \/ zones[z].start >= start /\ zones[z].start < end
    \/ zones[z].end > start /\ zones[z].end <= end

(* The loop leaves the last unset zone in freeZone. *)
FreeZone == CHOOSE z \in Zone : Unset(z) /\ \A y \in Zone : Unset(y) => y <= z

Definable(start, end) ==
    /\ \E z \in Zone : Unset(z)
    /\ \A z \in Zone : Unset(z) \/ ~Collides(z, start, end)

define(start, end) ==
    /\ ~halted /\ Definable(start, end)
    /\ zones' = [zones EXCEPT ![FreeZone].start = start, ![FreeZone].end = end]
    /\ UNCHANGED <<allocators, pd, mapped, free, halted, shrunk>>

(* remove(): the flag use is left as it is, and so are the pages.  The owner
   of the zone gives up the allocator it had there. *)
remove(z) ==
    /\ ~halted /\ ~Unset(z)
    /\ zones' = [zones EXCEPT ![z].start = 0, ![z].end = 0]
    /\ allocators' = [allocators EXCEPT ![z] = None]
    /\ UNCHANGED <<pd, mapped, free, halted, shrunk>>

Aligned(z) == zones[z].start % RegionPages = 0 /\ zones[z].end % RegionPages = 0

(* The constructor of BreakPageAllocator on a zone its caller got; large pages
   are asked for in zones that consist of them. *)
NewAllocator_NotMarked(z, large) ==
    /\ ~halted /\ ~Unset(z) /\ (large => Aligned(z))
    /\ IF zones[z].use
       THEN halted' = TRUE /\ UNCHANGED allocators
       ELSE /\ allocators' = [allocators EXCEPT ![z] = [brk |-> zones[z].start, large |-> large]]
            /\ UNCHANGED halted
    /\ UNCHANGED <<zones, pd, mapped, free, shrunk>>
NewAllocator(z, large) ==
    /\ ~halted /\ ~Unset(z) /\ (large => Aligned(z))
    /\ IF zones[z].use
       THEN halted' = TRUE /\ UNCHANGED <<zones, allocators>>
       ELSE /\ allocators' = [allocators EXCEPT ![z] = [brk |-> zones[z].start, large |-> large]]
            /\ zones' = [zones EXCEPT ![z].use = TRUE]
            /\ UNCHANGED halted
    /\ UNCHANGED <<pd, mapped, free, shrunk>>
-----------------------------------------------------------------------------
(* map() as its callers see it: what is there already is KFATAL. *)
Present_OtherSizeOnly(st, p, large) ==
    st.pd[p \div RegionPages] = (IF large THEN "table" ELSE "large")
Present(st, p, large) ==
    \/ large /\ st.pd[p \div RegionPages] # "none"
    \/ ~large /\ (st.pd[p \div RegionPages] = "large" \/ st.mapped[p] # NotMapped)

Map(st, p, f, large) ==
    LET r  == p \div RegionPages
        ps == IF large THEN PagesOf(r) ELSE {p}
    IN  IF Present(st, p, large) THEN [st EXCEPT !.halted = TRUE]
        ELSE [st EXCEPT !.pd[r] = IF large THEN "large" ELSE "table",
                        !.mapped = [q \in Pages |-> IF q \in ps THEN f ELSE @[q]]]

(* unmap() as its callers see it: nothing there is KFATAL, a large page is
   left alone, and of a small one the whole page table is dropped. *)
Unmap(st, p) ==
    LET r == p \div RegionPages
    IN  CASE st.pd[r] = "none"  -> [st EXCEPT !.halted = TRUE]
          [] st.pd[r] = "large" -> st
          [] st.pd[r] = "table" -> [st EXCEPT !.pd[r] = "none",
                !.mapped = [q \in Pages |-> IF q \in PagesOf(r) THEN NotMapped ELSE @[q]]]

PageSize(large) == IF large THEN RegionPages ELSE 1

(* One round of the loop of increase(); a search for memory that finds none
   never ends, so the kernel stops there too. *)
Smallest(S) == CHOOSE f \in S : \A g \in S : f <= g

GrowPage(st) ==
    IF st.halted THEN st
    ELSE IF st.free = {} THEN [st EXCEPT !.halted = TRUE]
    ELSE LET f  == Smallest(st.free)
             s1 == Map([st EXCEPT !.free = @ \ {f}], st.brk, f, st.large)
         IN  IF s1.halted THEN s1 ELSE [s1 EXCEPT !.brk = @ + PageSize(st.large)]

(* One round of the loop of decrease(): the frame is looked up, the page is
   unmapped and the frame is freed, also when the lookup gave 0. *)
ShrinkPage(st) ==
    LET p  == st.brk - PageSize(st.large)
        f  == IF st.mapped[p] = NotMapped THEN 0 ELSE st.mapped[p]
        s1 == Unmap(st, p)
    IN  IF st.halted THEN st
        ELSE IF s1.halted THEN s1
        ELSE [s1 EXCEPT !.free = @ \cup {f}, !.brk = p]

Times(n, Op(_), st) ==
    LET f[i \in 0..n] == IF i = 0 THEN st ELSE Op(f[i - 1]) IN f[n]

State(z) == [pd |-> pd, mapped |-> mapped, free |-> free, halted |-> FALSE,
             brk |-> allocators[z].brk, large |-> allocators[z].large]

Apply(z, st) ==
    /\ pd' = st.pd
    /\ mapped' = st.mapped
    /\ free' = st.free
    /\ halted' = st.halted
    /\ allocators' = [allocators EXCEPT ![z].brk = st.brk]
    /\ UNCHANGED zones

(* increase(): past the end of the zone it returns 0 and does nothing. *)
Room(z, pages) ==
    allocators[z].brk + pages * PageSize(allocators[z].large) <= zones[z].end

increase(z, pages) ==
    /\ ~halted /\ allocators[z] # None
    /\ Room(z, pages)
    /\ Apply(z, Times(pages, GrowPage, State(z)))
    /\ UNCHANGED shrunk

(* decrease(): asked for more than there is, it takes all there is.  Only the
   error path of increase() calls it, and map() stops the kernel before that
   path is taken; shrunk tells the behaviours with a call of it apart. *)
Shrinkable_Unclamped(z, pages) == pages
Shrinkable(z, pages) ==
    LET a == allocators[z] IN
    IF a.brk - pages * PageSize(a.large) < zones[z].start
    THEN (a.brk - zones[z].start) \div PageSize(a.large) ELSE pages

decrease(z, pages) ==
    /\ ~halted /\ allocators[z] # None
    /\ Apply(z, Times(Shrinkable(z, pages), ShrinkPage, State(z)))
    /\ shrunk' = TRUE

(* LocalApic::init(): a zone that is marked used and holds one device page.
   It runs at boot, where nobody else has asked for its range. *)
mapDevice(start, end) ==
    LET st == Map([pd |-> pd, mapped |-> mapped, halted |-> FALSE], start, Device, FALSE)
    IN  /\ ~halted /\ Definable(start, end)
        /\ zones' = [zones EXCEPT ![FreeZone] = [start |-> start, end |-> end, use |-> TRUE]]
        /\ pd' = st.pd /\ mapped' = st.mapped /\ halted' = st.halted
        /\ UNCHANGED <<allocators, free, shrunk>>

Abort == halted /\ UNCHANGED vars

Next ==
    \/ \E e \in Extents : define(e[1], e[2]) \/ mapDevice(e[1], e[2])
    \/ \E z \in Zone : remove(z) \/ \E l \in BOOLEAN : NewAllocator(z, l)
    \/ \E z \in Zone, n \in 1..MaxIncrease : increase(z, n) \/ decrease(z, n)
    \/ Abort

Spec == Init /\ [][Next]_vars
-----------------------------------------------------------------------------
TypeOK ==
    /\ zones \in [Zone -> [start : Nat, end : Nat, use : BOOLEAN]]
    /\ allocators \in [Zone -> [brk : Nat, large : BOOLEAN]]
    /\ \A z \in Zone : allocators[z] # None => ~Unset(z) /\ zones[z].use
    /\ pd \in [Regions -> {"none", "table", "large"}]
    /\ mapped \in [Pages -> 0..NumFrames \cup {Device, NotMapped}]
    /\ free \subseteq 0..NumFrames \cup {Device}
    /\ halted \in BOOLEAN /\ shrunk \in BOOLEAN

Extent(z) == {p \in Pages : zones[z].start <= p /\ p < zones[z].end}
Filled(z) == IF allocators[z] = None THEN {}
             ELSE {p \in Pages : zones[z].start <= p /\ p < allocators[z].brk}

(* VirtualZoneManager.cc 12-34: two zones share pages only when one of them
   lies strictly inside the other. *)
OverlapOnlyInside ==
    \A y, z \in Zone : y # z /\ Extent(y) \cap Extent(z) # {} =>
        \/ zones[y].start < zones[z].start /\ zones[z].end < zones[y].end
        \/ zones[z].start < zones[y].start /\ zones[y].end < zones[z].end

(* BreakPageAllocator.cc 8-29: what an allocator has filled is in its zone, is
   mapped, no two pages of that are on one frame or on a free frame, and even
   where zones overlap two allocators never fill the same page, as long as
   nothing is given back (unmap() keeps large pages and drops neighbours). *)
FilledIsOwn ==
    ~halted /\ ~shrunk => \A z \in Zone : \A p \in Filled(z) :
        /\ p \in Extent(z)
        /\ mapped[p] \in 1..NumFrames \ free
        /\ \A q \in Pages : mapped[q] = mapped[p] /\ q # p
              => allocators[z].large /\ q \div RegionPages = p \div RegionPages
        /\ \A y \in Zone \ {z} : p \notin Filled(y)

(* BreakPageAllocator.cc 31-49: decrease() leaves the break in the zone. *)
BreakInZone ==
    \A z \in Zone : allocators[z] # None =>
        zones[z].start <= allocators[z].brk /\ allocators[z].brk <= zones[z].end
=============================================================================
