------------------------------ MODULE CoreHeap ------------------------------
(***************************************************************************)
(* The kernel heap, core/tachyon.memory/CoreHeap.cc, on the zone its       *)
(* BreakPageAllocator grows (increase(1) only; module PageZones has the    *)
(* rest of that class).  Memory is a function from word addresses to       *)
(* words, one word being sizeof(uintptr_t) bytes.  Every word can be read  *)
(* as a block info: a size (the bits above the two flags, in words) and    *)
(* the flags BLOCK_PRESENT and BLOCK_FOOTER.  Blocks carry an info word    *)
(* before and after their data; the heap knows them only through these.    *)
(*                                                                         *)
(* allocate() is one step per turn of its loop: between two turns the      *)
(* block structure is what the next turn relies on.                        *)
(***************************************************************************)
EXTENDS Integers, FiniteSets

CONSTANTS
    Base,           \* alloc.getBase(), a word address
    ZoneEnd,        \* zone->getEnd()
    PageWords,      \* alloc.getPageSize() in words
    WordBytes,      \* sizeof(uintptr_t)
    Requests,       \* sizes asked for, in bytes
    DataWords,      \* words a user of the heap may store
    FreshMemories   \* what the frames of the zone may hold when mapped

Address == Base..(ZoneEnd - 1)

Word == [size : Nat, present : BOOLEAN, footer : BOOLEAN]

ASSUME HeapAssumption ==
    /\ Base \in Nat \ {0}
    /\ PageWords \in Nat /\ PageWords >= 2
    /\ ZoneEnd \in Nat /\ ZoneEnd >= Base + PageWords
    /\ WordBytes \in Nat \ {0}
    /\ Requests \subseteq Nat
    /\ DataWords \subseteq Word
    /\ FreshMemories \subseteq [Address -> Word]

VARIABLES
    mem,
    brk,            \* alloc.getTop()
    req,            \* the running call of allocate(), if any
    faulted,        \* a store beyond brk: the page fault handler never returns
    live,           \* history: the blocks callers have, [hdr, words]
    blocks          \* history: the addresses of the headers of all blocks

vars == <<mem, brk, req, faulted, live, blocks>>

NoReq == [running |-> FALSE]

Info(size, present, footer) == [size |-> size, present |-> present, footer |-> footer]

CHEAP_ALIGN_UP(bytes) == (bytes + WordBytes - 1) \div WordBytes

CHEAP_BLOCKSZ(size) == size + 2

CHEAP_FOOTER(m, h) == h + 1 + m[h].size

CHEAP_HEADER(m, f) == f - 1 - m[f].size

CHEAP_NEXT_BLOCK(m, h) == h + CHEAP_BLOCKSZ(m[h].size)

(* CHEAP_BLOCK_UPDATE(p, sz, f): header and footer *)
Update_HeaderOnly(m, h, size, present) == [m EXCEPT ![h] = Info(size, present, FALSE)]
Update(m, h, size, present) ==
    [m EXCEPT ![h] = Info(size, present, FALSE),
              ![h + 1 + size] = Info(size, present, TRUE)]

Init ==
    /\ mem \in FreshMemories
    /\ brk = Base
    /\ req = NoReq
    /\ faulted = FALSE
    /\ live = {}
    /\ blocks = {}
-----------------------------------------------------------------------------
(* BreakPageAllocator::increase(1): the new break, or the old one when the
   zone is used up (the return value 0 is not looked at by the heap). *)
Increase_NotToTheEnd(top) == IF top + PageWords >= ZoneEnd THEN top ELSE top + PageWords
Increase(top) == IF top + PageWords > ZoneEnd THEN top ELSE top + PageWords

(* CoreHeap::init(): one page, one free block, a header and no footer. *)
HeapInit ==
    /\ brk' = Increase(brk)
    /\ mem' = [mem EXCEPT ![Base] = Info(PageWords - 2, FALSE, FALSE)]
    /\ blocks' = {Base}

allocate(bytes) ==
    /\ ~req.running /\ ~faulted
    /\ IF brk = Base THEN HeapInit ELSE UNCHANGED <<mem, brk, blocks>>
    /\ req' = [running |-> TRUE, words |-> CHEAP_ALIGN_UP(bytes), ptr |-> Base]
    /\ UNCHANGED <<faulted, live>>

FreeAndLargeEnough_ForDataOnly(h, words) ==
    ~mem[h].present /\ mem[h].size >= words
FreeAndLargeEnough(h, words) ==
    ~mem[h].present /\ mem[h].size >= CHEAP_BLOCKSZ(words)

HasNext(h) == CHEAP_NEXT_BLOCK(mem, h) < brk

(* The block is split: a free block behind, possibly of size 0, and the
   block the caller gets. *)
AllocFound ==
    /\ req.running /\ ~faulted /\ FreeAndLargeEnough(req.ptr, req.words)
    /\ LET rest == req.ptr + CHEAP_BLOCKSZ(req.words)
           left == mem[req.ptr].size - CHEAP_BLOCKSZ(req.words)
       IN  /\ mem' = Update(Update(mem, rest, left, FALSE), req.ptr, req.words, TRUE)
           /\ blocks' = blocks \cup {rest}
    /\ live' = live \cup {[hdr |-> req.ptr, words |-> req.words]}
    /\ req' = NoReq
    /\ UNCHANGED <<brk, faulted>>

(* No next block: the last block is made one page longer and looked at again.
   When the zone is used up the footer lands beyond the break. *)
AllocGrow ==
    /\ req.running /\ ~faulted
    /\ ~FreeAndLargeEnough(req.ptr, req.words) /\ ~HasNext(req.ptr)
    /\ brk' = Increase(brk)
    /\ LET size == mem[req.ptr].size + PageWords IN
       IF brk' = brk
       THEN /\ mem' = [mem EXCEPT ![req.ptr] = Info(size, FALSE, FALSE)]
            /\ faulted' = TRUE
       ELSE /\ mem' = Update(mem, req.ptr, size, FALSE)
            /\ UNCHANGED faulted
    /\ UNCHANGED <<req, live, blocks>>

(* The loop condition ptr < top holds again after either of these turns, so
   the return 0 behind the loop is never reached. *)
AllocAdvance_Stays ==
    /\ req.running /\ ~faulted
    /\ ~FreeAndLargeEnough(req.ptr, req.words) /\ HasNext(req.ptr)
    /\ UNCHANGED vars
AllocAdvance ==
    /\ req.running /\ ~faulted
    /\ ~FreeAndLargeEnough(req.ptr, req.words) /\ HasNext(req.ptr)
    /\ req' = [req EXCEPT !.ptr = CHEAP_NEXT_BLOCK(mem, req.ptr)]
    /\ UNCHANGED <<mem, brk, faulted, live, blocks>>

AllocStep == AllocFound \/ AllocGrow \/ AllocAdvance
-----------------------------------------------------------------------------
(* free(): the block is merged with a free block before it, found through
   that block's footer, and with a free block behind it. *)
PrevIsFree(h) == h - 1 > Base /\ ~mem[h - 1].present

PrevHdr(h) == CHEAP_HEADER(mem, h - 1)

(* "corrupt block footer": nothing is done. *)
PrevIsCorrupt(h) == PrevIsFree(h) /\ PrevHdr(h) < Base

MergedHdr(h) == IF PrevIsFree(h) THEN PrevHdr(h) ELSE h

MergedBack(h) ==
    IF PrevIsFree(h)
    THEN Update(mem, PrevHdr(h), CHEAP_BLOCKSZ(mem[PrevHdr(h)].size) + mem[h].size, FALSE)
    ELSE Update(mem, h, mem[h].size, FALSE)

NextIsFree_NotChecked(m, h) == CHEAP_NEXT_BLOCK(m, h) < brk
NextIsFree(m, h) ==
    /\ CHEAP_NEXT_BLOCK(m, h) <= brk
    /\ ~m[CHEAP_NEXT_BLOCK(m, h)].present

MergedNext(m, h) ==
    IF NextIsFree(m, h)
    THEN Update(m, h, m[h].size + CHEAP_BLOCKSZ(m[CHEAP_NEXT_BLOCK(m, h)].size), FALSE)
    ELSE m

MergedBlocks(m, h) ==
    blocks \ ((IF PrevIsFree(h) THEN {h} ELSE {}) \cup
              (IF NextIsFree(m, MergedHdr(h))
               THEN {CHEAP_NEXT_BLOCK(m, MergedHdr(h))} ELSE {}))

(* The whole of free(mem) for the block info at h; "no present block at given
   address found" and the corrupt footer are the early returns. *)
FreeBlock(h) ==
    IF ~mem[h].present \/ PrevIsCorrupt(h)
    THEN UNCHANGED <<mem, blocks>>
    ELSE /\ mem' = MergedNext(MergedBack(h), MergedHdr(h))
         /\ blocks' = MergedBlocks(MergedBack(h), h)

free(b) ==
    /\ ~req.running /\ ~faulted
    /\ FreeBlock(b.hdr)
    /\ live' = live \ {b}
    /\ UNCHANGED <<brk, req, faulted>>

Data(b) == (b.hdr + 1)..(b.hdr + b.words)

(* A caller stores into its block. *)
UserWrite(b, w) ==
    /\ ~req.running /\ ~faulted
    /\ mem' = [a \in Address |-> IF a \in Data(b) THEN w ELSE mem[a]]
    /\ UNCHANGED <<brk, req, faulted, live, blocks>>

Fault == faulted /\ UNCHANGED vars

Next ==
    \/ \E n \in Requests : allocate(n)
    \/ AllocStep
    \/ \E b \in live : free(b)
    \/ \E b \in live, w \in DataWords : UserWrite(b, w)
    \/ Fault

(* allocate() runs with interrupts off: its loop keeps going. *)
Spec == Init /\ [][Next]_vars /\ WF_vars(AllocStep)
-----------------------------------------------------------------------------
TypeOK ==
    /\ mem \in [Address -> Word]
    /\ brk \in Base..ZoneEnd
    /\ req \in [running : {TRUE}, words : Nat, ptr : Address] \cup {NoReq}
    /\ faulted \in BOOLEAN
    /\ \A b \in live : b \in [hdr : Address, words : Nat]
    /\ blocks \subseteq Address

NextOf(b) == CHEAP_NEXT_BLOCK(mem, b)

(* CoreHeap.cc: following the sizes in the headers from the base visits every
   block and ends at the break, and no info word lies inside another block. *)
Tiling ==
    brk # Base =>
        /\ Base \in blocks
        /\ \A b \in blocks : b + 2 <= brk /\ (NextOf(b) \in blocks \/ NextOf(b) = brk)
        /\ \A b, c \in blocks : b < c => NextOf(b) <= c

(* CoreHeap.cc 110-128: what free() finds just before a header is a footer
   that says the same as that block's header. *)
FootersMatch ==
    \A b \in blocks : NextOf(b) # brk =>
        /\ mem[CHEAP_FOOTER(mem, b)].size = mem[b].size
        /\ mem[CHEAP_FOOTER(mem, b)].present = mem[b].present

(* CoreHeap.cc 63-82: the blocks marked present are exactly those callers
   have, with the size they asked for; the last one is never among them, so
   growing it (which clears its flags) takes nothing from anybody. *)
LiveArePresent ==
    /\ \A b \in live : /\ b.hdr \in blocks
                       /\ mem[b.hdr].present
                       /\ mem[b.hdr].size = b.words
    /\ \A h \in blocks : mem[h].present => \E b \in live : b.hdr = h
    /\ \A h \in blocks : NextOf(h) = brk => ~mem[h].present

(* CoreHeap.cc 113-140: no two neighbouring blocks are both free. *)
Coalesced ==
    \A b \in blocks : NextOf(b) \in blocks => mem[b].present \/ mem[NextOf(b)].present

(* CoreHeap.cc 113-140: once everything is freed the heap is one free block
   again, whatever the order of the calls was. *)
FreedIsWhole ==
    live = {} /\ brk # Base => blocks = {Base} /\ NextOf(Base) = brk /\ ~mem[Base].present

(* CoreHeap.cc 58-141: whatever was allocated and freed before, the heap has
   the five properties above. *)
HeapInv ==
    /\ TypeOK
    /\ ~faulted => Tiling /\ FootersMatch /\ LiveArePresent /\ Coalesced /\ FreedIsWhole

(* CoreHeap.cc: two callers never share a word. *)
LiveDisjoint ==
    ~faulted => /\ \A b \in live : Data(b) \subseteq Base..(brk - 1)
                /\ \A b, c \in live : b # c => Data(b) \cap Data(c) = {}

(* CoreHeap.cc: no step of allocate() or free() changes a word of a block
   that somebody has before and after it. *)
DataKept ==
    [][<<brk, req, live>>' # <<brk, req, live>> =>
        \A b \in live \cap live' : \A a \in Data(b) : mem'[a] = mem[a]]_vars

(* CoreHeap.cc 77-82: the store beyond the break happens only when the zone
   has no page left; until then allocate() grows the heap and succeeds. *)
FaultsOnlyWhenFull == faulted => brk + PageWords > ZoneEnd

(* CoreHeap.cc 62-84: allocate() returns, or faults at the end of the zone. *)
AllocateEnds == req.running ~> ~req.running \/ faulted
=============================================================================
