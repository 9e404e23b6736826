------------------------------ MODULE Processes ------------------------------
(***************************************************************************)
(* Processes, threads and the lists they are kept in: Process, Thread,     *)
(* Scheduler, on LinkedList, SmartPointer, ReferenceCounter and the        *)
(* iterators.  The scheduler has a list of processes for each priority,    *)
(* every process a list of threads; both are linked nodes whose payload is *)
(* a SmartPointer.  Kernel code holds SmartPointers in variables, too.     *)
(* remove() is a loop with one step per node, and reads nodes it deleted.  *)
(***************************************************************************)
EXTENDS Integers, Sequences, FiniteSets, SequencesExt

CONSTANTS
    Procs, Threads,     \* the processes and threads that are ever created
    ProcVars, ThreadVars,   \* variables of type ProcessPtr and ThreadPtr
    Nodes,              \* bound: the nodes there is memory for
    Lowest,             \* the lowest priority; 0 is the highest
    None                \* no node, and a variable that does not exist

ASSUME ProcessesAssumption ==
    /\ Lowest \in Nat /\ None \notin Nodes \cup Procs \cup Threads
    /\ IsFiniteSet(Nodes) /\ IsFiniteSet(ProcVars) /\ IsFiniteSet(ThreadVars)
    /\ Procs \cap Threads = {} /\ ProcVars \cap ThreadVars = {}
    /\ Nodes \cap (ProcVars \cup ThreadVars) = {}

VARIABLES
    refs,               \* object -> value of its ReferenceCounter
    created,            \* the objects that were created
    owned,              \* the processes whose address space exists, and the
                        \* threads whose stack is allocated
    ptr,                \* variable -> object, or None
    head, size,         \* list -> first node; its count
    next, payload, live,    \* of nodes
    walk,               \* the running remove(), or Idle
    stopped,            \* freed memory was used
    items, paired       \* history: what a list should hold; lists from which
                        \* equal neighbours were removed

vars == <<refs, created, owned, ptr, head, size, next, payload, live, walk, stopped, items, paired>>
nodes == <<next, payload, live>>
lists == <<head, size, items, paired>>

Objects == Procs \cup Threads
Vars == ProcVars \cup ThreadVars
Priorities == 0..Lowest
(* A list is named by its priority or its process. *)
Lists == {<<"prio", i>> : i \in Priorities} \cup {<<"threads", p>> : p \in Procs}
Idle == [on |-> FALSE, list |-> <<"prio", 0>>, item |-> None, prev |-> None, p |-> None, clear |-> FALSE]

Init ==
    /\ refs = [o \in Objects |-> 0] /\ created = {} /\ owned = {}
    /\ ptr = [v \in Vars |-> None]
    /\ head = [l \in Lists |-> None] /\ size = [l \in Lists |-> 0]
    /\ next = [n \in Nodes |-> None] /\ payload = [n \in Nodes |-> None] /\ live = {}
    /\ walk = Idle /\ stopped = FALSE
    /\ items = [l \in Lists |-> <<>>] /\ paired = {}
-----------------------------------------------------------------------------
(* What of the sequence s is in S: SelectSeq as a recursive function, with
   which the proofs can work. *)
Keep(s, S) ==
    LET kept[i \in 0..Len(s)] ==
            IF i = 0 THEN <<>>
            ELSE IF s[i] \in S THEN Append(kept[i - 1], s[i]) ELSE kept[i - 1]
    IN  kept[Len(s)]

(* The nodes of a list, as its pointers link them. *)
NodesOf(l) ==
    LET at[k \in 1..(Cardinality(Nodes) + 1)] ==
            IF k = 1 THEN head[l] ELSE IF at[k - 1] = None THEN None ELSE next[at[k - 1]]
    IN  [k \in 1..Cardinality({j \in 1..Cardinality(Nodes) : at[j] # None}) |-> at[k]]
Contents(l) == [k \in DOMAIN NodesOf(l) |-> payload[NodesOf(l)[k]]]
Dangling(l) == \E k \in DOMAIN NodesOf(l) : NodesOf(l)[k] \notin live

Alive == {o \in Objects : refs[o] > 0}
Ready == ~stopped /\ ~walk.on
Same(v, w) == (v \in ProcVars) = (w \in ProcVars)

(* What the last SmartPointer to o takes with it: the address space of a process
   is deleted, and its list, but not the nodes.  A thread keeps its stack. *)
Destroyed(o, r) ==
    IF r[o] = 0 /\ o \in Procs
    THEN LET l == <<"threads", o>> IN
         /\ head' = [head EXCEPT ![l] = None] /\ size' = [size EXCEPT ![l] = 0]
         /\ items' = [items EXCEPT ![l] = <<>>] /\ paired' = paired \ {l}
         /\ owned' = owned \ {o}
    ELSE UNCHANGED <<lists, owned>>
-----------------------------------------------------------------------------
(* A SmartPointer is constructed from the pointer to a new object: a process
   with its address space, or a thread with a frame for its stack. *)
NewPointer(v, o) ==
    /\ Ready /\ ptr[v] = None /\ o \notin created
    /\ created' = created \cup {o}
    /\ ptr' = [ptr EXCEPT ![v] = o] /\ refs' = [refs EXCEPT ![o] = 1]
    /\ UNCHANGED <<lists, nodes, walk, stopped>>

NewProcess(v, p) == NewPointer(v, p) /\ owned' = owned \cup {p}
NewThread(v, t) == NewPointer(v, t) /\ owned' = owned \cup {t}

Copy(v, w) ==
    /\ Ready /\ Same(v, w) /\ ptr[v] = None /\ ptr[w] # None
    /\ ptr' = [ptr EXCEPT ![v] = ptr[w]] /\ refs' = [refs EXCEPT ![ptr[w]] = @ + 1]
    /\ UNCHANGED <<created, owned, lists, nodes, walk, stopped>>

(* operator=: the old one goes down, and is deleted, before the new one is up. *)
Assign_NoUp(v, w) ==
    /\ Ready /\ v # w /\ Same(v, w) /\ ptr[v] # None /\ ptr[w] # None
    /\ LET down == [refs EXCEPT ![ptr[v]] = @ - 1] IN
       /\ Destroyed(ptr[v], down)
       /\ refs' = down
    /\ ptr' = [ptr EXCEPT ![v] = ptr[w]]
    /\ UNCHANGED <<created, nodes, walk, stopped>>
Assign(v, w) ==
    /\ Ready /\ v # w /\ Same(v, w) /\ ptr[v] # None /\ ptr[w] # None
    /\ LET down == [refs EXCEPT ![ptr[v]] = @ - 1] IN
       /\ Destroyed(ptr[v], down)
       /\ refs' = [down EXCEPT ![ptr[w]] = @ + 1]
    /\ ptr' = [ptr EXCEPT ![v] = ptr[w]]
    /\ UNCHANGED <<created, nodes, walk, stopped>>

(* ~SmartPointer *)
Drop(v) ==
    /\ Ready /\ ptr[v] # None
    /\ refs' = [refs EXCEPT ![ptr[v]] = @ - 1]
    /\ Destroyed(ptr[v], refs')
    /\ ptr' = [ptr EXCEPT ![v] = None]
    /\ UNCHANGED <<created, nodes, walk, stopped>>
-----------------------------------------------------------------------------
(* After equal neighbours were removed the list links a freed node, which may
   be a node of another list by now: it may do anything when it is used. *)
Broken(l) == l \in paired

Undefined(l) ==
    /\ Broken(l) /\ stopped' = TRUE
    /\ UNCHANGED <<refs, created, owned, ptr, lists, nodes, walk>>

add(l, o) ==
    \/ /\ ~Broken(l)
       /\ \E n \in Nodes \ live :
            /\ payload' = [payload EXCEPT ![n] = o] /\ next' = [next EXCEPT ![n] = head[l]]
            /\ live' = live \cup {n} /\ head' = [head EXCEPT ![l] = n]
       /\ size' = [size EXCEPT ![l] = @ + 1] /\ refs' = [refs EXCEPT ![o] = @ + 1]
       /\ items' = [items EXCEPT ![l] = <<o>> \o @]
       /\ UNCHANGED <<created, owned, ptr, walk, stopped, paired>>
    \/ Undefined(l)

addProcess(v, i) == Ready /\ ptr[v] # None /\ add(<<"prio", i>>, ptr[v])

addThread(v, t) ==
    Ready /\ ptr[v] # None /\ ptr[t] # None /\ add(<<"threads", ptr[v]>>, ptr[t])

(* remove() is given a copy of the SmartPointer, which it holds while it runs. *)
HasPair(l, o) == \E k \in 1..(Len(items[l]) - 1) : items[l][k] = o /\ items[l][k + 1] = o

StartRemove(l, o, r, clearing) ==
    /\ walk' = [on |-> TRUE, list |-> l, item |-> o, prev |-> None, p |-> head[l], clear |-> clearing]
    /\ refs' = [r EXCEPT ![o] = @ + 1]
    /\ items' = [items EXCEPT ![l] = Keep(@, Objects \ {o})]
    /\ paired' = IF HasPair(l, o) THEN paired \cup {l} ELSE paired

remove(l, o) ==
    \/ /\ ~Broken(l) /\ StartRemove(l, o, refs, FALSE)
       /\ UNCHANGED <<created, owned, ptr, head, size, nodes, stopped>>
    \/ Undefined(l)

removeThread(v, t) ==
    Ready /\ ptr[v] # None /\ ptr[t] # None /\ remove(<<"threads", ptr[v]>>, ptr[t])

clear(l) ==
    /\ Ready /\ head[l] # None
    /\ \/ /\ ~Broken(l) /\ StartRemove(l, payload[head[l]], refs, TRUE)
          /\ UNCHANGED <<created, owned, ptr, head, size, nodes, stopped>>
       \/ Undefined(l)

clearThreads(v) == ptr[v] # None /\ clear(<<"threads", ptr[v]>>)

(* One turn of the loop of remove(): the node is unlinked from the one before,
   deleted, read for its next, and then is the one before itself. *)
Unlink_HeadOnly == head' = [head EXCEPT ![walk.list] = next[walk.p]] /\ UNCHANGED next
Unlink ==
    IF walk.prev # None
    THEN next' = [next EXCEPT ![walk.prev] = next[walk.p]] /\ UNCHANGED head
    ELSE head' = [head EXCEPT ![walk.list] = next[walk.p]] /\ UNCHANGED next

RemoveTurn ==
    /\ ~stopped /\ walk.on /\ walk.p # None
    /\ IF payload[walk.p] = walk.item
       THEN /\ Unlink
            /\ live' = live \ {walk.p}
            /\ refs' = [refs EXCEPT ![walk.item] = @ - 1]
            /\ size' = [size EXCEPT ![walk.list] = @ - 1]
       ELSE UNCHANGED <<refs, head, size, next, live>>
    /\ walk' = [walk EXCEPT !.prev = walk.p, !.p = next[walk.p]]
    /\ UNCHANGED <<created, owned, ptr, payload, stopped, items, paired>>

(* The copy is destroyed; clear() goes on with the head there is.  What the
   deleted nodes held is not kept any longer: nothing but a list that is
   broken would read it. *)
RemoveEnd ==
    /\ ~stopped /\ walk.on /\ walk.p = None
    /\ LET down == [refs EXCEPT ![walk.item] = @ - 1]
           l == walk.list
       IN  IF ~walk.clear \/ head[l] = None
           THEN /\ walk' = Idle /\ refs' = down /\ Destroyed(walk.item, down)
                /\ UNCHANGED stopped
           ELSE IF Broken(l)
           THEN stopped' = TRUE /\ UNCHANGED <<walk, refs, lists, owned>>
           ELSE /\ StartRemove(l, payload[head[l]], down, TRUE)
                /\ UNCHANGED <<head, size, stopped, owned>>
    /\ next' = [n \in Nodes |-> IF n \in live THEN next[n] ELSE None]
    /\ payload' = [n \in Nodes |-> IF n \in live THEN payload[n] ELSE None]
    /\ UNCHANGED <<created, ptr, live>>
-----------------------------------------------------------------------------
(* Scheduler::schedule(): for each priority and each process, the thread that
   findReadyThread() comes to first; every thread is ready, and switchTo()
   does nothing.  A list that holds a freed node is followed into it. *)
findReadyThread_Last(p) ==
    LET ts == Contents(<<"threads", p>>) IN IF ts = <<>> THEN <<>> ELSE <<Last(ts)>>
findReadyThread(p) ==
    LET ts == Contents(<<"threads", p>>) IN IF ts = <<>> THEN <<>> ELSE <<ts[1]>>

Switched ==
    LET queue == FlattenSeq([i \in 1..(Lowest + 1) |-> Contents(<<"prio", i - 1>>)])
    IN  FlattenSeq([k \in DOMAIN queue |-> findReadyThread(queue[k])])

schedule ==
    /\ Ready
    /\ stopped' = \E l \in Lists : Broken(l)
    /\ UNCHANGED <<refs, created, owned, ptr, lists, nodes, walk>>

Stopped == stopped /\ UNCHANGED vars

Next ==
    \/ \E v \in ProcVars, p \in Procs : NewProcess(v, p)
    \/ \E v \in ThreadVars, t \in Threads : NewThread(v, t)
    \/ \E v, w \in Vars : Copy(v, w) \/ Assign(v, w)
    \/ \E v \in Vars : Drop(v)
    \/ \E v \in ProcVars, i \in Priorities : addProcess(v, i)
    \/ \E v \in ProcVars, t \in ThreadVars : addThread(v, t) \/ removeThread(v, t)
    \/ \E v \in ProcVars : clearThreads(v)
    \/ RemoveTurn \/ RemoveEnd \/ schedule \/ Stopped

Spec == Init /\ [][Next]_vars
-----------------------------------------------------------------------------
TypeOK ==
    /\ refs \in [Objects -> Nat] /\ created \subseteq Objects /\ owned \subseteq created
    /\ ptr \in [Vars -> Objects \cup {None}]
    /\ head \in [Lists -> Nodes \cup {None}] /\ size \in [Lists -> Nat]
    /\ next \in [Nodes -> Nodes \cup {None}] /\ payload \in [Nodes -> Objects \cup {None}]
    /\ live \subseteq Nodes /\ paired \subseteq Lists /\ stopped \in BOOLEAN

Holders(o) ==
    {v \in Vars : ptr[v] = o} \cup {n \in live : payload[n] = o}

(* SmartPointer.h 15-66, LinkedList.h 38-64: the counter of an object is the
   number of variables and undeleted nodes that hold it, one more while
   remove() has it in hand, so that an object lives exactly as long as
   somebody holds it and nobody holds a deleted one; and a process has its
   address space as long as it lives, and no longer. *)
RefsExact ==
    /\ TypeOK
    /\ ~stopped => \A o \in Objects :
        /\ refs[o] = Cardinality(Holders(o)) + (IF walk.on /\ walk.item = o THEN 1 ELSE 0)
        /\ o \in Procs => (o \in owned <=> refs[o] > 0)

(* LinkedList.h 36-64: between two calls the nodes of a list are the items
   that were added, the last one first, without those removed, and count is
   their number; no list refers to a deleted node, unless equal neighbours
   were removed from it: the second one of them stays linked. *)
ListsExact ==
    Ready => \A l \in Lists :
        /\ size[l] = Len(items[l])
        /\ l \notin paired => ~Dangling(l) /\ Contents(l) = items[l]

Expected ==
    LET queue == FlattenSeq([i \in 1..(Lowest + 1) |-> items[<<"prio", i - 1>>]])
        busy == Keep(queue, {p \in Procs : items[<<"threads", p>>] # <<>>})
    IN  [k \in DOMAIN busy |-> items[<<"threads", busy[k]>>][1]]

(* Scheduler.cc 18-49: a tick goes, from the highest priority on, through every
   process that was added, and switches to the thread that came last to each;
   all of them still exist. *)
ScheduleFinds ==
    Ready /\ paired = {} =>
        /\ Switched = Expected
        /\ \A k \in DOMAIN Switched : Switched[k] \in Alive
=============================================================================
