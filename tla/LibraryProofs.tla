--------------------------- MODULE LibraryProofs ----------------------------
(***************************************************************************)
(* Proofs about the classes that the rest of the kernel is built on: the   *)
(* lists, smart pointers and scheduling of Processes, BitMap, memory as a  *)
(* file, MemoryFile, and the log with its console, Logging.  The four      *)
(* parts do not depend on each other.                                      *)
(***************************************************************************)
EXTENDS Processes, BitMap, MemoryFile, Logging, LoopTheorems,
        FiniteSetTheorems, SequenceTheorems, TLAPS

(* The objects a list is for. *)
Sort(l) == IF l \in {<<"threads", p>> : p \in Procs} THEN Threads ELSE Procs
Walked(l) == walk.on /\ walk.list = l

Succ(c, i) == IF i < Len(c) THEN c[i + 1] ELSE None
Names(c) == [i \in 1..Len(c) |-> payload[c[i]]]
Wanted == Objects \ {walk.item}

(* Variables and nodes hold objects that were created, each of its own type;
   the running remove() works on the threads of a process. *)
HeldInv ==
    /\ \A v \in ProcVars : ptr[v] \in (created \cap Procs) \cup {None}
    /\ \A v \in ThreadVars : ptr[v] \in (created \cap Threads) \cup {None}
    /\ \A n \in live : payload[n] \in created
    /\ items \in [Lists -> Seq(Objects)]
    /\ walk \in [on : BOOLEAN, list : Lists, item : Objects \cup {None}, prev : Nodes \cup {None},
                 p : Nodes \cup {None}, clear : BOOLEAN]
    /\ walk.on => walk.item \in Threads \cap created /\ Sort(walk.list) = Threads

(* The nodes of the lists, ch, are alive, hold what the list is for, and are in
   one list once. *)
NodesInv(ch) ==
    /\ ch \in [Lists -> Seq(Nodes)]
    /\ \A l \in Lists, i \in Nat : i \in 1..Len(ch[l]) =>
          ch[l][i] \in live /\ payload[ch[l][i]] \in Sort(l)
    /\ \A l, m \in Lists, i, j \in Nat :
          i \in 1..Len(ch[l]) /\ j \in 1..Len(ch[m]) /\ ch[l][i] = ch[m][j] => l = m /\ i = j

(* They are linked from the head on; of a list that is broken only those that
   the running remove() has ahead, which are the ones behind the first k. *)
LinksInv(ch, k) ==
    /\ \A l \in Lists : l \notin paired => head[l] = Succ(ch[l], 0)
    /\ \A l \in Lists, i \in Nat : i \in 1..Len(ch[l]) /\ (l \notin paired \/ i > k) =>
          next[ch[l][i]] = Succ(ch[l], i)

(* They are what the list should hold, and counted. *)
ItemsInv(ch) ==
    \A l \in Lists : ~Walked(l) =>
        /\ size[l] = Len(items[l])
        /\ IF l \in paired THEN ch[l] = <<>> ELSE items[l] = Names(ch[l])

(* The running remove() has passed the first k nodes of its list, none of which
   holds the item, and deletes no node but those of its list that do.  The
   node before is one it may write to: unless equal neighbours are there, it is
   the last one passed, or the next node need not be unlinked. *)
WalkInv(ch, k) ==
    walk.on =>
        LET l == walk.list
            c == ch[l]
        IN  /\ k \in 0..Len(c) /\ walk.p = Succ(c, k)
            /\ \A i \in 1..k : payload[c[i]] # walk.item
            /\ size[l] = Len(items[l]) + Len(c) - Len(Keep(Names(c), Wanted))
            /\ walk.prev # None => \A m \in Lists, i \in Nat :
                  i \in 1..Len(ch[m]) /\ ch[m][i] = walk.prev => m = l /\ i <= k
            /\ l \notin paired =>
                  /\ items[l] = Keep(Names(c), Wanted)
                  /\ \A i \in (k + 1)..(Len(c) - 1) :
                        ~(payload[c[i]] = walk.item /\ payload[c[i + 1]] = walk.item)
                  /\ \/ k = 0 /\ walk.prev = None
                     \/ k > 0 /\ walk.prev = c[k]
                     \/ walk.prev # None /\ (k < Len(c) => payload[c[k + 1]] # walk.item)

Chains(ch, k) == NodesInv(ch) /\ LinksInv(ch, k) /\ ItemsInv(ch) /\ WalkInv(ch, k)

IInv == RefsExact /\ (~stopped => HeldInv /\ \E ch, k : Chains(ch, k))
-----------------------------------------------------------------------------
(* The states of the function that Keep is computed with. *)
KeepRun(s, S, g) ==
    g = [i \in 0..Len(s) |->
            IF i = 0 THEN <<>> ELSE IF s[i] \in S THEN Append(g[i - 1], s[i]) ELSE g[i - 1]]

(* What Keep does with the element at m. *)
LEMMA KeepRound ==
    ASSUME NEW T, NEW s \in Seq(T), NEW S, NEW g, KeepRun(s, S, g)
    PROVE  /\ g[0] = <<>>
           /\ \A k \in 0..Len(s) : k < Len(s) =>
                g[k + 1] = IF s[k + 1] \in S THEN Append(g[k], s[k + 1]) ELSE g[k]
<1>1. Len(s) \in Nat
  OBVIOUS
<1>2. g[0] = <<>>
  BY <1>1 DEF KeepRun
<1>3. ASSUME NEW k \in 0..Len(s), k < Len(s)
      PROVE  g[k + 1] = IF s[k + 1] \in S THEN Append(g[k], s[k + 1]) ELSE g[k]
  <2>1. PICK m : m = k + 1
    OBVIOUS
  <2>2. m \in 0..Len(s) /\ m # 0 /\ m - 1 = k
    BY <1>1, <1>3, <2>1
  <2>3. g[m] = IF s[m] \in S THEN Append(g[m - 1], s[m]) ELSE g[m - 1]
    BY <2>2 DEF KeepRun
  <2> QED BY <2>1, <2>2, <2>3, Zenon
<1> QED BY <1>2, <1>3

(* The function exists, and its values are sequences of what is in S. *)
LEMMA KeepExists ==
    ASSUME NEW T, NEW s \in Seq(T), NEW S
    PROVE  \E g : KeepRun(s, S, g) /\ Keep(s, S) = g[Len(s)]
<1> DEFINE Q == Seq(T)
           F == [i \in 1..Len(s) |-> [x \in Q |-> IF s[i] \in S THEN Append(x, s[i]) ELSE x]]
           D == [k \in 0..Len(s) |-> Q]
<1>1. Len(s) \in Nat /\ \A i \in 1..Len(s) : s[i] \in T
  OBVIOUS
<1>2. PICK n : n = Len(s)
  OBVIOUS
<1>3. \A i \in 1..n : \A x \in Q : F[i][x] = IF s[i] \in S THEN Append(x, s[i]) ELSE x
  BY <1>2
<1>4. <<>> \in D[0] /\ \A k \in 0..n : D[k] = Q
  BY <1>1, <1>2
<1>5. ASSUME NEW k \in 0..n, k < n, NEW x \in D[k] PROVE F[k + 1][x] \in D[k + 1]
  <2>1. PICK m : m = k + 1
    OBVIOUS
  <2>2. m \in 1..n /\ m \in 0..n /\ x \in Q
    BY <1>1, <1>2, <1>4, <1>5, <2>1
  <2>3. Append(x, s[m]) \in Q
    BY <2>2, <1>1, <1>2
  <2>4. F[m][x] \in Q /\ D[m] = Q
    <3> HIDE DEF F, D, Q
    <3> QED BY <1>3, <1>4, <2>2, <2>3
  <2> HIDE DEF F, D, Q
  <2> QED BY <2>1, <2>4
<1>6. n \in Nat
  BY <1>1, <1>2
<1> HIDE DEF F, D, Q
<1>7. PICK g : LoopRun(n, <<>>, F, g)
  BY <1>6, LoopExists
<1>8. \A k \in 0..n : g[k] \in D[k]
  BY <1>4, <1>5, <1>6, <1>7, LoopIn
<1>9. ASSUME NEW i \in 0..n
      PROVE  g[i] = IF i = 0 THEN <<>> ELSE IF s[i] \in S THEN Append(g[i - 1], s[i]) ELSE g[i - 1]
  <2>1. g[i] = IF i = 0 THEN <<>> ELSE F[i][g[i - 1]]
    BY <1>7 DEF LoopRun
  <2>2. CASE i # 0
    <3>1. i - 1 \in 0..n /\ i \in 1..n
      BY <2>2, <1>6
    <3>2. PICK y : y = g[i - 1]
      OBVIOUS
    <3>3. F[i][y] = IF s[i] \in S THEN Append(y, s[i]) ELSE y
      BY <3>1, <3>2, <1>3, <1>4, <1>8
    <3> QED BY <2>1, <2>2, <3>2, <3>3, Zenon
  <2> QED BY <2>1, <2>2, Zenon
<1>10. DOMAIN g = 0..n /\ g = [i \in 0..n |-> g[i]]
  BY <1>7 DEF LoopRun
<1>11. KeepRun(s, S, g)
  BY <1>2, <1>9, <1>10, Zenon DEF KeepRun
<1> DEFINE f == CHOOSE h : KeepRun(s, S, h)
<1>12. KeepRun(s, S, f)
  BY <1>11
<1>13. Keep(s, S) = f[Len(s)]
  BY DEF Keep, KeepRun
<1> QED BY <1>12, <1>13

(* Nothing is kept but what is in S, and never more than there was. *)
LEMMA KeepIn ==
    ASSUME NEW T, NEW s \in Seq(T), NEW S
    PROVE  Keep(s, S) \in Seq(T \cap S) /\ Len(Keep(s, S)) <= Len(s)
<1>1. PICK g : KeepRun(s, S, g) /\ Keep(s, S) = g[Len(s)]
  BY KeepExists
<1>2. PICK n : n = Len(s)
  OBVIOUS
<1>3. n \in Nat /\ \A i \in 1..n : s[i] \in T
  BY <1>2
<1> DEFINE K == {k \in 0..n : g[k] \in Seq(T \cap S) /\ Len(g[k]) <= k}
<1>4. 0 \in K
  <2>1. g[0] = <<>> /\ 0 \in 0..n
    BY <1>1, <1>3, KeepRound
  <2>2. <<>> \in Seq(T \cap S) /\ Len(<<>>) = 0
    OBVIOUS
  <2>3. g[0] \in Seq(T \cap S) /\ Len(g[0]) <= 0
    BY <2>1, <2>2
  <2> QED BY <2>1, <2>3
<1>5. ASSUME NEW k \in K, k < n PROVE k + 1 \in K
  <2>1. k \in 0..n /\ k + 1 \in 1..n /\ k + 1 \in 0..n
    BY <1>3, <1>5
  <2>2. g[k + 1] = IF s[k + 1] \in S THEN Append(g[k], s[k + 1]) ELSE g[k]
    BY <1>1, <1>2, <1>5, <2>1, KeepRound
  <2>3. PICK x, y : x = g[k] /\ y = s[k + 1]
    OBVIOUS
  <2>4. x \in Seq(T \cap S) /\ Len(x) <= k /\ y \in T
    BY <1>3, <1>5, <2>1, <2>3
  <2>5. y \in S => Append(x, y) \in Seq(T \cap S) /\ Len(Append(x, y)) <= k + 1
    BY <2>1, <2>4
  <2>6. g[k + 1] \in Seq(T \cap S) /\ Len(g[k + 1]) <= k + 1
    BY <2>1, <2>2, <2>3, <2>4, <2>5
  <2> QED BY <2>1, <2>6
<1> HIDE DEF K
<1>6. \A k \in 0..n : k \in K
  BY <1>3, <1>4, <1>5, IntervalInduction
<1>7. n \in K
  BY <1>3, <1>6
<1> QED BY <1>1, <1>2, <1>7 DEF K

(* All is kept when all is in S. *)
LEMMA KeepAll ==
    ASSUME NEW T, NEW s \in Seq(T), NEW S, \A i \in 1..Len(s) : s[i] \in S
    PROVE  Keep(s, S) = s
<1>1. PICK g : KeepRun(s, S, g) /\ Keep(s, S) = g[Len(s)]
  BY KeepExists
<1>2. PICK n : n = Len(s)
  OBVIOUS
<1>3. n \in Nat /\ \A i \in 1..n : s[i] \in T
  BY <1>2
<1> DEFINE K == {k \in 0..n : g[k] \in Seq(T) /\ Len(g[k]) = k /\ \A i \in 1..k : g[k][i] = s[i]}
<1>4. 0 \in K
  <2>1. g[0] = <<>> /\ 0 \in 0..n
    BY <1>1, <1>3, KeepRound
  <2>2. <<>> \in Seq(T) /\ Len(<<>>) = 0
    OBVIOUS
  <2>3. g[0] \in Seq(T) /\ Len(g[0]) = 0
    BY <2>1, <2>2
  <2>4. \A i \in 1..0 : g[0][i] = s[i]
    OBVIOUS
  <2> QED BY <2>1, <2>3, <2>4
<1>5. ASSUME NEW k \in K, k < n PROVE k + 1 \in K
  <2>1. k \in 0..n /\ k + 1 \in 1..n /\ k + 1 \in 0..n
    BY <1>3, <1>5
  <2>2. g[k + 1] = Append(g[k], s[k + 1])
    <3>1. g[k + 1] = IF s[k + 1] \in S THEN Append(g[k], s[k + 1]) ELSE g[k]
      BY <1>1, <1>2, <1>5, <2>1, KeepRound
    <3>2. s[k + 1] \in S
      BY <1>2, <2>1
    <3> QED BY <3>1, <3>2
  <2>3. PICK x, y : x = g[k] /\ y = s[k + 1]
    OBVIOUS
  <2>4. x \in Seq(T) /\ Len(x) = k /\ y \in T /\ \A i \in 1..k : x[i] = s[i]
    BY <1>3, <1>5, <2>1, <2>3
  <2>5. Append(x, y) \in Seq(T) /\ Len(Append(x, y)) = k + 1 /\ \A i \in 1..(k + 1) : Append(x, y)[i] = s[i]
    BY <2>1, <2>3, <2>4
  <2> QED BY <2>1, <2>2, <2>3, <2>5
<1> HIDE DEF K
<1>6. \A k \in 0..n : k \in K
  BY <1>3, <1>4, <1>5, IntervalInduction
<1>7. n \in K
  BY <1>3, <1>6
<1>8. PICK x : x = g[n]
  OBVIOUS
<1>9. x \in Seq(T) /\ Len(x) = Len(s) /\ \A i \in 1..Len(s) : x[i] = s[i]
  BY <1>2, <1>7, <1>8 DEF K
<1>10. x = s
  BY <1>9, SeqEqual
<1> QED BY <1>1, <1>2, <1>8, <1>10

(* What is not in S may be taken out before. *)
LEMMA KeepWithout ==
    ASSUME NEW T, NEW s \in Seq(T), NEW t \in Seq(T), NEW S, NEW j \in 1..Len(s), s[j] \notin S,
           Len(t) = Len(s) - 1,
           \A i \in 1..Len(t) : t[i] = IF i < j THEN s[i] ELSE s[i + 1]
    PROVE  Keep(t, S) = Keep(s, S)
<1>1. PICK g : KeepRun(s, S, g) /\ Keep(s, S) = g[Len(s)]
  BY KeepExists
<1>2. PICK h : KeepRun(t, S, h) /\ Keep(t, S) = h[Len(t)]
  BY KeepExists
<1>3. PICK n : n = Len(t)
  OBVIOUS
<1>4. n \in Nat /\ Len(s) = n + 1 /\ j \in 1..(n + 1)
  BY <1>3
<1> DEFINE K == {k \in 0..n : h[k] = IF k < j THEN g[k] ELSE g[k + 1]}
<1>5. 0 \in K
  BY <1>1, <1>2, <1>4, KeepRound
<1>6. ASSUME NEW k \in K, k < n PROVE k + 1 \in K
  <2>1. /\ k \in 0..n /\ k + 1 \in 0..n /\ k + 1 \in 1..n
        /\ k + 1 < Len(s) /\ k < Len(s) /\ k \in 0..Len(s) /\ k + 1 \in 0..Len(s)
    BY <1>4, <1>6
  <2>2. h[k + 1] = IF t[k + 1] \in S THEN Append(h[k], t[k + 1]) ELSE h[k]
    BY <1>2, <1>3, <1>6, <2>1, KeepRound
  <2>3. g[k + 1] = IF s[k + 1] \in S THEN Append(g[k], s[k + 1]) ELSE g[k]
    BY <1>1, <2>1, KeepRound
  <2>4. g[(k + 1) + 1] = IF s[(k + 1) + 1] \in S THEN Append(g[k + 1], s[(k + 1) + 1]) ELSE g[k + 1]
    <3>1. \A i \in 0..Len(s) : i < Len(s) =>
             g[i + 1] = IF s[i + 1] \in S THEN Append(g[i], s[i + 1]) ELSE g[i]
      BY <1>1, KeepRound
    <3>2. PICK i \in 0..Len(s) : i = k + 1 /\ i < Len(s)
      BY <2>1
    <3>3. g[i + 1] = IF s[i + 1] \in S THEN Append(g[i], s[i + 1]) ELSE g[i]
      BY <3>1, <3>2
    <3> QED BY <3>2, <3>3
  <2>5. CASE k + 1 < j
    <3>1. t[k + 1] = s[k + 1] /\ h[k] = g[k]
      BY <1>3, <1>4, <1>6, <2>1, <2>5
    <3>2. h[k + 1] = g[k + 1]
      BY <2>2, <2>3, <3>1
    <3> QED BY <2>1, <2>5, <3>2
  <2>6. CASE k + 1 = j
    <3>1. t[k + 1] = s[(k + 1) + 1] /\ h[k] = g[k] /\ s[k + 1] \notin S
      BY <1>3, <1>4, <1>6, <2>1, <2>6
    <3>2. h[k + 1] = g[(k + 1) + 1]
      BY <2>2, <2>3, <2>4, <3>1
    <3> QED BY <2>1, <2>6, <3>2
  <2>7. CASE k + 1 > j
    <3>1. t[k + 1] = s[(k + 1) + 1] /\ h[k] = g[k + 1]
      BY <1>3, <1>4, <1>6, <2>1, <2>7
    <3>2. h[k + 1] = g[(k + 1) + 1]
      BY <2>2, <2>4, <3>1
    <3> QED BY <2>1, <2>7, <3>2
  <2> QED BY <1>4, <2>1, <2>5, <2>6, <2>7
<1> HIDE DEF K
<1>7. \A k \in 0..n : k \in K
  BY <1>4, <1>5, <1>6, IntervalInduction
<1>8. n \in K
  BY <1>4, <1>7
<1>9. n < j => g[n + 1] = g[n]
  <2>1. n < j => s[n + 1] \notin S
    BY <1>4
  <2>2. g[n + 1] = IF s[n + 1] \in S THEN Append(g[n], s[n + 1]) ELSE g[n]
    BY <1>1, <1>4, KeepRound
  <2> QED BY <2>1, <2>2
<1>10. h[n] = g[n + 1]
  BY <1>8, <1>9 DEF K
<1> QED BY <1>1, <1>2, <1>3, <1>4, <1>10

-----------------------------------------------------------------------------
LEMMA ListFacts ==
    /\ \A p \in Procs : <<"threads", p>> \in Lists /\ Sort(<<"threads", p>>) = Threads
    /\ \A i \in Priorities : <<"prio", i>> \in Lists /\ Sort(<<"prio", i>>) = Procs
    /\ \A l \in Lists : Sort(l) \subseteq Objects /\ None \notin Sort(l)
    /\ None \notin Nodes /\ None \notin Objects
<1>1. None \notin Nodes /\ None \notin Objects
  BY ProcessesAssumption DEF Objects
<1>2. ASSUME NEW p \in Procs PROVE <<"threads", p>> \in Lists /\ Sort(<<"threads", p>>) = Threads
  BY DEF Lists, Sort
<1>3. ASSUME NEW i \in Priorities PROVE <<"prio", i>> \in Lists /\ Sort(<<"prio", i>>) = Procs
  <2>1. \A p \in Procs : <<"prio", i>> # <<"threads", p>>
    OBVIOUS
  <2> QED BY <2>1 DEF Lists, Sort
<1>4. ASSUME NEW l \in Lists PROVE Sort(l) \subseteq Objects /\ None \notin Sort(l)
  BY <1>1 DEF Sort, Objects
<1> QED BY <1>1, <1>2, <1>3, <1>4

(* Sets of variables and nodes are finite and can be counted. *)
LEMMA Counted ==
    ASSUME NEW A, A \subseteq Vars \cup Nodes
    PROVE  /\ IsFiniteSet(A) /\ Cardinality(A) \in Nat /\ (Cardinality(A) = 0 <=> A = {})
           /\ \A x : x \notin A => Cardinality(A \cup {x}) = Cardinality(A) + 1
           /\ \A x \in A : Cardinality(A \ {x}) = Cardinality(A) - 1 /\ Cardinality(A) > 0
<1>1. IsFiniteSet(Vars \cup Nodes)
  BY ProcessesAssumption, FS_Union, Zenon DEF Vars
<1>2. IsFiniteSet(A)
  BY <1>1, FS_Subset
<1>3. Cardinality(A) \in Nat /\ (Cardinality(A) = 0 <=> A = {})
  BY <1>2, FS_CardinalityType, FS_EmptySet
<1>4. ASSUME NEW x, x \notin A PROVE Cardinality(A \cup {x}) = Cardinality(A) + 1
  BY <1>2, <1>4, FS_AddElement
<1>5. ASSUME NEW x \in A PROVE Cardinality(A \ {x}) = Cardinality(A) - 1 /\ Cardinality(A) > 0
  <2>1. Cardinality(A \ {x}) = Cardinality(A) - 1
    BY <1>2, FS_RemoveElement
  <2> QED BY <1>3, <2>1
<1> QED BY <1>2, <1>3, <1>4, <1>5

LEMMA HoldersCounted ==
    ASSUME TypeOK, NEW o
    PROVE  Holders(o) \subseteq Vars \cup Nodes
BY DEF TypeOK, Holders

(* The chains depend on the lists, the nodes and the running remove() only. *)
LEMMA ChainsStay ==
    ASSUME NEW ch, NEW k, Chains(ch, k), UNCHANGED <<lists, nodes, walk>>
    PROVE  Chains(ch, k)'
<1>1. /\ head' = head /\ size' = size /\ items' = items /\ paired' = paired
      /\ next' = next /\ payload' = payload /\ live' = live /\ walk' = walk
  BY DEF lists, nodes
<1>2. NodesInv(ch)'
  BY <1>1 DEF Chains, NodesInv
<1>3. LinksInv(ch, k)'
  BY <1>1 DEF Chains, LinksInv
<1>4. ItemsInv(ch)'
  BY <1>1 DEF Chains, ItemsInv, Walked, Names
<1>5. WalkInv(ch, k)'
  BY <1>1 DEF Chains, WalkInv, Names, Wanted
<1> QED BY <1>2, <1>3, <1>4, <1>5 DEF Chains

(* The deletion of an object leaves the other lists as they are. *)
LEMMA ChainsDestroyed ==
    ASSUME TypeOK, HeldInv, NEW ch, NEW k, Chains(ch, k), ~walk.on, NEW o \in Objects, NEW r, Destroyed(o, r),
           UNCHANGED <<nodes, walk>>
    PROVE  /\ \E c2, k2 : Chains(c2, k2)'
           /\ head' \in [Lists -> Nodes \cup {None}] /\ size' \in [Lists -> Nat]
           /\ paired' \subseteq Lists /\ items' \in [Lists -> Seq(Objects)]
           /\ owned' = IF r[o] = 0 /\ o \in Procs THEN owned \ {o} ELSE owned
<1>1. CASE ~(r[o] = 0 /\ o \in Procs)
  <2>1. UNCHANGED <<lists, owned>>
    BY <1>1 DEF Destroyed
  <2>2. UNCHANGED <<lists, nodes, walk>>
    BY <2>1
  <2>3. Chains(ch, k)'
    BY <2>2, ChainsStay
  <2> QED BY <1>1, <2>1, <2>3 DEF lists, TypeOK, HeldInv
<1>2. CASE r[o] = 0 /\ o \in Procs
  <2>1. PICK l : l = <<"threads", o>>
    OBVIOUS
  <2>2. l \in Lists
    BY <1>2, <2>1, ListFacts
  <2>3. /\ head' = [head EXCEPT ![l] = None] /\ size' = [size EXCEPT ![l] = 0]
        /\ items' = [items EXCEPT ![l] = <<>>] /\ paired' = paired \ {l}
        /\ owned' = owned \ {o}
        /\ next' = next /\ payload' = payload /\ live' = live /\ walk' = walk
    BY <1>2, <2>1 DEF Destroyed, nodes
  <2>4. PICK c : c = [ch EXCEPT ![l] = <<>>]
    OBVIOUS
  <2>5. ch \in [Lists -> Seq(Nodes)] /\ <<>> \in Seq(Nodes) /\ Len(<<>>) = 0
    BY DEF Chains, NodesInv
  <2>6. /\ c \in [Lists -> Seq(Nodes)] /\ c[l] = <<>> /\ Len(c[l]) = 0
        /\ \A m \in Lists : m # l => c[m] = ch[m]
    BY <2>2, <2>4, <2>5
  <2>7. /\ head[l]' = None /\ size[l]' = 0 /\ items[l]' = <<>>
        /\ \A m \in Lists : m # l => /\ head[m]' = head[m] /\ size[m]' = size[m]
                                     /\ items[m]' = items[m] /\ (m \in paired' <=> m \in paired)
        /\ l \notin paired'
    BY <2>2, <2>3 DEF TypeOK, HeldInv
  <2>8. NodesInv(c)'
    <3>1. \A m \in Lists, i \in Nat : i \in 1..Len(c[m]) => m # l /\ c[m] = ch[m]
      BY <2>6
    <3> QED BY <2>3, <2>6, <3>1 DEF Chains, NodesInv
  <2>9. LinksInv(c, k)'
    <3>1. Succ(<<>>, 0) = None
      BY <2>5 DEF Succ
    <3>2. ASSUME NEW m \in Lists, m \notin paired' PROVE head'[m] = Succ(c[m], 0)
      BY <2>6, <2>7, <3>1, <3>2 DEF Chains, LinksInv
    <3>3. ASSUME NEW m \in Lists, NEW i \in Nat, i \in 1..Len(c[m]), m \notin paired' \/ i > k
          PROVE  next'[c[m][i]] = Succ(c[m], i)
      <4>1. m # l /\ c[m] = ch[m]
        BY <2>6, <3>3
      <4> QED BY <2>3, <2>7, <3>3, <4>1 DEF Chains, LinksInv
    <3> QED BY <3>2, <3>3 DEF LinksInv
  <2>10. ItemsInv(c)'
    <3>1. ~walk'.on
      BY <2>3
    <3>2. Names(<<>>)' = <<>>
      BY <2>5 DEF Names
    <3>3. ASSUME NEW m \in Lists
          PROVE  size'[m] = Len(items'[m]) /\ IF m \in paired' THEN c[m] = <<>> ELSE items'[m] = Names(c[m])'
      <4>1. CASE m = l
        BY <2>5, <2>6, <2>7, <3>2, <4>1
      <4>2. CASE m # l
        <5>1. size[m] = Len(items[m]) /\ IF m \in paired THEN ch[m] = <<>> ELSE items[m] = Names(ch[m])
          BY DEF Chains, ItemsInv, Walked
        <5>2. Names(c[m])' = Names(ch[m])
          BY <2>3, <2>6, <4>2 DEF Names
        <5> QED BY <2>6, <2>7, <4>2, <5>1, <5>2
      <4> QED BY <4>1, <4>2
    <3> QED BY <3>3 DEF ItemsInv
  <2>11. WalkInv(c, k)'
    BY <2>3 DEF WalkInv
  <2>12. head' \in [Lists -> Nodes \cup {None}] /\ size' \in [Lists -> Nat] /\ items' \in [Lists -> Seq(Objects)] /\ paired' \subseteq Lists
    <3>1. <<>> \in Seq(Objects)
      OBVIOUS
    <3> QED BY <2>3, <3>1 DEF TypeOK, HeldInv
  <2>13. Chains(c, k)'
    BY <2>8, <2>9, <2>10, <2>11 DEF Chains
  <2> QED BY <1>2, <2>3, <2>12, <2>13
<1> QED BY <1>1, <1>2

-----------------------------------------------------------------------------
(* What RefsExact says of one object. *)
Hand(o) == IF walk.on /\ walk.item = o THEN 1 ELSE 0
Exact(o) ==
    /\ refs[o] = Cardinality(Holders(o)) + Hand(o)
    /\ o \in Procs => (o \in owned <=> refs[o] > 0)

LEMMA Parts ==
    ASSUME IInv, ~stopped
    PROVE  TypeOK /\ HeldInv /\ (\E ch, k : Chains(ch, k)) /\ \A o \in Objects : Exact(o)
BY DEF IInv, RefsExact, Exact, Hand

LEMMA Whole ==
    ASSUME TypeOK', HeldInv', \E ch, k : Chains(ch, k)', \A o \in Objects : Exact(o)'
    PROVE  IInv'
BY DEF IInv, RefsExact, Exact, Hand

LEMMA NewStep ==
    ASSUME IInv, NEW v \in Vars, NEW o \in Objects, NewPointer(v, o), owned' = owned \cup {o},
           (v \in ProcVars /\ o \in Procs) \/ (v \in ThreadVars /\ o \in Threads)
    PROVE  IInv'
<1>1. /\ ~stopped /\ ~walk.on /\ ptr[v] = None /\ o \notin created
      /\ created' = created \cup {o}
      /\ ptr' = [ptr EXCEPT ![v] = o] /\ refs' = [refs EXCEPT ![o] = 1]
      /\ UNCHANGED <<lists, nodes, walk>> /\ stopped' = stopped
      /\ head' = head /\ size' = size /\ items' = items /\ paired' = paired
      /\ next' = next /\ payload' = payload /\ live' = live /\ walk' = walk
  BY DEF NewPointer, Ready, lists, nodes
<1>2. TypeOK /\ HeldInv /\ (\E ch, k : Chains(ch, k)) /\ \A x \in Objects : Exact(x)
  BY <1>1, Parts
<1>3. TypeOK'
  BY <1>1, <1>2 DEF TypeOK
<1>4. HeldInv'
  <2>1. ASSUME NEW w \in ProcVars PROVE ptr'[w] \in (created' \cap Procs) \cup {None}
    <3>1. w = v => o \in Procs
      BY ProcessesAssumption
    <3> QED BY <1>1, <1>2, <3>1 DEF HeldInv, TypeOK, Vars
  <2>2. ASSUME NEW w \in ThreadVars PROVE ptr'[w] \in (created' \cap Threads) \cup {None}
    <3>1. w = v => o \in Threads
      BY ProcessesAssumption
    <3> QED BY <1>1, <1>2, <3>1 DEF HeldInv, TypeOK, Vars
  <2>3. \A n \in live' : payload'[n] \in created'
    BY <1>1, <1>2 DEF HeldInv
  <2> QED BY <1>1, <1>2, <2>1, <2>2, <2>3 DEF HeldInv
<1>5. \E ch, k : Chains(ch, k)'
  BY <1>1, <1>2, ChainsStay
<1>6. ASSUME NEW x \in Objects PROVE Exact(x)'
  <2>1. Exact(x) /\ Hand(x)' = Hand(x) /\ Hand(x) = 0
    BY <1>1, <1>2 DEF Hand
  <2>2. CASE x = o
    <3>1. Holders(x)' = {v}
      BY <1>1, <1>2, <2>2, ListFacts DEF Holders, HeldInv, TypeOK, Vars
    <3>2. Cardinality({v}) = 1
      BY FS_Singleton
    <3>3. refs'[x] = 1 /\ x \in owned'
      BY <1>1, <1>2, <2>2 DEF TypeOK
    <3>4. Hand(x)' = 0
      BY <2>1
    <3>5. refs'[x] = Cardinality(Holders(x)') + Hand(x)'
      BY <3>1, <3>2, <3>3, <3>4
    <3> QED BY <3>3, <3>5 DEF Exact
  <2>3. CASE x # o
    <3>1. Holders(x)' = Holders(x)
      BY <1>1, <1>2, <2>3, ListFacts DEF Holders, HeldInv, TypeOK, Vars
    <3>2. refs'[x] = refs[x] /\ (x \in owned' <=> x \in owned)
      BY <1>1, <1>2, <2>3 DEF TypeOK
    <3> QED BY <2>1, <3>1, <3>2 DEF Exact
  <2> QED BY <2>2, <2>3
<1> QED BY <1>3, <1>4, <1>5, <1>6, Whole

LEMMA CopyStep ==
    ASSUME IInv, NEW v \in Vars, NEW w \in Vars, Copy(v, w)
    PROVE  IInv'
<1>1. PICK o : o = ptr[w]
  OBVIOUS
<1>2. /\ ~stopped /\ ~walk.on /\ ptr[v] = None /\ o # None /\ (v \in ProcVars) = (w \in ProcVars)
      /\ created' = created /\ owned' = owned
      /\ ptr' = [ptr EXCEPT ![v] = o] /\ refs' = [refs EXCEPT ![o] = @ + 1]
      /\ UNCHANGED <<lists, nodes, walk>> /\ stopped' = stopped
      /\ head' = head /\ size' = size /\ items' = items /\ paired' = paired
      /\ next' = next /\ payload' = payload /\ live' = live /\ walk' = walk
  BY <1>1 DEF Copy, Ready, Same, lists, nodes
<1>3. TypeOK /\ HeldInv /\ (\E ch, k : Chains(ch, k)) /\ \A x \in Objects : Exact(x)
  BY <1>2, Parts
<1>4. o \in Objects
  BY <1>1, <1>2, <1>3 DEF TypeOK
<1>5. TypeOK'
  BY <1>2, <1>3, <1>4 DEF TypeOK
<1>6. HeldInv'
  <2>1. ASSUME NEW u \in ProcVars PROVE ptr'[u] \in (created' \cap Procs) \cup {None}
    BY <1>1, <1>2, <1>3 DEF HeldInv, TypeOK, Vars
  <2>2. ASSUME NEW u \in ThreadVars PROVE ptr'[u] \in (created' \cap Threads) \cup {None}
    <3>1. u = v => w \in ThreadVars
      BY <1>2, ProcessesAssumption DEF Vars
    <3> QED BY <1>1, <1>2, <1>3, <3>1 DEF HeldInv, TypeOK, Vars
  <2> QED BY <1>2, <1>3, <2>1, <2>2 DEF HeldInv
<1>7. \E ch, k : Chains(ch, k)'
  BY <1>2, <1>3, ChainsStay
<1>8. ASSUME NEW x \in Objects PROVE Exact(x)'
  <2>1. Exact(x) /\ Hand(x)' = Hand(x) /\ Hand(x) = 0
    BY <1>2, <1>3 DEF Hand
  <2>2. v \notin live /\ w \notin live
    BY <1>3, ProcessesAssumption DEF TypeOK, Vars
  <2>3. CASE x = o
    <3>1. Holders(x)' = Holders(x) \cup {v} /\ v \notin Holders(x) /\ w \in Holders(x)
      BY <1>1, <1>2, <1>3, <1>4, <2>2, <2>3, ListFacts DEF Holders, HeldInv, TypeOK
    <3>2. /\ Cardinality(Holders(x)') = Cardinality(Holders(x)) + 1
          /\ Cardinality(Holders(x)) \in Nat /\ Cardinality(Holders(x)) > 0
      BY <1>3, <3>1, HoldersCounted, Counted
    <3>3. refs'[x] = refs[x] + 1
      BY <1>2, <1>3, <2>3 DEF TypeOK
    <3>4. refs[x] = Cardinality(Holders(x)) /\ (x \in Procs => (x \in owned <=> refs[x] > 0))
      BY <2>1, <3>2 DEF Exact
    <3>5. refs'[x] = Cardinality(Holders(x)') + Hand(x)' /\ refs'[x] > 0 /\ refs[x] > 0
      BY <2>1, <3>2, <3>3, <3>4
    <3> QED BY <1>2, <3>4, <3>5 DEF Exact
  <2>4. CASE x # o
    <3>1. Holders(x)' = Holders(x)
      BY <1>2, <1>3, <2>4, ListFacts DEF Holders, HeldInv, TypeOK
    <3>2. refs'[x] = refs[x] /\ (x \in owned' <=> x \in owned)
      BY <1>2, <1>3, <2>4 DEF TypeOK
    <3> QED BY <2>1, <3>1, <3>2 DEF Exact
  <2> QED BY <2>3, <2>4
<1> QED BY <1>5, <1>6, <1>7, <1>8, Whole

LEMMA DropStep ==
    ASSUME IInv, NEW v \in Vars, Drop(v)
    PROVE  IInv'
<1>1. PICK o, r : o = ptr[v] /\ r = refs'
  OBVIOUS
<1>2. /\ ~stopped /\ ~walk.on /\ o # None
      /\ created' = created /\ r = [refs EXCEPT ![o] = @ - 1] /\ refs' = r
      /\ ptr' = [ptr EXCEPT ![v] = None] /\ Destroyed(o, r)
      /\ UNCHANGED <<nodes, walk>> /\ stopped' = stopped
      /\ next' = next /\ payload' = payload /\ live' = live /\ walk' = walk
  BY <1>1 DEF Drop, Ready, nodes
<1>3. TypeOK /\ HeldInv /\ (\E ch, k : Chains(ch, k)) /\ \A x \in Objects : Exact(x)
  BY <1>2, Parts
<1>4. o \in Objects
  BY <1>1, <1>2, <1>3 DEF TypeOK
<1>5. /\ \E ch, k : Chains(ch, k)'
      /\ head' \in [Lists -> Nodes \cup {None}] /\ size' \in [Lists -> Nat]
      /\ paired' \subseteq Lists /\ items' \in [Lists -> Seq(Objects)]
      /\ owned' = IF r[o] = 0 /\ o \in Procs THEN owned \ {o} ELSE owned
  <2>1. PICK ch, k : Chains(ch, k)
    BY <1>3
  <2> QED BY <1>2, <1>3, <1>4, <2>1, ChainsDestroyed
<1>6. /\ v \notin live /\ v \in Holders(o)
      /\ Holders(o)' = Holders(o) \ {v}
      /\ \A x \in Objects : x # o => Holders(x)' = Holders(x)
  <2>1. v \notin live
    BY <1>3, ProcessesAssumption DEF TypeOK, Vars
  <2> QED BY <1>1, <1>2, <1>3, <1>4, <2>1, ListFacts DEF Holders, TypeOK
<1>7. /\ Cardinality(Holders(o)') = Cardinality(Holders(o)) - 1
      /\ Cardinality(Holders(o)) \in Nat /\ Cardinality(Holders(o)) > 0
  BY <1>3, <1>6, HoldersCounted, Counted
<1>8. refs[o] = Cardinality(Holders(o)) /\ Hand(o)' = 0
  <2>1. Exact(o) /\ Hand(o) = 0 /\ Hand(o)' = 0
    BY <1>2, <1>3, <1>4 DEF Hand
  <2> QED BY <1>7, <2>1 DEF Exact
<1>9. r[o] = refs[o] - 1 /\ r[o] \in Nat /\ r \in [Objects -> Nat] /\ \A x \in Objects : x # o => r[x] = refs[x]
  BY <1>2, <1>3, <1>4, <1>7, <1>8 DEF TypeOK
<1>10. TypeOK'
  BY <1>2, <1>3, <1>5, <1>9 DEF TypeOK
<1>11. HeldInv'
  BY <1>2, <1>3, <1>5 DEF HeldInv, TypeOK, Vars
<1>12. ASSUME NEW x \in Objects PROVE Exact(x)'
  <2>1. Exact(x) /\ Hand(x)' = Hand(x)
    BY <1>2, <1>3 DEF Hand
  <2>2. CASE x = o
    <3>1. refs'[x] = Cardinality(Holders(x)') + Hand(x)'
      BY <1>2, <1>7, <1>8, <1>9, <2>2
    <3>2. x \in Procs => (x \in owned' <=> refs'[x] > 0)
      BY <1>2, <1>5, <1>7, <1>8, <1>9, <2>1, <2>2 DEF Exact
    <3> QED BY <3>1, <3>2 DEF Exact
  <2>3. CASE x # o
    <3>1. refs'[x] = refs[x] /\ (x \in owned' <=> x \in owned) /\ Holders(x)' = Holders(x)
      BY <1>2, <1>5, <1>6, <1>9, <2>3
    <3> QED BY <2>1, <3>1 DEF Exact
  <2> QED BY <2>2, <2>3
<1> QED BY <1>5, <1>10, <1>11, <1>12, Whole

(* Neither of two variables that share an object deletes it. *)
LEMMA AssignStep ==
    ASSUME IInv, NEW v \in Vars, NEW w \in Vars, Assign(v, w)
    PROVE  IInv'
<1>1. PICK o, q, r : o = ptr[v] /\ q = ptr[w] /\ r = [refs EXCEPT ![o] = @ - 1]
  OBVIOUS
<1>2. /\ ~stopped /\ ~walk.on /\ o # None /\ q # None /\ v # w /\ (v \in ProcVars) = (w \in ProcVars)
      /\ created' = created /\ refs' = [r EXCEPT ![q] = @ + 1]
      /\ ptr' = [ptr EXCEPT ![v] = q] /\ Destroyed(o, r)
      /\ UNCHANGED <<nodes, walk>> /\ stopped' = stopped
      /\ next' = next /\ payload' = payload /\ live' = live /\ walk' = walk
  BY <1>1 DEF Assign, Ready, Same, nodes
<1>3. TypeOK /\ HeldInv /\ (\E ch, k : Chains(ch, k)) /\ \A x \in Objects : Exact(x)
  BY <1>2, Parts
<1>4. o \in Objects /\ q \in Objects
  BY <1>1, <1>2, <1>3 DEF TypeOK
<1>5. /\ \E ch, k : Chains(ch, k)'
      /\ head' \in [Lists -> Nodes \cup {None}] /\ size' \in [Lists -> Nat]
      /\ paired' \subseteq Lists /\ items' \in [Lists -> Seq(Objects)]
      /\ owned' = IF r[o] = 0 /\ o \in Procs THEN owned \ {o} ELSE owned
  <2>1. PICK ch, k : Chains(ch, k)
    BY <1>3
  <2> QED BY <1>2, <1>3, <1>4, <2>1, ChainsDestroyed
<1>6. v \notin live /\ w \notin live /\ v \in Holders(o) /\ w \in Holders(q)
  BY <1>1, <1>3, ProcessesAssumption DEF TypeOK, Vars, Holders
<1>7. \A x \in Objects : /\ Cardinality(Holders(x)) \in Nat /\ refs[x] = Cardinality(Holders(x))
                         /\ Hand(x)' = 0 /\ refs[x] \in Nat
                         /\ x \in Procs => (x \in owned <=> refs[x] > 0)
  <2>1. ASSUME NEW x \in Objects
        PROVE  /\ Cardinality(Holders(x)) \in Nat /\ refs[x] = Cardinality(Holders(x))
               /\ Hand(x)' = 0 /\ refs[x] \in Nat
               /\ x \in Procs => (x \in owned <=> refs[x] > 0)
    <3>1. Exact(x) /\ Hand(x) = 0 /\ Hand(x)' = 0
      BY <1>2, <1>3 DEF Hand
    <3>2. Cardinality(Holders(x)) \in Nat
      BY <1>3, HoldersCounted, Counted
    <3> QED BY <3>1, <3>2 DEF Exact
  <2> QED BY <2>1
<1>8. r \in [Objects -> Int] /\ r[o] = refs[o] - 1 /\ \A x \in Objects : x # o => r[x] = refs[x]
  BY <1>1, <1>3, <1>4 DEF TypeOK
<1>9. HeldInv'
  <2>1. ASSUME NEW u \in ProcVars PROVE ptr'[u] \in (created' \cap Procs) \cup {None}
    BY <1>1, <1>2, <1>3 DEF HeldInv, TypeOK, Vars
  <2>2. ASSUME NEW u \in ThreadVars PROVE ptr'[u] \in (created' \cap Threads) \cup {None}
    <3>1. u = v => w \in ThreadVars
      BY <1>2, ProcessesAssumption DEF Vars
    <3> QED BY <1>1, <1>2, <1>3, <3>1 DEF HeldInv, TypeOK, Vars
  <2> QED BY <1>2, <1>3, <1>5, <2>1, <2>2 DEF HeldInv
<1>10. CASE o = q
  <2>1. \A x \in Objects : Holders(x)' = Holders(x)
    BY <1>1, <1>2, <1>3, <1>10 DEF Holders, TypeOK
  <2>2. refs' = refs
    BY <1>2, <1>3, <1>4, <1>8, <1>10 DEF TypeOK
  <2>3. r[o] # 0
    <3>1. PICK A : A = Holders(o)
      OBVIOUS
    <3>2. PICK B : B = A \ {v}
      OBVIOUS
    <3>3. A \subseteq Vars \cup Nodes /\ B \subseteq Vars \cup Nodes /\ v \in A /\ w \in B
      BY <1>2, <1>3, <1>6, <1>10, <3>1, <3>2, HoldersCounted
    <3>4. Cardinality(B) = Cardinality(A) - 1
      BY <3>2, <3>3, Counted
    <3>5. Cardinality(B) > 0
      BY <3>3, Counted
    <3> QED BY <1>4, <1>7, <1>8, <3>1, <3>4, <3>5
  <2>4. owned' = owned
    BY <1>5, <2>3
  <2>5. \A x \in Objects : Exact(x)'
    BY <1>7, <2>1, <2>2, <2>4 DEF Exact
  <2>6. TypeOK'
    BY <1>2, <1>3, <1>4, <1>5, <2>2, <2>4 DEF TypeOK
  <2> QED BY <1>5, <1>9, <2>5, <2>6, Whole
<1>11. CASE o # q
  <2>1. /\ Holders(o)' = Holders(o) \ {v}
        /\ Holders(q)' = Holders(q) \cup {v} /\ v \notin Holders(q)
        /\ \A x \in Objects : x # o /\ x # q => Holders(x)' = Holders(x)
    BY <1>1, <1>2, <1>3, <1>4, <1>6, <1>11 DEF Holders, TypeOK
  <2>2. /\ Cardinality(Holders(o)') = Cardinality(Holders(o)) - 1 /\ Cardinality(Holders(o)) > 0
        /\ Cardinality(Holders(q)') = Cardinality(Holders(q)) + 1 /\ Cardinality(Holders(q)) > 0
    BY <1>3, <1>6, <2>1, HoldersCounted, Counted
  <2>3. /\ refs'[o] = refs[o] - 1 /\ refs'[q] = refs[q] + 1
        /\ \A x \in Objects : x # o /\ x # q => refs'[x] = refs[x]
        /\ DOMAIN refs' = Objects /\ refs' = [x \in Objects |-> refs'[x]]
    BY <1>2, <1>4, <1>8, <1>11
  <2>4. \A x \in Objects : refs'[x] \in Nat
    BY <1>4, <1>7, <2>2, <2>3
  <2>5. TypeOK'
    <3>1. refs' \in [Objects -> Nat]
      BY <2>3, <2>4
    <3> QED BY <1>2, <1>3, <1>4, <1>5, <3>1 DEF TypeOK
  <2>6. ASSUME NEW x \in Objects PROVE Exact(x)'
    <3>1. refs'[x] = Cardinality(Holders(x)') + Hand(x)'
      <4>1. CASE x = o
        <5>1. Holders(x)' = Holders(o)' /\ Hand(x)' = 0
          BY <1>7, <4>1
        <5> QED BY <1>4, <1>7, <2>2, <2>3, <4>1, <5>1
      <4>2. CASE x = q
        <5>1. Holders(x)' = Holders(q)' /\ Hand(x)' = 0
          BY <1>7, <4>2
        <5> QED BY <1>4, <1>7, <2>2, <2>3, <4>2, <5>1
      <4>3. CASE x # o /\ x # q
        <5>1. Holders(x)' = Holders(x) /\ Hand(x)' = 0
          BY <1>7, <2>1, <4>3
        <5> QED BY <1>7, <2>3, <4>3, <5>1
      <4> QED BY <4>1, <4>2, <4>3
    <3>2. x \in Procs => (x \in owned' <=> refs'[x] > 0)
      <4>1. CASE x = o
        BY <1>4, <1>5, <1>7, <1>8, <2>2, <2>3, <4>1
      <4>2. CASE x = q
        BY <1>4, <1>5, <1>7, <1>11, <2>2, <2>3, <4>2
      <4>3. CASE x # o /\ x # q
        BY <1>5, <1>7, <2>3, <4>3
      <4> QED BY <4>1, <4>2, <4>3
    <3> QED BY <3>1, <3>2 DEF Exact
  <2> QED BY <1>5, <1>9, <2>5, <2>6, Whole
<1> QED BY <1>10, <1>11

LEMMA StopStep ==
    ASSUME IInv, stopped' = TRUE, UNCHANGED <<refs, created, owned, ptr, lists, nodes>>
    PROVE  IInv'
<1>1. TypeOK
  BY DEF IInv, RefsExact
<1>2. TypeOK'
  BY <1>1 DEF TypeOK, lists, nodes
<1> QED BY <1>2 DEF IInv, RefsExact

LEMMA ScheduleStep ==
    ASSUME IInv, schedule
    PROVE  IInv'
<1>1. /\ ~stopped /\ UNCHANGED <<lists, nodes, walk>>
      /\ UNCHANGED <<refs, created, owned, ptr, lists, nodes>>
      /\ stopped' \in BOOLEAN
  BY DEF schedule, Ready
<1>2. CASE stopped' = TRUE
  BY <1>1, <1>2, StopStep
<1>3. CASE stopped' = FALSE
  <2>1. TypeOK /\ HeldInv /\ (\E ch, k : Chains(ch, k)) /\ \A x \in Objects : Exact(x)
    BY <1>1, Parts
  <2>2. \E ch, k : Chains(ch, k)'
    BY <1>1, <2>1, ChainsStay
  <2>3. TypeOK'
    BY <1>1, <2>1 DEF TypeOK, lists, nodes
  <2>4. HeldInv'
    BY <1>1, <2>1 DEF HeldInv, lists, nodes
  <2>5. ASSUME NEW x \in Objects PROVE Exact(x)'
    <3>1. Holders(x)' = Holders(x) /\ Hand(x)' = Hand(x)
      BY <1>1 DEF Holders, Hand, nodes
    <3> QED BY <1>1, <2>1, <3>1 DEF Exact
  <2> QED BY <2>2, <2>3, <2>4, <2>5, Whole
<1> QED BY <1>1, <1>2, <1>3

(* The sequence c is s with n before it. *)
Pushed(c, n, s) ==
    /\ Len(c) = Len(s) + 1 /\ c[1] = n
    /\ \A i \in 1..Len(c) : i # 1 => c[i] = s[i - 1] /\ i - 1 \in 1..Len(s)
    /\ Succ(c, 0) = n /\ \A i \in 1..Len(c) : Succ(c, i) = Succ(s, i - 1)

LEMMA PushedFacts ==
    ASSUME NEW T, NEW s \in Seq(T), NEW n \in T, NEW c, c = <<n>> \o s
    PROVE  c \in Seq(T) /\ Pushed(c, n, s)
<1>1. /\ c \in Seq(T) /\ Len(c) = Len(s) + 1 /\ c[1] = n
      /\ \A i \in 1..Len(c) : i # 1 => c[i] = s[i - 1] /\ i - 1 \in 1..Len(s)
  OBVIOUS
<1>2. Succ(c, 0) = n
  BY <1>1 DEF Succ
<1>3. ASSUME NEW i \in 1..Len(c) PROVE Succ(c, i) = Succ(s, i - 1)
  <2>1. CASE i < Len(c)
    <3>1. i + 1 \in 1..Len(c) /\ i + 1 # 1 /\ (i + 1) - 1 = (i - 1) + 1 /\ i - 1 < Len(s)
      BY <1>1, <2>1
    <3>2. c[i + 1] = s[(i - 1) + 1]
      BY <1>1, <3>1
    <3> QED BY <2>1, <3>1, <3>2 DEF Succ
  <2>2. CASE ~(i < Len(c))
    <3>1. ~(i - 1 < Len(s))
      BY <1>1, <2>2
    <3> QED BY <2>2, <3>1 DEF Succ
  <2> QED BY <2>1, <2>2
<1> QED BY <1>1, <1>2, <1>3 DEF Pushed

LEMMA AddStep ==
    ASSUME IInv, Ready, NEW l \in Lists, NEW o \in Sort(l), NEW v \in Vars, ptr[v] = o, add(l, o)
    PROVE  IInv'
<1>1. CASE Undefined(l)
  BY <1>1, StopStep DEF Undefined
<1>2. CASE ~Undefined(l)
  <2>1. PICK n \in Nodes \ live :
            /\ payload' = [payload EXCEPT ![n] = o] /\ next' = [next EXCEPT ![n] = head[l]]
            /\ live' = live \cup {n} /\ head' = [head EXCEPT ![l] = n]
    BY <1>2 DEF add
  <2>2. /\ l \notin paired
        /\ size' = [size EXCEPT ![l] = @ + 1] /\ refs' = [refs EXCEPT ![o] = @ + 1]
        /\ items' = [items EXCEPT ![l] = <<o>> \o @]
        /\ created' = created /\ owned' = owned /\ ptr' = ptr /\ walk' = walk
        /\ stopped' = stopped /\ paired' = paired
        /\ ~stopped /\ ~walk.on
    BY <1>2 DEF add, Broken, Ready
  <2>3. TypeOK /\ HeldInv /\ (\E ch, k : Chains(ch, k)) /\ \A x \in Objects : Exact(x)
    BY <2>2, Parts
  <2>4. PICK ch, k : Chains(ch, k)
    BY <2>3
  <2>5. o \in Objects /\ o \in created
    BY <2>3, ListFacts DEF HeldInv, Vars
  <2>6. PICK c : c = <<n>> \o ch[l]
    OBVIOUS
  <2>7. PICK d : d = [ch EXCEPT ![l] = c]
    OBVIOUS
  <2>8. ch \in [Lists -> Seq(Nodes)] /\ ch[l] \in Seq(Nodes) /\ Len(ch[l]) \in Nat
    BY <2>4 DEF Chains, NodesInv
  <2>9. /\ c \in Seq(Nodes) /\ Len(c) = Len(ch[l]) + 1 /\ c[1] = n
        /\ \A i \in 1..Len(c) : i # 1 => c[i] = ch[l][i - 1] /\ i - 1 \in 1..Len(ch[l])
        /\ Succ(c, 0) = n /\ \A i \in 1..Len(c) : Succ(c, i) = Succ(ch[l], i - 1)
    <3>1. PICK s : s = ch[l]
      OBVIOUS
    <3>2. s \in Seq(Nodes) /\ n \in Nodes /\ c = <<n>> \o s
      BY <2>6, <2>8, <3>1
    <3>3. c \in Seq(Nodes) /\ Pushed(c, n, s)
      BY <3>2, PushedFacts
    <3> QED BY <3>1, <3>3 DEF Pushed
  <2>10. d \in [Lists -> Seq(Nodes)] /\ d[l] = c /\ \A m \in Lists : m # l => d[m] = ch[m]
    BY <2>7, <2>8, <2>9
  <2>11. /\ payload'[n] = o /\ next'[n] = head[l] /\ head'[l] = n
         /\ \A m \in live : m # n /\ payload'[m] = payload[m] /\ next'[m] = next[m]
         /\ \A m \in Lists : m # l => head'[m] = head[m] /\ size'[m] = size[m] /\ items'[m] = items[m]
         /\ size'[l] = size[l] + 1 /\ items'[l] = <<o>> \o items[l]
    BY <2>1, <2>2, <2>3 DEF TypeOK, HeldInv
  <2>12. \A m \in Lists, i \in Nat : i \in 1..Len(ch[m]) => ch[m][i] \in live /\ payload[ch[m][i]] \in Sort(m)
    BY <2>4 DEF Chains, NodesInv
  <2>13. ASSUME NEW m \in Lists, NEW i \in Nat, i \in 1..Len(d[m])
         PROVE  \/ m = l /\ i = 1 /\ d[m][i] = n
                \/ m = l /\ i # 1 /\ d[m][i] = ch[m][i - 1] /\ i - 1 \in Nat /\ i - 1 \in 1..Len(ch[m]) /\ d[m][i] \in live
                \/ m # l /\ d[m][i] = ch[m][i] /\ i \in 1..Len(ch[m]) /\ d[m][i] \in live
    <3>1. CASE m = l /\ i # 1
      <4>1. d[m][i] = ch[m][i - 1] /\ i - 1 \in Nat /\ i - 1 \in 1..Len(ch[m])
        BY <2>9, <2>10, <2>13, <3>1
      <4> QED BY <2>12, <3>1, <4>1
    <3>2. CASE m = l /\ i = 1
      BY <2>9, <2>10, <3>2
    <3>3. CASE m # l
      BY <2>10, <2>12, <2>13, <3>3
    <3> QED BY <3>1, <3>2, <3>3
  <2>14. NodesInv(d)'
    <3>1. ASSUME NEW m \in Lists, NEW i \in Nat, i \in 1..Len(d[m])
          PROVE  d[m][i] \in live' /\ payload'[d[m][i]] \in Sort(m)
      BY <2>1, <2>11, <2>12, <2>13, <3>1
    <3>2. ASSUME NEW m \in Lists, NEW q \in Lists, NEW i \in Nat, NEW j \in Nat,
                 i \in 1..Len(d[m]), j \in 1..Len(d[q]), d[m][i] = d[q][j]
          PROVE  m = q /\ i = j
      <4>1. \A a, b \in Lists, x, y \in Nat :
               x \in 1..Len(ch[a]) /\ y \in 1..Len(ch[b]) /\ ch[a][x] = ch[b][y] => a = b /\ x = y
        BY <2>4 DEF Chains, NodesInv
      <4>2. n \notin live
        BY <2>1
      <4>3. CASE m = l /\ i = 1
        <5>1. d[q][j] = n
          BY <2>13, <3>2, <4>3, <4>2
        <5> QED BY <2>13, <3>2, <4>2, <4>3, <5>1
      <4>4. CASE m = l /\ i # 1
        <5>1. d[m][i] = ch[m][i - 1] /\ i - 1 \in Nat /\ i - 1 \in 1..Len(ch[m]) /\ d[m][i] \in live
          BY <2>13, <3>2, <4>4
        <5>2. d[q][j] # n
          BY <3>2, <4>2, <5>1
        <5>3. CASE q = l
          <6>1. d[q][j] = ch[q][j - 1] /\ j - 1 \in Nat /\ j - 1 \in 1..Len(ch[q])
            BY <2>13, <3>2, <5>2, <5>3
          <6>2. PICK x, y : x = i - 1 /\ y = j - 1
            OBVIOUS
          <6>3. x \in Nat /\ y \in Nat /\ x \in 1..Len(ch[m]) /\ y \in 1..Len(ch[q]) /\ ch[m][x] = ch[q][y]
            BY <3>2, <5>1, <6>1, <6>2
          <6>4. x = y
            BY <4>1, <6>3
          <6> QED BY <4>4, <5>3, <6>2, <6>4
        <5>4. CASE q # l
          <6>1. d[q][j] = ch[q][j] /\ j \in 1..Len(ch[q])
            BY <2>13, <3>2, <5>4
          <6> QED BY <3>2, <4>1, <4>4, <5>1, <5>4, <6>1
        <5> QED BY <5>3, <5>4
      <4>5. CASE m # l
        <5>1. d[m][i] = ch[m][i] /\ i \in 1..Len(ch[m]) /\ d[m][i] \in live
          BY <2>13, <3>2, <4>5
        <5>2. d[q][j] # n
          BY <3>2, <4>2, <5>1
        <5>3. CASE q = l
          <6>1. d[q][j] = ch[q][j - 1] /\ j - 1 \in Nat /\ j - 1 \in 1..Len(ch[q])
            BY <2>13, <3>2, <5>2, <5>3
          <6> QED BY <3>2, <4>1, <4>5, <5>1, <5>3, <6>1
        <5>4. CASE q # l
          <6>1. d[q][j] = ch[q][j] /\ j \in 1..Len(ch[q])
            BY <2>13, <3>2, <5>4
          <6>2. ch[m][i] = ch[q][j]
            BY <3>2, <5>1, <6>1
          <6> QED BY <4>1, <5>1, <6>1, <6>2
        <5> QED BY <5>3, <5>4
      <4> QED BY <4>3, <4>4, <4>5
    <3> QED BY <2>10, <3>1, <3>2 DEF NodesInv
  <2>15. LinksInv(d, k)'
    <3>1. ASSUME NEW m \in Lists, m \notin paired' PROVE head'[m] = Succ(d[m], 0)
      BY <2>2, <2>4, <2>9, <2>10, <2>11, <3>1 DEF Chains, LinksInv
    <3>2. ASSUME NEW m \in Lists, NEW i \in Nat, i \in 1..Len(d[m]), m \notin paired' \/ i > k
          PROVE  next'[d[m][i]] = Succ(d[m], i)
      <4>1. CASE m = l /\ i = 1
        <5>1. Succ(d[m], i) = Succ(ch[l], 0) /\ d[m][i] = n
          BY <2>9, <2>10, <3>2, <4>1
        <5>2. head[l] = Succ(ch[l], 0)
          BY <2>2, <2>4 DEF Chains, LinksInv
        <5> QED BY <2>11, <5>1, <5>2
      <4>2. CASE m = l /\ i # 1
        <5>1. Succ(d[m], i) = Succ(ch[l], i - 1) /\ d[m][i] = ch[l][i - 1] /\ i - 1 \in 1..Len(ch[l]) /\ i - 1 \in Nat
          BY <2>9, <2>10, <3>2, <4>2
        <5>2. next[ch[l][i - 1]] = Succ(ch[l], i - 1)
          BY <2>2, <2>4, <5>1 DEF Chains, LinksInv
        <5> QED BY <2>11, <2>12, <5>1, <5>2
      <4>3. CASE m # l
        <5>1. d[m] = ch[m] /\ d[m][i] \in live
          BY <2>10, <2>12, <3>2, <4>3
        <5>2. next[ch[m][i]] = Succ(ch[m], i)
          BY <2>2, <2>4, <3>2, <5>1 DEF Chains, LinksInv
        <5> QED BY <2>11, <5>1, <5>2
      <4> QED BY <4>1, <4>2, <4>3
    <3> QED BY <3>1, <3>2 DEF LinksInv
  <2>16. ItemsInv(d)'
    <3>1. \A m \in Lists : size[m] = Len(items[m]) /\ IF m \in paired THEN ch[m] = <<>> ELSE items[m] = Names(ch[m])
      BY <2>2, <2>4 DEF Chains, ItemsInv, Walked
    <3>2. ASSUME NEW m \in Lists, m # l PROVE Names(d[m])' = Names(ch[m])
      <4>1. \A i \in 1..Len(ch[m]) : i \in Nat /\ payload'[ch[m][i]] = payload[ch[m][i]]
        <5>1. Len(ch[m]) \in Nat
          BY <2>8
        <5> QED BY <2>11, <2>12, <5>1
      <4> QED BY <2>10, <3>2, <4>1 DEF Names
    <3>3. Names(c)' = <<o>> \o Names(ch[l])
      <4>1. Names(c)' = [i \in 1..Len(c) |-> payload'[c[i]]]
        BY DEF Names
      <4>2. Names(ch[l]) = [i \in 1..Len(ch[l]) |-> payload[ch[l][i]]]
        BY DEF Names
      <4>3. Names(ch[l]) \in Seq(Objects) /\ Len(Names(ch[l])) = Len(ch[l])
        BY <2>2, <2>3, <2>8, <3>1, <4>2 DEF HeldInv
      <4>4. /\ <<o>> \o Names(ch[l]) \in Seq(Objects)
            /\ Len(<<o>> \o Names(ch[l])) = Len(c)
            /\ (<<o>> \o Names(ch[l]))[1] = o
            /\ \A i \in 1..Len(c) : i # 1 => (<<o>> \o Names(ch[l]))[i] = Names(ch[l])[i - 1]
        BY <2>5, <2>8, <2>9, <4>3
      <4>5. \A i \in 1..Len(c) : payload'[c[i]] = (<<o>> \o Names(ch[l]))[i]
        <5>1. ASSUME NEW i \in 1..Len(c), i # 1 PROVE payload'[c[i]] = (<<o>> \o Names(ch[l]))[i]
          <6>1. c[i] = ch[l][i - 1] /\ i - 1 \in 1..Len(ch[l]) /\ i - 1 \in Nat
            BY <2>8, <2>9, <5>1
          <6>2. payload'[c[i]] = payload[ch[l][i - 1]]
            BY <2>11, <2>12, <6>1
          <6> QED BY <4>2, <4>4, <5>1, <6>1, <6>2
        <5> QED BY <2>9, <2>11, <4>4, <5>1
      <4>6. Names(c)' \in Seq(Objects)
        <5>1. \A i \in 1..Len(c) : payload'[c[i]] \in Objects
          BY <4>4, <4>5
        <5> QED BY <2>9, <4>1, <5>1
      <4> QED BY <2>9, <4>1, <4>4, <4>5, <4>6, SeqEqual
    <3>4. ASSUME NEW m \in Lists
          PROVE  size'[m] = Len(items'[m]) /\ IF m \in paired' THEN d[m] = <<>> ELSE items'[m] = Names(d[m])'
      <4>1. CASE m = l
        <5>1. items[l] \in Seq(Objects) /\ size[l] = Len(items[l]) /\ items[l] = Names(ch[l])
          BY <2>2, <2>3, <3>1 DEF HeldInv
        <5>2. Len(<<o>> \o items[l]) = Len(items[l]) + 1
          BY <2>5, <5>1
        <5>3. size'[l] = Len(items'[l])
          BY <2>11, <5>1, <5>2
        <5>4. items'[l] = Names(d[l])'
          BY <2>10, <2>11, <3>3, <5>1
        <5> QED BY <2>2, <4>1, <5>3, <5>4
      <4>2. CASE m # l
        BY <2>2, <2>10, <2>11, <3>1, <3>2, <4>2
      <4> QED BY <4>1, <4>2
    <3> QED BY <3>4 DEF ItemsInv
  <2>17. WalkInv(d, k)'
    BY <2>2 DEF WalkInv
  <2>18. Chains(d, k)'
    BY <2>14, <2>15, <2>16, <2>17 DEF Chains
  <2>19. TypeOK'
    BY <2>1, <2>2, <2>3, <2>5 DEF TypeOK
  <2>20. HeldInv'
    <3>1. items' \in [Lists -> Seq(Objects)]
      <4>1. <<o>> \o items[l] \in Seq(Objects)
        BY <2>3, <2>5 DEF HeldInv
      <4> QED BY <2>2, <2>3, <4>1 DEF HeldInv
    <3>2. \A m \in live' : payload'[m] \in created'
      BY <2>1, <2>2, <2>3, <2>5, <2>11 DEF HeldInv
    <3> QED BY <2>2, <2>3, <3>1, <3>2 DEF HeldInv
  <2>21. ASSUME NEW x \in Objects PROVE Exact(x)'
    <3>1. Exact(x) /\ Hand(x)' = 0 /\ Hand(x) = 0
      BY <2>2, <2>3 DEF Hand
    <3>2. CASE x = o
      <4>1. Holders(x)' = Holders(x) \cup {n} /\ n \notin Holders(x) /\ v \in Holders(x)
        BY <2>1, <2>2, <2>11, <3>2, ProcessesAssumption DEF Holders, Vars
      <4>2. /\ Cardinality(Holders(x)') = Cardinality(Holders(x)) + 1
            /\ Cardinality(Holders(x)) \in Nat /\ Cardinality(Holders(x)) > 0
        BY <2>3, <4>1, HoldersCounted, Counted
      <4>3. refs'[x] = refs[x] + 1
        BY <2>2, <2>3, <3>2 DEF TypeOK
      <4>4. refs[x] = Cardinality(Holders(x)) /\ (x \in Procs => (x \in owned <=> refs[x] > 0))
        BY <3>1, <4>2 DEF Exact
      <4>5. refs'[x] = Cardinality(Holders(x)') + Hand(x)' /\ refs'[x] > 0 /\ refs[x] > 0
        BY <3>1, <4>2, <4>3, <4>4
      <4> QED BY <2>2, <4>4, <4>5 DEF Exact
    <3>3. CASE x # o
      <4>1. Holders(x)' = Holders(x)
        BY <2>1, <2>2, <2>11, <3>3 DEF Holders
      <4>2. refs'[x] = refs[x]
        BY <2>2, <2>3, <3>3 DEF TypeOK
      <4> QED BY <2>2, <3>1, <4>1, <4>2 DEF Exact
    <3> QED BY <3>2, <3>3
  <2> QED BY <2>18, <2>19, <2>20, <2>21, Whole
<1> QED BY <1>1, <1>2

-----------------------------------------------------------------------------
(* The lists between two calls, and when a remove() has come to the end. *)
Settled(ch) ==
    /\ NodesInv(ch)
    /\ \A l \in Lists : l \notin paired => head[l] = Succ(ch[l], 0)
    /\ \A l \in Lists, i \in Nat : i \in 1..Len(ch[l]) => next[ch[l][i]] = Succ(ch[l], i)
    /\ \A l \in Lists : /\ size[l] = Len(items[l])
                        /\ IF l \in paired THEN ch[l] = <<>> ELSE items[l] = Names(ch[l])

LEMMA SettledWhenReady ==
    ASSUME NEW ch, NEW k, Chains(ch, k), ~walk.on
    PROVE  Settled(ch)
<1>1. NodesInv(ch) /\ ch \in [Lists -> Seq(Nodes)]
  BY DEF Chains, NodesInv
<1>2. \A l \in Lists : l \notin paired => head[l] = Succ(ch[l], 0)
  BY DEF Chains, LinksInv
<1>3. \A l \in Lists : /\ size[l] = Len(items[l])
                       /\ IF l \in paired THEN ch[l] = <<>> ELSE items[l] = Names(ch[l])
  BY DEF Chains, ItemsInv, Walked
<1>4. ASSUME NEW l \in Lists, NEW i \in Nat, i \in 1..Len(ch[l]) PROVE next[ch[l][i]] = Succ(ch[l], i)
  <2>1. l \notin paired
    <3>1. ch[l] = <<>> => Len(ch[l]) = 0
      OBVIOUS
    <3> QED BY <1>3, <1>4, <3>1
  <2> QED BY <1>4, <2>1 DEF Chains, LinksInv
<1> QED BY <1>1, <1>2, <1>3, <1>4 DEF Settled

LEMMA NamesType ==
    ASSUME NEW ch, NodesInv(ch), NEW l \in Lists
    PROVE  /\ Names(ch[l]) \in Seq(Objects) /\ Len(Names(ch[l])) = Len(ch[l])
           /\ \A i \in 1..Len(ch[l]) : Names(ch[l])[i] = payload[ch[l][i]]
<1>1. ch[l] \in Seq(Nodes) /\ Len(ch[l]) \in Nat
  BY DEF NodesInv
<1>2. \A i \in 1..Len(ch[l]) : i \in Nat /\ payload[ch[l][i]] \in Objects
  BY <1>1, ListFacts DEF NodesInv
<1> QED BY <1>1, <1>2 DEF Names

LEMMA SettledAtEnd ==
    ASSUME HeldInv, NEW ch, NEW k, Chains(ch, k), walk.on, walk.p = None
    PROVE  \E d : Settled(d)
<1>1. PICK l, c : l = walk.list /\ c = ch[l]
  OBVIOUS
<1>2. PICK d : d = [ch EXCEPT ![l] = IF l \in paired THEN <<>> ELSE @]
  OBVIOUS
<1>3. l \in Lists /\ ch \in [Lists -> Seq(Nodes)] /\ c \in Seq(Nodes) /\ Len(c) \in Nat /\ NodesInv(ch)
  <2>1. l \in Lists
    BY <1>1 DEF HeldInv
  <2>2. NodesInv(ch)
    BY DEF Chains
  <2>3. ch \in [Lists -> Seq(Nodes)]
    BY <2>2 DEF NodesInv
  <2>4. c \in Seq(Nodes) /\ Len(c) \in Nat
    BY <1>1, <2>1, <2>3
  <2> QED BY <2>1, <2>2, <2>3, <2>4
<1>4. <<>> \in Seq(Nodes) /\ Len(<<>>) = 0
  OBVIOUS
<1>5. /\ d \in [Lists -> Seq(Nodes)] /\ d[l] = (IF l \in paired THEN <<>> ELSE c)
      /\ \A m \in Lists : m # l => d[m] = ch[m]
  BY <1>1, <1>2, <1>3, <1>4
<1>6. k = Len(c)
  <2>1. k \in 0..Len(c) /\ Succ(c, k) = None
    BY <1>1 DEF Chains, WalkInv
  <2>2. k < Len(c) => c[k + 1] \in Nodes
    BY <1>3, <2>1
  <2> QED BY <1>3, <2>1, <2>2, ListFacts DEF Succ
<1>7. Keep(Names(c), Wanted) = Names(c) /\ Len(Names(c)) = Len(c)
  <2>1. /\ Names(c) \in Seq(Objects) /\ Len(Names(c)) = Len(c)
        /\ \A i \in 1..Len(c) : Names(c)[i] = payload[c[i]]
    BY <1>1, <1>3, NamesType
  <2>2. \A i \in 1..Len(c) : payload[c[i]] # walk.item
    BY <1>1, <1>6 DEF Chains, WalkInv
  <2>3. \A i \in 1..Len(Names(c)) : Names(c)[i] \in Wanted
    BY <2>1, <2>2 DEF Wanted
  <2> QED BY <2>1, <2>3, KeepAll
<1>8. /\ size[l] = Len(items[l])
      /\ l \notin paired => items[l] = Names(c)
  <2>1. /\ size[l] = Len(items[l]) + Len(c) - Len(Keep(Names(c), Wanted))
        /\ l \notin paired => items[l] = Keep(Names(c), Wanted)
    BY <1>1 DEF Chains, WalkInv
  <2>2. Len(items[l]) \in Nat
    BY <1>3 DEF HeldInv
  <2>3. Len(Keep(Names(c), Wanted)) = Len(c)
    BY <1>7
  <2>4. size[l] = Len(items[l])
    BY <1>3, <2>1, <2>2, <2>3
  <2> QED BY <1>7, <2>1, <2>4
<1>9. \A m \in Lists : d[m] = ch[m] \/ (d[m] = <<>> /\ m \in paired)
  BY <1>1, <1>5
<1>10. NodesInv(d)
  <2>1. \A m \in Lists, i \in Nat : i \in 1..Len(d[m]) => d[m] = ch[m]
    BY <1>4, <1>9
  <2> QED BY <1>3, <1>5, <2>1 DEF NodesInv
<1>11. \A m \in Lists : m \notin paired => head[m] = Succ(d[m], 0)
  BY <1>9 DEF Chains, LinksInv
<1>12. \A m \in Lists : /\ size[m] = Len(items[m])
                        /\ IF m \in paired THEN d[m] = <<>> ELSE items[m] = Names(d[m])
  <2>1. ASSUME NEW m \in Lists, m # l
        PROVE  /\ size[m] = Len(items[m])
               /\ IF m \in paired THEN d[m] = <<>> ELSE items[m] = Names(d[m])
    BY <1>1, <1>5, <2>1 DEF Chains, ItemsInv, Walked
  <2> QED BY <1>5, <1>8, <2>1
<1>13. ASSUME NEW m \in Lists, NEW i \in Nat, i \in 1..Len(d[m]) PROVE next[d[m][i]] = Succ(d[m], i)
  <2>1. d[m] = ch[m] /\ m \notin paired
    BY <1>4, <1>9, <1>12, <1>13
  <2> QED BY <1>13, <2>1 DEF Chains, LinksInv
<1>14. Settled(d)
  BY <1>10, <1>11, <1>12, <1>13 DEF Settled
<1> QED BY <1>14

(* Nothing changes in the lists when only deleted nodes do. *)
LEMMA NodesStay ==
    ASSUME NEW ch, NodesInv(ch), live' = live,
           \A n \in live : payload'[n] = payload[n] /\ next'[n] = next[n]
    PROVE  /\ NodesInv(ch)' /\ \A l \in Lists : Names(ch[l])' = Names(ch[l])
           /\ \A l \in Lists, i \in Nat : i \in 1..Len(ch[l]) => next'[ch[l][i]] = next[ch[l][i]]
<1>1. \A l \in Lists, i \in Nat : i \in 1..Len(ch[l]) =>
         ch[l][i] \in live /\ payload'[ch[l][i]] = payload[ch[l][i]] /\ next'[ch[l][i]] = next[ch[l][i]]
  BY DEF NodesInv
<1>2. ASSUME NEW l \in Lists PROVE Names(ch[l])' = Names(ch[l])
  <2>1. Len(ch[l]) \in Nat
    BY DEF NodesInv
  <2>2. \A i \in 1..Len(ch[l]) : payload'[ch[l][i]] = payload[ch[l][i]]
    BY <1>1, <2>1
  <2> QED BY <2>2 DEF Names
<1>3. NodesInv(ch)'
  BY <1>1 DEF NodesInv
<1> QED BY <1>1, <1>2, <1>3

LEMMA SettledStays ==
    ASSUME NEW ch, Settled(ch), ~walk'.on, live' = live, UNCHANGED lists,
           \A n \in live : payload'[n] = payload[n] /\ next'[n] = next[n]
    PROVE  \E c, k : Chains(c, k)'
<1>1. head' = head /\ size' = size /\ items' = items /\ paired' = paired
  BY DEF lists
<1>2. NodesInv(ch)
  BY DEF Settled
<1>3. /\ NodesInv(ch)' /\ \A l \in Lists : Names(ch[l])' = Names(ch[l])
      /\ \A l \in Lists, i \in Nat : i \in 1..Len(ch[l]) => next'[ch[l][i]] = next[ch[l][i]]
  BY <1>2, NodesStay
<1>4. LinksInv(ch, 0)'
  BY <1>1, <1>3 DEF Settled, LinksInv
<1>5. ItemsInv(ch)'
  BY <1>1, <1>3 DEF Settled, ItemsInv
<1>6. WalkInv(ch, 0)'
  BY DEF WalkInv
<1>7. Chains(ch, 0)'
  BY <1>3, <1>4, <1>5, <1>6 DEF Chains
<1> QED BY <1>7

LEMMA SettledStart ==
    ASSUME TypeOK, HeldInv, NEW ch, Settled(ch), NEW l \in Lists, l \notin paired, NEW o \in Objects, NEW r, NEW b,
           StartRemove(l, o, r, b), UNCHANGED <<head, size>>, live' = live,
           \A n \in live : payload'[n] = payload[n] /\ next'[n] = next[n]
    PROVE  Chains(ch, 0)' /\ items' \in [Lists -> Seq(Objects)] /\ paired' \subseteq Lists
<1>1. /\ walk' = [on |-> TRUE, list |-> l, item |-> o, prev |-> None, p |-> head[l], clear |-> b]
      /\ items' = [items EXCEPT ![l] = Keep(@, Objects \ {o})]
      /\ paired' = IF HasPair(l, o) THEN paired \cup {l} ELSE paired
      /\ head' = head /\ size' = size
  BY DEF StartRemove
<1>2. NodesInv(ch) /\ ch[l] \in Seq(Nodes) /\ Len(ch[l]) \in Nat
  BY DEF Settled, NodesInv
<1>3. /\ NodesInv(ch)' /\ \A m \in Lists : Names(ch[m])' = Names(ch[m])
      /\ \A m \in Lists, i \in Nat : i \in 1..Len(ch[m]) => next'[ch[m][i]] = next[ch[m][i]]
  BY <1>2, NodesStay
<1>4. PICK c, s : c = ch[l] /\ s = Names(c)
  OBVIOUS
<1>5. s \in Seq(Objects) /\ Len(s) = Len(c) /\ \A i \in 1..Len(c) : s[i] = payload[c[i]]
  BY <1>2, <1>4, NamesType
<1>6. items[l] = s /\ size[l] = Len(s)
  BY <1>4 DEF Settled
<1>7. Keep(s, Objects \ {o}) \in Seq(Objects) /\ Len(Keep(s, Objects \ {o})) \in Nat
  <2>1. Keep(s, Objects \ {o}) \in Seq(Objects \cap (Objects \ {o}))
    BY <1>5, KeepIn
  <2> QED BY <2>1
<1>8. /\ items'[l] = Keep(s, Objects \ {o})
      /\ \A m \in Lists : m # l => items'[m] = items[m]
      /\ items' \in [Lists -> Seq(Objects)]
  BY <1>1, <1>6, <1>7 DEF HeldInv
<1>9. \A m \in Lists : m # l => (m \in paired' <=> m \in paired)
  BY <1>1
<1>10. LinksInv(ch, 0)'
  <2>1. \A m \in Lists : m \notin paired' => head'[m] = Succ(ch[m], 0)
    BY <1>1 DEF Settled
  <2>2. \A m \in Lists, i \in Nat : i \in 1..Len(ch[m]) => next'[ch[m][i]] = Succ(ch[m], i)
    BY <1>3 DEF Settled
  <2> QED BY <2>1, <2>2 DEF LinksInv
<1>11. ItemsInv(ch)'
  <2>1. ASSUME NEW m \in Lists, ~Walked(m)'
        PROVE  size'[m] = Len(items'[m]) /\ IF m \in paired' THEN ch[m] = <<>> ELSE items'[m] = Names(ch[m])'
    <3>1. m # l
      BY <1>1, <2>1 DEF Walked
    <3> QED BY <1>1, <1>3, <1>8, <1>9, <3>1 DEF Settled
  <2> QED BY <2>1 DEF ItemsInv
<1>12. WalkInv(ch, 0)'
  <2>1. Wanted' = Objects \ {o} /\ Names(c)' = s /\ walk'.list = l /\ walk'.item = o /\ walk'.prev = None
    BY <1>1, <1>3, <1>4 DEF Wanted
  <2>2. 0 \in 0..Len(c) /\ walk'.p = Succ(c, 0)
    BY <1>1, <1>2, <1>4 DEF Settled
  <2>3. size'[l] = Len(items'[l]) + Len(c) - Len(Keep(s, Objects \ {o}))
    <3>1. size'[l] = Len(c) /\ Len(items'[l]) = Len(Keep(s, Objects \ {o})) /\ Len(c) \in Nat
      BY <1>1, <1>2, <1>4, <1>5, <1>6, <1>8
    <3> QED BY <1>7, <3>1
  <2>4. l \notin paired' => \A i \in (0 + 1)..(Len(c) - 1) : ~(payload'[c[i]] = o /\ payload'[c[i + 1]] = o)
    <3>1. SUFFICES ASSUME l \notin paired', NEW i \in 1..(Len(c) - 1)
                   PROVE  ~(payload'[c[i]] = o /\ payload'[c[i + 1]] = o)
      OBVIOUS
    <3>2. ~(s[i] = o /\ s[i + 1] = o)
      BY <1>1, <1>5, <1>6, <3>1 DEF HasPair
    <3>3. i \in 1..Len(c) /\ i + 1 \in 1..Len(c) /\ i \in Nat /\ i + 1 \in Nat
      BY <1>2, <1>4
    <3>4. c[i] \in live /\ c[i + 1] \in live
      BY <1>2, <1>4, <3>3 DEF NodesInv
    <3> QED BY <1>5, <3>2, <3>3, <3>4
  <2>5. \A i \in 1..0 : payload'[c[i]] # o
    OBVIOUS
  <2> QED BY <1>4, <1>8, <2>1, <2>2, <2>3, <2>4, <2>5 DEF WalkInv
<1>13. Chains(ch, 0)'
  BY <1>3, <1>10, <1>11, <1>12 DEF Chains
<1> QED BY <1>1, <1>8, <1>13 DEF TypeOK

LEMMA RemoveStartStep ==
    ASSUME IInv, Ready, NEW l \in Lists, Sort(l) = Threads, l \notin paired, NEW o \in Threads, o \in created, NEW b \in BOOLEAN,
           StartRemove(l, o, refs, b), UNCHANGED <<created, owned, ptr, head, size, nodes, stopped>>
    PROVE  IInv'
<1>1. /\ ~stopped /\ ~walk.on /\ o \in Objects /\ o \notin Procs
      /\ created' = created /\ owned' = owned /\ ptr' = ptr /\ head' = head /\ size' = size /\ stopped' = stopped
      /\ next' = next /\ payload' = payload /\ live' = live
  BY ProcessesAssumption DEF Ready, Objects, nodes
<1>2. TypeOK /\ HeldInv /\ (\E ch, k : Chains(ch, k)) /\ \A x \in Objects : Exact(x)
  BY <1>1, Parts
<1>3. PICK ch, k : Chains(ch, k)
  BY <1>2
<1>4. Settled(ch)
  BY <1>1, <1>3, SettledWhenReady
<1>5. Chains(ch, 0)' /\ items' \in [Lists -> Seq(Objects)] /\ paired' \subseteq Lists
  BY <1>1, <1>2, <1>4, SettledStart
<1>6. /\ walk' = [on |-> TRUE, list |-> l, item |-> o, prev |-> None, p |-> head[l], clear |-> b]
      /\ refs' = [refs EXCEPT ![o] = @ + 1]
  BY DEF StartRemove
<1>7. TypeOK'
  BY <1>1, <1>2, <1>5, <1>6 DEF TypeOK
<1>8. HeldInv'
  <2>1. /\ walk' \in [on : BOOLEAN, list : Lists, item : Objects \cup {None}, prev : Nodes \cup {None},
                      p : Nodes \cup {None}, clear : BOOLEAN]
        /\ walk'.item = o /\ walk'.list = l
    BY <1>1, <1>2, <1>6 DEF TypeOK
  <2> QED BY <1>1, <1>2, <1>5, <2>1 DEF HeldInv
<1>9. ASSUME NEW x \in Objects PROVE Exact(x)'
  <2>1. Exact(x) /\ Hand(x) = 0 /\ Hand(x)' = (IF x = o THEN 1 ELSE 0) /\ Holders(x)' = Holders(x)
    BY <1>1, <1>2, <1>6 DEF Hand, Holders
  <2>2. refs'[x] = IF x = o THEN refs[x] + 1 ELSE refs[x]
    BY <1>1, <1>2, <1>6 DEF TypeOK
  <2>3. Cardinality(Holders(x)) \in Nat
    BY <1>2, HoldersCounted, Counted
  <2>4. refs[x] = Cardinality(Holders(x)) /\ (x \in Procs => (x \in owned <=> refs[x] > 0))
    BY <2>1, <2>3 DEF Exact
  <2>5. refs'[x] = Cardinality(Holders(x)) + Hand(x)'
    BY <2>1, <2>2, <2>3, <2>4
  <2>6. x \in Procs => (x \in owned' <=> refs'[x] > 0)
    BY <1>1, <2>2, <2>4
  <2> QED BY <2>1, <2>5, <2>6 DEF Exact
<1> QED BY <1>5, <1>7, <1>8, <1>9, Whole

(* The sequence e is c without the element at j. *)
Cut(e, c, j) ==
    /\ Len(e) = Len(c) - 1
    /\ \A i \in 1..Len(e) : e[i] = IF i < j THEN c[i] ELSE c[i + 1]
    /\ \A i \in 0..Len(e) : Succ(e, i) = IF i < j - 1 THEN Succ(c, i) ELSE Succ(c, i + 1)

LEMMA CutFacts ==
    ASSUME NEW T, NEW c \in Seq(T), NEW j \in 1..Len(c), NEW e,
           e = [i \in 1..(Len(c) - 1) |-> IF i < j THEN c[i] ELSE c[i + 1]]
    PROVE  e \in Seq(T) /\ Cut(e, c, j)
<1>1. Len(c) \in Nat /\ \A i \in 1..Len(c) : c[i] \in T
  OBVIOUS
<1>2. e \in Seq(T) /\ Len(e) = Len(c) - 1
  <2>1. ASSUME NEW i \in 1..(Len(c) - 1) PROVE e[i] \in T
    BY <1>1
  <2>2. e = [i \in 1..(Len(c) - 1) |-> e[i]]
    OBVIOUS
  <2>3. Len(c) - 1 \in Nat
    BY <1>1
  <2> QED BY <2>1, <2>2, <2>3
<1>3. \A i \in 1..Len(e) : e[i] = IF i < j THEN c[i] ELSE c[i + 1]
  BY <1>2
<1>4. ASSUME NEW i \in 0..Len(e) PROVE Succ(e, i) = IF i < j - 1 THEN Succ(c, i) ELSE Succ(c, i + 1)
  <2>1. CASE i < j - 1
    <3>1. i < Len(c) /\ i < Len(e) /\ i + 1 \in 1..Len(e) /\ i + 1 < j
      BY <1>1, <1>2, <2>1
    <3>2. e[i + 1] = c[i + 1]
      BY <1>3, <3>1
    <3> QED BY <2>1, <3>1, <3>2 DEF Succ
  <2>2. CASE ~(i < j - 1) /\ i < Len(e)
    <3>1. i + 1 < Len(c) /\ i + 1 \in 1..Len(e) /\ ~(i + 1 < j)
      BY <1>1, <1>2, <2>2
    <3>2. e[i + 1] = c[(i + 1) + 1]
      BY <1>3, <3>1
    <3> QED BY <2>2, <3>1, <3>2 DEF Succ
  <2>3. CASE ~(i < j - 1) /\ ~(i < Len(e))
    <3>1. ~(i + 1 < Len(c))
      BY <1>1, <1>2, <2>3
    <3> QED BY <2>3, <3>1 DEF Succ
  <2> QED BY <2>1, <2>2, <2>3
<1> QED BY <1>2, <1>3, <1>4 DEF Cut

(* Where the running remove() is. *)
LEMMA WalkFacts ==
    ASSUME TypeOK, HeldInv, NEW ch, NEW k, Chains(ch, k), walk.on, walk.p # None, NEW l, l = walk.list, NEW c, c = ch[l]
    PROVE  /\ l \in Lists /\ c \in Seq(Nodes) /\ Len(c) \in Nat /\ NodesInv(ch) /\ ch \in [Lists -> Seq(Nodes)]
           /\ k \in Nat /\ k < Len(c) /\ k + 1 \in 1..Len(c) /\ k + 1 \in Nat
           /\ walk.p = c[k + 1] /\ walk.p \in live /\ walk.p \in Nodes
           /\ next[walk.p] = Succ(c, k + 1) /\ next[walk.p] \in Nodes \cup {None}
           /\ walk.item \in Threads /\ walk.item \in Objects /\ walk.item \notin Procs
<1>1. l \in Lists /\ walk.item \in Threads
  BY DEF HeldInv
<1>2. NodesInv(ch)
  BY DEF Chains
<1>3. ch \in [Lists -> Seq(Nodes)]
  BY <1>2 DEF NodesInv
<1>4. c \in Seq(Nodes) /\ Len(c) \in Nat
  BY <1>1, <1>3
<1>5. k \in 0..Len(c) /\ walk.p = Succ(c, k)
  BY DEF Chains, WalkInv
<1>6. k \in Nat /\ k < Len(c) /\ k + 1 \in 1..Len(c) /\ k + 1 \in Nat /\ walk.p = c[k + 1] /\ k + 1 > k
  BY <1>4, <1>5 DEF Succ
<1>7. walk.p \in live /\ walk.p \in Nodes
  BY <1>1, <1>2, <1>6 DEF NodesInv, TypeOK
<1>8. next[walk.p] = Succ(c, k + 1)
  BY <1>1, <1>6 DEF Chains, LinksInv
<1>9. next[walk.p] \in Nodes \cup {None}
  BY <1>7 DEF TypeOK
<1> QED BY <1>1, <1>2, <1>3, <1>4, <1>6, <1>7, <1>8, <1>9, ProcessesAssumption DEF Objects

(* A node that does not hold the item is passed. *)
LEMMA TurnPasses ==
    ASSUME IInv, RemoveTurn, payload[walk.p] # walk.item
    PROVE  IInv'
<1>1. /\ ~stopped /\ walk.on /\ walk.p # None
      /\ refs' = refs /\ head' = head /\ size' = size /\ next' = next /\ live' = live
      /\ walk' = [walk EXCEPT !.prev = walk.p, !.p = next[walk.p]]
      /\ created' = created /\ owned' = owned /\ ptr' = ptr /\ payload' = payload /\ stopped' = stopped
      /\ items' = items /\ paired' = paired
  BY DEF RemoveTurn
<1>2. TypeOK /\ HeldInv /\ (\E ch, k : Chains(ch, k)) /\ \A x \in Objects : Exact(x)
  BY <1>1, Parts
<1>3. PICK ch, k : Chains(ch, k)
  BY <1>2
<1>4. PICK l, c : l = walk.list /\ c = ch[l]
  OBVIOUS
<1>5. /\ l \in Lists /\ c \in Seq(Nodes) /\ Len(c) \in Nat /\ NodesInv(ch) /\ ch \in [Lists -> Seq(Nodes)]
      /\ k \in Nat /\ k < Len(c) /\ k + 1 \in 1..Len(c) /\ k + 1 \in Nat
      /\ walk.p = c[k + 1] /\ walk.p \in live /\ walk.p \in Nodes
      /\ next[walk.p] = Succ(c, k + 1) /\ next[walk.p] \in Nodes \cup {None}
      /\ walk.item \in Threads /\ walk.item \in Objects /\ walk.item \notin Procs
  BY <1>1, <1>2, <1>3, <1>4, WalkFacts
<1>6. /\ walk' \in [on : BOOLEAN, list : Lists, item : Objects \cup {None}, prev : Nodes \cup {None},
                    p : Nodes \cup {None}, clear : BOOLEAN]
      /\ walk'.on = walk.on /\ walk'.list = l /\ walk'.item = walk.item /\ walk'.prev = c[k + 1] /\ walk'.p = Succ(c, k + 1)
  BY <1>1, <1>2, <1>4, <1>5 DEF HeldInv
<1>7. HeldInv'
  BY <1>1, <1>2, <1>4, <1>6 DEF HeldInv
<1>8. TypeOK'
  BY <1>1, <1>2 DEF TypeOK
<1>9. ASSUME NEW x \in Objects PROVE Exact(x)'
  <2>1. Exact(x) /\ Hand(x)' = Hand(x) /\ Holders(x)' = Holders(x)
    BY <1>1, <1>2, <1>6 DEF Hand, Holders
  <2> QED BY <1>1, <2>1 DEF Exact
<1>10. NodesInv(ch)'
  BY <1>1, <1>5 DEF NodesInv
<1>11. LinksInv(ch, k + 1)'
  <2>1. \A m \in Lists : m \notin paired' => head'[m] = Succ(ch[m], 0)
    BY <1>1, <1>3 DEF Chains, LinksInv
  <2>2. ASSUME NEW m \in Lists, NEW i \in Nat, i \in 1..Len(ch[m]), m \notin paired' \/ i > k + 1
        PROVE  next'[ch[m][i]] = Succ(ch[m], i)
    <3>1. m \notin paired \/ i > k
      BY <1>1, <1>5, <2>2
    <3> QED BY <1>1, <1>3, <2>2, <3>1 DEF Chains, LinksInv
  <2> QED BY <2>1, <2>2 DEF LinksInv
<1>12. ItemsInv(ch)'
  <2>1. \A m \in Lists : Walked(m)' <=> Walked(m)
    BY <1>1, <1>4, <1>6 DEF Walked
  <2> QED BY <1>1, <1>3, <2>1 DEF Chains, ItemsInv, Names
<1>13. WalkInv(ch, k + 1)'
  <2>1. k + 1 \in 0..Len(c) /\ walk'.p = Succ(c, k + 1)
    BY <1>5, <1>6
  <2>2. \A i \in 1..(k + 1) : payload'[c[i]] # walk'.item
    <3>1. \A i \in 1..k : payload[c[i]] # walk.item
      BY <1>1, <1>3, <1>4 DEF Chains, WalkInv
    <3>2. payload[c[k + 1]] # walk.item
      BY <1>5
    <3>3. \A i \in 1..(k + 1) : i \in 1..k \/ i = k + 1
      BY <1>5
    <3> QED BY <1>1, <1>6, <3>1, <3>2, <3>3
  <2>3. Names(c)' = Names(c) /\ Wanted' = Wanted
    BY <1>1, <1>6 DEF Names, Wanted
  <2>4. size'[l] = Len(items'[l]) + Len(c) - Len(Keep(Names(c), Wanted)')
    BY <1>1, <1>3, <1>4, <2>3 DEF Chains, WalkInv
  <2>5. ASSUME NEW m \in Lists, NEW i \in Nat, i \in 1..Len(ch[m]), ch[m][i] = walk'.prev
        PROVE  m = l /\ i <= k + 1
    <3>1. m = l /\ i = k + 1
      BY <1>4, <1>5, <1>6, <2>5 DEF NodesInv
    <3> QED BY <1>5, <3>1
  <2>6. ASSUME l \notin paired' PROVE items'[l] = Keep(Names(c), Wanted)'
    BY <1>1, <1>3, <1>4, <2>3, <2>6 DEF Chains, WalkInv
  <2>7. ASSUME l \notin paired', NEW i \in ((k + 1) + 1)..(Len(c) - 1)
        PROVE  ~(payload'[c[i]] = walk'.item /\ payload'[c[i + 1]] = walk'.item)
    <3>1. i \in (k + 1)..(Len(c) - 1)
      BY <1>5
    <3> QED BY <1>1, <1>3, <1>4, <1>6, <2>7, <3>1 DEF Chains, WalkInv
  <2>8. k + 1 > 0 /\ walk'.prev = c[k + 1]
    BY <1>5, <1>6
  <2> QED BY <1>4, <1>6, <2>1, <2>2, <2>4, <2>5, <2>6, <2>7, <2>8 DEF WalkInv
<1>14. Chains(ch, k + 1)'
  BY <1>10, <1>11, <1>12, <1>13 DEF Chains
<1> QED BY <1>7, <1>8, <1>9, <1>14, Whole

(* A node that holds the item is unlinked and deleted. *)
LEMMA TurnDeletes ==
    ASSUME IInv, RemoveTurn, payload[walk.p] = walk.item
    PROVE  IInv'
<1>1. /\ ~stopped /\ walk.on /\ walk.p # None /\ Unlink
      /\ live' = live \ {walk.p} /\ refs' = [refs EXCEPT ![walk.item] = @ - 1]
      /\ size' = [size EXCEPT ![walk.list] = @ - 1]
      /\ walk' = [walk EXCEPT !.prev = walk.p, !.p = next[walk.p]]
      /\ created' = created /\ owned' = owned /\ ptr' = ptr /\ payload' = payload /\ stopped' = stopped
      /\ items' = items /\ paired' = paired
  BY DEF RemoveTurn
<1>2. TypeOK /\ HeldInv /\ (\E ch, k : Chains(ch, k)) /\ \A x \in Objects : Exact(x)
  BY <1>1, Parts
<1>3. PICK ch, k : Chains(ch, k)
  BY <1>2
<1>4. PICK l, c, p, t : l = walk.list /\ c = ch[l] /\ p = walk.p /\ t = walk.item
  OBVIOUS
<1>5. /\ l \in Lists /\ c \in Seq(Nodes) /\ Len(c) \in Nat /\ NodesInv(ch) /\ ch \in [Lists -> Seq(Nodes)]
      /\ k \in Nat /\ k < Len(c) /\ k + 1 \in 1..Len(c) /\ k + 1 \in Nat
      /\ p = c[k + 1] /\ p \in live /\ p \in Nodes
      /\ next[p] = Succ(c, k + 1) /\ next[p] \in Nodes \cup {None}
      /\ t \in Threads /\ t \in Objects /\ t \notin Procs
  BY <1>1, <1>2, <1>3, <1>4, WalkFacts
<1>6. /\ walk' \in [on : BOOLEAN, list : Lists, item : Objects \cup {None}, prev : Nodes \cup {None},
                    p : Nodes \cup {None}, clear : BOOLEAN]
      /\ walk'.on = walk.on /\ walk'.list = l /\ walk'.item = t /\ walk'.prev = p /\ walk'.p = Succ(c, k + 1)
  BY <1>1, <1>2, <1>4, <1>5 DEF HeldInv
<1>7. HeldInv'
  BY <1>1, <1>2, <1>4, <1>6 DEF HeldInv
<1>8. PICK e, j : e = [i \in 1..(Len(c) - 1) |-> IF i < j THEN c[i] ELSE c[i + 1]] /\ j = k + 1
  OBVIOUS
<1>9. e \in Seq(Nodes) /\ Cut(e, c, j)
  BY <1>5, <1>8, CutFacts
<1>10. /\ Len(e) = Len(c) - 1 /\ Len(e) \in Nat /\ k \in 0..Len(e)
       /\ \A i \in 1..Len(e) : e[i] = IF i < k + 1 THEN c[i] ELSE c[i + 1]
       /\ \A i \in 0..Len(e) : Succ(e, i) = IF i < k THEN Succ(c, i) ELSE Succ(c, i + 1)
  BY <1>5, <1>8, <1>9 DEF Cut
<1>11. PICK d : d = [ch EXCEPT ![l] = e]
  OBVIOUS
<1>12. d \in [Lists -> Seq(Nodes)] /\ d[l] = e /\ \A m \in Lists : m # l => d[m] = ch[m]
  BY <1>5, <1>9, <1>11
<1>13. ASSUME NEW m \in Lists, NEW i \in Nat, i \in 1..Len(d[m])
       PROVE  LET a == IF m = l /\ i > k THEN i + 1 ELSE i
              IN  a \in Nat /\ a \in 1..Len(ch[m]) /\ d[m][i] = ch[m][a] /\ ~(m = l /\ a = k + 1)
  <2>1. CASE m = l
    <3>1. i \in Nat /\ i \in 1..Len(e) /\ d[m] = e /\ ch[m] = c
      BY <1>4, <1>12, <1>13, <2>1
    <3>2. CASE i > k
      <4>1. e[i] = c[i + 1] /\ i + 1 \in Nat /\ i + 1 \in 1..Len(c) /\ i + 1 # k + 1
        BY <1>5, <1>10, <3>1, <3>2
      <4> QED BY <2>1, <3>1, <3>2, <4>1
    <3>3. CASE ~(i > k)
      <4>1. i < k + 1 /\ i \in 1..Len(c) /\ i # k + 1
        BY <1>5, <1>10, <3>1, <3>3
      <4>2. e[i] = c[i]
        BY <1>10, <3>1, <4>1
      <4> QED BY <2>1, <3>1, <3>3, <4>1, <4>2
    <3> QED BY <3>2, <3>3
  <2>2. CASE m # l
    BY <1>12, <1>13, <2>2
  <2> QED BY <2>1, <2>2
<1>14. NodesInv(d)'
  <2>1. ASSUME NEW m \in Lists, NEW i \in Nat, i \in 1..Len(d[m])
        PROVE  d[m][i] \in live' /\ payload'[d[m][i]] \in Sort(m)
    <3>1. PICK a \in Nat : a \in 1..Len(ch[m]) /\ d[m][i] = ch[m][a] /\ ~(m = l /\ a = k + 1)
      BY <1>13, <2>1
    <3>2. ch[m][a] \in live /\ payload[ch[m][a]] \in Sort(m)
      BY <1>5, <3>1 DEF NodesInv
    <3>3. ch[m][a] # p
      BY <1>4, <1>5, <3>1 DEF NodesInv
    <3> QED BY <1>1, <1>4, <3>1, <3>2, <3>3
  <2>2. ASSUME NEW m \in Lists, NEW n \in Lists, NEW i \in Nat, NEW h \in Nat,
               i \in 1..Len(d[m]), h \in 1..Len(d[n]), d[m][i] = d[n][h]
        PROVE  m = n /\ i = h
    <3>1. PICK a : a = IF m = l /\ i > k THEN i + 1 ELSE i
      OBVIOUS
    <3>2. a \in Nat /\ a \in 1..Len(ch[m]) /\ d[m][i] = ch[m][a]
      BY <1>13, <2>2, <3>1
    <3>3. PICK b : b = IF n = l /\ h > k THEN h + 1 ELSE h
      OBVIOUS
    <3>4. b \in Nat /\ b \in 1..Len(ch[n]) /\ d[n][h] = ch[n][b]
      BY <1>13, <2>2, <3>3
    <3>5. m = n /\ a = b
      <4>1. \A i2, j2 \in Nat : i2 \in 1..Len(ch[m]) /\ j2 \in 1..Len(ch[n]) /\ ch[m][i2] = ch[n][j2] => m = n /\ i2 = j2
        BY <1>5, Zenon DEF NodesInv
      <4>2. ch[m][a] = ch[n][b]
        BY <2>2, <3>2, <3>4
      <4> QED BY <3>2, <3>4, <4>1, <4>2
    <3> QED BY <1>5, <2>2, <3>1, <3>3, <3>5
  <2> QED BY <1>12, <2>1, <2>2 DEF NodesInv
<1>15. /\ walk.prev \in Nodes \cup {None}
       /\ walk.prev # None => \A m \in Lists, i \in Nat :
             i \in 1..Len(ch[m]) /\ ch[m][i] = walk.prev => m = l /\ i <= k
       /\ l \notin paired => (k = 0 /\ walk.prev = None) \/ (k > 0 /\ walk.prev = c[k])
  <2>1. l \notin paired => ~(k < Len(c) => payload[c[k + 1]] # walk.item)
    BY <1>4, <1>5
  <2> QED BY <1>1, <1>2, <1>3, <1>4, <2>1 DEF Chains, WalkInv, HeldInv
<1>16. /\ head' \in [Lists -> Nodes \cup {None}] /\ next' \in [Nodes -> Nodes \cup {None}]
       /\ head'[l] = IF walk.prev # None THEN head[l] ELSE next[p]
       /\ \A m \in Lists : m # l => head'[m] = head[m]
       /\ \A n \in Nodes : next'[n] = IF walk.prev # None /\ n = walk.prev THEN next[p] ELSE next[n]
  <2>1. CASE walk.prev # None
    BY <1>1, <1>2, <1>4, <1>5, <1>15, <2>1 DEF Unlink, TypeOK
  <2>2. CASE walk.prev = None
    BY <1>1, <1>2, <1>4, <1>5, <2>2 DEF Unlink, TypeOK
  <2> QED BY <2>1, <2>2
<1>17. LinksInv(d, k)'
  <2>1. ASSUME NEW m \in Lists, m \notin paired PROVE head'[m] = Succ(d[m], 0)
    <3>1. head[m] = Succ(ch[m], 0)
      BY <1>3, <2>1 DEF Chains, LinksInv
    <3>2. CASE m # l
      BY <1>12, <1>16, <3>1, <3>2
    <3>3. CASE m = l /\ k = 0 /\ walk.prev = None
      <4>1. Succ(e, 0) = Succ(c, 0 + 1)
        BY <1>10, <3>3
      <4> QED BY <1>5, <1>12, <1>16, <3>3, <4>1
    <3>4. CASE m = l /\ k > 0 /\ walk.prev = c[k]
      <4>1. Succ(e, 0) = Succ(c, 0)
        BY <1>10, <3>4
      <4>2. c[k] \in Nodes /\ c[k] # None
        BY <1>5, <3>4, ListFacts
      <4> QED BY <1>4, <1>12, <1>16, <3>1, <3>4, <4>1, <4>2
    <3> QED BY <1>15, <2>1, <3>2, <3>3, <3>4
  <2>2. ASSUME NEW m \in Lists, NEW i \in Nat, i \in 1..Len(d[m]), m \notin paired \/ i > k
        PROVE  next'[d[m][i]] = Succ(d[m], i)
    <3>1. PICK a : a = IF m = l /\ i > k THEN i + 1 ELSE i
      OBVIOUS
    <3>2. a \in Nat /\ a \in 1..Len(ch[m]) /\ d[m][i] = ch[m][a] /\ ~(m = l /\ a = k + 1)
      BY <1>13, <2>2, <3>1
    <3>3. next[ch[m][a]] = Succ(ch[m], a)
      <4>1. m \notin paired \/ a > k
        BY <1>5, <2>2, <3>1
      <4> QED BY <1>3, <3>2, <4>1 DEF Chains, LinksInv
    <3>4. ch[m][a] \in Nodes
      BY <1>5, <3>2
    <3>5. CASE m # l
      <4>1. ~(walk.prev # None /\ ch[m][a] = walk.prev)
        BY <1>15, <3>2, <3>5
      <4> QED BY <1>12, <1>16, <3>1, <3>2, <3>3, <3>4, <3>5, <4>1
    <3>6. CASE m = l /\ i > k
      <4>1. ~(walk.prev # None /\ ch[m][a] = walk.prev)
        BY <1>5, <1>15, <3>1, <3>2, <3>6
      <4>2. Succ(e, i) = Succ(c, i + 1)
        BY <1>5, <1>10, <1>12, <2>2, <3>6
      <4> QED BY <1>4, <1>12, <1>16, <3>1, <3>2, <3>3, <3>4, <3>6, <4>1, <4>2
    <3>7. CASE m = l /\ i = k
      <4>1. walk.prev = c[k]
        BY <1>5, <1>15, <2>2, <3>7
      <4>2. Succ(e, i) = Succ(c, k + 1)
        BY <1>5, <1>10, <1>12, <2>2, <3>7
      <4>3. d[m][i] = c[k] /\ c[k] \in Nodes /\ c[k] # None
        BY <1>4, <1>5, <3>1, <3>2, <3>4, <3>7, ListFacts
      <4> QED BY <1>5, <1>12, <1>16, <3>7, <4>1, <4>2, <4>3
    <3>8. CASE m = l /\ i < k
      <4>1. walk.prev = c[k] /\ k \in Nat /\ k \in 1..Len(ch[l]) /\ a = i
        BY <1>4, <1>5, <1>15, <2>2, <3>1, <3>8
      <4>2. ch[m][a] # walk.prev
        <5>1. \A g, h \in Nat : g \in 1..Len(ch[l]) /\ h \in 1..Len(ch[l]) /\ ch[l][g] = ch[l][h] => g = h
          BY <1>5, Zenon DEF NodesInv
        <5>2. a # k /\ a \in Nat /\ a \in 1..Len(ch[l])
          BY <1>5, <2>2, <3>2, <3>8, <4>1
        <5>3. ch[l][a] # ch[l][k]
          BY <4>1, <5>1, <5>2, Zenon
        <5> QED BY <1>4, <3>8, <4>1, <5>3
      <4>3. Succ(e, i) = Succ(c, i)
        BY <1>5, <1>10, <1>12, <2>2, <3>8
      <4> QED BY <1>4, <1>12, <1>16, <3>2, <3>3, <3>4, <3>8, <4>1, <4>2, <4>3
    <3> QED BY <1>5, <3>5, <3>6, <3>7, <3>8
  <2> QED BY <1>1, <2>1, <2>2 DEF LinksInv
<1>18. size'[l] = size[l] - 1 /\ \A m \in Lists : m # l => size'[m] = size[m]
  BY <1>1, <1>2, <1>4, <1>5 DEF TypeOK
<1>19. ItemsInv(d)'
  <2>1. ASSUME NEW m \in Lists, ~Walked(m)'
        PROVE  size'[m] = Len(items'[m]) /\ IF m \in paired' THEN d[m] = <<>> ELSE items'[m] = Names(d[m])'
    <3>1. m # l /\ ~Walked(m)
      BY <1>1, <1>4, <1>6, <2>1 DEF Walked
    <3>2. Names(d[m])' = Names(ch[m])
      BY <1>1, <1>12, <3>1 DEF Names
    <3> QED BY <1>1, <1>3, <1>12, <1>18, <3>1, <3>2 DEF Chains, ItemsInv
  <2> QED BY <2>1 DEF ItemsInv
<1>20. Names(e)' = Names(e) /\ Wanted' = Wanted /\ Wanted = Objects \ {t}
  BY <1>1, <1>4, <1>6 DEF Names, Wanted
<1>21. /\ Keep(Names(e), Wanted) = Keep(Names(c), Wanted)
       /\ Len(Keep(Names(e), Wanted)) \in Nat /\ Len(Keep(Names(e), Wanted)) <= Len(e)
  <2>1. PICK s, u, W : s = Names(c) /\ u = Names(e) /\ W = Wanted
    OBVIOUS
  <2>2. s \in Seq(Objects) /\ Len(s) = Len(c) /\ \A i \in 1..Len(c) : s[i] = payload[c[i]]
    <3>1. /\ Names(ch[l]) \in Seq(Objects) /\ Len(Names(ch[l])) = Len(ch[l])
          /\ \A i \in 1..Len(ch[l]) : Names(ch[l])[i] = payload[ch[l][i]]
      BY <1>5, NamesType
    <3> QED BY <1>4, <2>1, <3>1
  <2>3. /\ \A i \in 1..Len(e) : i \in 1..Len(c) /\ i + 1 \in 1..Len(c)
        /\ \A i \in 1..Len(e) : u[i] = IF i < k + 1 THEN s[i] ELSE s[i + 1]
    <3>1. \A i \in 1..Len(e) : i \in 1..Len(c) /\ i + 1 \in 1..Len(c)
      BY <1>5, <1>10
    <3>2. ASSUME NEW i \in 1..Len(e) PROVE u[i] = IF i < k + 1 THEN s[i] ELSE s[i + 1]
      <4>1. u[i] = payload[e[i]]
        BY <2>1 DEF Names
      <4>2. e[i] = IF i < k + 1 THEN c[i] ELSE c[i + 1]
        BY <1>10
      <4>3. s[i] = payload[c[i]] /\ s[i + 1] = payload[c[i + 1]]
        BY <2>2, <3>1
      <4> QED BY <4>1, <4>2, <4>3
    <3> QED BY <3>1, <3>2
  <2>4. u \in Seq(Objects) /\ Len(u) = Len(e)
    <3>1. \A i \in 1..Len(c) : s[i] \in Objects
      BY <2>2
    <3>2. \A i \in 1..Len(e) : u[i] \in Objects
      BY <2>3, <3>1
    <3> QED BY <1>10, <2>1, <3>2 DEF Names
  <2>5. s[k + 1] \notin W
    BY <1>4, <1>5, <1>20, <2>1, <2>2
  <2>6. Keep(u, W) = Keep(s, W)
    <3>1. /\ j \in 1..Len(s) /\ s[j] \notin W /\ Len(u) = Len(s) - 1
          /\ \A i \in 1..Len(u) : u[i] = IF i < j THEN s[i] ELSE s[i + 1]
      BY <1>5, <1>8, <1>10, <2>2, <2>3, <2>4, <2>5
    <3> QED BY <2>2, <2>4, <3>1, KeepWithout
  <2>7. Keep(u, W) \in Seq(Objects \cap W) /\ Len(Keep(u, W)) <= Len(u)
    BY <2>4, KeepIn
  <2> QED BY <2>1, <2>4, <2>6, <2>7
<1>22. size'[l] = Len(items'[l]) + Len(e) - Len(Keep(Names(e), Wanted)')
  <2>1. size[l] = Len(items[l]) + Len(c) - Len(Keep(Names(c), Wanted)) /\ Len(items[l]) \in Nat
    BY <1>1, <1>2, <1>3, <1>4, <1>5 DEF Chains, WalkInv, HeldInv
  <2>2. Keep(Names(e), Wanted)' = Keep(Names(e), Wanted)
    BY <1>20
  <2> QED BY <1>1, <1>5, <1>10, <1>18, <1>21, <2>1, <2>2
<1>23. WalkInv(d, k)'
  <2>1. k \in 0..Len(e) /\ walk'.p = Succ(e, k)
    <3>1. Succ(e, k) = Succ(c, k + 1)
      BY <1>5, <1>10
    <3> QED BY <1>6, <1>10, <3>1
  <2>2. ASSUME NEW i \in 1..k PROVE payload'[e[i]] # t
    <3>1. payload[c[i]] # t
      BY <1>1, <1>3, <1>4 DEF Chains, WalkInv
    <3>2. e[i] = c[i]
      <4>1. Len(e) \in Nat /\ k \in 0..Len(e) /\ \A h \in 1..Len(e) : e[h] = IF h < k + 1 THEN c[h] ELSE c[h + 1]
        BY <1>10
      <4>2. i \in 1..Len(e) /\ i < k + 1
        BY <4>1
      <4> QED BY <4>1, <4>2
    <3> QED BY <1>1, <3>1, <3>2
  <2>3. ASSUME NEW m \in Lists, NEW i \in Nat, i \in 1..Len(d[m]) PROVE d[m][i] # walk'.prev
    <3>1. d[m][i] \in live'
      BY <1>14, <2>3 DEF NodesInv
    <3> QED BY <1>1, <1>4, <1>6, <3>1
  <2>4. l \notin paired => \A i \in (k + 1)..(Len(c) - 1) : ~(payload[c[i]] = t /\ payload[c[i + 1]] = t)
    BY <1>1, <1>3, <1>4 DEF Chains, WalkInv
  <2>5. ASSUME l \notin paired PROVE items'[l] = Keep(Names(e), Wanted)'
    <3>1. items[l] = Keep(Names(c), Wanted)
      BY <1>1, <1>3, <1>4, <2>5 DEF Chains, WalkInv
    <3> QED BY <1>1, <1>20, <1>21, <3>1
  <2>6. ASSUME l \notin paired, NEW i \in (k + 1)..(Len(e) - 1)
        PROVE  ~(payload'[e[i]] = t /\ payload'[e[i + 1]] = t)
    <3>1. i + 1 \in (k + 1)..(Len(c) - 1) /\ e[i] = c[i + 1] /\ e[i + 1] = c[(i + 1) + 1]
      <4>1. /\ i \in 1..Len(e) /\ i + 1 \in 1..Len(e) /\ ~(i < k + 1) /\ ~(i + 1 < k + 1)
            /\ i + 1 \in (k + 1)..(Len(c) - 1)
        BY <1>5, <1>10, <2>6
      <4>2. \A h \in 1..Len(e) : ~(h < k + 1) => e[h] = c[h + 1]
        BY <1>10
      <4> QED BY <4>1, <4>2
    <3> QED BY <1>1, <2>4, <2>6, <3>1
  <2>7. ASSUME l \notin paired, k < Len(e) PROVE payload'[e[k + 1]] # t
    <3>1. k + 1 \in (k + 1)..(Len(c) - 1) /\ e[k + 1] = c[(k + 1) + 1]
      BY <1>5, <1>10, <2>7
    <3>2. payload[c[k + 1]] = t
      BY <1>4, <1>5
    <3> QED BY <1>1, <2>4, <2>7, <3>1, <3>2
  <2>8. walk'.prev # None
    BY <1>5, <1>6, ListFacts
  <2>9. l \notin paired =>
            /\ items'[l] = Keep(Names(e), Wanted)'
            /\ \A i \in (k + 1)..(Len(e) - 1) : ~(payload'[e[i]] = t /\ payload'[e[i + 1]] = t)
            /\ walk'.prev # None /\ (k < Len(e) => payload'[e[k + 1]] # t)
    BY <2>5, <2>6, <2>7, <2>8
  <2>10. walk'.prev # None => \A m \in Lists, i \in Nat :
            i \in 1..Len(d[m]) /\ d[m][i] = walk'.prev => m = l /\ i <= k
    BY <2>3
  <2>11. walk'.list = l /\ walk'.item = t /\ d[l] = e
    BY <1>6, <1>12, Zenon
  <2>12. PICK a, x : a = walk'.list /\ x = walk'.item
    OBVIOUS
  <2>13. a = l /\ x = t /\ d[a] = e
    BY <2>11, <2>12, Zenon
  <2>14. /\ k \in 0..Len(d[a]) /\ walk'.p = Succ(d[a], k)
         /\ \A i \in 1..k : payload'[d[a][i]] # x
         /\ size'[a] = Len(items'[a]) + Len(d[a]) - Len(Keep(Names(d[a]), Wanted)')
    BY <1>22, <2>1, <2>2, <2>13, Zenon
  <2>15. walk'.prev # None => \A m \in Lists, i \in Nat :
            i \in 1..Len(d[m]) /\ d[m][i] = walk'.prev => m = a /\ i <= k
    BY <2>10, <2>13, Zenon
  <2>16. a \notin paired =>
            /\ items'[a] = Keep(Names(d[a]), Wanted)'
            /\ \A i \in (k + 1)..(Len(d[a]) - 1) : ~(payload'[d[a][i]] = x /\ payload'[d[a][i + 1]] = x)
            /\ walk'.prev # None /\ (k < Len(d[a]) => payload'[d[a][k + 1]] # x)
    BY <2>9, <2>13, Zenon
  <2>17. paired' = paired
    BY <1>1
  <2> HIDE <2>13
  <2> QED BY <2>12, <2>14, <2>15, <2>16, <2>17, Zenon DEF WalkInv
<1>24. Chains(d, k)'
  BY <1>14, <1>17, <1>19, <1>23 DEF Chains
<1>25. /\ Cardinality(Holders(t)') = Cardinality(Holders(t)) - 1 /\ Cardinality(Holders(t)) \in Nat
       /\ Cardinality(Holders(t)) > 0 /\ \A x \in Objects : x # t => Holders(x)' = Holders(x)
  <2>1. p \notin Vars
    BY <1>5, ProcessesAssumption DEF Vars
  <2>2. Holders(t)' = Holders(t) \ {p} /\ p \in Holders(t)
    BY <1>1, <1>4, <1>5, <2>1 DEF Holders
  <2>3. \A x \in Objects : x # t => Holders(x)' = Holders(x)
    BY <1>1, <1>4 DEF Holders
  <2> QED BY <1>2, <2>2, <2>3, HoldersCounted, Counted
<1>26. \A x \in Objects : Hand(x)' = Hand(x) /\ Hand(x) = (IF x = t THEN 1 ELSE 0)
  BY <1>1, <1>4, <1>6 DEF Hand
<1>27. refs[t] = Cardinality(Holders(t)) + 1
  <2>1. Exact(t) /\ Hand(t) = 1
    BY <1>2, <1>5, <1>26
  <2> QED BY <2>1 DEF Exact
<1>28. refs' \in [Objects -> Nat] /\ refs'[t] = refs[t] - 1 /\ \A x \in Objects : x # t => refs'[x] = refs[x]
  <2>1. refs[t] - 1 \in Nat /\ refs \in [Objects -> Nat] /\ refs' = [refs EXCEPT ![t] = refs[t] - 1]
    BY <1>1, <1>2, <1>4, <1>5, <1>25, <1>27 DEF TypeOK
  <2> QED BY <1>5, <2>1
<1>29. ASSUME NEW x \in Objects PROVE Exact(x)'
  <2>1. CASE x = t
    <3>1. refs'[t] = Cardinality(Holders(t)') + Hand(t)'
      BY <1>5, <1>25, <1>26, <1>27, <1>28
    <3> QED BY <1>5, <2>1, <3>1 DEF Exact
  <2>2. CASE x # t
    BY <1>1, <1>2, <1>25, <1>26, <1>28, <2>2 DEF Exact
  <2> QED BY <2>1, <2>2
<1>30. TypeOK'
  <2>1. size[l] - 1 \in Nat
    <3>1. size'[l] = size[l] - 1 /\ Len(items[l]) \in Nat
      BY <1>2, <1>5, <1>18 DEF HeldInv
    <3> QED BY <1>1, <1>10, <1>18, <1>20, <1>21, <1>22, <3>1
  <2>2. size' \in [Lists -> Nat]
    BY <1>1, <1>2, <1>4, <1>5, <2>1 DEF TypeOK
  <2>3. live' \subseteq Nodes
    BY <1>1, <1>2 DEF TypeOK
  <2> QED BY <1>1, <1>2, <1>16, <1>28, <2>2, <2>3 DEF TypeOK
<1> QED BY <1>7, <1>24, <1>29, <1>30, Whole

(* The copy is destroyed, and clear() may go on with the next item. *)
LEMMA RemoveEndStep ==
    ASSUME IInv, RemoveEnd
    PROVE  IInv'
<1>1. PICK l, t, r : l = walk.list /\ t = walk.item /\ r = [refs EXCEPT ![t] = @ - 1]
  OBVIOUS
<1>2. /\ ~stopped /\ walk.on /\ walk.p = None
      /\ next' = [n \in Nodes |-> IF n \in live THEN next[n] ELSE None]
      /\ payload' = [n \in Nodes |-> IF n \in live THEN payload[n] ELSE None]
      /\ created' = created /\ ptr' = ptr /\ live' = live
  BY DEF RemoveEnd
<1>3. TypeOK /\ HeldInv /\ (\E ch, k : Chains(ch, k)) /\ \A x \in Objects : Exact(x)
  BY <1>2, Parts
<1>4. PICK ch : Settled(ch)
  BY <1>2, <1>3, SettledAtEnd
<1>5. l \in Lists /\ t \in Threads /\ t \in created /\ t \in Objects /\ t \notin Procs /\ Sort(l) = Threads
  BY <1>1, <1>2, <1>3, ProcessesAssumption DEF HeldInv, Objects
<1>6. /\ \A n \in live : payload'[n] = payload[n] /\ next'[n] = next[n]
      /\ next' \in [Nodes -> Nodes \cup {None}] /\ payload' \in [Nodes -> Objects \cup {None}]
      /\ \A x \in Objects : Holders(x)' = Holders(x)
  <2>1. \A n \in live : payload'[n] = payload[n] /\ next'[n] = next[n]
    BY <1>2, <1>3 DEF TypeOK
  <2> QED BY <1>2, <1>3, <2>1 DEF TypeOK, Holders
<1>7. /\ refs[t] = Cardinality(Holders(t)) + 1 /\ Cardinality(Holders(t)) \in Nat
      /\ \A x \in Objects : Hand(x) = IF x = t THEN 1 ELSE 0
  <2>1. \A x \in Objects : Hand(x) = IF x = t THEN 1 ELSE 0
    BY <1>1, <1>2 DEF Hand
  <2>2. Exact(t) /\ Hand(t) = 1
    BY <1>3, <1>5, <2>1
  <2>3. Cardinality(Holders(t)) \in Nat
    BY <1>3, HoldersCounted, Counted
  <2> QED BY <2>1, <2>2, <2>3 DEF Exact
<1>8. r \in [Objects -> Nat] /\ r[t] = refs[t] - 1 /\ \A x \in Objects : x # t => r[x] = refs[x]
  <2>1. refs[t] - 1 \in Nat /\ refs \in [Objects -> Nat]
    BY <1>3, <1>7 DEF TypeOK
  <2> QED BY <1>1, <1>5, <2>1
<1>9. \A x \in Objects : r[x] = Cardinality(Holders(x)) /\ (x \in Procs => (x \in owned <=> r[x] > 0))
  <2>1. ASSUME NEW x \in Objects, x # t
        PROVE  r[x] = Cardinality(Holders(x)) /\ (x \in Procs => (x \in owned <=> r[x] > 0))
    <3>1. Exact(x) /\ Hand(x) = 0 /\ Cardinality(Holders(x)) \in Nat
      BY <1>3, <1>7, <2>1, HoldersCounted, Counted
    <3> QED BY <1>8, <2>1, <3>1 DEF Exact
  <2> QED BY <1>5, <1>7, <1>8, <2>1
<1>10. CASE ~walk.clear \/ head[l] = None
  <2>1. walk' = Idle /\ refs' = r /\ Destroyed(t, r) /\ stopped' = stopped
    BY <1>1, <1>10 DEF RemoveEnd
  <2>2. UNCHANGED lists /\ owned' = owned
    BY <1>5, <2>1 DEF Destroyed
  <2>3. head' = head /\ size' = size /\ items' = items /\ paired' = paired
    BY <2>2 DEF lists
  <2>4. /\ ~walk'.on
        /\ walk' \in [on : BOOLEAN, list : Lists, item : Objects \cup {None}, prev : Nodes \cup {None},
                      p : Nodes \cup {None}, clear : BOOLEAN]
    <3>1. <<"prio", 0>> \in Lists
      BY ProcessesAssumption, ListFacts DEF Priorities
    <3> QED BY <2>1, <3>1 DEF Idle
  <2>5. \E c, k : Chains(c, k)'
    BY <1>2, <1>4, <1>6, <2>2, <2>4, SettledStays
  <2>6. TypeOK'
    BY <1>2, <1>3, <1>6, <1>8, <2>1, <2>2, <2>3 DEF TypeOK
  <2>7. HeldInv'
    <3>1. \A n \in live' : payload'[n] \in created'
      <4>1. \A n \in live : payload[n] \in created
        BY <1>3 DEF HeldInv
      <4>2. live' = live /\ created' = created
        BY <1>2
      <4> QED BY <1>6, <4>1, <4>2
    <3> QED BY <1>2, <1>3, <2>3, <2>4, <3>1 DEF HeldInv
  <2>8. ASSUME NEW x \in Objects PROVE Exact(x)'
    <3>1. Hand(x)' = 0 /\ refs'[x] = Cardinality(Holders(x)') /\ Cardinality(Holders(x)) \in Nat
      BY <1>3, <1>6, <1>9, <2>1, <2>4, HoldersCounted, Counted DEF Hand
    <3>2. refs'[x] = Cardinality(Holders(x)') + Hand(x)'
      BY <1>6, <3>1
    <3> QED BY <1>9, <2>1, <2>2, <3>2 DEF Exact
  <2> QED BY <2>5, <2>6, <2>7, <2>8, Whole
<1>11. CASE ~(~walk.clear \/ head[l] = None) /\ Broken(l)
  <2>1. stopped' = TRUE /\ walk' = walk /\ refs' = refs /\ UNCHANGED <<lists, owned>>
    BY <1>1, <1>11 DEF RemoveEnd
  <2>2. TypeOK'
    BY <1>2, <1>3, <1>6, <2>1 DEF TypeOK, lists
  <2> QED BY <2>1, <2>2 DEF IInv, RefsExact
<1>12. CASE ~(~walk.clear \/ head[l] = None) /\ ~Broken(l)
  <2>1. PICK o : o = payload[head[l]]
    OBVIOUS
  <2>2. /\ StartRemove(l, o, r, TRUE) /\ head' = head /\ size' = size
        /\ stopped' = stopped /\ owned' = owned /\ UNCHANGED <<head, size>>
    BY <1>1, <1>12, <2>1 DEF RemoveEnd
  <2>3. o \in Threads /\ o \in created /\ o \in Objects /\ o \notin Procs
    <3>1. l \notin paired /\ head[l] # None /\ head[l] = Succ(ch[l], 0) /\ ch[l] \in Seq(Nodes)
      BY <1>4, <1>5, <1>12 DEF Broken, Settled, NodesInv
    <3>2. 1 \in 1..Len(ch[l]) /\ 1 \in Nat /\ head[l] = ch[l][1]
      BY <3>1 DEF Succ
    <3>3. head[l] \in live /\ payload[head[l]] \in Sort(l)
      BY <1>4, <1>5, <3>2 DEF Settled, NodesInv
    <3> QED BY <1>3, <1>5, <2>1, <3>3, ProcessesAssumption DEF HeldInv, Objects
  <2>4. l \notin paired
    BY <1>12 DEF Broken
  <2>5. Chains(ch, 0)' /\ items' \in [Lists -> Seq(Objects)] /\ paired' \subseteq Lists
    BY <1>2, <1>3, <1>4, <1>5, <1>6, <2>2, <2>3, <2>4, SettledStart
  <2>6. /\ walk' = [on |-> TRUE, list |-> l, item |-> o, prev |-> None, p |-> head[l], clear |-> TRUE]
        /\ refs' = [r EXCEPT ![o] = @ + 1]
    BY <2>2 DEF StartRemove
  <2>7. refs' \in [Objects -> Nat] /\ \A x \in Objects : refs'[x] = IF x = o THEN r[x] + 1 ELSE r[x]
    BY <1>8, <2>3, <2>6
  <2>8. TypeOK'
    BY <1>2, <1>3, <1>6, <2>2, <2>5, <2>7 DEF TypeOK
  <2>9. HeldInv'
    <3>1. /\ walk' \in [on : BOOLEAN, list : Lists, item : Objects \cup {None}, prev : Nodes \cup {None},
                        p : Nodes \cup {None}, clear : BOOLEAN]
          /\ walk'.item = o /\ walk'.list = l
      BY <1>3, <1>5, <2>3, <2>6 DEF TypeOK
    <3>2. \A n \in live' : payload'[n] \in created'
      <4>1. \A n \in live : payload[n] \in created
        BY <1>3 DEF HeldInv
      <4>2. live' = live /\ created' = created
        BY <1>2
      <4> QED BY <1>6, <4>1, <4>2
    <3> QED BY <1>2, <1>3, <1>5, <2>3, <2>5, <3>1, <3>2 DEF HeldInv
  <2>10. ASSUME NEW x \in Objects PROVE Exact(x)'
    <3>1. /\ Hand(x)' = (IF x = o THEN 1 ELSE 0) /\ Cardinality(Holders(x)) \in Nat
          /\ r[x] = Cardinality(Holders(x)) /\ Holders(x)' = Holders(x)
      BY <1>3, <1>6, <1>9, <2>6, HoldersCounted, Counted DEF Hand
    <3>2. refs'[x] = Cardinality(Holders(x)') + Hand(x)'
      BY <2>7, <3>1
    <3>3. x \in Procs => (x \in owned' <=> refs'[x] > 0)
      BY <1>9, <2>2, <2>3, <2>7
    <3> QED BY <3>2, <3>3 DEF Exact
  <2> QED BY <2>5, <2>8, <2>9, <2>10, Whole
<1> QED BY <1>10, <1>11, <1>12

LEMMA InitIInv ==
    ASSUME Init
    PROVE  IInv
<1>1. <<>> \in Seq(Nodes) /\ Len(<<>>) = 0 /\ <<>> \in Seq(Objects)
  OBVIOUS
<1>2. TypeOK
  BY DEF Init, TypeOK
<1>3. HeldInv
  <2>1. <<"prio", 0>> \in Lists
    BY ProcessesAssumption, ListFacts DEF Priorities
  <2>2. /\ ~walk.on
        /\ walk \in [on : BOOLEAN, list : Lists, item : Objects \cup {None}, prev : Nodes \cup {None},
                     p : Nodes \cup {None}, clear : BOOLEAN]
    BY <2>1 DEF Init, Idle
  <2>3. items \in [Lists -> Seq(Objects)]
    BY <1>1 DEF Init
  <2>4. live = {} /\ ptr = [v \in Vars |-> None]
    BY DEF Init
  <2> QED BY <2>2, <2>3, <2>4 DEF HeldInv, Vars
<1>4. \E ch, k : Chains(ch, k)
  <2>1. PICK ch : ch = [l \in Lists |-> <<>>]
    OBVIOUS
  <2>2. ch \in [Lists -> Seq(Nodes)] /\ \A l \in Lists : ch[l] = <<>> /\ Len(ch[l]) = 0
    BY <1>1, <2>1
  <2>3. NodesInv(ch)
    BY <2>2 DEF NodesInv
  <2>4. LinksInv(ch, 0)
    <3>1. Succ(<<>>, 0) = None
      BY <1>1 DEF Succ
    <3> QED BY <2>2, <3>1 DEF LinksInv, Init
  <2>5. ItemsInv(ch)
    <3>1. Names(<<>>) = <<>>
      BY <1>1 DEF Names
    <3> QED BY <1>1, <2>2, <3>1 DEF ItemsInv, Init
  <2>6. WalkInv(ch, 0)
    BY DEF WalkInv, Init, Idle
  <2> QED BY <2>3, <2>4, <2>5, <2>6 DEF Chains
<1>5. ASSUME NEW o \in Objects PROVE Exact(o)
  <2>1. Holders(o) = {}
    BY ListFacts DEF Init, Holders
  <2>2. refs[o] = 0 /\ Hand(o) = 0 /\ o \notin owned
    BY DEF Init, Hand, Idle
  <2>3. Cardinality({}) = 0
    BY FS_EmptySet
  <2> QED BY <2>1, <2>2, <2>3 DEF Exact
<1> QED BY <1>2, <1>3, <1>4, <1>5 DEF IInv, RefsExact, Exact, Hand

(* The threads of a process that a variable holds. *)
LEMMA HeldTypes ==
    ASSUME IInv, ~stopped
    PROVE  /\ \A v \in ProcVars : ptr[v] # None => ptr[v] \in Procs
           /\ \A v \in ThreadVars : ptr[v] # None => ptr[v] \in Threads /\ ptr[v] \in created
           /\ ProcVars \subseteq Vars /\ ThreadVars \subseteq Vars
BY Parts DEF HeldInv, Vars

LEMMA RemoveThreadStep ==
    ASSUME IInv, NEW v \in ProcVars, NEW t \in ThreadVars, removeThread(v, t)
    PROVE  IInv'
<1>1. Ready /\ ptr[v] # None /\ ptr[t] # None /\ remove(<<"threads", ptr[v]>>, ptr[t]) /\ ~stopped
  BY DEF removeThread, Ready
<1>2. PICK l, o : l = <<"threads", ptr[v]>> /\ o = ptr[t]
  OBVIOUS
<1>3. l \in Lists /\ Sort(l) = Threads /\ o \in Threads /\ o \in created
  BY <1>1, <1>2, HeldTypes, ListFacts
<1>4. CASE Undefined(l)
  BY <1>4, StopStep DEF Undefined
<1>5. CASE ~Undefined(l)
  <2>1. /\ l \notin paired /\ StartRemove(l, o, refs, FALSE)
        /\ UNCHANGED <<created, owned, ptr, head, size, nodes, stopped>>
    BY <1>1, <1>2, <1>5 DEF remove, Broken
  <2> QED BY <1>1, <1>3, <2>1, RemoveStartStep
<1> QED BY <1>4, <1>5

LEMMA ClearThreadsStep ==
    ASSUME IInv, NEW v \in ProcVars, clearThreads(v)
    PROVE  IInv'
<1>1. Ready /\ ~stopped /\ ~walk.on /\ ptr[v] # None /\ clear(<<"threads", ptr[v]>>)
  BY DEF clearThreads, clear, Ready
<1>2. PICK l, o : l = <<"threads", ptr[v]>> /\ o = payload[head[l]]
  OBVIOUS
<1>3. l \in Lists /\ Sort(l) = Threads /\ head[l] # None
  BY <1>1, <1>2, HeldTypes, ListFacts DEF clear
<1>4. CASE Undefined(l)
  BY <1>4, StopStep DEF Undefined
<1>5. CASE ~Undefined(l)
  <2>1. /\ l \notin paired /\ StartRemove(l, o, refs, TRUE)
        /\ UNCHANGED <<created, owned, ptr, head, size, nodes, stopped>>
    BY <1>1, <1>2, <1>5 DEF clear, Broken
  <2>2. PICK ch, k : Chains(ch, k)
    BY <1>1, Parts
  <2>3. Settled(ch)
    BY <1>1, <2>2, SettledWhenReady
  <2>4. head[l] = Succ(ch[l], 0) /\ ch[l] \in Seq(Nodes)
    BY <1>3, <2>1, <2>3 DEF Settled, NodesInv
  <2>5. 1 \in 1..Len(ch[l]) /\ 1 \in Nat /\ head[l] = ch[l][1]
    BY <1>3, <2>4 DEF Succ
  <2>6. head[l] \in live /\ o \in Threads
    BY <1>2, <1>3, <2>3, <2>5 DEF Settled, NodesInv
  <2>7. o \in created
    BY <1>1, <1>2, <2>6, Parts DEF HeldInv
  <2> QED BY <1>1, <1>3, <2>1, <2>6, <2>7, RemoveStartStep
<1> QED BY <1>4, <1>5

LEMMA NextIInv ==
    ASSUME IInv, [Next]_vars
    PROVE  IInv'
<1>1. ASSUME NEW v \in ProcVars, NEW p \in Procs, NewProcess(v, p) PROVE IInv'
  BY <1>1, NewStep DEF NewProcess, Vars, Objects
<1>2. ASSUME NEW v \in ThreadVars, NEW t \in Threads, NewThread(v, t) PROVE IInv'
  BY <1>2, NewStep DEF NewThread, Vars, Objects
<1>3. ASSUME NEW v \in ProcVars, NEW i \in Priorities, addProcess(v, i) PROVE IInv'
  <2>1. Ready /\ ~stopped /\ ptr[v] # None /\ add(<<"prio", i>>, ptr[v])
    BY <1>3 DEF addProcess, Ready
  <2>2. <<"prio", i>> \in Lists /\ ptr[v] \in Sort(<<"prio", i>>) /\ v \in Vars
    BY <2>1, HeldTypes, ListFacts
  <2> QED BY <2>1, <2>2, AddStep
<1>4. ASSUME NEW v \in ProcVars, NEW t \in ThreadVars, addThread(v, t) PROVE IInv'
  <2>1. Ready /\ ~stopped /\ ptr[v] # None /\ ptr[t] # None /\ add(<<"threads", ptr[v]>>, ptr[t])
    BY <1>4 DEF addThread, Ready
  <2>2. <<"threads", ptr[v]>> \in Lists /\ ptr[t] \in Sort(<<"threads", ptr[v]>>) /\ t \in Vars
    BY <2>1, HeldTypes, ListFacts
  <2> QED BY <2>1, <2>2, AddStep
<1>5. CASE RemoveTurn
  BY <1>5, TurnPasses, TurnDeletes
<1>6. CASE UNCHANGED vars
  <2>1. TypeOK'
    BY <1>6 DEF IInv, RefsExact, TypeOK, vars
  <2>2. stopped' = stopped /\ UNCHANGED <<lists, nodes, walk>> /\ refs' = refs /\ owned' = owned /\ ptr' = ptr
        /\ created' = created /\ live' = live /\ payload' = payload /\ walk' = walk /\ items' = items
    BY <1>6 DEF vars, lists, nodes
  <2>3. CASE stopped
    BY <2>1, <2>2, <2>3 DEF IInv, RefsExact
  <2>4. CASE ~stopped
    <3>1. TypeOK /\ HeldInv /\ (\E ch, k : Chains(ch, k)) /\ \A x \in Objects : Exact(x)
      BY <2>4, Parts
    <3>2. \E ch, k : Chains(ch, k)'
      BY <2>2, <3>1, ChainsStay
    <3>3. HeldInv'
      BY <2>2, <3>1 DEF HeldInv
    <3>4. ASSUME NEW x \in Objects PROVE Exact(x)'
      <4>1. Holders(x)' = Holders(x) /\ Hand(x)' = Hand(x)
        BY <2>2 DEF Holders, Hand
      <4> QED BY <2>2, <3>1, <4>1 DEF Exact
    <3> QED BY <2>1, <3>2, <3>3, <3>4, Whole
  <2> QED BY <2>3, <2>4
<1> QED BY <1>1, <1>2, <1>3, <1>4, <1>5, <1>6, CopyStep, AssignStep, DropStep, RemoveThreadStep, ClearThreadsStep,
           RemoveEndStep, ScheduleStep DEF Next, Stopped

(* The inductive invariant. *)
LEMMA ProcessesInductive == Spec => []IInv
<1>1. Init => IInv
  BY InitIInv
<1>2. IInv /\ [Next]_vars => IInv'
  BY NextIInv
<1> QED BY <1>1, <1>2, PTL DEF Spec

(* Every counter is exact in every reachable state, whatever the order in which
   kernel code copies, assigns and drops its SmartPointers and lists are changed:
   SmartPointer.h 15-66 and LinkedList.h 38-64 never lose a reference and never
   delete an object that is held, for any number of objects, variables, nodes
   and priorities. *)
THEOREM SpecRefsExact == Spec => []RefsExact
<1>1. IInv => RefsExact
  BY DEF IInv
<1> QED BY <1>1, ProcessesInductive, PTL

-----------------------------------------------------------------------------
(* The function that NodesOf follows the pointers with. *)
AtRun(l, g) ==
    g = [k \in 1..(Cardinality(Nodes) + 1) |->
            IF k = 1 THEN head[l] ELSE IF g[k - 1] = None THEN None ELSE next[g[k - 1]]]

(* A list has no more nodes than there are. *)
LEMMA ChainShort ==
    ASSUME NEW ch, NodesInv(ch), NEW l \in Lists
    PROVE  Cardinality(Nodes) \in Nat /\ Len(ch[l]) <= Cardinality(Nodes)
<1>1. IsFiniteSet(Nodes) /\ Cardinality(Nodes) \in Nat
  BY ProcessesAssumption, FS_CardinalityType
<1>2. PICK c : c = ch[l]
  OBVIOUS
<1>3. c \in Seq(Nodes) /\ Len(c) \in Nat /\ c \in [1..Len(c) -> Nodes]
  BY <1>2 DEF NodesInv
<1>4. IsFiniteSet(1..Len(c)) /\ Cardinality(1..Len(c)) = Len(c)
  <2>1. 1 \in Int /\ Len(c) \in Int
    BY <1>3
  <2>2. IsFiniteSet(1..Len(c)) /\ Cardinality(1..Len(c)) = IF 1 > Len(c) THEN 0 ELSE Len(c) - 1 + 1
    BY <2>1, FS_Interval
  <2> QED BY <1>3, <2>2
<1>5. SUFFICES ASSUME Cardinality(Nodes) < Cardinality(1..Len(c)) PROVE FALSE
  BY <1>1, <1>2, <1>3, <1>4
<1>6. PICK x, y \in 1..Len(c) : x # y /\ c[x] = c[y]
  BY <1>1, <1>3, <1>4, <1>5, FS_PigeonHole
<1> QED BY <1>2, <1>3, <1>6 DEF NodesInv

(* What the pointers of an unbroken list link are the nodes of the list. *)
LEMMA NodesFound ==
    ASSUME NEW ch, Settled(ch), NEW l \in Lists, l \notin paired
    PROVE  NodesOf(l) = ch[l]
<1>1. PICK c, N : c = ch[l] /\ N = Cardinality(Nodes)
  OBVIOUS
<1>2. NodesInv(ch)
  BY DEF Settled
<1>3. c \in Seq(Nodes) /\ Len(c) \in Nat /\ N \in Nat /\ Len(c) <= N
  BY <1>1, <1>2, ChainShort DEF NodesInv
<1>4. /\ head[l] = Succ(c, 0)
      /\ \A i \in 1..Len(c) : c[i] \in Nodes /\ c[i] # None /\ next[c[i]] = Succ(c, i)
  BY <1>1, <1>3, ListFacts DEF Settled
<1>5. \A i \in Nat : Succ(c, i) = None <=> i >= Len(c)
  BY <1>3, <1>4 DEF Succ
<1>6. \A i \in Nat : i < Len(c) => Succ(c, i) = c[i + 1] /\ next[Succ(c, i)] = Succ(c, i + 1)
  BY <1>3, <1>4 DEF Succ
<1>7. \E g : AtRun(l, g)
  <2>1. PICK g : g = [k \in 1..(N + 1) |-> Succ(c, k - 1)]
    OBVIOUS
  <2>2. ASSUME NEW k \in 1..(N + 1)
        PROVE  g[k] = IF k = 1 THEN head[l] ELSE IF g[k - 1] = None THEN None ELSE next[g[k - 1]]
    <3>1. CASE k = 1
      BY <1>3, <1>4, <2>1, <3>1
    <3>2. CASE k # 1
      <4>1. PICK i, j : i = k - 2 /\ j = k - 1
        OBVIOUS
      <4>2. i \in Nat /\ j \in 1..(N + 1) /\ j = i + 1 /\ j \in Nat /\ k - 1 = j
        BY <1>3, <3>2, <4>1
      <4>3. g[k] = Succ(c, j) /\ g[j] = Succ(c, i)
        <5>1. j - 1 = i
          BY <4>2
        <5> QED BY <2>1, <4>2, <5>1
      <4>4. CASE i >= Len(c)
        <5>1. Succ(c, i) = None /\ Succ(c, j) = None
          BY <1>3, <1>5, <4>2, <4>4
        <5> QED BY <3>2, <4>2, <4>3, <5>1
      <4>5. CASE i < Len(c)
        <5>1. Succ(c, i) # None /\ Succ(c, j) = next[Succ(c, i)]
          BY <1>3, <1>5, <1>6, <4>2, <4>5
        <5> QED BY <3>2, <4>2, <4>3, <5>1
      <4> QED BY <1>3, <4>2, <4>4, <4>5
    <3> QED BY <3>1, <3>2
  <2>3. g = [k \in 1..(N + 1) |-> g[k]]
    BY <2>1
  <2>4. AtRun(l, g)
    BY <1>1, <2>2, <2>3, Zenon DEF AtRun
  <2> QED BY <2>4
<1> DEFINE g == CHOOSE h : AtRun(l, h)
<1>8. AtRun(l, g)
  BY <1>7
<1>9. NodesOf(l) = [k \in 1..Cardinality({j \in 1..N : g[j] # None}) |-> g[k]]
  BY <1>1 DEF NodesOf, AtRun
<1> HIDE DEF g
<1>10. \A k \in 1..(N + 1) : g[k] = IF k = 1 THEN head[l] ELSE IF g[k - 1] = None THEN None ELSE next[g[k - 1]]
  BY <1>1, <1>8 DEF AtRun
<1>11. \A i \in 0..N : g[i + 1] = Succ(c, i)
  <2> DEFINE K == {i \in 0..N : g[i + 1] = Succ(c, i)}
  <2>1. 0 \in K
    <3>1. 1 \in 1..(N + 1) /\ 0 \in 0..N /\ 0 + 1 = 1
      BY <1>3
    <3>2. g[1] = Succ(c, 0)
      BY <1>4, <1>10, <3>1
    <3> QED BY <3>1, <3>2
  <2>2. ASSUME NEW i \in K, i < N PROVE i + 1 \in K
    <3>1. PICK j, k : j = i + 1 /\ k = i + 2
      OBVIOUS
    <3>2. i \in Nat /\ j \in Nat /\ j \in 0..N /\ k \in 1..(N + 1) /\ k # 1 /\ k - 1 = j /\ j + 1 = k
      BY <1>3, <2>2, <3>1
    <3>3. g[j] = Succ(c, i)
      BY <3>1
    <3>4. g[k] = IF g[j] = None THEN None ELSE next[g[j]]
      BY <1>10, <3>2
    <3>5. CASE i >= Len(c)
      <4>1. Succ(c, i) = None /\ Succ(c, j) = None
        BY <1>3, <1>5, <3>1, <3>2, <3>5
      <4> QED BY <3>1, <3>2, <3>3, <3>4, <4>1
    <3>6. CASE i < Len(c)
      <4>1. Succ(c, i) # None /\ Succ(c, j) = next[Succ(c, i)]
        BY <1>3, <1>5, <1>6, <3>1, <3>2, <3>6
      <4> QED BY <3>1, <3>2, <3>3, <3>4, <4>1
    <3> QED BY <1>3, <3>2, <3>5, <3>6
  <2> HIDE DEF K
  <2>3. \A i \in 0..N : i \in K
    BY <1>3, <2>1, <2>2, IntervalInduction
  <2> QED BY <2>3 DEF K
<1>12. ASSUME NEW j \in 1..N PROVE (g[j] # None <=> j \in 1..Len(c)) /\ (j \in 1..Len(c) => g[j] = c[j])
  <2>1. PICK i : i = j - 1
    OBVIOUS
  <2>2. i \in 0..N /\ i \in Nat /\ i + 1 = j
    BY <1>3, <2>1
  <2>3. g[j] = Succ(c, i)
    BY <1>11, <2>2
  <2> QED BY <1>3, <1>5, <1>6, <2>2, <2>3
<1>13. {j \in 1..N : g[j] # None} = 1..Len(c)
  <2>1. \A j \in 1..Len(c) : j \in 1..N
    BY <1>3
  <2> QED BY <1>12, <2>1
<1>14. Cardinality(1..Len(c)) = Len(c)
  <2>1. 1 \in Int /\ Len(c) \in Int
    BY <1>3
  <2>2. Cardinality(1..Len(c)) = IF 1 > Len(c) THEN 0 ELSE Len(c) - 1 + 1
    BY <2>1, FS_Interval
  <2> QED BY <1>3, <2>2
<1>15. \A k \in 1..Len(c) : g[k] = c[k]
  BY <1>3, <1>12
<1>16. NodesOf(l) = [k \in 1..Len(c) |-> c[k]]
  BY <1>9, <1>13, <1>14, <1>15
<1>17. c = [k \in 1..Len(c) |-> c[k]]
  BY <1>3
<1> QED BY <1>1, <1>16, <1>17

(* Such a list holds what it should, in nodes that are not deleted. *)
LEMMA ContentsFound ==
    ASSUME NEW ch, Settled(ch), NEW l \in Lists, l \notin paired
    PROVE  Contents(l) = items[l] /\ ~Dangling(l)
<1>1. PICK c : c = ch[l]
  OBVIOUS
<1>2. NodesOf(l) = c
  BY <1>1, NodesFound
<1>3. c \in Seq(Nodes) /\ DOMAIN c = 1..Len(c) /\ Len(c) \in Nat
  BY <1>1 DEF Settled, NodesInv
<1>4. Contents(l) = Names(c)
  BY <1>2, <1>3 DEF Contents, Names
<1>5. items[l] = Names(c)
  BY <1>1 DEF Settled
<1>6. \A k \in 1..Len(c) : c[k] \in live
  BY <1>1, <1>3 DEF Settled, NodesInv
<1>7. ~Dangling(l)
  BY <1>2, <1>3, <1>6 DEF Dangling
<1> QED BY <1>4, <1>5, <1>7

(* Between two calls every list is what was added to it without what was
   removed, and count its length (LinkedList.h 36-64), as long as no equal
   neighbours were removed; the count is right even then.  This holds for any
   number of lists, nodes and items, and after any number of calls. *)
THEOREM SpecListsExact == Spec => []ListsExact
<1>1. ASSUME IInv PROVE ListsExact
  <2>1. SUFFICES ASSUME Ready, NEW l \in Lists
                 PROVE  size[l] = Len(items[l]) /\ (l \notin paired => ~Dangling(l) /\ Contents(l) = items[l])
    BY DEF ListsExact
  <2>2. ~stopped /\ ~walk.on
    BY <2>1 DEF Ready
  <2>3. PICK ch, k : Chains(ch, k)
    BY <1>1, <2>2, Parts
  <2>4. Settled(ch)
    BY <2>2, <2>3, SettledWhenReady
  <2>5. size[l] = Len(items[l])
    BY <2>4 DEF Settled
  <2> QED BY <2>4, <2>5, ContentsFound
<1> QED BY <1>1, ProcessesInductive, PTL

-----------------------------------------------------------------------------
(* The function that FlattenSeq is computed with. *)
FlatRun(seqs, g) == g = [i \in 1..Len(seqs) |-> IF i = 1 THEN seqs[i] ELSE g[i - 1] \o seqs[i]]

LEMMA FlattenExists ==
    ASSUME NEW T, NEW seqs \in Seq(Seq(T)), Len(seqs) # 0
    PROVE  \E g : /\ FlatRun(seqs, g) /\ FlattenSeq(seqs) = g[Len(seqs)]
                  /\ \A i \in 1..Len(seqs) : g[i] \in Seq(T)
<1>1. PICK n : n = Len(seqs) - 1
  OBVIOUS
<1>2. n \in Nat /\ Len(seqs) = n + 1 /\ \A i \in 1..(n + 1) : seqs[i] \in Seq(T)
  BY <1>1
<1> DEFINE Q == Seq(T)
           F == [i \in 1..n |-> [x \in Q |-> x \o seqs[i + 1]]]
           D == [k \in 0..n |-> Q]
<1>3. \A i \in 1..n : \A x \in Q : F[i][x] = x \o seqs[i + 1]
  OBVIOUS
<1>4. seqs[1] \in D[0] /\ \A k \in 0..n : D[k] = Q
  BY <1>2
<1>5. ASSUME NEW k \in 0..n, k < n, NEW x \in D[k] PROVE F[k + 1][x] \in D[k + 1]
  <2>1. PICK m : m = k + 1
    OBVIOUS
  <2>2. m \in 1..n /\ m \in 0..n /\ x \in Q /\ seqs[m + 1] \in Q
    BY <1>2, <1>4, <1>5, <2>1
  <2>3. x \o seqs[m + 1] \in Q
    BY <2>2
  <2>4. F[m][x] \in Q /\ D[m] = Q
    <3> HIDE DEF F, D, Q
    <3> QED BY <1>3, <1>4, <2>2, <2>3
  <2> HIDE DEF F, D, Q
  <2> QED BY <2>1, <2>4
<1> HIDE DEF F, D, Q
<1>6. PICK h : LoopRun(n, seqs[1], F, h)
  BY <1>2, LoopExists
<1>7. \A k \in 0..n : h[k] \in Q
  <2>1. \A k \in 0..n : h[k] \in D[k]
    BY <1>2, <1>4, <1>5, <1>6, LoopIn
  <2> QED BY <1>4, <2>1
<1>8. PICK g : g = [i \in 1..(n + 1) |-> h[i - 1]]
  OBVIOUS
<1>9. ASSUME NEW i \in 1..(n + 1) PROVE g[i] = IF i = 1 THEN seqs[i] ELSE g[i - 1] \o seqs[i]
  <2>1. PICK j : j = i - 1
    OBVIOUS
  <2>2. j \in 0..n /\ i = j + 1 /\ g[i] = h[j]
    BY <1>2, <1>8, <2>1
  <2>3. h[j] = IF j = 0 THEN seqs[1] ELSE F[j][h[j - 1]]
    BY <1>6, <2>2 DEF LoopRun
  <2>4. CASE j = 0
    <3>1. i = 1
      BY <2>2, <2>4
    <3> QED BY <2>2, <2>3, <2>4, <3>1
  <2>5. CASE j # 0
    <3>1. PICK y : y = h[j - 1]
      OBVIOUS
    <3>2. j \in 1..n /\ j - 1 \in 0..n /\ i # 1 /\ j \in 1..(n + 1)
      BY <1>2, <2>2, <2>5
    <3>3. F[j][y] = y \o seqs[i]
      BY <1>3, <1>7, <2>2, <3>1, <3>2
    <3>4. g[j] = y
      BY <1>8, <3>1, <3>2
    <3> QED BY <2>1, <2>2, <2>3, <2>5, <3>1, <3>2, <3>3, <3>4, Zenon
  <2> QED BY <2>4, <2>5
<1>10. FlatRun(seqs, g)
  <2>1. g = [i \in 1..(n + 1) |-> g[i]]
    BY <1>8
  <2>2. 1..Len(seqs) = 1..(n + 1)
    BY <1>2
  <2> QED BY <1>9, <2>1, <2>2, Zenon DEF FlatRun
<1> DEFINE f == CHOOSE e : FlatRun(seqs, e)
<1>11. FlatRun(seqs, f)
  BY <1>10
<1>12. FlattenSeq(seqs) = f[Len(seqs)]
  BY DEF FlattenSeq, FlatRun
<1> HIDE DEF f
<1> DEFINE K == {k \in 0..n : f[k + 1] \in Q}
<1>13. 0 \in K
  <2>1. 1 \in 1..Len(seqs) /\ 0 \in 0..n /\ seqs[1] \in Q
    BY <1>2 DEF Q
  <2>2. f[1] = seqs[1]
    BY <1>11, <2>1 DEF FlatRun
  <2>3. 0 + 1 = 1
    OBVIOUS
  <2> QED BY <2>1, <2>2, <2>3
<1>14. ASSUME NEW k \in K, k < n PROVE k + 1 \in K
  <2>1. PICK m, j : m = k + 2 /\ j = k + 1
    OBVIOUS
  <2>2. m \in 1..Len(seqs) /\ m # 1 /\ m - 1 = j /\ j \in 0..n /\ j + 1 = m /\ seqs[m] \in Q
    BY <1>2, <1>14, <2>1 DEF Q
  <2>3. f[m] = f[j] \o seqs[m]
    BY <1>11, <2>2 DEF FlatRun
  <2>4. f[j] \in Q
    BY <2>1
  <2>5. f[m] \in Q
    <3>1. f[j] \o seqs[m] \in Q
      BY <2>2, <2>4 DEF Q
    <3> QED BY <2>3, <3>1
  <2> QED BY <2>1, <2>2, <2>5
<1> HIDE DEF K
<1>15. \A k \in 0..n : k \in K
  BY <1>2, <1>13, <1>14, IntervalInduction
<1>16. ASSUME NEW i \in 1..Len(seqs) PROVE f[i] \in Seq(T)
  <2>1. PICK j : j = i - 1
    OBVIOUS
  <2>2. j \in 0..n /\ j + 1 = i
    BY <1>2, <2>1
  <2>3. j \in K
    BY <1>15, <2>2
  <2> QED BY <2>2, <2>3 DEF K, Q
<1> QED BY <1>11, <1>12, <1>16

(* What G makes of every element of a sequence. *)
Each(s, G) == [j \in DOMAIN s |-> G[s[j]]]

EachStep(s, x, G) == Each(Append(s, x), G) = Each(s, G) \o <<G[x]>> /\ Each(s, G) \o <<>> = Each(s, G)

LEMMA EachAppend ==
    ASSUME NEW T, NEW s \in Seq(T), NEW x \in T, NEW U, NEW G \in [T -> U]
    PROVE  EachStep(s, x, G)
<1>1. Len(s) \in Nat /\ DOMAIN s = 1..Len(s) /\ \A j \in 1..Len(s) : s[j] \in T
  OBVIOUS
<1>2. PICK e : e = Each(s, G)
  OBVIOUS
<1>3. e \in Seq(U) /\ Len(e) = Len(s) /\ \A j \in 1..Len(s) : e[j] = G[s[j]]
  BY <1>1, <1>2 DEF Each
<1>4. PICK t, y : t = Append(s, x) /\ y = G[x]
  OBVIOUS
<1>5. /\ t \in Seq(T) /\ Len(t) = Len(s) + 1 /\ DOMAIN t = 1..(Len(s) + 1) /\ t[Len(s) + 1] = x
      /\ \A j \in 1..Len(s) : t[j] = s[j]
  BY <1>1, <1>4
<1>6. y \in U
  BY <1>4
<1>7. PICK d, a : d = Each(t, G) /\ a = e \o <<y>>
  OBVIOUS
<1>8. d \in Seq(U) /\ Len(d) = Len(s) + 1 /\ \A j \in 1..(Len(s) + 1) : d[j] = G[t[j]]
  <2>1. \A j \in 1..(Len(s) + 1) : t[j] \in T
    BY <1>5
  <2> QED BY <1>1, <1>5, <1>7, <2>1 DEF Each
<1>9. a \in Seq(U) /\ Len(a) = Len(s) + 1 /\ a[Len(s) + 1] = y /\ \A j \in 1..Len(s) : a[j] = e[j]
  BY <1>1, <1>3, <1>6, <1>7
<1>10. \A j \in 1..(Len(s) + 1) : j \in 1..Len(s) \/ j = Len(s) + 1
  BY <1>1
<1>11. \A j \in 1..(Len(s) + 1) : d[j] = a[j]
  BY <1>3, <1>4, <1>5, <1>8, <1>9, <1>10
<1>12. d = a
  BY <1>8, <1>9, <1>11, SeqEqual
<1>13. e \o <<>> = e
  BY <1>3
<1> QED BY <1>2, <1>4, <1>7, <1>12, <1>13 DEF EachStep

Ones(q, B, G) == [k \in DOMAIN q |-> IF q[k] \in B THEN <<G[q[k]]>> ELSE <<>>]

OnesKept(q, B, G) == FlattenSeq(Ones(q, B, G)) = Each(Keep(q, B), G)

(* To put one element for everything in B together is to keep what is in B. *)
LEMMA FlattenKeep ==
    ASSUME NEW T, NEW q \in Seq(T), NEW B, NEW U, NEW G \in [T -> U]
    PROVE  OnesKept(q, B, G)
<1>0. PICK f : f = Ones(q, B, G)
  OBVIOUS
<1>1. Len(q) \in Nat /\ DOMAIN q = 1..Len(q) /\ \A k \in 1..Len(q) : q[k] \in T
  OBVIOUS
<1>2. f \in Seq(Seq(U)) /\ Len(f) = Len(q) /\ \A k \in 1..Len(q) : f[k] = IF q[k] \in B THEN <<G[q[k]]>> ELSE <<>>
  <2>1. \A k \in 1..Len(q) : G[q[k]] \in U
    BY <1>1
  <2>2. <<>> \in Seq(U) /\ \A y \in U : <<y>> \in Seq(U)
    OBVIOUS
  <2>3. \A k \in 1..Len(q) : (IF q[k] \in B THEN <<G[q[k]]>> ELSE <<>>) \in Seq(U)
    BY <2>1, <2>2
  <2>4. f = [k \in 1..Len(q) |-> IF q[k] \in B THEN <<G[q[k]]>> ELSE <<>>]
    BY <1>0, <1>1 DEF Ones
  <2> QED BY <1>1, <2>3, <2>4
<1>3. PICK h : KeepRun(q, B, h) /\ Keep(q, B) = h[Len(q)]
  BY KeepExists
<1>4. /\ h[0] = <<>>
      /\ \A k \in 0..Len(q) : k < Len(q) => h[k + 1] = IF q[k + 1] \in B THEN Append(h[k], q[k + 1]) ELSE h[k]
  BY <1>3, KeepRound
<1>5. CASE Len(q) = 0
  <2>1. Keep(q, B) = <<>>
    BY <1>3, <1>5, <1>4
  <2>2. f = <<>>
    BY <1>2, <1>5
  <2>3. FlattenSeq(f) = f
    BY <1>2, <1>5 DEF FlattenSeq
  <2>4. Each(<<>>, G) = <<>>
    BY DEF Each
  <2> QED BY <1>0, <2>1, <2>2, <2>3, <2>4 DEF OnesKept
<1>6. CASE Len(q) # 0
  <2>1. PICK n : n = Len(q) - 1
    OBVIOUS
  <2>2. n \in Nat /\ Len(q) = n + 1
    BY <1>1, <1>6, <2>1
  <2>3. PICK g : FlatRun(f, g) /\ FlattenSeq(f) = g[Len(f)]
    BY <1>2, <1>6, FlattenExists
  <2>4. \A k \in 0..Len(q) : h[k] \in Seq(T)
    <3> DEFINE K == {k \in 0..Len(q) : h[k] \in Seq(T)}
    <3>1. 0 \in K
      <4>1. h[0] \in Seq(T)
        BY <1>4
      <4> QED BY <1>1, <4>1
    <3>2. ASSUME NEW k \in K, k < Len(q) PROVE k + 1 \in K
      <4>1. k \in 0..Len(q) /\ k + 1 \in 0..Len(q) /\ q[k + 1] \in T /\ h[k] \in Seq(T)
        BY <1>1, <3>2
      <4>2. h[k + 1] = IF q[k + 1] \in B THEN Append(h[k], q[k + 1]) ELSE h[k]
        BY <1>3, <3>2, <4>1, KeepRound
      <4>3. Append(h[k], q[k + 1]) \in Seq(T)
        BY <4>1
      <4> QED BY <4>1, <4>2, <4>3
    <3> HIDE DEF K
    <3>3. \A k \in 0..Len(q) : k \in K
      BY <1>1, <3>1, <3>2, IntervalInduction
    <3> QED BY <3>3 DEF K
  <2> DEFINE K == {k \in 0..n : g[k + 1] = Each(h[k + 1], G)}
  <2>5. 0 \in K
    <3>1. 0 \in 0..n /\ 0 + 1 = 1 /\ 1 \in 1..Len(q) /\ 0 \in 0..Len(q) /\ 0 < Len(q) /\ q[1] \in T
      BY <1>1, <2>2
    <3>2. g[1] = f[1] /\ f[1] = IF q[1] \in B THEN <<G[q[1]]>> ELSE <<>>
      BY <1>2, <2>3, <3>1 DEF FlatRun
    <3>3. h[1] = IF q[1] \in B THEN Append(<<>>, q[1]) ELSE <<>>
      <4>1. h[0 + 1] = IF q[0 + 1] \in B THEN Append(h[0], q[0 + 1]) ELSE h[0]
        BY <1>4, <3>1
      <4> QED BY <1>4, <3>1, <4>1
    <3>4. Append(<<>>, q[1]) = <<q[1]>> /\ <<>> \in Seq(T)
      BY <3>1
    <3>5. PICK x : x = q[1]
      OBVIOUS
    <3>6. Each(<<x>>, G) = <<G[x]>> /\ Each(<<>>, G) = <<>>
      BY DEF Each
    <3>7. g[1] = Each(h[1], G)
      BY <3>2, <3>3, <3>4, <3>5, <3>6
    <3> QED BY <3>1, <3>7
  <2>6. ASSUME NEW k \in K, k < n PROVE k + 1 \in K
    <3>1. PICK m, j : m = k + 2 /\ j = k + 1
      OBVIOUS
    <3>2. /\ m \in 1..Len(q) /\ m # 1 /\ m - 1 = j /\ j \in 0..n /\ j + 1 = m /\ q[m] \in T
          /\ j \in 0..Len(q) /\ j < Len(q)
      BY <1>1, <2>2, <2>6, <3>1
    <3>3. g[m] = g[j] \o f[m] /\ f[m] = IF q[m] \in B THEN <<G[q[m]]>> ELSE <<>>
      BY <1>2, <2>3, <3>2 DEF FlatRun
    <3>4. h[j + 1] = IF q[j + 1] \in B THEN Append(h[j], q[j + 1]) ELSE h[j]
      BY <1>3, <3>2, KeepRound
    <3>5. h[m] = IF q[m] \in B THEN Append(h[j], q[m]) ELSE h[j]
      BY <3>2, <3>4
    <3>6. g[j] = Each(h[j], G) /\ h[j] \in Seq(T)
      BY <2>4, <3>1, <3>2
    <3>7. Each(Append(h[j], q[m]), G) = Each(h[j], G) \o <<G[q[m]]>> /\ Each(h[j], G) \o <<>> = Each(h[j], G)
      <4>1. PICK s, x : s = h[j] /\ x = q[m]
        OBVIOUS
      <4>2. s \in Seq(T) /\ x \in T
        BY <3>2, <3>6, <4>1
      <4>3. Each(Append(s, x), G) = Each(s, G) \o <<G[x]>> /\ Each(s, G) \o <<>> = Each(s, G)
        <5>1. EachStep(s, x, G)
          BY <4>2, EachAppend
        <5> QED BY <5>1 DEF EachStep
      <4> QED BY <4>1, <4>3
    <3>8. g[m] = Each(h[m], G)
      BY <3>3, <3>5, <3>6, <3>7
    <3> QED BY <3>1, <3>2, <3>8
  <2> HIDE DEF K
  <2>7. \A k \in 0..n : k \in K
    BY <2>2, <2>5, <2>6, IntervalInduction
  <2>8. n \in K
    BY <2>2, <2>7
  <2> QED BY <1>0, <1>2, <1>3, <2>2, <2>3, <2>8 DEF K, OnesKept
<1> QED BY <1>5, <1>6

(* Between two calls a list is the chain of its nodes. *)
LEMMA SettledList ==
    ASSUME NEW ch, Settled(ch), NEW l \in Lists, l \notin paired
    PROVE  NodesInv(ch) /\ items[l] = Names(ch[l]) /\ ch[l] \in Seq(Nodes) /\ Len(ch[l]) \in Nat
<1>1. NodesInv(ch)
  BY Zenon DEF Settled
<1>2. items[l] = Names(ch[l])
  BY Zenon DEF Settled
<1>3. ch \in [Lists -> Seq(Nodes)]
  BY <1>1, Zenon DEF NodesInv
<1>4. PICK c : c = ch[l]
  OBVIOUS
<1>5. c \in Seq(Nodes)
  BY <1>3, <1>4
<1>6. Len(c) \in Nat
  BY <1>5
<1> QED BY <1>1, <1>2, <1>4, <1>5, <1>6, Zenon

(* What is first in a list is held by a node, and so has not been deleted. *)
LEMMA FirstAlive ==
    ASSUME IInv, ~stopped, NEW ch, Settled(ch), NEW l \in Lists, l \notin paired, items[l] # <<>>
    PROVE  items[l][1] \in Alive /\ items[l][1] \in Sort(l)
<1>1. TypeOK /\ HeldInv /\ \A x \in Objects : Exact(x)
  BY Parts
<1>2. PICK c, n, o : c = ch[l] /\ n = c[1] /\ o = items[l][1]
  OBVIOUS
<1>3. NodesInv(ch) /\ items[l] = Names(c) /\ c \in Seq(Nodes) /\ Len(c) \in Nat
  BY <1>2, SettledList, Zenon
<1>4. Len(c) > 0
  <2>1. Len(c) = 0 => Names(c) = <<>>
    BY DEF Names
  <2> QED BY <1>3, <2>1
<1>5. 1 \in 1..Len(c) /\ 1 \in Nat
  BY <1>3, <1>4
<1>6. n \in live /\ payload[n] \in Sort(l) /\ o = payload[n]
  BY <1>2, <1>3, <1>5 DEF NodesInv, Names
<1>7. o \in Objects /\ n \in Holders(o)
  BY <1>6, ListFacts DEF Holders
<1>8. Cardinality(Holders(o)) \in Nat /\ Cardinality(Holders(o)) > 0
  BY <1>1, <1>7, HoldersCounted, Counted
<1>9. Exact(o) /\ Hand(o) \in {0, 1}
  BY <1>1, <1>7 DEF Hand
<1>10. refs[o] > 0
  BY <1>8, <1>9 DEF Exact
<1> QED BY <1>2, <1>6, <1>7, <1>10 DEF Alive

(* A tick switches, from the highest priority on, to the thread that was added
   last to each process that has one, and never to a deleted thread
   (Scheduler.cc 18-49), whatever the number of processes, threads and
   priorities. *)
THEOREM SpecScheduleFinds == Spec => []ScheduleFinds
<1>1. ASSUME IInv PROVE ScheduleFinds
  <2>1. SUFFICES ASSUME Ready, paired = {}
                 PROVE  Switched = Expected /\ \A k \in DOMAIN Switched : Switched[k] \in Alive
    BY DEF ScheduleFinds
  <2>2. ~stopped /\ ~walk.on
    BY <2>1 DEF Ready
  <2>3. PICK ch, k0 : Chains(ch, k0)
    BY <1>1, <2>2, Parts
  <2>4. Settled(ch)
    BY <2>2, <2>3, SettledWhenReady
  <2>5. \A l \in Lists : Contents(l) = items[l]
    BY <2>1, <2>4, ContentsFound
  <2> DEFINE Th(p) == items[<<"threads", p>>]
             B == {p \in Procs : Th(p) # <<>>}
             ps == [i \in 1..(Lowest + 1) |-> items[<<"prio", i - 1>>]]
             q == FlattenSeq(ps)
             G == [p \in Procs |-> Th(p)[1]]
             f == Ones(q, B, G)
  <2>6. \A i \in 1..(Lowest + 1) : <<"prio", i - 1>> \in Lists /\ Sort(<<"prio", i - 1>>) = Procs
    <3>1. \A i \in 1..(Lowest + 1) : i - 1 \in Priorities
      BY ProcessesAssumption DEF Priorities
    <3> QED BY <3>1, ListFacts
  <2>7. ps \in Seq(Seq(Procs)) /\ Len(ps) # 0
    <3>1. ASSUME NEW i \in 1..(Lowest + 1) PROVE items[<<"prio", i - 1>>] \in Seq(Procs)
      <4>1. PICK l, c : l = <<"prio", i - 1>> /\ c = ch[l]
        OBVIOUS
      <4>2. /\ l \in Lists /\ Sort(l) = Procs /\ items[l] = Names(c) /\ NodesInv(ch)
            /\ c \in Seq(Nodes) /\ Len(c) \in Nat
        <5>1. l \in Lists /\ Sort(l) = Procs /\ l \notin paired
          BY <2>1, <2>6, <4>1
        <5> QED BY <2>4, <4>1, <5>1, SettledList, Zenon
      <4>3. \A j \in 1..Len(c) : payload[c[j]] \in Procs
        BY <4>1, <4>2 DEF NodesInv
      <4>4. Names(c) \in Seq(Procs)
        BY <4>2, <4>3 DEF Names
      <4> QED BY <4>1, <4>2, <4>4
    <3>2. PICK N, Q : N = Lowest + 1 /\ Q = Seq(Procs)
      OBVIOUS
    <3>3. N \in Nat /\ N # 0
      BY <3>2, ProcessesAssumption
    <3>4. ps = [i \in 1..N |-> ps[i]] /\ \A i \in 1..N : ps[i] \in Q
      BY <3>1, <3>2
    <3> HIDE DEF ps
    <3>5. ps \in Seq(Q) /\ Len(ps) = N
      BY <3>3, <3>4
    <3> QED BY <3>2, <3>3, <3>5
  <2>8. q \in Seq(Procs)
    <3> HIDE DEF ps
    <3>1. PICK g : FlattenSeq(ps) = g[Len(ps)] /\ \A i \in 1..Len(ps) : g[i] \in Seq(Procs)
      BY <2>7, FlattenExists
    <3>2. Len(ps) \in 1..Len(ps)
      BY <2>7
    <3> QED BY <3>1, <3>2
  <2>9. \A p \in Procs : <<"threads", p>> \in Lists /\ Contents(<<"threads", p>>) = Th(p)
    BY <2>5, ListFacts
  <2>10. Switched = FlattenSeq(f)
    <3>1. ps = [i \in 1..(Lowest + 1) |-> Contents(<<"prio", i - 1>>)]
      BY <2>5, <2>6
    <3>2. Switched = FlattenSeq([k \in DOMAIN q |-> findReadyThread(q[k])])
      BY <3>1, Zenon DEF Switched
    <3>3. ASSUME NEW k \in DOMAIN q
          PROVE  findReadyThread(q[k]) = IF q[k] \in B THEN <<G[q[k]]>> ELSE <<>>
      <4>1. PICK p : p = q[k]
        OBVIOUS
      <4>2. p \in Procs
        <5> HIDE DEF q
        <5> QED BY <2>8, <4>1
      <4>3. findReadyThread(p) = IF Th(p) = <<>> THEN <<>> ELSE <<Th(p)[1]>>
        BY <2>9, <4>2, Zenon DEF findReadyThread
      <4> HIDE DEF q, Th
      <4> QED BY <4>1, <4>2, <4>3
    <3>4. [k \in DOMAIN q |-> findReadyThread(q[k])] = f
      BY <3>3, Zenon DEF Ones
    <3> QED BY <3>2, <3>4, Zenon
  <2>11. \A p \in B : G[p] \in Alive
    <3>1. ASSUME NEW p \in B PROVE G[p] \in Alive
      <4>1. PICK l : l = <<"threads", p>>
        OBVIOUS
      <4>2. p \in Procs /\ l \in Lists /\ items[l] # <<>> /\ l \notin paired /\ G[p] = items[l][1]
        BY <2>1, <4>1, ListFacts
      <4> QED BY <1>1, <2>2, <2>4, <4>2, FirstAlive
    <3> QED BY <3>1
  <2> DEFINE busy == Keep(q, B)
  <2>12. Expected = [k \in DOMAIN busy |-> Th(busy[k])[1]]
    BY Zenon DEF Expected
  <2> HIDE DEF ps
  <2>13. \E U : G \in [Procs -> U]
    <3>1. G \in [Procs -> {G[p] : p \in Procs}]
      BY Zenon
    <3> HIDE DEF G
    <3> QED BY <3>1
  <2>14. B \subseteq Procs
    OBVIOUS
  <2> HIDE DEF q, B
  <2>15. busy \in Seq(Procs \cap B)
    BY <2>8, KeepIn
  <2>16. \A k \in DOMAIN busy : busy[k] \in Procs /\ busy[k] \in B
    <3> HIDE DEF busy
    <3> QED BY <2>15
  <2>17. Expected = Each(busy, G)
    <3>1. \A k \in DOMAIN busy : G[busy[k]] = Th(busy[k])[1]
      <4> HIDE DEF busy, Th
      <4> QED BY <2>16
    <3> HIDE DEF busy, G, Th
    <3> QED BY <2>12, <3>1 DEF Each
  <2> HIDE DEF G
  <2>18. FlattenSeq(f) = Each(busy, G)
    <3>1. PICK U : G \in [Procs -> U]
      BY <2>13
    <3>2. OnesKept(q, B, G)
      BY <2>8, <3>1, FlattenKeep
    <3> QED BY <3>2 DEF OnesKept
  <2>19. Switched = Expected
    BY <2>10, <2>17, <2>18
  <2>20. \A k \in DOMAIN Each(busy, G) : Each(busy, G)[k] \in Alive
    <3> HIDE DEF busy
    <3> QED BY <2>11, <2>16 DEF Each
  <2> QED BY <2>17, <2>19, <2>20
<1> QED BY <1>1, ProcessesInductive, PTL
-----------------------------------------------------------------------------
(* BitMap. *)
(* An index has a byte and a bit in it; CHECK_INDEX lets those through that
   have one, and a search ends before it looks at any other. *)
LEMMA IndexParts ==
    /\ \A i \in Nat : i \div ITEM_BITS \in Nat /\ i % ITEM_BITS \in ByteBits
    /\ \A i \in Nat : i \in Index <=> CheckIndex(i)
    /\ \A i \in Index : i \in Nat /\ i \div ITEM_BITS \in Item /\ i % ITEM_BITS \in ByteBits
    /\ \A i, j \in Nat : i \div ITEM_BITS = j \div ITEM_BITS /\ i % ITEM_BITS = j % ITEM_BITS => i = j
    /\ \A i \in Nat : i <= ByteCount => i \in Index
<1>1. PICK b, n : b = ITEM_BITS /\ n = ByteCount
  OBVIOUS
<1>2. b \in Nat /\ b > 1 /\ n \in Nat /\ n > 0
  BY <1>1, BitMapAssumption
<1>3. ASSUME NEW i \in Nat
      PROVE  i \div b \in Nat /\ i % b \in 0..(b - 1) /\ i = b * (i \div b) + (i % b)
  BY <1>2, Z3
<1>4. ASSUME NEW p \in Nat, NEW q \in Nat, p <= q PROVE b * p <= b * q
  BY <1>2, <1>4, Z3
<1>5. ASSUME NEW i \in Nat PROVE i < n * b <=> i \div b < n
  <2>1. PICK q, r : q = i \div b /\ r = i % b
    OBVIOUS
  <2>2. q \in Nat /\ r \in 0..(b - 1) /\ i = b * q + r
    BY <1>3, <2>1
  <2>3. PICK e, f : e = b * q /\ f = b * n
    OBVIOUS
  <2>4. e \in Nat /\ f \in Nat /\ f = n * b
    BY <1>2, <2>2, <2>3, Z3
  <2>5. CASE q < n
    <3>1. b * (q + 1) <= b * n
      BY <1>2, <1>4, <2>2, <2>5
    <3>2. b * (q + 1) = e + b
      BY <1>2, <2>2, <2>3, Z3
    <3> QED BY <1>2, <2>1, <2>2, <2>3, <2>4, <2>5, <3>1, <3>2
  <2>6. CASE ~(q < n)
    <3>1. b * n <= b * q
      BY <1>2, <1>4, <2>2, <2>6
    <3> QED BY <1>2, <2>1, <2>2, <2>3, <2>4, <2>6, <3>1
  <2> QED BY <2>5, <2>6
<1>6. n * b \in Nat /\ n < n * b
  <2>1. n * b \in Nat /\ n * 2 <= n * b
    BY <1>2, Z3
  <2> QED BY <1>2, <2>1
<1>7. \A i \in Nat : i \in Index <=> CheckIndex(i)
  BY <1>1, <1>5, <1>6 DEF Index, Size, CheckIndex
<1>8. \A i \in Index : i \in Nat
  BY <1>1, <1>6 DEF Index, Size
<1>9. ASSUME NEW i \in Nat, NEW j \in Nat, i \div b = j \div b, i % b = j % b PROVE i = j
  BY <1>3, <1>9
<1>10. ASSUME NEW i \in Index PROVE i \div ITEM_BITS \in Item /\ i % ITEM_BITS \in ByteBits
  <2>1. i \in Nat /\ i \div b < n
    BY <1>1, <1>7, <1>8 DEF CheckIndex
  <2>2. i \div b \in Nat /\ i % b \in 0..(b - 1)
    BY <1>3, <2>1
  <2> QED BY <1>1, <1>2, <2>1, <2>2 DEF Item, ByteBits
<1>11. \A i \in Nat : i <= ByteCount => i \in Index
  BY <1>1, <1>2, <1>6 DEF Index, Size
<1> QED BY <1>1, <1>3, <1>7, <1>8, <1>9, <1>10, <1>11 DEF ByteBits

(* set() changes the bit of its index, and no other. *)
LEMMA SetBitExact ==
    ASSUME BitMapTypeOK, NEW i \in Index, NEW v \in BOOLEAN, memory' = SetBit(memory, i, v)
    PROVE  Bits' = SetBits(Bits, {i}, v) /\ memory' \in [Item -> SUBSET ByteBits]
<1>1. PICK q, r : q = i \div ITEM_BITS /\ r = i % ITEM_BITS
  OBVIOUS
<1>2. q \in Item /\ r \in ByteBits /\ memory \in [Item -> SUBSET ByteBits]
  BY <1>1, IndexParts DEF BitMapTypeOK
<1>3. memory' = [memory EXCEPT ![q] = IF v THEN memory[q] \cup {r} ELSE memory[q] \ {r}]
  BY <1>1 DEF SetBit
<1>4. memory' \in [Item -> SUBSET ByteBits]
  BY <1>2, <1>3
<1>5. ASSUME NEW j \in Index PROVE GetBit(memory', j) <=> IF j = i THEN v ELSE GetBit(memory, j)
  <2>1. PICK a, c : a = j \div ITEM_BITS /\ c = j % ITEM_BITS
    OBVIOUS
  <2>2. a \in Item /\ c \in ByteBits /\ (a = q /\ c = r => j = i) /\ (j = i => a = q /\ c = r)
    BY <1>1, <2>1, IndexParts
  <2>3. memory'[a] = IF a = q THEN (IF v THEN memory[q] \cup {r} ELSE memory[q] \ {r}) ELSE memory[a]
    BY <1>2, <1>3, <2>2
  <2>4. c \in memory'[a] <=> IF j = i THEN v ELSE c \in memory[a]
    BY <2>2, <2>3
  <2> QED BY <2>1, <2>4 DEF GetBit
<1>6. Bits' = SetBits(Bits, {i}, v)
  <2>1. Bits' = {j \in Index : GetBit(memory', j)}
    BY DEF Bits
  <2> QED BY <1>5, <2>1 DEF Bits, SetBits
<1> QED BY <1>4, <1>6

LEMMA SetAllExact ==
    ASSUME NEW v \in BOOLEAN, memory' = [i \in Item |-> IF v THEN ByteBits ELSE {}]
    PROVE  Bits' = AllBits(v) /\ memory' \in [Item -> SUBSET ByteBits]
<1>1. ASSUME NEW j \in Index PROVE GetBit(memory', j) <=> v
  <2>1. PICK a, c : a = j \div ITEM_BITS /\ c = j % ITEM_BITS
    OBVIOUS
  <2>2. a \in Item /\ c \in ByteBits
    BY <2>1, IndexParts
  <2> QED BY <2>1, <2>2 DEF GetBit
<1>2. Bits' = {j \in Index : GetBit(memory', j)}
  BY DEF Bits
<1>3. memory' \in [Item -> SUBSET ByteBits]
  OBVIOUS
<1> QED BY <1>1, <1>2, <1>3 DEF AllBits

-----------------------------------------------------------------------------
(* Where getIndexOf() starts to look. *)
From(s) == IF s < 0 THEN 0 ELSE s

(* A running search has looked at every bit from its start on, and found none
   with the value. *)
SearchInv ==
    search.running =>
        /\ search.arg \in Starts /\ search.start >= From(search.arg)
        /\ \A i \in Nat : From(search.arg) <= i /\ i < search.start =>
              i <= ByteCount /\ GetBit(memory, i) # search.value

BitMapInv == BitMapTypeOK /\ SearchInv

LEMMA SearchFacts ==
    ASSUME BitMapInv, search.running
    PROVE  /\ search \in [running : {TRUE}, value : BOOLEAN, arg : Int, start : Nat]
           /\ search.value \in BOOLEAN /\ search.arg \in Int /\ search.start \in Nat
           /\ search.arg \in Starts /\ search.start >= From(search.arg)
           /\ \A i \in Nat : From(search.arg) <= i /\ i < search.start =>
                 i <= ByteCount /\ GetBit(memory, i) # search.value
           /\ \A i \in Nat : i <= ByteCount => (i \in Bits <=> GetBit(memory, i))
<1>1. search # NoSearch
  BY DEF NoSearch
<1>2. search \in [running : {TRUE}, value : BOOLEAN, arg : Int, start : Nat]
  BY <1>1 DEF BitMapInv, BitMapTypeOK
<1>3. \A i \in Nat : i <= ByteCount => (i \in Bits <=> GetBit(memory, i))
  BY IndexParts DEF Bits
<1> QED BY <1>2, <1>3 DEF BitMapInv, SearchInv

LEMMA BitMapInvStep == BitMapInv /\ [BitMapNext]_bitMapVars => BitMapInv'
<1> SUFFICES ASSUME BitMapInv, [BitMapNext]_bitMapVars PROVE BitMapInv'
  OBVIOUS
<1>1. BitMapTypeOK /\ SearchInv
  BY DEF BitMapInv
<1>2. ASSUME NEW i \in Probes, get(i) PROVE BitMapInv'
  <2>1. memory' = memory /\ search' = search /\ halted' = TRUE
    BY <1>2 DEF get
  <2> QED BY <1>1, <2>1 DEF BitMapInv, BitMapTypeOK, SearchInv
<1>3. ASSUME NEW i \in Probes, NEW v \in BOOLEAN, set(i, v) PROVE BitMapInv'
  <2>1. search' = search /\ search = NoSearch /\ halted' \in BOOLEAN
    BY <1>1, <1>3 DEF set, Quiet, BitMapTypeOK
  <2>2. memory' \in [Item -> SUBSET ByteBits]
    <3>1. CASE CheckIndex(i)
      <4>1. i \in Index
        BY <3>1, IndexParts, BitMapArguments
      <4>2. memory' = SetBit(memory, i, v)
        BY <1>3, <3>1 DEF set
      <4> QED BY <1>1, <4>1, <4>2, SetBitExact
    <3>2. CASE ~CheckIndex(i)
      BY <1>1, <1>3, <3>2 DEF set, BitMapTypeOK
    <3> QED BY <3>1, <3>2
  <2> QED BY <2>1, <2>2 DEF BitMapInv, BitMapTypeOK, SearchInv, NoSearch
<1>4. ASSUME NEW v \in BOOLEAN, setAll(v) PROVE BitMapInv'
  <2>1. /\ search' = search /\ search = NoSearch /\ halted' = halted
        /\ memory' = [i \in Item |-> IF v THEN ByteBits ELSE {}]
    BY <1>4 DEF setAll, Quiet
  <2>2. memory' \in [Item -> SUBSET ByteBits]
    BY <2>1, SetAllExact
  <2> QED BY <1>1, <2>1, <2>2 DEF BitMapInv, BitMapTypeOK, SearchInv, NoSearch
<1>5. ASSUME NEW v \in BOOLEAN, NEW s \in Starts, getIndexOf(v, s) PROVE BitMapInv'
  <2>1. /\ memory' = memory /\ halted' = halted /\ s \in Int
        /\ search' = [running |-> TRUE, value |-> v, arg |-> s, start |-> From(s)]
    BY <1>5, BitMapArguments DEF getIndexOf, From
  <2>2. From(s) \in Nat
    BY <2>1 DEF From
  <2>3. search' \in [running : {TRUE}, value : BOOLEAN, arg : Int, start : Nat]
    BY <2>1, <2>2
  <2>4. search'.arg = s /\ search'.start = From(s)
    BY <2>1
  <2>5. SearchInv'
    BY <2>2, <2>4 DEF SearchInv
  <2> QED BY <1>1, <2>1, <2>3, <2>5 DEF BitMapInv, BitMapTypeOK
<1>6. CASE SearchHit \/ SearchMiss
  <2>1. search' = NoSearch /\ memory' = memory /\ halted' = halted
    BY <1>6 DEF SearchHit, SearchMiss, Return
  <2> QED BY <1>1, <2>1 DEF BitMapInv, BitMapTypeOK, SearchInv, NoSearch
<1>7. CASE SearchOn
  <2>1. /\ search.running /\ search.start <= ByteCount /\ GetBit(memory, search.start) # search.value
        /\ search' = [search EXCEPT !.start = @ + 1] /\ memory' = memory /\ halted' = halted
    BY <1>7 DEF SearchOn, InRange
  <2>2. /\ search \in [running : {TRUE}, value : BOOLEAN, arg : Int, start : Nat]
        /\ search.start \in Nat /\ search.arg \in Int
        /\ search.arg \in Starts /\ search.start >= From(search.arg)
        /\ \A i \in Nat : From(search.arg) <= i /\ i < search.start =>
              i <= ByteCount /\ GetBit(memory, i) # search.value
    BY <2>1, SearchFacts
  <2>3. /\ search' \in [running : {TRUE}, value : BOOLEAN, arg : Int, start : Nat]
        /\ search'.arg = search.arg /\ search'.value = search.value /\ search'.start = search.start + 1
    <3>1. PICK r, k : r = search /\ k = search.start + 1
      OBVIOUS
    <3>2. r \in [running : {TRUE}, value : BOOLEAN, arg : Int, start : Nat] /\ k \in Nat
      <4>1. r \in [running : {TRUE}, value : BOOLEAN, arg : Int, start : Nat]
        BY <2>2, <3>1, Zenon
      <4>2. k \in Nat
        BY <2>2, <3>1
      <4> QED BY <4>1, <4>2, Zenon
    <3>3. search' = [r EXCEPT !.start = k]
      BY <2>1, <3>1
    <3>4. /\ [r EXCEPT !.start = k] \in [running : {TRUE}, value : BOOLEAN, arg : Int, start : Nat]
          /\ [r EXCEPT !.start = k].arg = r.arg /\ [r EXCEPT !.start = k].value = r.value
          /\ [r EXCEPT !.start = k].start = k
      BY <3>2
    <3> QED BY <3>1, <3>3, <3>4
  <2>4. From(search.arg) \in Nat
    BY <2>2 DEF From
  <2>5. ASSUME NEW i \in Nat, From(search.arg) <= i, i < search.start + 1
        PROVE  i <= ByteCount /\ GetBit(memory, i) # search.value
    <3>1. i < search.start \/ i = search.start
      BY <2>2, <2>5
    <3> QED BY <2>1, <2>2, <2>5, <3>1
  <2>6. SearchInv'
    BY <2>1, <2>2, <2>3, <2>4, <2>5 DEF SearchInv
  <2> QED BY <1>1, <2>1, <2>3, <2>6 DEF BitMapInv, BitMapTypeOK
<1>8. CASE UNCHANGED bitMapVars
  BY <1>1, <1>8 DEF BitMapInv, BitMapTypeOK, SearchInv, bitMapVars
<1> QED BY <1>2, <1>3, <1>4, <1>5, <1>6, <1>7, <1>8 DEF BitMapNext, Abort

LEMMA BitMapInductive == BitMapSpec => []BitMapInv
<1>1. BitMapInit => BitMapInv
  <2> SUFFICES ASSUME BitMapInit PROVE BitMapInv
    OBVIOUS
  <2>1. memory \in [Item -> SUBSET ByteBits] /\ search = NoSearch /\ halted = FALSE
    BY DEF BitMapInit
  <2>2. ~search.running
    BY <2>1 DEF NoSearch
  <2> QED BY <2>1, <2>2 DEF BitMapInv, BitMapTypeOK, SearchInv
<1> QED BY <1>1, BitMapInvStep, PTL DEF BitMapSpec

(* The first bit with the value is what getIndexOf() promises. *)
LEMMA HitIsFirst ==
    ASSUME BitMapInv, search.running, search.start <= ByteCount, GetBit(memory, search.start) = search.value
    PROVE  GetIndexOf(Bits, search.value, search.arg) = search.start
<1>1. PICK k, v, H : k = search.start /\ v = search.value /\ H = Hits(Bits, v, search.arg)
  OBVIOUS
<1>2. /\ k \in Nat /\ v \in BOOLEAN /\ search.arg \in Int /\ k >= From(search.arg) /\ From(search.arg) \in Nat
      /\ \A i \in Nat : From(search.arg) <= i /\ i < k => GetBit(memory, i) # v
      /\ \A i \in Nat : i <= ByteCount => (i \in Bits <=> GetBit(memory, i))
  BY <1>1, SearchFacts DEF From
<1>3. H = {i \in From(search.arg)..ByteCount : (i \in Bits) = v}
  BY <1>1 DEF Hits, From, LastSearched
<1>4. ByteCount \in Nat
  BY BitMapAssumption
<1>5. k \in H
  <2>1. k \in From(search.arg)..ByteCount
    BY <1>1, <1>2, <1>4
  <2>2. (k \in Bits) = v
    BY <1>1, <1>2
  <2> QED BY <1>3, <2>1, <2>2
<1>6. ASSUME NEW i \in H PROVE i \in Nat /\ k <= i
  <2>1. i \in Nat /\ i <= ByteCount /\ From(search.arg) <= i /\ (i \in Bits) = v
    BY <1>2, <1>3, <1>4
  <2>2. GetBit(memory, i) = v
    BY <1>2, <2>1 DEF GetBit
  <2> QED BY <1>2, <2>1, <2>2
<1>7. Smallest(H) = k
  <2>1. \E e \in H : \A i \in H : e <= i
    BY <1>5, <1>6
  <2>2. Smallest(H) \in H /\ \A i \in H : Smallest(H) <= i
    BY <2>1 DEF Smallest
  <2>3. PICK e : e = Smallest(H)
    OBVIOUS
  <2>4. e \in Nat /\ k <= e /\ e <= k
    BY <1>5, <1>6, <2>2, <2>3
  <2> QED BY <1>2, <2>3, <2>4
<1> QED BY <1>1, <1>5, <1>7 DEF GetIndexOf

LEMMA MissIsNone ==
    ASSUME BitMapInv, search.running, ~(search.start <= ByteCount)
    PROVE  GetIndexOf(Bits, search.value, search.arg) = NotFound
<1>1. PICK k, v, H : k = search.start /\ v = search.value /\ H = Hits(Bits, v, search.arg)
  OBVIOUS
<1>2. /\ k \in Nat /\ v \in BOOLEAN /\ search.arg \in Int /\ From(search.arg) \in Nat
      /\ \A i \in Nat : From(search.arg) <= i /\ i < k => GetBit(memory, i) # v
      /\ \A i \in Nat : i <= ByteCount => (i \in Bits <=> GetBit(memory, i))
  BY <1>1, SearchFacts DEF From
<1>3. H = {i \in From(search.arg)..ByteCount : (i \in Bits) = v} /\ ByteCount \in Nat
  BY <1>1, BitMapAssumption DEF Hits, From, LastSearched
<1>4. ASSUME NEW i \in H PROVE FALSE
  <2>1. i \in Nat /\ i <= ByteCount /\ From(search.arg) <= i /\ (i \in Bits) = v
    BY <1>2, <1>3
  <2>2. GetBit(memory, i) = v
    BY <1>2, <2>1 DEF GetBit
  <2> QED BY <1>1, <1>2, <1>3, <2>1, <2>2
<1>5. H = {}
  BY <1>4
<1> QED BY <1>1, <1>5 DEF GetIndexOf

(* BitSet is stated with the operators of this module. *)
LEMMA SameOperators ==
    /\ BS!Index = Index /\ \A v : BS!AllBits(v) = AllBits(v)
    /\ \A bits, idx, v : BS!SetBits(bits, idx, v) = SetBits(bits, idx, v)
    /\ \A bits, v, s : BS!GetIndexOf(bits, v, s) = GetIndexOf(bits, v, s)
<1>1. BS!Index = Index
  BY DEF BS!Index, Index, BS!Size, Size
<1>2. \A bits, v, s : BS!Hits(bits, v, s) = Hits(bits, v, s)
  BY DEF BS!Hits, Hits, BS!LastSearched, LastSearched
<1>3. \A H : BS!Smallest(H) = Smallest(H)
  BY DEF BS!Smallest, Smallest
<1>4. \A bits, v, s : BS!GetIndexOf(bits, v, s) = GetIndexOf(bits, v, s)
  BY <1>2, <1>3 DEF BS!GetIndexOf, GetIndexOf, BS!NotFound, NotFound
<1> QED BY <1>1, <1>4 DEF BS!AllBits, AllBits, BS!SetBits, SetBits

LEMMA BitMapStep == BitMapInv /\ [BitMapNext]_bitMapVars => [BS!Next]_<<Bits, call>>
<1> SUFFICES ASSUME BitMapInv, [BitMapNext]_bitMapVars PROVE [BS!Next]_<<Bits, call>>
  OBVIOUS
<1>1. BitMapTypeOK
  BY DEF BitMapInv
<1>2. memory' = memory => Bits' = Bits
  BY DEF Bits
<1>3. ASSUME NEW i \in Probes, NEW v \in BOOLEAN, set(i, v) PROVE [BS!Next]_<<Bits, call>>
  <2>1. CASE CheckIndex(i)
    <3>1. i \in Index
      BY <2>1, IndexParts, BitMapArguments
    <3>2. memory' = SetBit(memory, i, v) /\ call' = [op |-> "set", index |-> i, value |-> v]
      BY <1>3, <2>1 DEF set
    <3>3. Bits' = SetBits(Bits, {i}, v)
      BY <1>1, <3>1, <3>2, SetBitExact
    <3>4. BS!set(i, v)
      BY <3>2, <3>3, SameOperators DEF BS!set
    <3> QED BY <3>1, <3>4, SameOperators DEF BS!Next
  <2>2. CASE ~CheckIndex(i)
    BY <1>2, <1>3, <2>2 DEF set
  <2> QED BY <2>1, <2>2
<1>4. ASSUME NEW v \in BOOLEAN, setAll(v) PROVE [BS!Next]_<<Bits, call>>
  <2>1. memory' = [i \in Item |-> IF v THEN ByteBits ELSE {}] /\ call' = [op |-> "setAll", value |-> v]
    BY <1>4 DEF setAll
  <2>2. Bits' = AllBits(v)
    BY <2>1, SetAllExact
  <2>3. BS!setAll(v)
    BY <2>1, <2>2, SameOperators DEF BS!setAll
  <2> QED BY <2>3 DEF BS!Next
<1>5. ASSUME NEW result, search.running, Return(result), result = GetIndexOf(Bits, search.value, search.arg)
      PROVE  [BS!Next]_<<Bits, call>>
  <2>1. search.value \in BOOLEAN /\ search.arg \in Starts
    BY <1>5, SearchFacts
  <2>2. BS!getIndexOf(search.value, search.arg)
    BY <1>2, <1>5, SameOperators DEF Return, BS!getIndexOf
  <2> QED BY <2>1, <2>2 DEF BS!Next
<1>6. CASE SearchHit
  BY <1>5, <1>6, HitIsFirst DEF SearchHit, InRange
<1>7. CASE SearchMiss
  BY <1>5, <1>7, MissIsNone DEF SearchMiss, InRange
<1>8. CASE memory' = memory /\ call' = call
  BY <1>2, <1>8
<1> QED BY <1>3, <1>4, <1>6, <1>7, <1>8 DEF BitMapNext, Abort, get, getIndexOf, SearchOn, bitMapVars

(* BitMap.cc 7-51: the bytes implement the set of indices that the frame
   allocator is modelled with, for any number of bytes and any number of bits
   in one above 1: set() changes its own bit only, and the loop of getIndexOf()
   returns what GetIndexOf says. *)
THEOREM BitMapImplementsBitSet == BitMapSpec => ImplementsBitSet
<1>1. BitMapInit => BS!Init
  BY SameOperators DEF BitMapInit, BS!Init, Bits, NoCall, BS!NoCall
<1> QED BY <1>1, BitMapInductive, BitMapStep, PTL DEF BitMapSpec, ImplementsBitSet, BS!Spec
-----------------------------------------------------------------------------
(* MemoryFile. *)
(* Arithmetic of the machine word. *)
LEMMA WrapFacts ==
    /\ WORD \in Nat \ {0}
    /\ \A x \in Int : Wrap(x) \in Addr
    /\ \A x \in Addr : Wrap(x) = x
<1>1. WORD \in Nat \ {0}
  BY MemoryFileAssumption
<1>2. ASSUME NEW x \in Int PROVE x % WORD \in 0..(WORD - 1)
  BY <1>1
<1>3. ASSUME NEW x \in 0..(WORD - 1) PROVE x % WORD = x
  BY <1>1, Z3
<1> QED BY <1>1, <1>2, <1>3 DEF Wrap, Addr

(* rep movsb ends in D[n] when byte k leads from D[k] to D[k + 1]. *)
LEMMA MovsLoop ==
    ASSUME NEW n \in Nat, NEW s, NEW d, NEW dir, NEW D, mem \in D[0],
           \A k \in 0..n : k < n => \A m \in D[k] : Movsb(m, s + dir * k, d + dir * k) \in D[k + 1]
    PROVE  RepMovsb(s, d, n, dir) \in D[n]
<1> DEFINE Q == UNION {D[k] : k \in 0..n}
           F == [i \in 1..n |-> [m \in Q |-> Movsb(m, s + dir * (i - 1), d + dir * (i - 1))]]
<1>1. \A i \in 1..n, k \in 0..n : \A m \in D[k] : F[i][m] = Movsb(m, s + dir * (i - 1), d + dir * (i - 1))
  OBVIOUS
<1>2. ASSUME NEW k \in 0..n, k < n, NEW m \in D[k] PROVE F[k + 1][m] \in D[k + 1]
  <2>1. k + 1 \in 1..n /\ (k + 1) - 1 = k
    BY <1>2
  <2>2. F[k + 1][m] = Movsb(m, s + dir * ((k + 1) - 1), d + dir * ((k + 1) - 1))
    BY <1>1, <2>1
  <2>3. Movsb(m, s + dir * k, d + dir * k) \in D[k + 1]
    BY <1>2
  <2> QED BY <2>1, <2>2, <2>3, Zenon
<1> HIDE DEF F
<1>3. PICK g : LoopRun(n, mem, F, g)
  BY LoopExists
<1>4. \A k \in 0..n : g[k] \in D[k]
  BY <1>2, <1>3, LoopIn
<1>5. g = [i \in 0..n |-> g[i]] /\ DOMAIN g = 0..n
  BY <1>3 DEF LoopRun
<1>6. ASSUME NEW i \in 0..n
      PROVE  g[i] = IF i = 0 THEN mem ELSE Movsb(g[i - 1], s + dir * (i - 1), d + dir * (i - 1))
  <2>1. g[i] = IF i = 0 THEN mem ELSE F[i][g[i - 1]]
    BY <1>3 DEF LoopRun
  <2>2. CASE i # 0
    <3>1. i - 1 \in 0..n /\ i \in 1..n
      BY <2>2
    <3>2. PICK y : y = g[i - 1]
      OBVIOUS
    <3>3. F[i][y] = Movsb(y, s + dir * (i - 1), d + dir * (i - 1))
      BY <3>1, <3>2, <1>1, <1>4
    <3> QED BY <2>1, <2>2, <3>2, <3>3, Zenon
  <2> QED BY <2>1, <2>2, Zenon
<1>7. g = [i \in 0..n |-> IF i = 0 THEN mem ELSE Movsb(g[i - 1], s + dir * (i - 1), d + dir * (i - 1))]
  BY <1>5, <1>6, Zenon
<1> DEFINE f == CHOOSE h : h = [i \in 0..n |-> IF i = 0 THEN mem ELSE Movsb(h[i - 1], s + dir * (i - 1), d + dir * (i - 1))]
<1>8. f = [i \in 0..n |-> IF i = 0 THEN mem ELSE Movsb(f[i - 1], s + dir * (i - 1), d + dir * (i - 1))]
  BY <1>7
<1>9. RepMovsb(s, d, n, dir) = f[n]
  BY DEF RepMovsb
<1> HIDE DEF f
<1>10. \A k \in 0..n : f[k] \in D[k]
  <2> DEFINE T == {k \in 0..n : f[k] \in D[k]}
  <2>1. 0 \in T
    BY <1>8
  <2>2. ASSUME NEW k \in T, k < n PROVE k + 1 \in T
    <3>1. PICK m : m = k + 1
      OBVIOUS
    <3>2. m \in 0..n /\ m # 0 /\ m - 1 = k
      BY <3>1, <2>2
    <3>3. f[m] = Movsb(f[m - 1], s + dir * (m - 1), d + dir * (m - 1))
      BY <1>8, <3>2, Zenon
    <3>4. PICK y : y = f[k]
      OBVIOUS
    <3>5. Movsb(y, s + dir * k, d + dir * k) \in D[k + 1]
      BY <2>2, <3>4
    <3>6. f[m] = Movsb(y, s + dir * k, d + dir * k)
      BY <3>2, <3>3, <3>4, Zenon
    <3>7. f[k + 1] \in D[k + 1]
      BY <3>1, <3>5, <3>6, Zenon
    <3> QED BY <3>1, <3>2, <3>7
  <2> HIDE DEF T
  <2>3. \A k \in 0..n : k \in T
    BY <2>1, <2>2, IntervalInduction
  <2> QED BY <2>3 DEF T
<1> QED BY <1>9, <1>10

(* The same of rep stosb. *)
LEMMA StosLoop ==
    ASSUME NEW n \in Nat, NEW byte, NEW d, NEW dir, NEW D, mem \in D[0],
           \A k \in 0..n : k < n => \A m \in D[k] : Stosb(m, d + dir * k, byte) \in D[k + 1]
    PROVE  RepStosb(d, byte, n, dir) \in D[n]
<1> DEFINE Q == UNION {D[k] : k \in 0..n}
           F == [i \in 1..n |-> [m \in Q |-> Stosb(m, d + dir * (i - 1), byte)]]
<1>1. \A i \in 1..n, k \in 0..n : \A m \in D[k] : F[i][m] = Stosb(m, d + dir * (i - 1), byte)
  OBVIOUS
<1>2. ASSUME NEW k \in 0..n, k < n, NEW m \in D[k] PROVE F[k + 1][m] \in D[k + 1]
  <2>1. k + 1 \in 1..n /\ (k + 1) - 1 = k
    BY <1>2
  <2>2. F[k + 1][m] = Stosb(m, d + dir * ((k + 1) - 1), byte)
    BY <1>1, <2>1
  <2>3. Stosb(m, d + dir * k, byte) \in D[k + 1]
    BY <1>2
  <2> QED BY <2>1, <2>2, <2>3, Zenon
<1> HIDE DEF F
<1>3. PICK g : LoopRun(n, mem, F, g)
  BY LoopExists
<1>4. \A k \in 0..n : g[k] \in D[k]
  BY <1>2, <1>3, LoopIn
<1>5. g = [i \in 0..n |-> g[i]] /\ DOMAIN g = 0..n
  BY <1>3 DEF LoopRun
<1>6. ASSUME NEW i \in 0..n
      PROVE  g[i] = IF i = 0 THEN mem ELSE Stosb(g[i - 1], d + dir * (i - 1), byte)
  <2>1. g[i] = IF i = 0 THEN mem ELSE F[i][g[i - 1]]
    BY <1>3 DEF LoopRun
  <2>2. CASE i # 0
    <3>1. i - 1 \in 0..n /\ i \in 1..n
      BY <2>2
    <3>2. PICK y : y = g[i - 1]
      OBVIOUS
    <3>3. F[i][y] = Stosb(y, d + dir * (i - 1), byte)
      BY <3>1, <3>2, <1>1, <1>4
    <3> QED BY <2>1, <2>2, <3>2, <3>3, Zenon
  <2> QED BY <2>1, <2>2, Zenon
<1>7. g = [i \in 0..n |-> IF i = 0 THEN mem ELSE Stosb(g[i - 1], d + dir * (i - 1), byte)]
  BY <1>5, <1>6, Zenon
<1> DEFINE f == CHOOSE h : h = [i \in 0..n |-> IF i = 0 THEN mem ELSE Stosb(h[i - 1], d + dir * (i - 1), byte)]
<1>8. f = [i \in 0..n |-> IF i = 0 THEN mem ELSE Stosb(f[i - 1], d + dir * (i - 1), byte)]
  BY <1>7
<1>9. RepStosb(d, byte, n, dir) = f[n]
  BY DEF RepStosb
<1> HIDE DEF f
<1>10. \A k \in 0..n : f[k] \in D[k]
  <2> DEFINE T == {k \in 0..n : f[k] \in D[k]}
  <2>1. 0 \in T
    BY <1>8
  <2>2. ASSUME NEW k \in T, k < n PROVE k + 1 \in T
    <3>1. PICK m : m = k + 1
      OBVIOUS
    <3>2. m \in 0..n /\ m # 0 /\ m - 1 = k
      BY <3>1, <2>2
    <3>3. f[m] = Stosb(f[m - 1], d + dir * (m - 1), byte)
      BY <1>8, <3>2, Zenon
    <3>4. PICK y : y = f[k]
      OBVIOUS
    <3>5. Stosb(y, d + dir * k, byte) \in D[k + 1]
      BY <2>2, <3>4
    <3>6. f[m] = Stosb(y, d + dir * k, byte)
      BY <3>2, <3>3, <3>4, Zenon
    <3>7. f[k + 1] \in D[k + 1]
      BY <3>1, <3>5, <3>6, Zenon
    <3> QED BY <3>1, <3>2, <3>7
  <2> HIDE DEF T
  <2>3. \A k \in 0..n : k \in T
    BY <2>1, <2>2, IntervalInduction
  <2> QED BY <2>3 DEF T
<1> QED BY <1>9, <1>10
-----------------------------------------------------------------------------
Memory == [Addr -> Byte]

(* Whatever the ranges are, memory holds bytes afterwards. *)
LEMMA MovsTyped ==
    ASSUME mem \in Memory, NEW n \in Nat, NEW s \in Int, NEW d \in Int, NEW dir \in {1, -1}
    PROVE  RepMovsb(s, d, n, dir) \in Memory
<1> DEFINE D == [k \in 0..n |-> Memory]
<1>1. mem \in D[0]
  OBVIOUS
<1>2. ASSUME NEW k \in 0..n, k < n, NEW m \in D[k]
      PROVE  Movsb(m, s + dir * k, d + dir * k) \in D[k + 1]
  <2>1. m \in Memory /\ k + 1 \in 0..n
    BY <1>2
  <2>2. Wrap(s + dir * k) \in Addr /\ Wrap(d + dir * k) \in Addr
    <3>1. s + dir * k \in Int /\ d + dir * k \in Int
      OBVIOUS
    <3> QED BY <3>1, WrapFacts
  <2>3. PICK x \in Addr : x = Wrap(s + dir * k)
    BY <2>2
  <2>4. PICK y \in Addr : y = Wrap(d + dir * k)
    BY <2>2
  <2>5. [m EXCEPT ![y] = m[x]] \in Memory
    BY <2>1, <2>3, <2>4 DEF Memory
  <2> QED BY <2>1, <2>3, <2>4, <2>5 DEF Movsb
<1>3. D[n] = Memory
  OBVIOUS
<1> HIDE DEF D
<1> QED BY <1>1, <1>2, <1>3, MovsLoop

LEMMA StosTyped ==
    ASSUME mem \in Memory, NEW n \in Nat, NEW byte \in Byte, NEW d \in Int, NEW dir \in {1, -1}
    PROVE  RepStosb(d, byte, n, dir) \in Memory
<1> DEFINE D == [k \in 0..n |-> Memory]
<1>1. mem \in D[0]
  OBVIOUS
<1>2. ASSUME NEW k \in 0..n, k < n, NEW m \in D[k]
      PROVE  Stosb(m, d + dir * k, byte) \in D[k + 1]
  <2>1. m \in Memory /\ k + 1 \in 0..n
    BY <1>2
  <2>2. Wrap(d + dir * k) \in Addr
    <3>1. d + dir * k \in Int
      OBVIOUS
    <3> QED BY <3>1, WrapFacts
  <2>3. PICK y \in Addr : y = Wrap(d + dir * k)
    BY <2>2
  <2>4. [m EXCEPT ![y] = byte] \in Memory
    BY <2>1, <2>3 DEF Memory
  <2> QED BY <2>1, <2>3, <2>4 DEF Stosb
<1>3. D[n] = Memory
  OBVIOUS
<1> HIDE DEF D
<1> QED BY <1>1, <1>2, <1>3, StosLoop

(* Forwards is right unless the target starts inside the source. *)
LEMMA Forward ==
    ASSUME mem \in Memory, NEW n \in Nat, NEW s \in Nat, NEW d \in Nat,
           s + n <= WORD, d + n <= WORD, ~(s < d /\ d < s + n)
    PROVE  RepMovsb(s, d, n, 1) = Ideal(s, d, n)
<1> DEFINE D == [k \in 0..n |-> {Ideal(s, d, k)}]
<1>1. WORD \in Nat \ {0}
  BY WrapFacts
<1>2. mem \in D[0]
  <2>1. \A a \in Addr : a \notin d..(d + 0 - 1)
    BY DEF Addr
  <2>2. Ideal(s, d, 0) = mem
    BY <2>1 DEF Ideal, Memory
  <2> QED BY <2>2
<1>3. ASSUME NEW k \in 0..n, k < n, NEW m \in D[k]
      PROVE  Movsb(m, s + 1 * k, d + 1 * k) \in D[k + 1]
  <2>1. m = Ideal(s, d, k) /\ k + 1 \in 0..n
    BY <1>3
  <2>2. s + k \in Addr /\ d + k \in Addr /\ 1 * k = k
    BY <1>1, <1>3 DEF Addr
  <2>3. Wrap(s + 1 * k) = s + k /\ Wrap(d + 1 * k) = d + k
    BY <2>2, WrapFacts
  <2>4. m[s + k] = mem[s + k]
    <3>1. s + k \notin d..(d + k - 1)
      BY <1>3
    <3> QED BY <2>1, <2>2, <3>1 DEF Ideal
  <2>5. Movsb(m, s + 1 * k, d + 1 * k) = [m EXCEPT ![d + k] = mem[s + k]]
    BY <2>3, <2>4 DEF Movsb
  <2>6. [m EXCEPT ![d + k] = mem[s + k]] = Ideal(s, d, k + 1)
    <3>1. ASSUME NEW a \in Addr
          PROVE  (IF a = d + k THEN mem[s + k] ELSE m[a])
                    = IF a \in d..(d + (k + 1) - 1) THEN mem[s + a - d] ELSE mem[a]
      <4>1. a \in Nat
        BY <1>1 DEF Addr
      <4>2. m[a] = IF a \in d..(d + k - 1) THEN mem[s + a - d] ELSE mem[a]
        BY <2>1 DEF Ideal
      <4>3. a = d + k => s + a - d = s + k /\ a \in d..(d + (k + 1) - 1)
        BY <4>1
      <4>4. a # d + k => (a \in d..(d + (k + 1) - 1) <=> a \in d..(d + k - 1))
        BY <4>1
      <4> QED BY <4>2, <4>3, <4>4
    <3>2. m \in [Addr -> {m[a] : a \in Addr}] /\ DOMAIN m = Addr
      BY <2>1 DEF Ideal
    <3>3. [m EXCEPT ![d + k] = mem[s + k]] = [a \in Addr |-> IF a = d + k THEN mem[s + k] ELSE m[a]]
      BY <2>2, <3>2
    <3> QED BY <3>1, <3>3 DEF Ideal
  <2> QED BY <2>1, <2>5, <2>6
<1>4. D[n] = {Ideal(s, d, n)}
  OBVIOUS
<1> HIDE DEF D
<1>5. RepMovsb(s, d, n, 1) \in D[n]
  BY <1>2, <1>3, MovsLoop
<1> QED BY <1>4, <1>5

(* The last k of n bytes moved. *)
LastBytes(s, d, n, k) ==
    [a \in Addr |-> IF a \in (d + n - k)..(d + n - 1) THEN mem[s + a - d] ELSE mem[a]]

(* Backwards is right unless the source starts inside the target. *)
LEMMA Backward ==
    ASSUME mem \in Memory, NEW n \in Nat, NEW s \in Nat, NEW d \in Nat,
           s + n <= WORD, d + n <= WORD, ~(d < s /\ s < d + n)
    PROVE  RepMovsb(s + n - 1, d + n - 1, n, -1) = Ideal(s, d, n)
<1> DEFINE D == [k \in 0..n |-> {LastBytes(s, d, n, k)}]
<1>1. WORD \in Nat \ {0}
  BY WrapFacts
<1>2. mem \in D[0]
  <2>1. \A a \in Addr : a \notin (d + n - 0)..(d + n - 1)
    BY DEF Addr
  <2>2. LastBytes(s, d, n, 0) = mem
    BY <2>1 DEF LastBytes, Memory
  <2> QED BY <2>2
<1>3. ASSUME NEW k \in 0..n, k < n, NEW m \in D[k]
      PROVE  Movsb(m, (s + n - 1) + (-1) * k, (d + n - 1) + (-1) * k) \in D[k + 1]
  <2>1. m = LastBytes(s, d, n, k) /\ k + 1 \in 0..n
    BY <1>3
  <2>2. PICK x : x = s + n - 1 - k
    OBVIOUS
  <2>3. PICK y : y = d + n - 1 - k
    OBVIOUS
  <2>4. /\ x \in Addr /\ y \in Addr
        /\ (s + n - 1) + (-1) * k = x /\ (d + n - 1) + (-1) * k = y
    BY <1>1, <1>3, <2>2, <2>3 DEF Addr
  <2>5. Wrap((s + n - 1) + (-1) * k) = x /\ Wrap((d + n - 1) + (-1) * k) = y
    BY <2>4, WrapFacts
  <2>6. m[x] = mem[x]
    <3>1. x \notin (d + n - k)..(d + n - 1)
      BY <1>3, <2>2
    <3> QED BY <2>1, <2>4, <3>1 DEF LastBytes
  <2>7. Movsb(m, (s + n - 1) + (-1) * k, (d + n - 1) + (-1) * k) = [m EXCEPT ![y] = mem[x]]
    BY <2>5, <2>6 DEF Movsb
  <2>8. [m EXCEPT ![y] = mem[x]] = LastBytes(s, d, n, k + 1)
    <3>1. ASSUME NEW a \in Addr
          PROVE  (IF a = y THEN mem[x] ELSE m[a])
                    = IF a \in (d + n - (k + 1))..(d + n - 1) THEN mem[s + a - d] ELSE mem[a]
      <4>1. a \in Nat
        BY <1>1 DEF Addr
      <4>2. m[a] = IF a \in (d + n - k)..(d + n - 1) THEN mem[s + a - d] ELSE mem[a]
        BY <2>1 DEF LastBytes
      <4>3. a = y => s + a - d = x /\ a \in (d + n - (k + 1))..(d + n - 1)
        BY <1>3, <2>2, <2>3, <4>1
      <4>4. a # y => (a \in (d + n - (k + 1))..(d + n - 1) <=> a \in (d + n - k)..(d + n - 1))
        BY <2>3, <4>1
      <4> QED BY <4>2, <4>3, <4>4
    <3>2. m \in [Addr -> {m[a] : a \in Addr}] /\ DOMAIN m = Addr
      BY <2>1 DEF LastBytes
    <3>3. [m EXCEPT ![y] = mem[x]] = [a \in Addr |-> IF a = y THEN mem[x] ELSE m[a]]
      BY <2>4, <3>2
    <3> QED BY <3>1, <3>3 DEF LastBytes
  <2> QED BY <2>1, <2>7, <2>8
<1>4. D[n] = {LastBytes(s, d, n, n)}
  OBVIOUS
<1>5. LastBytes(s, d, n, n) = Ideal(s, d, n)
  <2>1. d + n - n = d
    OBVIOUS
  <2> QED BY <2>1 DEF LastBytes, Ideal
<1> HIDE DEF D
<1>6. RepMovsb(s + n - 1, d + n - 1, n, -1) \in D[n]
  BY <1>2, <1>3, MovsLoop
<1> QED BY <1>4, <1>5, <1>6

(* The first k bytes from d on filled. *)
Painted(d, byte, k) == [b \in Addr |-> IF b \in d..(d + k - 1) THEN byte ELSE mem[b]]

LEMMA Fills ==
    ASSUME mem \in Memory, NEW n \in Nat, NEW byte, NEW d \in Nat, d + n <= WORD
    PROVE  Filled(d, byte, n) = Painted(d, byte, n)
<1> DEFINE D == [k \in 0..n |-> {Painted(d, byte, k)}]
<1>1. WORD \in Nat \ {0}
  BY WrapFacts
<1>2. mem \in D[0]
  <2>1. \A a \in Addr : a \notin d..(d + 0 - 1)
    BY DEF Addr
  <2>2. Painted(d, byte, 0) = mem
    BY <2>1 DEF Painted, Memory
  <2> QED BY <2>2
<1>3. ASSUME NEW k \in 0..n, k < n, NEW m \in D[k]
      PROVE  Stosb(m, d + 1 * k, byte) \in D[k + 1]
  <2>1. m = Painted(d, byte, k) /\ k + 1 \in 0..n
    BY <1>3
  <2>2. d + k \in Addr /\ 1 * k = k
    BY <1>1, <1>3 DEF Addr
  <2>3. Stosb(m, d + 1 * k, byte) = [m EXCEPT ![d + k] = byte]
    BY <2>2, WrapFacts DEF Stosb
  <2>4. [m EXCEPT ![d + k] = byte] = Painted(d, byte, k + 1)
    <3>1. ASSUME NEW a \in Addr
          PROVE  (IF a = d + k THEN byte ELSE m[a])
                    = IF a \in d..(d + (k + 1) - 1) THEN byte ELSE mem[a]
      <4>1. a \in Nat
        BY <1>1 DEF Addr
      <4>2. m[a] = IF a \in d..(d + k - 1) THEN byte ELSE mem[a]
        BY <2>1 DEF Painted
      <4>3. a = d + k => a \in d..(d + (k + 1) - 1)
        BY <4>1
      <4>4. a # d + k => (a \in d..(d + (k + 1) - 1) <=> a \in d..(d + k - 1))
        BY <4>1
      <4> QED BY <4>2, <4>3, <4>4
    <3>2. m \in [Addr -> {m[a] : a \in Addr}] /\ DOMAIN m = Addr
      BY <2>1 DEF Painted
    <3>3. [m EXCEPT ![d + k] = byte] = [a \in Addr |-> IF a = d + k THEN byte ELSE m[a]]
      BY <2>2, <3>2
    <3> QED BY <3>1, <3>3 DEF Painted
  <2> QED BY <2>1, <2>3, <2>4
<1>4. D[n] = {Painted(d, byte, n)}
  OBVIOUS
<1> HIDE DEF D
<1>5. RepStosb(d, byte, n, 1) \in D[n]
  BY <1>2, <1>3, StosLoop
<1> QED BY <1>4, <1>5 DEF Filled
-----------------------------------------------------------------------------
LEMMA CountNat == \A n \in Counts : n \in Nat /\ n < WORD
  BY MemoryFileAssumption

(* copy() of ranges that are apart, and move() but for two overlaps. *)
LEMMA CopiedIdeal ==
    ASSUME mem \in Memory, NEW n \in Nat, NEW s \in Nat, NEW d \in Nat,
           s + n <= WORD, d + n <= WORD, Apart(s, d, n)
    PROVE  Copied(s, d, n) = Ideal(s, d, n)
<1>1. ~(s < d /\ d < s + n)
  BY DEF Apart
<1> QED BY <1>1, Forward DEF Copied

LEMMA MovedIdeal ==
    ASSUME mem \in Memory, NEW n \in Nat, NEW s \in Nat, NEW d \in Nat,
           s + n <= WORD, d + n <= WORD, ~MovedWrong(s, d, n)
    PROVE  Moved(s, d, n) = Ideal(s, d, n)
<1>1. CASE MovesForward(s, d, n)
  <2>1. ~(s < d /\ d < s + n)
    BY <1>1 DEF MovesForward, MovedWrong
  <2>2. RepMovsb(s, d, n, 1) = Ideal(s, d, n)
    BY <2>1, Forward
  <2> QED BY <1>1, <2>2 DEF Moved
<1>2. CASE ~MovesForward(s, d, n)
  <2>1. ~(d < s /\ s < d + n)
    BY <1>2 DEF MovesForward, MovedWrong
  <2>2. RepMovsb(s + n - 1, d + n - 1, n, -1) = Ideal(s, d, n)
    BY <2>1, Backward
  <2> QED BY <1>2, <2>2 DEF Moved
<1> QED BY <1>1, <1>2

(* A range that holds a byte holds it last somewhere. *)
LEMMA LastHit ==
    ASSUME NEW a \in Nat, NEW n \in Nat, NEW byte, NEW b \in Matches(a, a + n - 1, byte)
    PROVE  \E h \in Matches(a, a + n - 1, byte) : Matches(h + 1, a + n - 1, byte) = {}
<1> DEFINE H == Matches(a, a + n - 1, byte)
           N == {a + n - 1 - h : h \in H}
<1>1. \A h \in H : h \in Int /\ a <= h /\ h <= a + n - 1
  BY DEF Matches
<1>2. N \subseteq Nat /\ N # {}
  BY <1>1
<1>3. PICK c \in N : \A e \in N : c <= e
  <2> HIDE DEF N
  <2> QED BY <1>2, SmallestOf
<1>4. PICK h \in H : c = a + n - 1 - h
  OBVIOUS
<1>5. \A g \in H : g <= h
  <2> SUFFICES ASSUME NEW g \in H PROVE g <= h
    OBVIOUS
  <2>1. c <= a + n - 1 - g
    BY <1>3
  <2> QED BY <1>1, <1>4, <2>1
<1>6. Matches(h + 1, a + n - 1, byte) = {}
  <2> SUFFICES ASSUME NEW g \in Matches(h + 1, a + n - 1, byte) PROVE FALSE
    OBVIOUS
  <2>1. g \in Int /\ h + 1 <= g /\ g <= a + n - 1 /\ mem[Wrap(g)] = byte
    BY <1>1 DEF Matches
  <2>2. g \in H
    BY <1>1, <2>1 DEF Matches
  <2> QED BY <1>1, <1>5, <2>1, <2>2
<1> QED BY <1>6

(* What rfind() and find() return. *)
LEMMA Finds ==
    ASSUME mem \in Memory, NEW a \in Addr, NEW n \in Nat, a + n <= WORD, NEW byte
    PROVE  /\ \A h \in rfind(a, byte, n) : h \in a..(a + n - 1) /\ mem[h] = byte
           /\ rfind(a, byte, n) = {} => byte \notin {mem[b] : b \in a..(a + n - 1)}
           /\ mem[a] # byte /\ mem[Wrap(a + n)] # byte =>
                 find(a, byte, n) = First(Matches(a, a + n - 1, byte))
<1>1. WORD \in Nat \ {0} /\ a \in Nat
  BY WrapFacts DEF Addr
<1>2. \A b \in a..(a + n - 1) : b \in Addr /\ Wrap(b) = b
  <2>1. \A b \in a..(a + n - 1) : b \in Addr
    BY <1>1 DEF Addr
  <2> QED BY <2>1, WrapFacts
<1>3. \A h \in rfind(a, byte, n) : h \in a..(a + n - 1) /\ mem[h] = byte
  BY <1>2 DEF rfind, Matches
<1>4. ASSUME NEW b \in a..(a + n - 1), mem[b] = byte PROVE rfind(a, byte, n) # {}
  <2>1. b \in Matches(a, a + n - 1, byte)
    BY <1>2, <1>4 DEF Matches
  <2>2. \E h \in Matches(a, a + n - 1, byte) : Matches(h + 1, a + n - 1, byte) = {}
    BY <1>1, <2>1, LastHit
  <2> QED BY <2>2 DEF rfind
<1>5. ASSUME mem[a] # byte, mem[Wrap(a + n)] # byte
      PROVE  find(a, byte, n) = First(Matches(a, a + n - 1, byte))
  <2>1. Wrap(a) = a
    BY WrapFacts
  <2>2. Matches(a + 1, a + n, byte) = Matches(a, a + n - 1, byte)
    <3>1. ASSUME NEW b \in Matches(a + 1, a + n, byte) PROVE b \in Matches(a, a + n - 1, byte)
      <4>1. b \in Int /\ a + 1 <= b /\ b <= a + n /\ mem[Wrap(b)] = byte
        BY <1>1 DEF Matches
      <4>2. b # a + n
        BY <1>5, <4>1
      <4> QED BY <1>1, <4>1, <4>2 DEF Matches
    <3>2. ASSUME NEW b \in Matches(a, a + n - 1, byte) PROVE b \in Matches(a + 1, a + n, byte)
      <4>1. b \in Int /\ a <= b /\ b <= a + n - 1 /\ mem[Wrap(b)] = byte
        BY <1>1 DEF Matches
      <4>2. b # a
        BY <1>5, <2>1, <4>1
      <4> QED BY <1>1, <4>1, <4>2 DEF Matches
    <3> QED BY <3>1, <3>2
  <2> QED BY <2>2 DEF find
<1> QED BY <1>3, <1>4, <1>5

LEMMA FileTypeCalls == FileTypeOK => CallsExact
<1> SUFFICES ASSUME FileTypeOK, NEW a \in Addr, NEW n \in Counts, a + n <= WORD
             PROVE  /\ \A d \in Addr : d + n <= WORD =>
                        /\ Apart(a, d, n) => Copied(a, d, n) = Ideal(a, d, n)
                        /\ ~MovedWrong(a, d, n) => Moved(a, d, n) = Ideal(a, d, n)
                    /\ \A byte \in Byte :
                        /\ Filled(a, byte, n) = [b \in Addr |-> IF b \in a..(a + n - 1) THEN byte ELSE mem[b]]
                        /\ \A h \in rfind(a, byte, n) : h \in a..(a + n - 1) /\ mem[h] = byte
                        /\ rfind(a, byte, n) = {} => byte \notin {mem[b] : b \in a..(a + n - 1)}
                        /\ mem[a] # byte /\ mem[Wrap(a + n)] # byte =>
                              find(a, byte, n) = First(Matches(a, a + n - 1, byte))
  BY DEF CallsExact
<1>1. mem \in Memory
  BY DEF FileTypeOK, Memory
<1>2. n \in Nat /\ \A d \in Addr : d \in Nat
  BY CountNat, WrapFacts DEF Addr
<1>3. ASSUME NEW d \in Addr, d + n <= WORD
      PROVE  /\ Apart(a, d, n) => Copied(a, d, n) = Ideal(a, d, n)
             /\ ~MovedWrong(a, d, n) => Moved(a, d, n) = Ideal(a, d, n)
  BY <1>1, <1>2, <1>3, CopiedIdeal, MovedIdeal
<1>4. ASSUME NEW byte \in Byte
      PROVE  Filled(a, byte, n) = [b \in Addr |-> IF b \in a..(a + n - 1) THEN byte ELSE mem[b]]
  <2>1. Filled(a, byte, n) = Painted(a, byte, n)
    BY <1>1, <1>2, Fills
  <2> QED BY <2>1 DEF Painted
<1>5. ASSUME NEW byte \in Byte
      PROVE  /\ \A h \in rfind(a, byte, n) : h \in a..(a + n - 1) /\ mem[h] = byte
             /\ rfind(a, byte, n) = {} => byte \notin {mem[b] : b \in a..(a + n - 1)}
             /\ mem[a] # byte /\ mem[Wrap(a + n)] # byte =>
                   find(a, byte, n) = First(Matches(a, a + n - 1, byte))
  BY <1>1, <1>2, Finds
<1> QED BY <1>3, <1>4, <1>5
-----------------------------------------------------------------------------
(* Until a call has strayed the position is in the file. *)
FileInv == FileTypeOK /\ (~strayed => curOff <= length)

LEMMA FileNat ==
    /\ fBase \in Nat /\ length \in Nat /\ length < WORD /\ fBase + length < WORD /\ WORD \in Nat \ {0}
    /\ length < WORD \div 2 /\ WORD \div 2 \in Nat
<1>1. WORD \in Nat \ {0} /\ WORD \div 2 \in Nat /\ WORD \div 2 <= WORD
  BY MemoryFileAssumption
<1> QED BY <1>1, MemoryFileAssumption

(* How many bytes a transfer in the file moves. *)
LEMMA Transferred ==
    ASSUME FileTypeOK, curOff <= length, NEW n \in Nat, curOff + n < WORD
    PROVE  BytesToCopy(n) = IF n < length - curOff THEN n ELSE length - curOff
<1>1. curOff \in Nat /\ length \in Nat /\ length < WORD /\ WORD \in Nat \ {0}
  BY FileNat DEF FileTypeOK, Addr
<1>2. curOff + n \in Addr /\ length - curOff \in Addr
  BY <1>1 DEF Addr
<1>3. Wrap(curOff + n) = curOff + n /\ Wrap(length - curOff) = length - curOff
  BY <1>2, WrapFacts
<1> QED BY <1>1, <1>3 DEF BytesToCopy

LEMMA BytesToCopyNat ==
    ASSUME FileTypeOK, NEW n \in Nat
    PROVE  BytesToCopy(n) \in Nat
<1>1. length - curOff \in Int
  BY FileNat DEF FileTypeOK, Addr
<1>2. Wrap(length - curOff) \in Nat
  BY <1>1, WrapFacts DEF Addr
<1> QED BY <1>2 DEF BytesToCopy

LEMMA FileInvExact == FileInv => FileExact
<1> SUFFICES ASSUME FileTypeOK, curOff <= length, NEW buffer \in Addr, NEW n \in Counts, NEW k,
                    k = IF n < length - curOff THEN n ELSE length - curOff,
                    curOff + n < WORD, buffer + k <= WORD, Apart(buffer, fBase + curOff, k)
             PROVE  /\ Read(buffer, n) = Ideal(fBase + curOff, buffer, k)
                    /\ Written(buffer, n) = Ideal(buffer, fBase + curOff, k)
  BY DEF FileInv, FileExact
<1>1. /\ curOff \in Nat /\ buffer \in Nat /\ n \in Nat /\ mem \in Memory
      /\ fBase \in Nat /\ length \in Nat /\ fBase + length < WORD /\ WORD \in Nat \ {0}
  BY FileNat, CountNat DEF FileTypeOK, Addr, Memory
<1>2. PICK x : x = fBase + curOff
  OBVIOUS
<1>3. x \in Nat /\ x \in Addr /\ k \in Nat /\ x + k <= WORD
  BY <1>1, <1>2 DEF Addr
<1>4. BytesToCopy(n) = k
  BY <1>1, Transferred
<1>5. Wrap(fBase + curOff) = x
  BY <1>2, <1>3, WrapFacts
<1>6. Apart(x, buffer, k) /\ Apart(buffer, x, k)
  BY <1>2 DEF Apart
<1>7. Copied(x, buffer, k) = Ideal(x, buffer, k) /\ Copied(buffer, x, k) = Ideal(buffer, x, k)
  BY <1>1, <1>3, <1>6, CopiedIdeal
<1> QED BY <1>2, <1>4, <1>5, <1>7 DEF Read, Written

LEMMA FileInitInv == FileInit => FileInv
<1> SUFFICES ASSUME FileInit PROVE FileInv
  OBVIOUS
<1>1. mem \in [Addr -> Byte] /\ df = 1 /\ curOff = 0 /\ strayed \in BOOLEAN
  BY DEF FileInit
<1>2. 0 \in Addr /\ 0 <= length
  BY FileNat DEF Addr
<1> QED BY <1>1, <1>2 DEF FileInv, FileTypeOK

LEMMA TransferStep ==
    ASSUME FileInv, NEW n \in Counts, Transfer(n), mem' \in Memory
    PROVE  FileInv'
<1>1. /\ FileTypeOK /\ n \in Nat /\ curOff \in Nat /\ curOff < WORD /\ length \in Nat /\ length < WORD
      /\ WORD \in Nat \ {0}
  BY FileNat, CountNat DEF FileInv, FileTypeOK, Addr
<1>2. BytesToCopy(n) \in Nat
  BY <1>1, BytesToCopyNat
<1>3. /\ df' \in {1, -1} /\ curOff' = Wrap(curOff + BytesToCopy(n))
      /\ strayed' = (strayed \/ curOff + n >= WORD) /\ strayed' \in BOOLEAN
  BY <1>1 DEF Transfer, FileTypeOK
<1>4. curOff' \in Addr
  BY <1>1, <1>2, <1>3, WrapFacts
<1>5. ASSUME ~strayed' PROVE curOff' <= length
  <2>1. curOff <= length /\ curOff + n < WORD
    <3>1. ~strayed /\ ~(curOff + n >= WORD)
      BY <1>3, <1>5, Zenon
    <3> QED BY <1>1, <3>1 DEF FileInv
  <2>2. PICK k : k = BytesToCopy(n)
    OBVIOUS
  <2>3. k = IF n < length - curOff THEN n ELSE length - curOff
    BY <1>1, <2>1, <2>2, Transferred
  <2>4. curOff + k \in Addr /\ curOff + k <= length
    BY <1>1, <2>1, <2>3 DEF Addr
  <2> QED BY <1>3, <2>2, <2>4, WrapFacts
<1> QED BY <1>3, <1>4, <1>5 DEF FileInv, FileTypeOK, Memory

LEMMA SeekStep ==
    ASSUME FileInv, NEW offset \in Offsets,
           Seek_Set(offset) \/ Seek_Current(offset) \/ Seek_End(offset)
    PROVE  FileInv'
<1>1. /\ FileTypeOK /\ curOff \in Nat /\ curOff < WORD /\ length \in Nat /\ length < WORD
      /\ WORD \in Nat \ {0} /\ WORD \div 2 \in Nat /\ offset \in Int /\ length < WORD \div 2
      /\ offset < WORD
  <2>1. WORD \in Nat \ {0} /\ WORD \div 2 \in Nat /\ WORD \div 2 <= WORD
    BY MemoryFileAssumption
  <2>2. offset \in Int /\ offset < WORD
    BY <2>1 DEF Offsets
  <2> QED BY <2>2, FileNat DEF FileInv, FileTypeOK, Addr
<1>2. CASE Seek_Set(offset)
  BY <1>1, <1>2 DEF Seek_Set, FileInv, FileTypeOK, Addr
<1>3. CASE MoveBy(offset) /\ (Wrap(curOff + offset) <= length \/ offset <= 0)
  <2>1. /\ mem' = mem /\ df' = df /\ curOff' = Wrap(curOff + offset)
        /\ strayed' = (strayed \/ curOff + offset < 0)
    BY <1>3 DEF MoveBy
  <2>2. curOff' \in Addr
    BY <1>1, <2>1, WrapFacts
  <2>3. FileTypeOK'
    BY <1>1, <2>1, <2>2 DEF FileTypeOK
  <2>4. ASSUME ~strayed' PROVE curOff' <= length
    <3>1. ~strayed /\ curOff + offset >= 0 /\ curOff <= length
      <4>1. ~strayed /\ ~(curOff + offset < 0)
        BY <2>1, <2>4, Zenon
      <4> QED BY <1>1, <4>1 DEF FileInv
    <3>2. CASE Wrap(curOff + offset) <= length
      BY <2>1, <3>2
    <3>3. CASE offset <= 0
      <4>1. curOff + offset \in Addr /\ curOff + offset <= length
        BY <1>1, <3>1, <3>3 DEF Addr
      <4> QED BY <2>1, <4>1, WrapFacts
    <3> QED BY <1>3, <3>2, <3>3
  <2> QED BY <2>3, <2>4 DEF FileInv
<1> QED BY <1>2, <1>3 DEF Seek_Current, Seek_End

LEMMA FileNextInv == FileInv /\ [FileNext]_fileVars => FileInv'
<1> SUFFICES ASSUME FileInv, [FileNext]_fileVars PROVE FileInv'
  OBVIOUS
<1>1. FileTypeOK /\ mem \in Memory
  BY DEF FileInv, FileTypeOK, Memory
<1>2. \A a \in Addr : a \in Int
  BY DEF Addr
<1>3. \A n \in Counts : n \in Nat
  BY CountNat
<1>4. ASSUME NEW s \in Addr, NEW d \in Addr, NEW n \in Counts, copy(s, d, n) PROVE FileInv'
  <2>1. mem' \in Memory
    BY <1>1, <1>2, <1>3, <1>4, MovsTyped DEF copy, Copied
  <2>2. df' \in {1, -1} /\ curOff' = curOff /\ strayed' = strayed
    BY <1>1, <1>4 DEF copy, FileTypeOK
  <2> QED BY <2>1, <2>2 DEF FileInv, FileTypeOK, Memory
<1>5. ASSUME NEW s \in Addr, NEW d \in Addr, NEW n \in Counts, move(s, d, n) PROVE FileInv'
  <2>1. mem' \in Memory
    <3>1. s + n - 1 \in Int /\ d + n - 1 \in Int /\ s \in Int /\ d \in Int /\ n \in Nat
      BY <1>2, <1>3
    <3>2. RepMovsb(s, d, n, 1) \in Memory /\ RepMovsb(s + n - 1, d + n - 1, n, -1) \in Memory
      BY <1>1, <3>1, MovsTyped
    <3> QED BY <1>5, <3>2 DEF move, Moved
  <2>2. df' \in {1, -1} /\ curOff' = curOff /\ strayed' = strayed
    BY <1>1, <1>5 DEF move, FileTypeOK
  <2> QED BY <2>1, <2>2 DEF FileInv, FileTypeOK, Memory
<1>6. ASSUME NEW a \in Addr, NEW byte \in Byte, NEW n \in Counts, fill(a, byte, n) PROVE FileInv'
  <2>1. mem' \in Memory
    BY <1>1, <1>2, <1>3, <1>6, StosTyped DEF fill, Filled
  <2>2. df' \in {1, -1} /\ curOff' = curOff /\ strayed' = strayed
    BY <1>1, <1>6 DEF fill, FileTypeOK
  <2> QED BY <2>1, <2>2 DEF FileInv, FileTypeOK, Memory
<1>7. ASSUME NEW buffer \in Addr, NEW n \in Counts, read(buffer, n) \/ write(buffer, n) PROVE FileInv'
  <2>1. BytesToCopy(n) \in Nat /\ buffer \in Int
    BY <1>1, <1>2, <1>3, BytesToCopyNat
  <2>2. Wrap(fBase + curOff) \in Int
    <3>1. fBase + curOff \in Int
      BY <1>1, FileNat DEF FileTypeOK, Addr
    <3> QED BY <3>1, WrapFacts DEF Addr
  <2>3. Read(buffer, n) \in Memory /\ Written(buffer, n) \in Memory
    BY <1>1, <2>1, <2>2, MovsTyped DEF Read, Written, Copied
  <2>4. mem' \in Memory /\ Transfer(n)
    BY <1>7, <2>3 DEF read, write
  <2> QED BY <2>4, TransferStep
<1>8. ASSUME NEW offset \in Offsets, Seek_Set(offset) \/ Seek_Current(offset) \/ Seek_End(offset)
      PROVE  FileInv'
  BY <1>8, SeekStep
<1>9. CASE UNCHANGED fileVars
  BY <1>9 DEF fileVars, FileInv, FileTypeOK
<1> QED BY <1>4, <1>5, <1>6, <1>7, <1>8, <1>9 DEF FileNext

LEMMA FileInductive == FileSpec => []FileInv
<1> QED BY FileInitInv, FileNextInv, PTL DEF FileSpec

(* MemoryFileAdapter.cc 7-53: until a call has strayed the position is in the
   file, and read() and write() transfer what is left of it up to the number
   asked for, whatever memory holds. *)
THEOREM SpecFileExact == FileSpec => []FileExact
<1> QED BY FileInvExact, FileInductive, PTL

(* MemoryHelper.cc 7-62: copy(), move(), fill(), find() and rfind() have the
   effect their names say, but for the overlaps and bytes that are named, for
   every range and however the direction flag was left. *)
THEOREM SpecCallsExact == FileSpec => []CallsExact
<1>1. FileInv => CallsExact
  BY FileTypeCalls DEF FileInv
<1> QED BY <1>1, FileInductive, PTL
-----------------------------------------------------------------------------
(* Logging. *)
LEMMA Bounds ==
    /\ MAX_WRITE_BUFFER \in Nat \ {0} /\ MAX_LOG_WRITERS \in Nat \ {0}
    /\ KCON_WIDTH \in Nat \ {0} /\ KCON_HEIGHT \in Nat \ {0}
    /\ INT \in Nat \ {0} /\ LONG \in Nat \ {0}
  BY LoggingAssumption

(* The places on the screen: the columns of a line follow each other, and one
   line the other, up to the last. *)
LEMMA Places ==
    ASSUME NEW cx \in 0..(KCON_WIDTH - 1), NEW cy \in Nat
    PROVE  /\ CALC_LOCATION(cx, cy) \in Nat
           /\ CALC_LOCATION(cx, cy) \in Cells <=> cy < KCON_HEIGHT
           /\ CALC_LOCATION(cx, cy) + KCON_WIDTH = CALC_LOCATION(cx, cy + 1)
           /\ \A dx \in 0..(KCON_WIDTH - 1), dy \in Nat :
                 CALC_LOCATION(dx, dy) = CALC_LOCATION(cx, cy) => dx = cx /\ dy = cy
<1>1. PICK w, h : w = KCON_WIDTH /\ h = KCON_HEIGHT
  OBVIOUS
<1>2. w \in Nat /\ w > 0 /\ h \in Nat /\ h > 0 /\ cx \in 0..(w - 1)
  BY <1>1, Bounds
<1>3. ASSUME NEW p \in Nat, NEW q \in Nat, p < q PROVE w * p + w <= w * q
  <2>1. q = p + (q - p) /\ q - p \in Nat /\ q - p >= 1
    BY <1>3
  <2>2. \A u, v \in Nat : w * (u + v) = w * u + w * v
    BY <1>2, Z3
  <2>3. \A v \in Nat : v >= 1 => w * v >= w
    BY <1>2, Z3
  <2>4. w * q = w * p + w * (q - p)
    BY <2>1, <2>2
  <2> QED BY <1>2, <2>1, <2>3, <2>4, Z3
<1>4. w * cy \in Nat /\ w * h \in Nat /\ w * h = h * w /\ w * (cy + 1) = w * cy + w
  BY <1>2, Z3
<1>5. w * cy + cx \in Nat /\ w * cy + cx + w = w * (cy + 1) + cx
  BY <1>2, <1>4
<1>6. w * cy + cx \in 0..(w * h - 1) <=> cy < h
  <2>1. CASE cy < h
    BY <1>2, <1>3, <1>4, <1>5, <2>1
  <2>2. CASE ~(cy < h)
    <3>1. w * h <= w * cy
      BY <1>2, <1>3, <1>4, <2>2
    <3> QED BY <1>2, <1>4, <2>2, <3>1
  <2> QED BY <2>1, <2>2
<1>7. ASSUME NEW dx \in 0..(w - 1), NEW dy \in Nat, w * dy + dx = w * cy + cx
      PROVE  dx = cx /\ dy = cy
  <2>1. w * dy \in Nat
    BY <1>2, Z3
  <2>2. ~(dy < cy)
    BY <1>2, <1>3, <1>4, <1>7, <2>1
  <2>3. ~(cy < dy)
    BY <1>2, <1>3, <1>4, <1>7, <2>1
  <2>4. dy = cy
    BY <2>2, <2>3
  <2> QED BY <1>2, <1>4, <1>7, <2>4
<1> QED BY <1>1, <1>5, <1>6, <1>7 DEF CALC_LOCATION, Cells

(* What belongs in column c of line r. *)
Cell(ls, r, c) == IF r <= Len(ls) /\ c <= Len(ls[r]) THEN ls[r][c] ELSE Blank

(* Lines that fit on the screen, with room behind the last. *)
Laid(ls) ==
    /\ ls \in Seq(Seq(Char)) /\ Len(ls) \in 1..KCON_HEIGHT
    /\ Len(ls[Len(ls)]) < KCON_WIDTH

(* A character that is put at the end of the lines. *)
Breaks(ls, c) == c = Newline \/ Len(ls[Len(ls)]) + 1 >= KCON_WIDTH
Scrolls(ls, c) == Breaks(ls, c) /\ Len(ls) = KCON_HEIGHT

LaidOut(ls, c, new) ==
    /\ Laid(new)
    /\ Len(new) = IF Breaks(ls, c) /\ ~Scrolls(ls, c) THEN Len(ls) + 1 ELSE Len(ls)
    /\ Len(new[Len(new)]) = IF Breaks(ls, c) THEN 0 ELSE Len(ls[Len(ls)]) + 1
    /\ \A r, k \in Nat \ {0} :
          Cell(new, r, k) =
              LET q == IF Scrolls(ls, c) THEN r + 1 ELSE r
              IN  IF c # Newline /\ q = Len(ls) /\ k = Len(ls[Len(ls)]) + 1 THEN c ELSE Cell(ls, q, k)

LEMMA LayoutFacts ==
    ASSUME NEW ls, Laid(ls), NEW c \in Char
    PROVE  LaidOut(ls, c, LayoutChar(ls, c))
<1>1. PICK n, m, w, h : n = Len(ls) /\ m = Len(ls[Len(ls)]) /\ w = KCON_WIDTH /\ h = KCON_HEIGHT
  OBVIOUS
<1>2. /\ w \in Nat \ {0} /\ h \in Nat \ {0} /\ ls \in Seq(Seq(Char)) /\ n \in Nat /\ n \in 1..h
      /\ n \in 1..Len(ls) /\ m < w /\ ls[n] \in Seq(Char) /\ m \in Nat /\ Len(ls) = n /\ Len(ls[n]) = m
  BY <1>1, Bounds DEF Laid
<1>3. PICK line : line = Append(ls[n], c)
  OBVIOUS
<1>4. line \in Seq(Char) /\ Len(line) = m + 1 /\ line[m + 1] = c /\ \A k \in 1..m : line[k] = ls[n][k]
  BY <1>2, <1>3
<1>5. PICK typed : typed = IF c = Newline THEN ls ELSE [ls EXCEPT ![n] = line]
  OBVIOUS
<1>6. /\ typed \in Seq(Seq(Char)) /\ Len(typed) = n
      /\ \A r \in 1..n : typed[r] = IF c # Newline /\ r = n THEN line ELSE ls[r]
  <2>1. CASE c = Newline
    BY <1>2, <1>5, <2>1
  <2>2. CASE c # Newline
    <3>1. typed = [ls EXCEPT ![n] = line]
      BY <1>5, <2>2
    <3>2. typed \in Seq(Seq(Char)) /\ Len(typed) = n
      BY <1>2, <1>4, <3>1
    <3>3. \A r \in 1..n : typed[r] = IF r = n THEN line ELSE ls[r]
      BY <1>2, <3>1
    <3> QED BY <2>2, <3>2, <3>3
  <2> QED BY <2>1, <2>2
<1>7. PICK broken : broken = IF c = Newline \/ Len(line) >= w THEN Append(typed, <<>>) ELSE typed
  OBVIOUS
<1>8. PICK b, z : b = Breaks(ls, c) /\ z = Scrolls(ls, c)
  OBVIOUS
<1>9. b \in BOOLEAN /\ z \in BOOLEAN /\ (b <=> c = Newline \/ m + 1 >= w) /\ (z <=> b /\ n = h)
  BY <1>1, <1>2, <1>8 DEF Breaks, Scrolls
<1>10. <<>> \in Seq(Char) /\ Len(<<>>) = 0
  OBVIOUS
<1>11. /\ broken \in Seq(Seq(Char)) /\ Len(broken) = (IF b THEN n + 1 ELSE n)
       /\ \A r \in 1..n : broken[r] = typed[r]
       /\ b => broken[n + 1] = <<>>
  <2>1. CASE b
    <3>1. broken = Append(typed, <<>>)
      BY <1>4, <1>7, <1>9, <2>1
    <3>2. broken \in Seq(Seq(Char)) /\ Len(broken) = n + 1
      BY <1>2, <1>6, <1>10, <3>1
    <3>3. \A r \in 1..n : broken[r] = typed[r]
      BY <1>2, <1>6, <3>1
    <3>4. broken[n + 1] = <<>>
      BY <1>2, <1>6, <3>1
    <3> QED BY <2>1, <3>2, <3>3, <3>4
  <2>2. CASE ~b
    BY <1>4, <1>6, <1>7, <1>9, <2>2
  <2> QED BY <1>9, <2>1, <2>2
<1>12. ASSUME NEW r \in Nat \ {0}, NEW k \in Nat \ {0}
       PROVE  Cell(broken, r, k) = IF c # Newline /\ r = n /\ k = m + 1 THEN c ELSE Cell(ls, r, k)
  <2>1. CASE r < n \/ (r = n /\ c = Newline)
    <3>1. broken[r] = ls[r] /\ r <= Len(broken) /\ r <= Len(ls)
      <4>1. r \in 1..n /\ ~(c # Newline /\ r = n)
        BY <1>2, <2>1
      <4>2. broken[r] = typed[r] /\ typed[r] = ls[r]
        BY <1>6, <1>11, <4>1
      <4> QED BY <1>2, <1>9, <1>11, <4>1, <4>2
    <3> QED BY <1>2, <2>1, <3>1 DEF Cell
  <2>2. CASE r = n /\ c # Newline
    <3>1. broken[r] = line /\ r <= Len(broken) /\ r <= Len(ls) /\ ls[r] = ls[n]
      <4>1. r \in 1..n /\ (c # Newline /\ r = n)
        BY <1>2, <2>2
      <4>2. broken[r] = typed[r] /\ typed[r] = line
        BY <1>6, <1>11, <4>1
      <4> QED BY <1>2, <1>9, <1>11, <4>1, <4>2
    <3>2. k <= m => line[k] = ls[n][k]
      BY <1>4
    <3> QED BY <1>2, <1>4, <2>2, <3>1, <3>2 DEF Cell
  <2>3. CASE r > n
    <3>1. Cell(ls, r, k) = Blank
      BY <1>2, <2>3 DEF Cell
    <3>2. r <= Len(broken) => broken[r] = <<>>
      BY <1>2, <1>11, <2>3
    <3>3. Cell(broken, r, k) = Blank
      BY <1>10, <3>2 DEF Cell
    <3> QED BY <1>2, <2>3, <3>1, <3>3
  <2> QED BY <1>2, <2>1, <2>2, <2>3
<1>13. PICK new : new = IF Len(broken) > h THEN Tail(broken) ELSE broken
  OBVIOUS
<1>14. LayoutChar(ls, c) = new
  BY <1>1, <1>3, <1>5, <1>7, <1>13 DEF LayoutChar, Last
<1>15. Len(broken) > h <=> z
  BY <1>2, <1>9, <1>11
<1>16. CASE z
  <2>1. new = Tail(broken) /\ b /\ n = h /\ Len(broken) = n + 1 /\ broken # <<>>
    BY <1>2, <1>9, <1>10, <1>11, <1>13, <1>15, <1>16
  <2>2. new \in Seq(Seq(Char)) /\ Len(new) = n
    BY <1>2, <1>11, <2>1
  <2>3. \A r \in 1..n : new[r] = broken[r + 1]
    BY <1>2, <1>11, <2>1
  <2>4. new[n] = <<>>
    BY <1>2, <1>11, <2>1, <2>3
  <2>5. Laid(new)
    BY <1>1, <1>2, <1>10, <2>1, <2>2, <2>4 DEF Laid
  <2>6. ASSUME NEW r \in Nat \ {0}, NEW k \in Nat \ {0} PROVE Cell(new, r, k) = Cell(broken, r + 1, k)
    <3>1. r <= Len(new) <=> r + 1 <= Len(broken)
      BY <1>2, <2>1, <2>2
    <3>2. r <= Len(new) => new[r] = broken[r + 1]
      BY <1>2, <2>2, <2>3
    <3> QED BY <3>1, <3>2 DEF Cell
  <2>7. ASSUME NEW r \in Nat \ {0}, NEW k \in Nat \ {0}
        PROVE  Cell(new, r, k) = IF c # Newline /\ r + 1 = n /\ k = m + 1 THEN c ELSE Cell(ls, r + 1, k)
    <3>1. PICK q : q = r + 1
      OBVIOUS
    <3>2. q \in Nat \ {0} /\ Cell(new, r, k) = Cell(broken, q, k)
      BY <2>6, <3>1
    <3>3. Cell(broken, q, k) = IF c # Newline /\ q = n /\ k = m + 1 THEN c ELSE Cell(ls, q, k)
      BY <1>12, <3>2
    <3> QED BY <3>1, <3>2, <3>3
  <2> QED BY <1>1, <1>2, <1>8, <1>10, <1>14, <1>16, <2>1, <2>2, <2>4, <2>5, <2>7 DEF LaidOut
<1>17. CASE ~z
  <2>1. new = broken /\ Len(new) \in 1..h
    BY <1>2, <1>9, <1>11, <1>13, <1>15, <1>17
  <2>2. Len(new[Len(new)]) = IF b THEN 0 ELSE m + 1
    <3>1. CASE b
      BY <1>2, <1>10, <1>11, <2>1, <3>1
    <3>2. CASE ~b
      BY <1>2, <1>4, <1>6, <1>9, <1>11, <2>1, <3>2
    <3> QED BY <1>9, <3>1, <3>2
  <2>3. Laid(new)
    BY <1>1, <1>2, <1>9, <1>11, <2>1, <2>2 DEF Laid
  <2> QED BY <1>1, <1>2, <1>8, <1>9, <1>11, <1>12, <1>14, <1>17, <2>1, <2>2, <2>3 DEF LaidOut
<1> QED BY <1>9, <1>16, <1>17
-----------------------------------------------------------------------------
Writing ==
    [phase : {"idle", "items", "string", "cast", "screen"}, msg : Messages \cup {<<>>},
     fmt : Seq(MsgItem), out : Seq(Char), append : Seq(Char), len : Nat, slot : Nat, fatal : BOOLEAN]

(* The lines are where they belong, from the first character on. *)
Shows(sc, ls) ==
    \A r \in 1..KCON_HEIGHT, k \in 1..KCON_WIDTH : sc[CALC_LOCATION(k - 1, r - 1)] = Cell(ls, r, k)

(* The screen shows the lines, and the next character goes where the cursor is:
   while a text is written vram_current moves with the cursor. *)
ScreenInv ==
    /\ screen \in [Cells -> Char] /\ vram \in Int /\ returned \in BOOLEAN
    /\ kcon_x \in 0..(KCON_WIDTH - 1) /\ kcon_y \in 0..(KCON_HEIGHT - 1)
    /\ ~returned =>
        /\ Laid(lines) /\ Shows(screen, lines)
        /\ kcon_x = Len(lines[Len(lines)]) /\ kcon_y = Len(lines) - 1
        /\ writing.phase = "screen" => vram = CALC_LOCATION(kcon_x, kcon_y)

(* A character written at the cursor. *)
LEMMA Drawn ==
    ASSUME NEW sc \in [Cells -> Char], NEW ls, Laid(ls), Shows(sc, ls), NEW c \in Char,
           NEW v, v = CALC_LOCATION(Len(ls[Len(ls)]), Len(ls) - 1)
    PROVE  /\ v \in Cells /\ [sc EXCEPT ![v] = c] \in [Cells -> Char]
           /\ \A r \in 1..KCON_HEIGHT, k \in 1..KCON_WIDTH :
                 [sc EXCEPT ![v] = c][CALC_LOCATION(k - 1, r - 1)] =
                    IF r = Len(ls) /\ k = Len(ls[Len(ls)]) + 1 THEN c ELSE Cell(ls, r, k)
<1>1. PICK n, m : n = Len(ls) /\ m = Len(ls[Len(ls)])
  OBVIOUS
<1>2. /\ n \in 1..KCON_HEIGHT /\ n - 1 \in Nat /\ n - 1 < KCON_HEIGHT /\ m \in 0..(KCON_WIDTH - 1)
      /\ KCON_HEIGHT \in Nat /\ KCON_WIDTH \in Nat
  <2>1. n \in 1..KCON_HEIGHT /\ ls[n] \in Seq(Char) /\ m < KCON_WIDTH
    BY <1>1, Bounds DEF Laid
  <2> QED BY <1>1, <2>1, Bounds
<1>3. v = CALC_LOCATION(m, n - 1)
  BY <1>1
<1>4. v \in Cells
  BY <1>2, <1>3, Places
<1>5. ASSUME NEW r \in 1..KCON_HEIGHT, NEW k \in 1..KCON_WIDTH
      PROVE  [sc EXCEPT ![v] = c][CALC_LOCATION(k - 1, r - 1)] =
                IF r = n /\ k = m + 1 THEN c ELSE Cell(ls, r, k)
  <2>1. PICK a, b : a = k - 1 /\ b = r - 1
    OBVIOUS
  <2>2. a \in 0..(KCON_WIDTH - 1) /\ b \in Nat /\ b < KCON_HEIGHT
    BY <1>2, <2>1
  <2>3. PICK u : u = CALC_LOCATION(a, b)
    OBVIOUS
  <2>4. u \in Cells
    BY <2>2, <2>3, Places
  <2>5. u = v <=> (r = n /\ k = m + 1)
    <3>1. u = v => a = m /\ b = n - 1
      <4>1. PICK e \in Nat : e = n - 1
        BY <1>2
      <4>2. CALC_LOCATION(a, b) = CALC_LOCATION(m, e) => a = m /\ b = e
        BY <1>2, <2>2, Places
      <4> QED BY <1>3, <2>3, <4>1, <4>2
    <3>2. (a = m /\ b = n - 1) => u = v
      BY <1>3, <2>3
    <3> QED BY <1>2, <2>1, <3>1, <3>2
  <2>6. sc[u] = Cell(ls, r, k)
    BY <2>1, <2>3 DEF Shows
  <2>7. [sc EXCEPT ![v] = c][u] = IF u = v THEN c ELSE sc[u]
    BY <1>4, <2>4
  <2> QED BY <2>1, <2>3, <2>5, <2>6, <2>7
<1> QED BY <1>1, <1>4, <1>5

(* Lines that move up, each to the place of the one before it. *)
LEMMA ScrolledFacts ==
    ASSUME NEW sc \in [Cells -> Char]
    PROVE  /\ Scrolled(sc) \in [Cells -> Char]
           /\ \A r \in 1..KCON_HEIGHT, k \in 1..KCON_WIDTH :
                 Scrolled(sc)[CALC_LOCATION(k - 1, r - 1)] =
                    IF r < KCON_HEIGHT THEN sc[CALC_LOCATION(k - 1, (r + 1) - 1)] ELSE Blank
<1>1. Blank \in Char
  BY LoggingAssumption
<1>2. Scrolled(sc) \in [Cells -> Char]
  BY <1>1 DEF Scrolled
<1>3. ASSUME NEW r \in 1..KCON_HEIGHT, NEW k \in 1..KCON_WIDTH
      PROVE  Scrolled(sc)[CALC_LOCATION(k - 1, r - 1)] =
                IF r < KCON_HEIGHT THEN sc[CALC_LOCATION(k - 1, (r + 1) - 1)] ELSE Blank
  <2>1. PICK a, b, d : a = k - 1 /\ b = r - 1 /\ d = (r + 1) - 1
    OBVIOUS
  <2>2. /\ a \in 0..(KCON_WIDTH - 1) /\ b \in Nat /\ b < KCON_HEIGHT /\ d \in Nat /\ d = b + 1
        /\ d < KCON_HEIGHT <=> r < KCON_HEIGHT
    BY <2>1, Bounds
  <2>3. PICK u, v : u = CALC_LOCATION(a, b) /\ v = CALC_LOCATION(a, d)
    OBVIOUS
  <2>4. u \in Cells /\ u + KCON_WIDTH = v /\ (v \in Cells <=> r < KCON_HEIGHT)
    BY <2>2, <2>3, Places
  <2>5. Scrolled(sc)[u] = IF u + KCON_WIDTH \in Cells THEN sc[u + KCON_WIDTH] ELSE Blank
    BY <2>4 DEF Scrolled
  <2> QED BY <2>1, <2>3, <2>4, <2>5
<1> QED BY <1>2, <1>3

(* One turn of __kcon_write(). *)
LEMMA KconCharScreen ==
    ASSUME ScreenInv, writing \in Writing, KconChar
    PROVE  ScreenInv'
<1>1. PICK c, shown, wraps : /\ c = Head(writing.append) /\ shown = (c # Newline /\ c # CarriageReturn)
                             /\ wraps = ((IF shown THEN kcon_x + 1 ELSE kcon_x) >= KCON_WIDTH \/ ~shown)
  OBVIOUS
<1>2. PICK down, drawn : /\ down = (wraps /\ c # CarriageReturn)
                         /\ drawn = IF shown /\ vram \in Cells THEN [screen EXCEPT ![vram] = c] ELSE screen
  OBVIOUS
<1>3. PICK scrolls : scrolls = ((IF down THEN kcon_y + 1 ELSE kcon_y) >= KCON_HEIGHT)
  OBVIOUS
<1>4. /\ writing.phase = "screen" /\ writing.append # <<>> /\ writing'.phase = "screen"
      /\ kcon_x' = IF wraps THEN 0 ELSE IF shown THEN kcon_x + 1 ELSE kcon_x
      /\ kcon_y' = IF scrolls THEN KCON_HEIGHT - 1 ELSE IF down THEN kcon_y + 1 ELSE kcon_y
      /\ screen' = IF scrolls THEN Scrolled(drawn) ELSE drawn
      /\ vram' = Advanced(down \/ scrolls, CALC_LOCATION(kcon_x', kcon_y'))
      /\ returned' = (returned \/ c = CarriageReturn)
      /\ lines' = IF returned' THEN <<<<>>>> ELSE LayoutChar(lines, c)
  <2>1. writing' = [writing EXCEPT !.append = Tail(@)] /\ writing.phase = "screen" /\ writing.append # <<>>
    BY DEF KconChar, In
  <2>2. writing'.phase = "screen"
    BY <2>1 DEF Writing
  <2> QED BY <1>1, <1>2, <1>3, <2>1, <2>2 DEF KconChar
<1>5. c \in Char
  BY <1>1, <1>4 DEF Writing
<1>6. KCON_WIDTH \in Nat \ {0} /\ KCON_HEIGHT \in Nat \ {0}
  BY Bounds
<1>7. PICK cx, cy : cx = kcon_x /\ cy = kcon_y
  OBVIOUS
<1>8. cx \in 0..(KCON_WIDTH - 1) /\ cy \in 0..(KCON_HEIGHT - 1) /\ screen \in [Cells -> Char]
      /\ vram \in Int /\ returned \in BOOLEAN
  BY <1>7 DEF ScreenInv
<1>9. /\ shown \in BOOLEAN /\ wraps \in BOOLEAN /\ down \in BOOLEAN /\ scrolls \in BOOLEAN
      /\ kcon_x' \in 0..(KCON_WIDTH - 1) /\ kcon_y' \in 0..(KCON_HEIGHT - 1)
  <2>1. shown \in BOOLEAN /\ wraps \in BOOLEAN /\ down \in BOOLEAN /\ scrolls \in BOOLEAN
    BY <1>1, <1>2, <1>3
  <2>2. wraps <=> (IF shown THEN cx + 1 ELSE cx) >= KCON_WIDTH \/ ~shown
    BY <1>1, <1>7
  <2>3. scrolls <=> (IF down THEN cy + 1 ELSE cy) >= KCON_HEIGHT
    BY <1>3, <1>7
  <2>4. kcon_x' \in 0..(KCON_WIDTH - 1)
    BY <1>4, <1>6, <1>7, <1>8, <2>1, <2>2
  <2>5. kcon_y' \in 0..(KCON_HEIGHT - 1)
    BY <1>4, <1>6, <1>7, <1>8, <2>1, <2>3
  <2> QED BY <2>1, <2>4, <2>5
<1>10. drawn \in [Cells -> Char] /\ screen' \in [Cells -> Char]
  <2>1. drawn \in [Cells -> Char]
    BY <1>2, <1>5, <1>8
  <2> QED BY <1>4, <2>1, ScrolledFacts
<1>11. vram' = (IF down \/ scrolls THEN CALC_LOCATION(kcon_x', kcon_y') ELSE vram + 1) /\ vram' \in Int
  <2>1. CALC_LOCATION(kcon_x', kcon_y') \in Int
    <3>1. PICK dx \in 0..(KCON_WIDTH - 1), dy \in Nat : dx = kcon_x' /\ dy = kcon_y'
      BY <1>6, <1>9
    <3> QED BY <3>1, Places
  <2>2. PICK v : v = CALC_LOCATION(kcon_x', kcon_y')
    OBVIOUS
  <2> QED BY <1>4, <1>8, <2>1, <2>2 DEF Advanced
<1>12. returned' \in BOOLEAN
  BY <1>4
<1>13. ASSUME ~returned'
       PROVE  /\ Laid(lines)' /\ Shows(screen', lines')
              /\ kcon_x' = Len(lines'[Len(lines')]) /\ kcon_y' = Len(lines') - 1
              /\ vram' = CALC_LOCATION(kcon_x', kcon_y')
  <2>1. ~returned /\ c # CarriageReturn /\ lines' = LayoutChar(lines, c)
    BY <1>4, <1>13
  <2>2. PICK ls, n, m : ls = lines /\ n = Len(ls) /\ m = Len(ls[Len(ls)])
    OBVIOUS
  <2>3. Laid(ls) /\ Shows(screen, ls) /\ cx = m /\ cy = n - 1 /\ vram = CALC_LOCATION(m, n - 1)
    BY <1>4, <1>7, <2>1, <2>2 DEF ScreenInv
  <2>4. n \in 1..KCON_HEIGHT /\ n \in Nat /\ m \in 0..(KCON_WIDTH - 1) /\ m \in Nat
    BY <1>6, <1>8, <2>2, <2>3 DEF Laid
  <2>5. PICK new, b, z : new = LayoutChar(ls, c) /\ b = Breaks(ls, c) /\ z = Scrolls(ls, c)
    OBVIOUS
  <2>6. b \in BOOLEAN /\ z \in BOOLEAN /\ (b <=> c = Newline \/ m + 1 >= KCON_WIDTH) /\ (z <=> b /\ n = KCON_HEIGHT)
    BY <2>2, <2>5 DEF Breaks, Scrolls
  <2>7. shown <=> c # Newline
    BY <1>1, <2>1
  <2>8. (wraps <=> b) /\ (down <=> b)
    BY <1>1, <1>2, <1>6, <1>7, <2>1, <2>3, <2>4, <2>6, <2>7
  <2>9. scrolls <=> z
    BY <1>3, <1>6, <1>7, <1>9, <2>3, <2>4, <2>6, <2>8
  <2>10. /\ Laid(new) /\ Len(new) = (IF b /\ ~z THEN n + 1 ELSE n)
         /\ Len(new[Len(new)]) = (IF b THEN 0 ELSE m + 1)
         /\ \A r, k \in Nat \ {0} :
              Cell(new, r, k) =
                LET q == IF z THEN r + 1 ELSE r
                IN  IF c # Newline /\ q = n /\ k = m + 1 THEN c ELSE Cell(ls, q, k)
    <3>1. LaidOut(ls, c, new)
      BY <1>5, <2>3, <2>5, LayoutFacts
    <3> QED BY <2>2, <2>5, <3>1, Zenon DEF LaidOut
  <2>11. kcon_x' = Len(new[Len(new)])
    BY <1>4, <1>7, <2>3, <2>6, <2>7, <2>8, <2>10
  <2>12. kcon_y' = Len(new) - 1
    BY <1>4, <1>6, <1>7, <2>3, <2>4, <2>6, <2>8, <2>9, <2>10
  <2>13. vram' = CALC_LOCATION(kcon_x', kcon_y')
    <3>1. CASE b
      BY <1>11, <2>8, <3>1
    <3>2. CASE ~b
      <4>1. vram' = vram + 1 /\ kcon_x' = m + 1 /\ kcon_y' = n - 1
        BY <1>11, <2>4, <2>6, <2>8, <2>9, <2>10, <2>11, <2>12, <3>2
      <4>2. PICK w, e : w = KCON_WIDTH * e /\ e = n - 1
        OBVIOUS
      <4>3. w \in Int
        BY <1>6, <2>4, <4>2, Z3
      <4>4. CALC_LOCATION(m, n - 1) = w + m /\ CALC_LOCATION(m + 1, n - 1) = w + (m + 1)
        BY <4>2 DEF CALC_LOCATION
      <4> QED BY <2>3, <2>4, <4>1, <4>3, <4>4
    <3> QED BY <2>6, <3>1, <3>2
  <2>14. \A r \in 1..KCON_HEIGHT, k \in 1..KCON_WIDTH :
            drawn[CALC_LOCATION(k - 1, r - 1)] =
                IF c # Newline /\ r = n /\ k = m + 1 THEN c ELSE Cell(ls, r, k)
    <3>1. CASE c = Newline
      <4>1. drawn = screen
        BY <1>2, <2>7, <3>1
      <4> QED BY <2>3, <3>1, <4>1 DEF Shows
    <3>2. CASE c # Newline
      <4>1. /\ vram \in Cells
            /\ \A r \in 1..KCON_HEIGHT, k \in 1..KCON_WIDTH :
                 [screen EXCEPT ![vram] = c][CALC_LOCATION(k - 1, r - 1)] =
                    IF r = n /\ k = m + 1 THEN c ELSE Cell(ls, r, k)
        BY <1>5, <1>8, <2>2, <2>3, Drawn
      <4>2. drawn = [screen EXCEPT ![vram] = c]
        BY <1>2, <2>7, <3>2, <4>1
      <4> QED BY <3>2, <4>1, <4>2
    <3> QED BY <3>1, <3>2
  <2>15. Shows(screen', new)
    <3>1. ASSUME NEW r \in 1..KCON_HEIGHT, NEW k \in 1..KCON_WIDTH
          PROVE  screen'[CALC_LOCATION(k - 1, r - 1)] = Cell(new, r, k)
      <4>1. r \in Nat \ {0} /\ k \in Nat \ {0}
        OBVIOUS
      <4>2. CASE ~z
        <5>1. screen' = drawn
          BY <1>4, <2>9, <4>2
        <5> QED BY <2>10, <2>14, <4>1, <4>2, <5>1
      <4>3. CASE z /\ r < KCON_HEIGHT
        <5>1. screen' = Scrolled(drawn)
          BY <1>4, <2>9, <4>3
        <5>2. PICK q \in 1..KCON_HEIGHT : q = r + 1
          BY <1>6, <4>3
        <5>3. screen'[CALC_LOCATION(k - 1, r - 1)] = drawn[CALC_LOCATION(k - 1, q - 1)]
          BY <1>10, <4>3, <5>1, <5>2, ScrolledFacts
        <5>4. drawn[CALC_LOCATION(k - 1, q - 1)] = IF c # Newline /\ q = n /\ k = m + 1 THEN c ELSE Cell(ls, q, k)
          BY <2>14
        <5>5. Cell(new, r, k) = IF c # Newline /\ q = n /\ k = m + 1 THEN c ELSE Cell(ls, q, k)
          BY <2>10, <4>1, <4>3, <5>2
        <5> QED BY <5>3, <5>4, <5>5
      <4>4. CASE z /\ ~(r < KCON_HEIGHT)
        <5>1. screen' = Scrolled(drawn) /\ n = KCON_HEIGHT /\ r = KCON_HEIGHT
          BY <1>4, <1>6, <2>6, <2>9, <4>4
        <5>2. screen'[CALC_LOCATION(k - 1, r - 1)] = Blank
          BY <1>10, <4>4, <5>1, ScrolledFacts
        <5>3. PICK q : q = r + 1
          OBVIOUS
        <5>4. q # n /\ ~(q <= n)
          BY <1>6, <5>1, <5>3
        <5>5. Cell(new, r, k) = Cell(ls, q, k)
          BY <2>10, <4>1, <4>4, <5>3, <5>4
        <5>6. Cell(ls, q, k) = Blank
          BY <2>2, <5>4 DEF Cell
        <5> QED BY <5>2, <5>5, <5>6
      <4> QED BY <2>6, <4>2, <4>3, <4>4
    <3> QED BY <3>1 DEF Shows
  <2>16. lines' = new
    BY <2>1, <2>2, <2>5
  <2> QED BY <2>10, <2>11, <2>12, <2>13, <2>15, <2>16 DEF Laid
<1> QED BY <1>4, <1>9, <1>10, <1>11, <1>12, <1>13 DEF ScreenInv
-----------------------------------------------------------------------------
(* A character repeated. *)
LEMMA Repeated ==
    ASSUME NEW n \in Int, NEW c \in Char
    PROVE  /\ [i \in 1..n |-> c] \in Seq(Char) /\ Len([i \in 1..n |-> c]) = IF n > 0 THEN n ELSE 0
           /\ \A i \in 1..n : [q \in 1..n |-> c][i] = c
<1>1. CASE n >= 0
  BY <1>1
<1>2. CASE ~(n >= 0)
  <2>1. 1..n = 1..0
    BY <1>2
  <2>2. [i \in 1..n |-> c] = [i \in 1..0 |-> c]
    BY <2>1, Zenon
  <2>3. [i \in 1..0 |-> c] \in Seq(Char) /\ Len([i \in 1..0 |-> c]) = 0
    OBVIOUS
  <2>4. PICK r : r = [i \in 1..n |-> c]
    OBVIOUS
  <2>5. r \in Seq(Char) /\ Len(r) = 0
    BY <2>2, <2>3, <2>4
  <2>6. ~(n > 0) /\ \A i \in 1..n : r[i] = c
    BY <1>2, <2>4
  <2> QED BY <2>4, <2>5, <2>6
<1> QED BY <1>1, <1>2

(* The digits of a number, from the lowest on. *)
LowDigit(n, base) == DigitChar[(n % base) + 1]
IsLow(num, base, f) ==
    f = [n \in 0..num |-> <<LowDigit(n, base)>> \o (IF n < base THEN <<>> ELSE f[n \div base])]

LEMMA DigitFacts ==
    ASSUME NEW base \in 2..16, NEW n \in Nat
    PROVE  /\ LowDigit(n, base) \in DigitChars /\ n \div base \in Nat
           /\ n >= base => n \div base < n
<1>1. n % base \in 0..(base - 1)
  BY Z3
<1>2. n \div base \in Nat
  BY Z3
<1>3. n >= base => n \div base < n
  BY Z3
<1>4. (n % base) + 1 \in 1..16
  BY <1>1
<1>6. DigitChar[(n % base) + 1] \in DigitChars
  BY <1>4, Zenon DEF DigitChars
<1> QED BY <1>2, <1>3, <1>6 DEF LowDigit

LEMMA LowExists ==
    ASSUME NEW num \in Nat, NEW base \in 2..16
    PROVE  \E f : IsLow(num, base, f)
<1> DEFINE Runs(m) == \E f : IsLow(m, base, f)
           T == {m \in 0..num : Runs(m)}
<1>1. 0 \in T
  <2>1. IsLow(0, base, [n \in 0..0 |-> <<LowDigit(n, base)>> \o <<>>])
    <3>1. \A n \in 0..0 : n < base
      OBVIOUS
    <3> QED BY <3>1 DEF IsLow
  <2> QED BY <2>1
<1>2. ASSUME NEW k \in T, k < num PROVE k + 1 \in T
  <2>1. PICK f : IsLow(k, base, f)
    OBVIOUS
  <2>2. PICK e : e = k + 1
    OBVIOUS
  <2>3. e \in Nat /\ e \in 0..num /\ k \in Nat
    BY <1>2, <2>2
  <2>4. PICK h : h = [n \in 0..e |-> IF n <= k THEN f[n]
                         ELSE <<LowDigit(n, base)>> \o (IF n < base THEN <<>> ELSE f[n \div base])]
    OBVIOUS
  <2>5. \A n \in 0..k : f[n] = <<LowDigit(n, base)>> \o (IF n < base THEN <<>> ELSE f[n \div base])
    BY <2>1 DEF IsLow
  <2>6. ASSUME NEW n \in 0..e, ~(n < base) PROVE n \div base \in 0..e /\ n \div base <= k
    <3>1. n \div base \in Nat /\ n \div base < n
      BY <2>6, DigitFacts
    <3> QED BY <2>2, <2>3, <3>1
  <2>7. ASSUME NEW n \in 0..e, ~(n < base) PROVE h[n \div base] = f[n \div base]
    <3>1. PICK q : q = n \div base
      OBVIOUS
    <3>2. q \in 0..e /\ q <= k
      BY <2>6, <2>7, <3>1
    <3> QED BY <2>4, <3>1, <3>2
  <2>8. ASSUME NEW n \in 0..e
        PROVE  h[n] = <<LowDigit(n, base)>> \o (IF n < base THEN <<>> ELSE h[n \div base])
    <3>1. PICK d : d = <<LowDigit(n, base)>>
      OBVIOUS
    <3>2. h[n] = d \o (IF n < base THEN <<>> ELSE f[n \div base])
      <4>1. CASE n <= k
        <5>1. n \in 0..k /\ h[n] = f[n]
          BY <2>3, <2>4, <4>1
        <5> QED BY <2>5, <3>1, <5>1
      <4>2. CASE ~(n <= k)
        BY <2>4, <3>1, <4>2
      <4> QED BY <4>1, <4>2
    <3> QED BY <2>7, <3>1, <3>2
  <2>9. IsLow(e, base, h)
    <3>1. h = [n \in 0..e |-> h[n]]
      BY <2>4
    <3>2. h = [n \in 0..e |-> <<LowDigit(n, base)>> \o (IF n < base THEN <<>> ELSE h[n \div base])]
      BY <2>8, <3>1, Zenon
    <3> QED BY <3>2, Zenon DEF IsLow
  <2> QED BY <2>2, <2>3, <2>9
<1> HIDE DEF T
<1>3. \A k \in 0..num : k \in T
  BY <1>1, <1>2, IntervalInduction
<1>4. num \in T
  BY <1>3
<1> QED BY <1>4 DEF T

LEMMA FixedTexts ==
    /\ <<"-">> \in Seq(Char) /\ <<"0", "x">> \in Seq(Char)
    /\ <<"(", ")">> \in Seq(Char) /\ <<"(", "?", ")">> \in Seq(Char)
<1>1. "-" \in Char /\ "x" \in Char /\ "(" \in Char /\ ")" \in Char /\ "?" \in Char
  BY LoggingAssumption, Zenon
<1>2. "0" \in Char
  <2>1. DigitChar[1] \in DigitChars
    BY DEF DigitChars
  <2>2. DigitChars \subseteq Char
    BY LoggingAssumption
  <2>3. DigitChar[1] = "0"
    BY DEF DigitChar
  <2> QED BY <2>1, <2>2, <2>3, Zenon
<1>3. ASSUME NEW a \in Char, NEW b \in Char, NEW c \in Char
      PROVE  <<a>> \in Seq(Char) /\ <<a, b>> \in Seq(Char) /\ <<a, b, c>> \in Seq(Char)
  OBVIOUS
<1> QED BY <1>1, <1>2, <1>3, Zenon


(* The characters of digits differ from each other and from the others. *)
LEMMA DigitsDiffer ==
    /\ \A d, e \in 1..16 : DigitChar[d] = DigitChar[e] => d = e
    /\ "-" \notin DigitChars /\ Blank \notin DigitChars /\ Blank # "-" /\ DigitChar[1] = "0"
<1>1. \A d, e \in 1..16 : DigitChar[d] = DigitChar[e] => d = e
  BY DEF DigitChar
<1>2. "-" \notin DigitChars
  BY DEF DigitChar, DigitChars
<1>3. Blank # "-"
  BY Zenon DEF Blank
<1>4. Blank \notin DigitChars
  <2>1. \A d \in 1..16 : DigitChar[d] \in {"0", "1", "2", "3", "4", "5", "6", "7", "8", "9", "a", "b", "c", "d", "e", "f"}
    BY DEF DigitChar
  <2>2. Blank \notin {"0", "1", "2", "3", "4", "5", "6", "7", "8", "9", "a", "b", "c", "d", "e", "f"}
    BY Zenon DEF Blank
  <2> QED BY <2>1, <2>2, Zenon DEF DigitChars
<1>5. DigitChar[1] = "0"
  BY DEF DigitChar
<1> QED BY <1>1, <1>2, <1>3, <1>4, <1>5, Zenon

LEMMA DigitValues == \A d \in 0..15 : DigitChar[d + 1] \in DigitChars /\ DigitValue(DigitChar[d + 1]) = d
<1> SUFFICES ASSUME NEW d \in 0..15
             PROVE  DigitChar[d + 1] \in DigitChars /\ DigitValue(DigitChar[d + 1]) = d
  OBVIOUS
<1>1. PICK c : c = DigitChar[d + 1]
  OBVIOUS
<1>2. c \in DigitChars
  <2>1. d + 1 \in 1..16
    OBVIOUS
  <2> QED BY <1>1, <2>1, Zenon DEF DigitChars
<1>3. \E e \in 0..15 : DigitChar[e + 1] = c
  BY <1>1
<1>4. PICK v : v = DigitValue(c)
  OBVIOUS
<1>5. v \in 0..15 /\ DigitChar[v + 1] = c
  BY <1>3, <1>4, Zenon DEF DigitValue
<1>6. d + 1 \in 1..16 /\ v + 1 \in 1..16
  BY <1>5
<1>7. d + 1 = v + 1
  BY <1>1, <1>5, <1>6, DigitsDiffer, Zenon
<1>8. d = v
  BY <1>5, <1>7
<1> QED BY <1>1, <1>2, <1>4, <1>8, Zenon

(* Reading() as a run over the characters of a text. *)
ReadNext(v, c, base) == IF c \in DigitChars THEN v * base + DigitValue(c) ELSE v
ReadRun(s, base, v) ==
    /\ v[0] = 0
    /\ \A i \in 0..Len(s) : v[i] \in Int /\ (i < Len(s) => v[i + 1] = ReadNext(v[i], s[i + 1], base))

LEMMA ReadingExists ==
    ASSUME NEW s \in Seq(Char), NEW base \in 2..16
    PROVE  \E v : /\ ReadRun(s, base, v)
                  /\ Reading(s, base) = IF s # <<>> /\ s[1] = "-" THEN -v[Len(s)] ELSE v[Len(s)]
<1>1. PICK n : n = Len(s)
  OBVIOUS
<1>2. n \in Nat
  BY <1>1
<1> DEFINE F == [i \in 1..n |-> [x \in Int |-> ReadNext(x, s[i], base)]]
           D == [k \in 0..n |-> Int]
<1>3. ASSUME NEW x \in Int, NEW c PROVE ReadNext(x, c, base) \in Int
  <2>1. c \in DigitChars => DigitValue(c) \in Int
    <3>1. c \in DigitChars => \E d \in 1..16 : c = DigitChar[d]
      BY Zenon DEF DigitChars
    <3>2. ASSUME NEW d \in 1..16, c = DigitChar[d] PROVE DigitValue(c) \in Int
      <4>1. PICK e : e = d - 1
        OBVIOUS
      <4>2. e \in 0..15 /\ d = e + 1
        BY <4>1
      <4>3. DigitValue(c) = e
        BY <3>2, <4>2, DigitValues, Zenon
      <4> QED BY <4>2, <4>3
    <3> QED BY <3>1, <3>2
  <2>2. base \in Int
    OBVIOUS
  <2> QED BY <2>1, <2>2 DEF ReadNext
<1>4. PICK g : LoopRun(n, 0, F, g)
  BY <1>2, LoopExists
<1>5. \A k \in 0..n : g[k] \in D[k]
  <2>1. ASSUME NEW k \in 0..n, k < n, NEW x \in D[k] PROVE F[k + 1][x] \in D[k + 1]
    <3>1. k + 1 \in 1..n /\ k + 1 \in 0..n
      BY <1>2, <2>1
    <3> QED BY <1>3, <3>1
  <2>2. 0 \in D[0]
    BY <1>2
  <2> HIDE DEF D, F
  <2> QED BY <1>2, <1>4, <2>1, <2>2, LoopIn
<1>6. \A k \in 0..n : g[k] \in Int
  BY <1>5
<1>7. ASSUME NEW i \in 0..n
      PROVE  g[i] = IF i = 0 THEN 0 ELSE ReadNext(g[i - 1], s[i], base)
  <2>1. g[i] = IF i = 0 THEN 0 ELSE F[i][g[i - 1]]
    BY <1>4 DEF LoopRun
  <2>2. CASE i # 0
    <3>1. i - 1 \in 0..n /\ i \in 1..n
      BY <1>2, <2>2
    <3>2. F[i][g[i - 1]] = ReadNext(g[i - 1], s[i], base)
      BY <1>6, <3>1
    <3> QED BY <2>1, <2>2, <3>2, Zenon
  <2> QED BY <2>1, <2>2, Zenon
<1>8. g = [i \in 0..n |-> IF i = 0 THEN 0 ELSE ReadNext(g[i - 1], s[i], base)]
  <2>1. g = [i \in 0..n |-> g[i]]
    BY <1>4 DEF LoopRun
  <2> QED BY <1>7, <2>1, Zenon
<1> DEFINE f == CHOOSE h : h = [i \in 0..Len(s) |->
                    IF i = 0 THEN 0
                    ELSE IF s[i] \in DigitChars THEN h[i - 1] * base + DigitValue(s[i])
                    ELSE h[i - 1]]
<1>9. f = [i \in 0..n |-> IF i = 0 THEN 0 ELSE ReadNext(f[i - 1], s[i], base)]
  <2>1. g = [i \in 0..Len(s) |-> IF i = 0 THEN 0
                                ELSE IF s[i] \in DigitChars THEN g[i - 1] * base + DigitValue(s[i])
                                ELSE g[i - 1]]
    BY <1>1, <1>8, Zenon DEF ReadNext
  <2>2. f = [i \in 0..Len(s) |-> IF i = 0 THEN 0
                                ELSE IF s[i] \in DigitChars THEN f[i - 1] * base + DigitValue(s[i])
                                ELSE f[i - 1]]
    BY <2>1, Zenon
  <2> HIDE DEF f
  <2> QED BY <1>1, <2>2, Zenon DEF ReadNext
<1>10. Reading(s, base) = IF s # <<>> /\ s[1] = "-" THEN -f[Len(s)] ELSE f[Len(s)]
  BY Zenon DEF Reading
<1> HIDE DEF f, F, D
<1>11. f[0] = 0
  BY <1>2, <1>9
<1>12. ASSUME NEW i \in 0..n, i < n PROVE f[i + 1] = ReadNext(f[i], s[i + 1], base)
  <2>1. PICK e : e = i + 1
    OBVIOUS
  <2>2. e \in 0..n /\ e # 0 /\ e - 1 = i
    BY <1>2, <1>12, <2>1
  <2>3. f[e] = ReadNext(f[e - 1], s[e], base)
    BY <1>9, <2>2, Zenon
  <2> QED BY <2>1, <2>2, <2>3, Zenon
<1>13. \A i \in 0..n : f[i] \in Int
  <2> DEFINE T == {i \in 0..n : f[i] \in Int}
  <2>1. 0 \in T
    BY <1>2, <1>11
  <2>2. ASSUME NEW k \in T, k < n PROVE k + 1 \in T
    <3>1. f[k + 1] = ReadNext(f[k], s[k + 1], base) /\ f[k] \in Int /\ k + 1 \in 0..n
      BY <1>2, <1>12, <2>2
    <3> QED BY <1>3, <3>1
  <2> HIDE DEF T
  <2>3. \A k \in 0..n : k \in T
    BY <1>2, <2>1, <2>2, IntervalInduction
  <2> QED BY <2>3 DEF T
<1>14. ReadRun(s, base, f)
  BY <1>1, <1>11, <1>12, <1>13 DEF ReadRun
<1> QED BY <1>10, <1>14

(* Every number has a digit, and what stands for it are digits. *)
LEMMA LowIn ==
    ASSUME NEW num \in Nat, NEW base \in 2..16, NEW f, IsLow(num, base, f)
    PROVE  \A n \in 0..num : f[n] \in Seq(DigitChars) /\ Len(f[n]) \in Nat /\ Len(f[n]) > 0
<1> DEFINE T == {m \in 0..num : \A n \in 0..m : f[n] \in Seq(DigitChars) /\ Len(f[n]) > 0}
<1>0. \A n \in 0..num : f[n] = <<LowDigit(n, base)>> \o (IF n < base THEN <<>> ELSE f[n \div base])
  BY DEF IsLow
<1>1. ASSUME NEW n \in 0..num, ~(n < base) => f[n \div base] \in Seq(DigitChars)
      PROVE  f[n] \in Seq(DigitChars) /\ Len(f[n]) > 0
  <2>1. PICK d, g : d = LowDigit(n, base) /\ g = IF n < base THEN <<>> ELSE f[n \div base]
    OBVIOUS
  <2>2. d \in DigitChars
    BY <2>1, DigitFacts
  <2>3. g \in Seq(DigitChars) /\ Len(g) \in Nat
    BY <1>1, <2>1
  <2>4. f[n] = <<d>> \o g
    BY <1>0, <2>1
  <2>5. <<d>> \in Seq(DigitChars) /\ Len(<<d>>) = 1
    BY <2>2
  <2> QED BY <2>3, <2>4, <2>5
<1>2. 0 \in T
  <2>1. \A n \in 0..0 : n < base /\ n \in 0..num
    OBVIOUS
  <2> QED BY <1>1, <2>1
<1>3. ASSUME NEW k \in T, k < num PROVE k + 1 \in T
  <2>1. PICK e : e = k + 1
    OBVIOUS
  <2>2. e \in 0..num /\ e \in Nat /\ k \in Nat
    BY <1>3, <2>1
  <2>3. ~(e < base) => e \div base \in 0..k
    BY <2>1, <2>2, DigitFacts
  <2>4. f[e] \in Seq(DigitChars) /\ Len(f[e]) > 0
    BY <1>1, <2>2, <2>3
  <2>5. \A n \in 0..e : n \in 0..k \/ n = e
    BY <2>1, <2>2
  <2> QED BY <2>1, <2>2, <2>4, <2>5
<1> HIDE DEF T
<1>4. \A k \in 0..num : k \in T
  BY <1>2, <1>3, IntervalInduction
<1>5. ASSUME NEW n \in 0..num PROVE f[n] \in Seq(DigitChars) /\ Len(f[n]) > 0
  BY <1>4 DEF T
<1>6. ASSUME NEW n \in 0..num PROVE Len(f[n]) \in Nat
  BY <1>5
<1> QED BY <1>5, <1>6

(* From place p on, s holds a number: its digits from the highest on. *)
Holds(s, p, g) == /\ p + Len(g) <= Len(s)
                  /\ \A j \in Nat : j \in 1..Len(g) => s[p + j] = g[Len(g) + 1 - j]

(* Before place p nothing of the number is read. *)
NumberAt(s, base, v, p, num, f) ==
    /\ s \in Seq(Char) /\ base \in 2..16 /\ ReadRun(s, base, v)
    /\ p \in 0..Len(s) /\ v[p] = 0
    /\ num \in Nat /\ IsLow(num, base, f) /\ Holds(s, p, f[num])

(* A number reads as what it is. *)
LEMMA NumberReads ==
    ASSUME NEW s, NEW base, NEW v, NEW p, NEW num, NEW f, NumberAt(s, base, v, p, num, f)
    PROVE  v[p + Len(f[num])] = num
<1>0. SUFFICES ASSUME s \in Seq(Char), base \in 2..16, ReadRun(s, base, v),
                      p \in 0..Len(s), v[p] = 0,
                      num \in Nat, IsLow(num, base, f), Holds(s, p, f[num])
               PROVE  v[p + Len(f[num])] = num
  BY Zenon DEF NumberAt
<1> USE <1>0
<1>1. PICK L : L = Len(s)
  OBVIOUS
<1>2. L \in Nat /\ p \in Nat /\ p <= L
  BY <1>1
<1>3. \A i \in 0..L : v[i] \in Int /\ (i < L => v[i + 1] = ReadNext(v[i], s[i + 1], base))
  BY <1>1 DEF ReadRun
<1> DEFINE Yields(n) == Holds(s, p, f[n]) => v[p + Len(f[n])] = n
           T == {m \in 0..num : \A n \in 0..m : Yields(n)}
<1>4. ASSUME NEW n \in 0..num, ~(n < base) => Yields(n \div base) PROVE Yields(n)
  <2>1. SUFFICES ASSUME Holds(s, p, f[n]) PROVE v[p + Len(f[n])] = n
    OBVIOUS
  <2>2. PICK g, d : g = f[n] /\ d = LowDigit(n, base)
    OBVIOUS
  <2>3. PICK l : l = Len(g)
    OBVIOUS
  <2>4. l \in Nat /\ l > 0 /\ p + l <= L /\ g \in Seq(DigitChars)
    BY <1>1, <2>1, <2>2, <2>3, LowIn DEF Holds
  <2>5. PICK q, r : q = n \div base /\ r = n % base
    OBVIOUS
  <2>6. n \in Nat /\ q \in Nat /\ r \in 0..(base - 1) /\ n = q * base + r /\ (n < base => q = 0)
    BY <2>5, Z3
  <2>7. d \in DigitChars /\ DigitValue(d) = r
    <3>1. r \in 0..15 /\ d = DigitChar[r + 1]
      BY <2>2, <2>5, <2>6 DEF LowDigit
    <3> QED BY <3>1, DigitValues, Zenon
  <2>8. PICK k : k = l - 1
    OBVIOUS
  <2>9. k \in Nat /\ p + k \in 0..L /\ p + k < L /\ l = k + 1 /\ (p + k) + 1 = p + l
    BY <1>2, <2>4, <2>8
  <2>10. g[1] = d /\ v[p + k] = q
    <3>1. CASE n < base
      <4>1. g = <<d>> \o <<>>
        BY <2>2, <3>1, Zenon DEF IsLow
      <4>2. g = <<d>> /\ l = 1 /\ k = 0
        BY <2>3, <2>7, <2>8, <4>1
      <4> QED BY <1>2, <2>6, <3>1, <4>2
    <3>2. CASE ~(n < base)
      <4>1. q \in 0..num /\ q \in Nat
        <5>1. n \in Nat /\ n >= base /\ n <= num
          BY <3>2
        <5>2. n \div base < n
          BY <5>1, DigitFacts
        <5> QED BY <2>5, <2>6, <5>1, <5>2
      <4>2. PICK h : h = f[q]
        OBVIOUS
      <4>3. g = <<d>> \o h /\ h \in Seq(DigitChars)
        <5>1. h \in Seq(DigitChars)
          BY <4>1, <4>2, LowIn
        <5>2. f[n] = <<LowDigit(n, base)>> \o (IF n < base THEN <<>> ELSE f[n \div base])
          BY Zenon DEF IsLow
        <5> QED BY <2>2, <2>5, <3>2, <4>2, <5>1, <5>2, Zenon
      <4>4. g[1] = d /\ l = 1 + Len(h) /\ \A i \in 1..Len(h) : g[1 + i] = h[i]
        BY <2>3, <2>7, <4>3
      <4>5. Len(h) = k
        BY <2>8, <4>3, <4>4
      <4>6. Holds(s, p, h)
        <5>1. p + k <= Len(s)
          BY <1>1, <2>9
        <5>2. ASSUME NEW j \in Nat, j \in 1..k PROVE s[p + j] = h[k + 1 - j]
          <6>1. j \in 1..l /\ l + 1 - j = 1 + (k + 1 - j) /\ k + 1 - j \in 1..k
            BY <2>9, <5>2
          <6>2. s[p + j] = g[l + 1 - j]
            BY <2>1, <2>2, <2>3, <6>1 DEF Holds
          <6>3. g[1 + (k + 1 - j)] = h[k + 1 - j]
            BY <4>4, <4>5, <6>1
          <6> QED BY <6>1, <6>2, <6>3, Zenon
        <5> QED BY <4>5, <5>1, <5>2 DEF Holds
      <4>7. v[p + k] = q
        BY <1>4, <2>5, <3>2, <4>2, <4>5, <4>6, Zenon
      <4> QED BY <4>4, <4>7
    <3> QED BY <3>1, <3>2
  <2>11. s[p + l] = d
    <3>1. l \in 1..l /\ l + 1 - l = 1
      BY <2>4
    <3>2. s[p + l] = g[l + 1 - l]
      BY <2>1, <2>2, <2>3, <2>4, <3>1 DEF Holds
    <3> QED BY <2>10, <3>1, <3>2, Zenon
  <2>12. v[(p + k) + 1] = ReadNext(v[p + k], s[(p + k) + 1], base)
    BY <1>3, <2>9
  <2>13. ReadNext(q, d, base) = q * base + r
    BY <2>7, Zenon DEF ReadNext
  <2>14. v[p + l] = n
    BY <2>6, <2>9, <2>10, <2>11, <2>12, <2>13, Zenon
  <2> QED BY <2>2, <2>3, <2>14, Zenon
<1>5. 0 \in T
  <2>1. \A n \in 0..0 : n < base /\ n \in 0..num
    OBVIOUS
  <2> HIDE DEF Yields
  <2> QED BY <1>4, <2>1
<1>6. ASSUME NEW k \in T, k < num PROVE k + 1 \in T
  <2>1. PICK e : e = k + 1
    OBVIOUS
  <2>2. e \in 0..num /\ e \in Nat /\ k \in Nat
    BY <1>6, <2>1
  <2>3. ~(e < base) => e \div base \in 0..k
    BY <2>1, <2>2, DigitFacts
  <2> HIDE DEF Yields
  <2>4. Yields(e)
    BY <1>4, <2>2, <2>3
  <2>5. \A n \in 0..e : n \in 0..k \/ n = e
    BY <2>1, <2>2
  <2> QED BY <2>1, <2>2, <2>4, <2>5
<1> HIDE DEF T
<1>7. \A k \in 0..num : k \in T
  BY <1>5, <1>6, IntervalInduction
<1>8. num \in 0..num
  OBVIOUS
<1> QED BY <1>7, <1>8 DEF T

(* The text s holds num in its last places, behind p times the character c. *)
NumberText(s, num, base, c, width, f, p) ==
    /\ s \in Seq(Char) /\ IsLow(num, base, f) /\ p \in Nat
    /\ Len(s) = p + Len(f[num]) /\ Len(s) >= width
    /\ \A i \in Nat : i \in 1..p => s[i] = c
    /\ Holds(s, p, f[num])

LEMMA parse_uText ==
    ASSUME NEW num \in Nat, NEW base \in 2..16, NEW c \in Char, NEW width \in Int
    PROVE  \E f, p : NumberText(parse_u(num, base, c, width), num, base, c, width, f, p)
<1> DEFINE f == CHOOSE h : h = [n \in 0..num |->
                    <<DigitChar[(n % base) + 1]>> \o (IF n < base THEN <<>> ELSE h[n \div base])]
<1>1. IsLow(num, base, f)
  <2>1. \E h : h = [n \in 0..num |->
                    <<DigitChar[(n % base) + 1]>> \o (IF n < base THEN <<>> ELSE h[n \div base])]
    BY LowExists DEF IsLow, LowDigit
  <2> QED BY <2>1 DEF IsLow, LowDigit
<1>2. parse_u(num, base, c, width) = Reverse(f[num] \o [i \in 1..(width - Len(f[num])) |-> c])
  BY DEF parse_u
<1> HIDE DEF f
<1>3. PICK g, l : g = f[num] /\ l = Len(g)
  OBVIOUS
<1>4. g \in Seq(DigitChars) /\ l \in Nat /\ l > 0
  <2>1. num \in 0..num
    OBVIOUS
  <2> QED BY <1>1, <1>3, <2>1, LowIn
<1>5. g \in Seq(Char)
  <2>1. DigitChars \subseteq Char
    BY LoggingAssumption
  <2>2. \A i \in 1..l : g[i] \in Char
    BY <1>3, <1>4, <2>1
  <2> QED BY <1>3, <1>4, <2>2
<1>6. PICK n \in Int : n = width - l
  BY <1>4
<1>7. PICK r, p : r = [i \in 1..n |-> c] /\ p = IF n > 0 THEN n ELSE 0
  OBVIOUS
<1>8. r \in Seq(Char) /\ Len(r) = p /\ p \in Nat /\ p + l >= width /\ \A i \in 1..p : r[i] = c
  <2>1. r \in Seq(Char) /\ Len(r) = p /\ \A i \in 1..n : r[i] = c
    BY <1>7, Repeated
  <2>2. p \in Nat /\ p + l >= width /\ \A i \in 1..p : i \in 1..n
    BY <1>4, <1>6, <1>7
  <2> QED BY <2>1, <2>2
<1>9. PICK q : q = g \o r
  OBVIOUS
<1>10. q \in Seq(Char) /\ Len(q) = l + p /\ \A i \in 1..(l + p) : q[i] = IF i <= l THEN g[i] ELSE r[i - l]
  <2>1. g \in Seq(Char) /\ r \in Seq(Char) /\ Len(g) = l /\ Len(r) = p
    BY <1>3, <1>5, <1>8
  <2>2. Len(g \o r) = Len(g) + Len(r) /\ g \o r \in Seq(Char)
    BY <2>1
  <2>3. \A i \in 1..(Len(g) + Len(r)) : (g \o r)[i] = IF i <= Len(g) THEN g[i] ELSE r[i - Len(g)]
    BY <2>1, ConcatProperties
  <2> QED BY <1>9, <2>1, <2>2, <2>3
<1>11. PICK s : s = Reverse(q)
  OBVIOUS
<1>12. s \in Seq(Char) /\ Len(s) = l + p /\ \A i \in 1..(l + p) : s[i] = q[(l + p) - i + 1]
  BY <1>4, <1>8, <1>10, <1>11 DEF Reverse
<1>13. ASSUME NEW i \in Nat, i \in 1..p PROVE s[i] = c
  <2>1. PICK j : j = (l + p) - i + 1
    OBVIOUS
  <2>2. i \in 1..(l + p) /\ j \in 1..(l + p) /\ ~(j <= l) /\ j - l \in 1..p
    BY <1>4, <1>8, <1>13, <2>1
  <2>3. s[i] = q[j]
    BY <1>12, <2>1, <2>2
  <2>4. q[j] = r[j - l]
    BY <1>10, <2>2
  <2> QED BY <1>8, <2>2, <2>3, <2>4
<1>14. ASSUME NEW j \in Nat, j \in 1..l PROVE s[p + j] = g[l + 1 - j]
  <2>1. PICK i : i = p + j
    OBVIOUS
  <2>2. i \in 1..(l + p) /\ (l + p) - i + 1 = l + 1 - j /\ l + 1 - j \in 1..(l + p) /\ l + 1 - j <= l
    BY <1>4, <1>8, <1>14, <2>1
  <2>3. s[i] = q[l + 1 - j]
    BY <1>12, <2>2
  <2>4. q[l + 1 - j] = g[l + 1 - j]
    BY <1>10, <2>2
  <2> QED BY <2>1, <2>3, <2>4
<1>15. Holds(s, p, f[num])
  <2>1. p + l <= Len(s)
    BY <1>4, <1>8, <1>12
  <2> QED BY <1>3, <1>14, <2>1 DEF Holds
<1>16. s = parse_u(num, base, c, width)
  BY <1>2, <1>3, <1>6, <1>7, <1>9, <1>11, Zenon
<1>17. Len(s) = p + Len(f[num]) /\ Len(s) >= width
  BY <1>3, <1>4, <1>8, <1>12
<1>18. NumberText(s, num, base, c, width, f, p)
  BY <1>1, <1>8, <1>12, <1>13, <1>15, <1>17 DEF NumberText
<1> QED BY <1>16, <1>18, Zenon

(* A number behind characters that are no digits, or zeros, reads as what it
   is, and negative behind a sign. *)
LEMMA TextReads ==
    ASSUME NEW s \in Seq(Char), NEW base \in 2..16, NEW num \in Nat, NEW f, IsLow(num, base, f),
           NEW p \in Nat, Len(s) = p + Len(f[num]), Holds(s, p, f[num]),
           \A i \in Nat : i \in 1..p => s[i] = DigitChar[1] \/ s[i] \notin DigitChars
    PROVE  /\ Reading(s, base) = IF s[1] = "-" THEN -num ELSE num
           /\ Len(s) \in Nat /\ Len(s) \in 1..Len(s) /\ s[Len(s)] \in DigitChars
           /\ p = 0 => s[1] \in DigitChars
<1>1. PICK v : /\ ReadRun(s, base, v)
               /\ Reading(s, base) = IF s # <<>> /\ s[1] = "-" THEN -v[Len(s)] ELSE v[Len(s)]
  BY ReadingExists
<1>2. PICK g, l : g = f[num] /\ l = Len(g)
  OBVIOUS
<1>3. g \in Seq(DigitChars) /\ l \in Nat /\ l > 0
  <2>1. num \in 0..num
    OBVIOUS
  <2> QED BY <1>2, <2>1, LowIn
<1>4. Len(s) = p + l /\ p \in 0..Len(s) /\ s # <<>> /\ Len(s) \in Nat /\ Len(s) \in 1..Len(s)
  BY <1>2, <1>3
<1> DEFINE T == {i \in 0..p : v[i] = 0}
<1>5. 0 \in T
  BY <1>1 DEF ReadRun
<1>6. ASSUME NEW k \in T, k < p PROVE k + 1 \in T
  <2>1. k \in 0..Len(s) /\ k < Len(s) /\ k + 1 \in Nat /\ k + 1 \in 1..p /\ k + 1 \in 0..p /\ v[k] = 0
    BY <1>3, <1>4, <1>6
  <2>2. v[k + 1] = ReadNext(v[k], s[k + 1], base)
    BY <1>1, <2>1 DEF ReadRun
  <2>3. PICK c : c = s[k + 1]
    OBVIOUS
  <2>4. ReadNext(0, c, base) = 0
    <3>1. CASE c = DigitChar[1]
      <4>1. 0 \in 0..15 /\ 0 + 1 = 1
        OBVIOUS
      <4>2. c \in DigitChars /\ DigitValue(c) = 0
        BY <3>1, <4>1, DigitValues
      <4>3. 0 * base + 0 = 0
        OBVIOUS
      <4> QED BY <4>2, <4>3, Zenon DEF ReadNext
    <3>2. CASE c \notin DigitChars
      BY <3>2, Zenon DEF ReadNext
    <3> QED BY <2>1, <2>3, <3>1, <3>2
  <2> QED BY <2>1, <2>2, <2>3, <2>4, Zenon
<1> HIDE DEF T
<1>7. \A k \in 0..p : k \in T
  BY <1>5, <1>6, IntervalInduction
<1>8. v[p] = 0
  <2>1. p \in 0..p
    OBVIOUS
  <2> QED BY <1>7, <2>1 DEF T
<1>9. v[Len(s)] = num
  <2>1. ReadRun(s, base, v)
    BY <1>1, Zenon
  <2>2. p \in 0..Len(s)
    BY <1>4, Zenon
  <2>3. v[p + Len(f[num])] = num
    <3>1. NumberAt(s, base, v, p, num, f)
      BY <1>8, <2>1, <2>2, Zenon DEF NumberAt
    <3> QED BY <3>1, NumberReads
  <2> QED BY <2>3, Zenon
<1>10. \A j \in Nat : j \in 1..l => s[p + j] = g[l + 1 - j]
  BY <1>2, Zenon DEF Holds
<1>11. s[Len(s)] \in DigitChars
  <2>1. l \in 1..l /\ l + 1 - l = 1
    BY <1>3
  <2>2. s[p + l] = g[1]
    BY <1>3, <1>10, <2>1
  <2>3. g[1] \in DigitChars
    BY <1>2, <1>3
  <2> QED BY <1>4, <2>2, <2>3, Zenon
<1>12. ASSUME p = 0 PROVE s[1] \in DigitChars
  <2>1. 1 \in 1..l /\ 1 \in Nat /\ p + 1 = 1 /\ l + 1 - 1 = l
    BY <1>3, <1>12
  <2>2. s[1] = g[l]
    BY <1>10, <2>1
  <2>3. g[l] \in DigitChars
    BY <1>2, <1>3
  <2> QED BY <2>2, <2>3, Zenon
<1>13. Reading(s, base) = IF s[1] = "-" THEN -num ELSE num
  BY <1>1, <1>4, <1>9, Zenon
<1> QED BY <1>4, <1>11, <1>12, <1>13, Zenon

LEMMA ModFacts ==
    ASSUME NEW a \in Int, NEW m \in Nat \ {0}
    PROVE  /\ a % m \in 0..(m - 1)
           /\ ((a % m) - a) % m = 0 /\ (((a % m) - m) - a) % m = 0
           /\ a \in 0..(m - 1) => a % m = a
           /\ -m <= a /\ a < 0 => a % m = a + m
<1>1. PICK q, r : q = a \div m /\ r = a % m
  OBVIOUS
<1>2. q \in Int /\ r \in 0..(m - 1) /\ a = m * q + r
  BY <1>1, Z3
<1>3. ASSUME NEW k \in Int PROVE (m * k) % m = 0
  BY Z3
<1>4. r - a = m * (-q)
  BY <1>2, Z3
<1>5. (r - m) - a = m * (-q - 1)
  BY <1>2, Z3
<1>6. (m * (-q)) % m = 0 /\ (m * (-q - 1)) % m = 0
  <2>1. -q \in Int /\ -q - 1 \in Int
    BY <1>2
  <2> QED BY <1>3, <2>1
<1>7. a \in 0..(m - 1) => a % m = a
  BY Z3
<1>8. -m <= a /\ a < 0 => a % m = a + m
  BY Z3
<1> QED BY <1>1, <1>2, <1>4, <1>5, <1>6, <1>7, <1>8, Zenon

(* An argument taken as an intmax_t is itself, but for a multiple of the
   number of values. *)
LEMMA SignedFacts ==
    ASSUME NEW a \in Int, NEW m \in Nat \ {0}
    PROVE  /\ Signed(a, m) \in Int /\ (Signed(a, m) - a) % m = 0
           /\ -(m \div 2) <= a /\ a < m \div 2 => Signed(a, m) = a
<1>1. PICK h, r, n : h = m \div 2 /\ r = a % m /\ n = Signed(a, m)
  OBVIOUS
<1>2. h \in Nat /\ h + h <= m
  BY <1>1
<1>3. n = IF r < h THEN r ELSE r - m
  BY <1>1 DEF Signed, Unsigned
<1>4. r \in 0..(m - 1) /\ (r - a) % m = 0 /\ ((r - m) - a) % m = 0
  BY <1>1, ModFacts
<1>5. n \in Int
  BY <1>3, <1>4
<1>6. (n - a) % m = 0
  BY <1>3, <1>4, Zenon
<1>7. ASSUME -h <= a, a < h PROVE n = a
  <2>1. CASE a >= 0
    <3>1. r = a
      <4>1. a \in 0..(m - 1)
        BY <1>2, <1>7, <2>1
      <4> QED BY <1>1, <4>1, ModFacts
    <3> QED BY <1>3, <1>7, <3>1
  <2>2. CASE ~(a >= 0)
    <3>1. -m <= a /\ a < 0
      BY <1>2, <1>7, <2>2
    <3>2. r = a + m
      BY <1>1, <3>1, ModFacts
    <3>3. ~(r < h)
      BY <1>2, <1>7, <3>2
    <3> QED BY <1>3, <3>2, <3>3
  <2> QED BY <2>1, <2>2
<1> QED BY <1>1, <1>5, <1>6, <1>7, Zenon

(* The text s is a number: x in the given base, at least width wide. *)
IsNumber(s, base, x, width) ==
    /\ s \in Seq(Char) /\ Reading(s, base) = x
    /\ Len(s) >= width /\ \E i \in 1..Len(s) : s[i] \in DigitChars

LEMMA parse_uReads ==
    ASSUME NEW num \in Nat, NEW base \in 2..16, NEW c \in Char, NEW width \in Int,
           c = DigitChar[1] \/ c = Blank
    PROVE  IsNumber(parse_u(num, base, c, width), base, num, width)
<1>1. PICK s : s = parse_u(num, base, c, width)
  OBVIOUS
<1>2. PICK f, p : NumberText(s, num, base, c, width, f, p)
  BY <1>1, parse_uText
<1>3. s \in Seq(Char) /\ IsLow(num, base, f) /\ p \in Nat /\ Len(s) = p + Len(f[num]) /\ Holds(s, p, f[num])
  BY <1>2, Zenon DEF NumberText
<1>4. Len(s) >= width /\ \A i \in Nat : i \in 1..p => s[i] = c
  BY <1>2, Zenon DEF NumberText
<1>5. \A i \in Nat : i \in 1..p => s[i] = DigitChar[1] \/ s[i] \notin DigitChars
  BY <1>4, DigitsDiffer, Zenon
<1>6. /\ Reading(s, base) = IF s[1] = "-" THEN -num ELSE num
      /\ Len(s) \in 1..Len(s) /\ s[Len(s)] \in DigitChars
      /\ p = 0 => s[1] \in DigitChars
  BY <1>3, <1>5, TextReads
<1>7. s[1] # "-"
  <2>1. CASE p = 0
    BY <1>6, <2>1, DigitsDiffer, Zenon
  <2>2. CASE p # 0
    <3>1. 1 \in Nat /\ 1 \in 1..p
      BY <1>3, <2>2
    <3>2. s[1] = c
      BY <1>4, <3>1, Zenon
    <3>3. DigitChar[1] # "-"
      BY DEF DigitChar
    <3> QED BY <3>2, <3>3, DigitsDiffer, Zenon
  <2> QED BY <2>1, <2>2
<1>8. Reading(s, base) = num
  BY <1>6, <1>7, Zenon
<1> QED BY <1>1, <1>3, <1>4, <1>6, <1>8, Zenon DEF IsNumber

LEMMA parse_sReads ==
    ASSUME NEW num \in Int, NEW base \in 2..16, NEW width \in Nat
    PROVE  IsNumber(parse_s(num, base, Blank, width), base, num, width)
<1>0. Blank \in Char
  BY LoggingAssumption
<1>1. CASE ~(num < 0)
  <2>1. num \in Nat /\ width \in Int
    BY <1>1
  <2>2. parse_s(num, base, Blank, width) = parse_u(num, base, Blank, width)
    BY <1>1, Zenon DEF parse_s
  <2> QED BY <1>0, <2>1, <2>2, parse_uReads
<1>2. CASE num < 0
  <2>1. PICK n, w : n = -num /\ w = IF width = 0 THEN 0 ELSE width - 1
    OBVIOUS
  <2>2. n \in Nat /\ w \in Int /\ w + 1 >= width /\ -n = num
    BY <1>2, <2>1
  <2>3. PICK d, u, s : d = <<"-">> /\ u = parse_u(n, base, Blank, w) /\ s = d \o u
    OBVIOUS
  <2>4. parse_s(num, base, Blank, width) = s
    BY <1>2, <2>1, <2>3, Zenon DEF parse_s
  <2>5. PICK f, p : NumberText(u, n, base, Blank, w, f, p)
    BY <1>0, <2>2, <2>3, parse_uText
  <2>6. u \in Seq(Char) /\ IsLow(n, base, f) /\ p \in Nat /\ Len(u) = p + Len(f[n]) /\ Holds(u, p, f[n])
    BY <2>5, Zenon DEF NumberText
  <2>7. Len(u) >= w /\ \A i \in Nat : i \in 1..p => u[i] = Blank
    BY <2>5, Zenon DEF NumberText
  <2>8. d \in Seq(Char) /\ Len(d) = 1 /\ d[1] = "-"
    <3>1. d \in Seq(Char)
      BY <2>3, FixedTexts, Zenon
    <3> QED BY <2>3, <3>1
  <2>9. Len(u) \in Nat
    BY <2>6
  <2>10. s \in Seq(Char) /\ Len(s) = 1 + Len(u) /\ s[1] = "-" /\ \A i \in Nat : i \in 1..Len(u) => s[i + 1] = u[i]
    <3>1. s \in Seq(Char) /\ Len(s) = 1 + Len(u)
      BY <2>3, <2>6, <2>8
    <3>2. \A i \in 1..(1 + Len(u)) : s[i] = IF i <= 1 THEN d[i] ELSE u[i - 1]
      BY <2>3, <2>6, <2>8, ConcatProperties
    <3>3. s[1] = "-"
      <4>1. 1 \in 1..(1 + Len(u)) /\ 1 <= 1
        BY <2>9
      <4>2. s[1] = d[1]
        BY <3>2, <4>1, Zenon
      <4> QED BY <2>8, <4>2, Zenon
    <3>4. ASSUME NEW i \in Nat, i \in 1..Len(u) PROVE s[i + 1] = u[i]
      <4>1. PICK j : j = i + 1
        OBVIOUS
      <4>2. j \in 1..(1 + Len(u)) /\ ~(j <= 1) /\ j - 1 = i
        BY <2>9, <3>4, <4>1
      <4> QED BY <3>2, <4>1, <4>2, Zenon
    <3> QED BY <3>1, <3>3, <3>4
  <2>11. PICK g, l, k : g = f[n] /\ l = Len(g) /\ k = p + 1
    OBVIOUS
  <2>12. l \in Nat /\ k \in Nat /\ Len(u) = p + l /\ Len(s) = k + l
    <3>1. n \in 0..n
      BY <2>2
    <3>2. l \in Nat
      BY <2>2, <2>6, <2>11, <3>1, LowIn
    <3>3. Len(u) = p + l
      BY <2>6, <2>11, Zenon
    <3>4. Len(s) = 1 + Len(u) /\ p \in Nat
      BY <2>6, <2>10, Zenon
    <3>5. k \in Nat /\ Len(s) = k + l
      <4>1. k = p + 1
        BY <2>11, Zenon
      <4>2. PICK a, b : a = Len(s) /\ b = Len(u)
        OBVIOUS
      <4>3. a = 1 + b /\ b = p + l
        BY <3>3, <3>4, <4>2, Zenon
      <4>4. k \in Nat /\ a = k + l
        BY <3>2, <3>4, <4>1, <4>3
      <4> QED BY <4>2, <4>4, Zenon
    <3> QED BY <3>2, <3>3, <3>5
  <2>13. Holds(s, k, f[n])
    <3>1. k + l <= Len(s)
      BY <2>12
    <3>2. ASSUME NEW j \in Nat, j \in 1..l PROVE s[k + j] = g[l + 1 - j]
      <4>1. PICK i : i = p + j
        OBVIOUS
      <4>2. i \in Nat /\ i \in 1..Len(u) /\ i + 1 = k + j
        BY <2>6, <2>11, <2>12, <3>2, <4>1
      <4>3. s[i + 1] = u[i]
        BY <2>10, <4>2
      <4>4. u[p + j] = g[l + 1 - j]
        BY <2>6, <2>11, <3>2, Zenon DEF Holds
      <4> QED BY <4>1, <4>2, <4>3, <4>4, Zenon
    <3> QED BY <2>11, <3>1, <3>2, Zenon DEF Holds
  <2>14. ASSUME NEW i \in Nat, i \in 1..k PROVE s[i] = DigitChar[1] \/ s[i] \notin DigitChars
    <3>1. CASE i = 1
      BY <2>10, <3>1, DigitsDiffer, Zenon
    <3>2. CASE i # 1
      <4>1. PICK j : j = i - 1
        OBVIOUS
      <4>2. j \in Nat /\ j \in 1..p /\ j \in 1..Len(u) /\ i = j + 1
        BY <2>6, <2>11, <2>12, <2>14, <3>2, <4>1
      <4>3. s[i] = Blank
        BY <2>7, <2>10, <4>2, Zenon
      <4> QED BY <4>3, DigitsDiffer, Zenon
    <3> QED BY <3>1, <3>2
  <2>15. Len(s) = k + Len(f[n])
    BY <2>11, <2>12, Zenon
  <2>16. /\ Reading(s, base) = IF s[1] = "-" THEN -n ELSE n
         /\ Len(s) \in 1..Len(s) /\ s[Len(s)] \in DigitChars
    BY <2>2, <2>6, <2>10, <2>12, <2>13, <2>14, <2>15, TextReads
  <2>17. Reading(s, base) = num
    BY <2>2, <2>10, <2>16, Zenon
  <2>18. Len(s) >= width
    BY <2>2, <2>7, <2>9, <2>10
  <2>19. IsNumber(s, base, num, width)
    BY <2>10, <2>16, <2>17, <2>18, Zenon DEF IsNumber
  <2> QED BY <2>4, <2>19, Zenon
<1> QED BY <1>1, <1>2

(* What a conversion appends is a text, and that of a number reads as it. *)
LEMMA ConvertedText ==
    ASSUME NEW item \in MsgItem, item.k # "lit", NEW m \in {INT, LONG}
    PROVE  /\ Converted(item, m) \in Seq(Char)
           /\ item.k \in {"d", "u"} => IsNumber(Converted(item, m), 10, Signed(item.arg, m), item.width)
           /\ item.k = "x" => IsNumber(Converted(item, m), 16, Unsigned(item.arg, m), item.width)
<1>1. m \in Nat \ {0}
  BY Bounds
<1>2. item.arg \in Int /\ item.width \in Nat /\ item.text \in Seq(Char)
  BY DEF MsgItem
<1>3. PICK v, u : v = Signed(item.arg, m) /\ u = Unsigned(item.arg, m)
  OBVIOUS
<1>4. v \in Int /\ u \in Nat
  <2>1. v \in Int
    BY <1>1, <1>2, <1>3, SignedFacts
  <2>2. item.arg % m \in Nat
    BY <1>1, <1>2, ModFacts
  <2> QED BY <1>3, <2>1, <2>2 DEF Unsigned
<1>5. "0" = DigitChar[1] /\ "0" \in Char
  <2>1. DigitChar[1] \in DigitChars /\ DigitChars \subseteq Char
    BY LoggingAssumption DEF DigitChars
  <2> QED BY <2>1, DigitsDiffer, Zenon
<1>6. 10 \in 2..16 /\ 16 \in 2..16
  OBVIOUS
<1>7. IsNumber(parse_s(v, 10, Blank, item.width), 10, v, item.width)
  BY <1>2, <1>4, <1>6, parse_sReads
<1>8. ASSUME NEW w \in Int PROVE IsNumber(parse_u(u, 16, "0", w), 16, u, w)
  BY <1>4, <1>5, <1>6, parse_uReads
<1>9. item.width \in Int /\ PtrDigits(m) \in Int
  <2>1. \E n \in 1..16 : m = 16^n
    BY LoggingAssumption
  <2>2. PtrDigits(m) \in 1..16
    BY <2>1, Zenon DEF PtrDigits
  <2> QED BY <1>2, <2>2
<1>10. <<"0", "x">> \o parse_u(u, 16, "0", PtrDigits(m)) \in Seq(Char)
  <2>1. parse_u(u, 16, "0", PtrDigits(m)) \in Seq(Char)
    BY <1>8, <1>9, Zenon DEF IsNumber
  <2>2. PICK d : d = <<"0", "x">>
    OBVIOUS
  <2>3. d \in Seq(Char)
    BY <2>2, FixedTexts, Zenon
  <2> QED BY <2>1, <2>2, <2>3
<1>11. item.k \in {"d", "u", "x", "p", "c", "s", "null", "?"}
  BY DEF MsgItem
<1>12. CASE item.k \in {"d", "u"}
  <2>1. Converted(item, m) = parse_s(v, 10, Blank, item.width)
    BY <1>3, <1>12 DEF Converted
  <2>2. IsNumber(Converted(item, m), 10, Signed(item.arg, m), item.width)
    BY <1>3, <1>7, <2>1, Zenon
  <2>3. Converted(item, m) \in Seq(Char)
    BY <2>2, Zenon DEF IsNumber
  <2>4. item.k # "x"
    BY <1>12
  <2> QED BY <2>2, <2>3, <2>4
<1>13. CASE item.k = "x"
  <2>1. Converted(item, m) = parse_u(u, 16, "0", item.width)
    BY <1>3, <1>13 DEF Converted
  <2>2. IsNumber(Converted(item, m), 16, Unsigned(item.arg, m), item.width)
    BY <1>3, <1>8, <1>9, <2>1, Zenon
  <2>3. Converted(item, m) \in Seq(Char)
    BY <2>2, Zenon DEF IsNumber
  <2>4. item.k \notin {"d", "u"}
    BY <1>13
  <2> QED BY <2>2, <2>3, <2>4
<1>14. ASSUME item.k \in {"p", "c", "s", "null", "?"} PROVE Converted(item, m) \in Seq(Char)
  <2>1. CASE item.k = "p"
    <3>1. Converted(item, m) = <<"0", "x">> \o parse_u(u, 16, "0", PtrDigits(m))
      BY <1>3, <2>1 DEF Converted
    <3> QED BY <1>10, <3>1
  <2>2. CASE item.k \in {"c", "s"}
    <3>1. Converted(item, m) = item.text
      BY <2>2 DEF Converted
    <3> QED BY <1>2, <3>1
  <2>3. CASE item.k = "null"
    <3>1. Converted(item, m) = <<"(", ")">>
      BY <2>3 DEF Converted
    <3> QED BY <3>1, FixedTexts, Zenon
  <2>4. CASE item.k = "?"
    <3>1. Converted(item, m) = <<"(", "?", ")">>
      BY <2>4 DEF Converted
    <3> QED BY <3>1, FixedTexts, Zenon
  <2> QED BY <1>14, <2>1, <2>2, <2>3, <2>4
<1>15. CASE item.k \in {"p", "c", "s", "null", "?"}
  <2>1. item.k \notin {"d", "u"} /\ item.k # "x"
    BY <1>15
  <2> QED BY <1>14, <1>15, <2>1
<1> QED BY <1>11, <1>12, <1>13, <1>15
-----------------------------------------------------------------------------
(* What an item stands for, and a text with it appended. *)
ItemText(item, m) == IF item.k = "lit" THEN item.text ELSE Converted(item, m)

LEMMA ItemTextIn ==
    ASSUME NEW item \in MsgItem, NEW m \in {INT, LONG}
    PROVE  ItemText(item, m) \in Seq(Char) /\ item.width \in Nat
<1>1. item.text \in Seq(Char) /\ item.width \in Nat
  BY DEF MsgItem
<1>2. item.k # "lit" => Converted(item, m) \in Seq(Char)
  BY ConvertedText
<1> QED BY <1>1, <1>2 DEF ItemText

Joined(e, t, s, b) ==
    /\ e \in Seq(Char) /\ Len(e) = Len(t) + Len(s) + b
    /\ \A i \in 1..Len(e) :
          e[i] = IF i <= Len(t) THEN t[i] ELSE IF i <= Len(t) + Len(s) THEN s[i - Len(t)] ELSE Blank

LEMMA ExtendedFacts ==
    ASSUME NEW t \in Seq(Char), NEW item \in MsgItem, NEW m \in {INT, LONG},
           NEW s, s = ItemText(item, m), NEW b, b = Padding(Len(t), Len(s), item.width)
    PROVE  b \in Nat /\ Joined(Extended(t, item, m), t, s, b)
<1>1. s \in Seq(Char) /\ Len(s) \in Nat /\ Len(t) \in Nat /\ item.width \in Nat
  BY ItemTextIn
<1>2. b \in Nat
  BY <1>1 DEF Padding
<1>3. PICK r : r = [i \in 1..b |-> Blank]
  OBVIOUS
<1>4. Blank \in Char
  BY LoggingAssumption
<1>5. r \in Seq(Char) /\ Len(r) = b /\ \A i \in 1..b : r[i] = Blank
  BY <1>2, <1>3, <1>4, Repeated
<1>6. Extended(t, item, m) = (t \o s) \o r
  BY <1>3 DEF Extended, ItemText
<1>7. PICK u : u = t \o s
  OBVIOUS
<1>8. /\ u \in Seq(Char) /\ Len(u) = Len(t) + Len(s) /\ Len(u) \in Nat
      /\ \A i \in 1..Len(u) : u[i] = IF i <= Len(t) THEN t[i] ELSE s[i - Len(t)]
  BY <1>1, <1>7
<1>9. PICK e : e = u \o r
  OBVIOUS
<1>10. /\ e \in Seq(Char) /\ Len(e) = Len(u) + b
       /\ \A i \in 1..Len(e) : e[i] = IF i <= Len(u) THEN u[i] ELSE r[i - Len(u)]
  <2>1. u \in Seq(Char) /\ r \in Seq(Char)
    BY <1>5, <1>8
  <2>2. e \in Seq(Char) /\ Len(e) = Len(u) + Len(r) /\ Len(u) \in Nat /\ Len(r) \in Nat
    BY <1>9, <2>1
  <2>3. \A i \in 1..(Len(u) + Len(r)) : e[i] = IF i <= Len(u) THEN u[i] ELSE r[i - Len(u)]
    BY <1>9, <2>1, ConcatProperties
  <2>4. Len(r) = b
    BY <1>5
  <2> QED BY <2>2, <2>3, <2>4
<1>11. ASSUME NEW i \in 1..Len(e)
       PROVE  e[i] = IF i <= Len(t) THEN t[i] ELSE IF i <= Len(t) + Len(s) THEN s[i - Len(t)] ELSE Blank
  <2>1. CASE i <= Len(u)
    BY <1>1, <1>8, <1>10, <2>1
  <2>2. CASE ~(i <= Len(u))
    <3>1. i - Len(u) \in 1..b /\ ~(i <= Len(t)) /\ ~(i <= Len(t) + Len(s))
      BY <1>1, <1>2, <1>8, <1>10, <2>2
    <3> QED BY <1>5, <1>10, <2>2, <3>1
  <2> QED BY <2>1, <2>2
<1>12. Joined(e, t, s, b)
  BY <1>8, <1>10, <1>11 DEF Joined
<1> QED BY <1>2, <1>6, <1>7, <1>9, <1>12

(* The text after every item of a message. *)
NextText(t, item, m, cut) == IF cut /\ Len(t) >= MAX_WRITE_BUFFER THEN t ELSE Extended(t, item, m)

TextRun(msg, m, cut, f) ==
    /\ f[0] = <<>> /\ \A n \in 0..Len(msg) : f[n] \in Seq(Char)
    /\ \A n \in 0..Len(msg) : n < Len(msg) => f[n + 1] = NextText(f[n], msg[n + 1], m, cut)

LEMMA TextFacts ==
    ASSUME NEW msg \in Seq(MsgItem), NEW m \in {INT, LONG}, NEW cut \in BOOLEAN
    PROVE  TextRun(msg, m, cut, TextUpTo(msg, m, cut))
<1>1. PICK n : n = Len(msg)
  OBVIOUS
<1>2. n \in Nat /\ \A i \in 1..n : msg[i] \in MsgItem
  BY <1>1
<1> DEFINE F == [i \in 1..n |-> [t \in Seq(Char) |-> NextText(t, msg[i], m, cut)]]
           D == [k \in 0..n |-> Seq(Char)]
<1>3. \A i \in 1..n : \A t \in Seq(Char) : F[i][t] = NextText(t, msg[i], m, cut)
  OBVIOUS
<1>4. ASSUME NEW i \in 1..n, NEW t \in Seq(Char) PROVE NextText(t, msg[i], m, cut) \in Seq(Char)
  <2>1. Extended(t, msg[i], m) \in Seq(Char)
    <3>1. PICK item \in MsgItem : item = msg[i]
      BY <1>2
    <3>2. PICK s : s = ItemText(item, m)
      OBVIOUS
    <3>3. PICK b : b = Padding(Len(t), Len(s), item.width)
      OBVIOUS
    <3>4. Joined(Extended(t, item, m), t, s, b)
      BY <3>2, <3>3, ExtendedFacts
    <3> QED BY <3>1, <3>4 DEF Joined
  <2> QED BY <2>1 DEF NextText
<1>5. \A k \in 0..n : D[k] = Seq(Char)
  OBVIOUS
<1>6. <<>> \in D[0]
  BY <1>2, <1>5
<1>7. ASSUME NEW k \in 0..n, k < n, NEW t \in D[k] PROVE F[k + 1][t] \in D[k + 1]
  <2>1. k + 1 \in 1..n /\ k + 1 \in 0..n /\ t \in Seq(Char)
    BY <1>2, <1>5, <1>7
  <2>2. F[k + 1][t] = NextText(t, msg[k + 1], m, cut)
    BY <1>3, <2>1
  <2> QED BY <1>4, <1>5, <2>1, <2>2
<1> HIDE DEF F, D
<1>8. PICK g : LoopRun(n, <<>>, F, g)
  BY <1>2, LoopExists
<1>9. \A k \in 0..n : g[k] \in D[k]
  BY <1>2, <1>6, <1>7, <1>8, LoopIn
<1>10. \A k \in 0..n : g[k] \in Seq(Char)
  BY <1>5, <1>9
<1>11. g = [i \in 0..n |-> IF i = 0 THEN <<>> ELSE F[i][g[i - 1]]]
  BY <1>8 DEF LoopRun
<1>12. ASSUME NEW i \in 0..n
       PROVE  g[i] = IF i = 0 THEN <<>>
                     ELSE IF cut /\ Len(g[i - 1]) >= MAX_WRITE_BUFFER THEN g[i - 1]
                     ELSE Extended(g[i - 1], msg[i], m)
  <2>1. g[i] = IF i = 0 THEN <<>> ELSE F[i][g[i - 1]]
    BY <1>11
  <2>2. CASE i # 0
    <3>1. i - 1 \in 0..n /\ i \in 1..n
      BY <1>2, <2>2
    <3>2. PICK y : y = g[i - 1]
      OBVIOUS
    <3>3. y \in Seq(Char)
      BY <1>10, <3>1, <3>2
    <3>4. F[i][y] = NextText(y, msg[i], m, cut)
      BY <1>3, <3>1, <3>3
    <3> QED BY <2>1, <2>2, <3>2, <3>4, Zenon DEF NextText
  <2> QED BY <2>1, <2>2, Zenon
<1>13. g = [i \in 0..n |-> IF i = 0 THEN <<>>
                          ELSE IF cut /\ Len(g[i - 1]) >= MAX_WRITE_BUFFER THEN g[i - 1]
                          ELSE Extended(g[i - 1], msg[i], m)]
  <2>1. g = [i \in 0..n |-> g[i]]
    BY <1>11
  <2> QED BY <1>12, <2>1, Zenon
<1> DEFINE f == CHOOSE h : h = [i \in 0..Len(msg) |-> IF i = 0 THEN <<>>
                          ELSE IF cut /\ Len(h[i - 1]) >= MAX_WRITE_BUFFER THEN h[i - 1]
                          ELSE Extended(h[i - 1], msg[i], m)]
<1>14. f = [i \in 0..Len(msg) |-> IF i = 0 THEN <<>>
                          ELSE IF cut /\ Len(f[i - 1]) >= MAX_WRITE_BUFFER THEN f[i - 1]
                          ELSE Extended(f[i - 1], msg[i], m)]
  BY <1>1, <1>13
<1>15. TextUpTo(msg, m, cut) = f
  BY DEF TextUpTo
<1> HIDE DEF f
<1>16. f[0] = <<>>
  BY <1>1, <1>2, <1>14
<1>17. ASSUME NEW k \in 0..n, k < n PROVE f[k + 1] = NextText(f[k], msg[k + 1], m, cut)
  <2>1. PICK e : e = k + 1
    OBVIOUS
  <2>2. e \in 0..Len(msg) /\ e # 0 /\ e - 1 = k
    BY <1>1, <1>2, <1>17, <2>1
  <2>3. f[e] = IF cut /\ Len(f[e - 1]) >= MAX_WRITE_BUFFER THEN f[e - 1] ELSE Extended(f[e - 1], msg[e], m)
    BY <1>14, <2>2, Zenon
  <2> QED BY <2>1, <2>2, <2>3, Zenon DEF NextText
<1>18. \A k \in 0..n : f[k] \in Seq(Char)
  <2> DEFINE T == {k \in 0..n : f[k] \in Seq(Char)}
  <2>1. 0 \in T
    <3>1. <<>> \in Seq(Char) /\ 0 \in 0..n
      BY <1>2
    <3> QED BY <1>16, <3>1
  <2>2. ASSUME NEW k \in T, k < n PROVE k + 1 \in T
    <3>1. k + 1 \in 1..n /\ k + 1 \in 0..n /\ k \in 0..n /\ f[k] \in Seq(Char)
      BY <1>2, <2>2
    <3>2. f[k + 1] = NextText(f[k], msg[k + 1], m, cut)
      BY <1>17, <2>2, <3>1
    <3> QED BY <1>4, <3>1, <3>2
  <2> HIDE DEF T
  <2>3. \A k \in 0..n : k \in T
    BY <1>2, <2>1, <2>2, IntervalInduction
  <2> QED BY <2>3 DEF T
<1> QED BY <1>1, <1>15, <1>16, <1>17, <1>18 DEF TextRun

(* Once the buffer is full the text stays what it is. *)
LEMMA FullStays ==
    ASSUME NEW msg \in Seq(MsgItem), NEW m, NEW f, TextRun(msg, m, TRUE, f),
           NEW n \in 0..Len(msg), Len(f[n]) >= MAX_WRITE_BUFFER
    PROVE  f[Len(msg)] = f[n]
<1>1. PICK l : l = Len(msg)
  OBVIOUS
<1>2. l \in Nat /\ n \in 0..l
  BY <1>1
<1> DEFINE T == {k \in 0..l : n <= k => f[k] = f[n]}
<1>3. 0 \in T
  BY <1>2
<1>4. ASSUME NEW k \in T, k < l PROVE k + 1 \in T
  <2>1. k \in 0..l /\ k + 1 \in 0..l
    BY <1>2, <1>4
  <2>2. f[k + 1] = NextText(f[k], msg[k + 1], m, TRUE)
    BY <1>1, <1>4, <2>1 DEF TextRun
  <2>3. CASE n <= k
    <3>1. f[k] = f[n]
      BY <2>3
    <3>2. f[k + 1] = f[n]
      BY <2>2, <3>1 DEF NextText
    <3> QED BY <2>1, <3>2
  <2>4. CASE n = k + 1
    BY <2>1, <2>4
  <2>5. CASE n > k + 1
    <3>1. ~(n <= k + 1)
      BY <1>2, <2>1, <2>5
    <3> QED BY <2>1, <3>1
  <2> QED BY <1>2, <2>1, <2>3, <2>4, <2>5
<1> HIDE DEF T
<1>5. \A k \in 0..l : k \in T
  BY <1>2, <1>3, <1>4, IntervalInduction
<1>6. l \in T /\ n <= l
  BY <1>2, <1>5
<1> QED BY <1>1, <1>6 DEF T

(* The part that is cut off is only behind a full buffer. *)
LEMMA CutShorter ==
    ASSUME NEW msg \in Seq(MsgItem), NEW m \in {INT, LONG}, NEW f, NEW g,
           TextRun(msg, m, TRUE, f), TextRun(msg, m, FALSE, g)
    PROVE  Len(f[Len(msg)]) <= Len(g[Len(msg)])
<1>1. PICK l : l = Len(msg)
  OBVIOUS
<1>2. l \in Nat
  BY <1>1
<1> DEFINE T == {k \in 0..l : Len(f[k]) <= Len(g[k]) /\ (Len(f[k]) < MAX_WRITE_BUFFER => f[k] = g[k])}
<1>3. 0 \in T
  <2>1. f[0] = g[0] /\ Len(f[0]) = 0
    <3>1. Len(<<>>) = 0
      OBVIOUS
    <3> QED BY <3>1 DEF TextRun
  <2> QED BY <1>2, <2>1
<1>4. ASSUME NEW k \in T, k < l PROVE k + 1 \in T
  <2>1. k \in 0..l /\ k + 1 \in 0..l /\ k + 1 \in 1..Len(msg)
    BY <1>1, <1>2, <1>4
  <2>2. PICK t, u, item : t = f[k] /\ u = g[k] /\ item = msg[k + 1]
    OBVIOUS
  <2>3. /\ item \in MsgItem /\ t \in Seq(Char) /\ u \in Seq(Char)
        /\ Len(t) \in Nat /\ Len(u) \in Nat /\ Len(t) <= Len(u) /\ (Len(t) < MAX_WRITE_BUFFER => t = u)
    BY <1>1, <2>1, <2>2 DEF TextRun
  <2>4. f[k + 1] = NextText(t, item, m, TRUE) /\ g[k + 1] = NextText(u, item, m, FALSE)
    BY <1>1, <1>4, <2>1, <2>2 DEF TextRun
  <2>5. Extended(u, item, m) \in Seq(Char) /\ Len(u) <= Len(Extended(u, item, m))
    <3>1. PICK s : s = ItemText(item, m)
      OBVIOUS
    <3>2. PICK b : b = Padding(Len(u), Len(s), item.width)
      OBVIOUS
    <3>3. b \in Nat /\ Joined(Extended(u, item, m), u, s, b) /\ Len(s) \in Nat
      BY <2>3, <3>1, <3>2, ExtendedFacts, ItemTextIn
    <3> QED BY <2>3, <3>3 DEF Joined
  <2>6. PICK e : e = Extended(u, item, m)
    OBVIOUS
  <2>7. e \in Seq(Char) /\ Len(e) \in Nat /\ Len(u) <= Len(e) /\ g[k + 1] = e
    BY <2>4, <2>5, <2>6 DEF NextText
  <2>8. CASE Len(t) >= MAX_WRITE_BUFFER
    <3>1. f[k + 1] = t
      BY <2>4, <2>8 DEF NextText
    <3> QED BY <2>1, <2>3, <2>7, <2>8, <3>1, Bounds
  <2>9. CASE ~(Len(t) >= MAX_WRITE_BUFFER)
    <3>1. t = u
      BY <2>3, <2>9, Bounds
    <3>2. f[k + 1] = e
      BY <2>4, <2>6, <2>9, <3>1 DEF NextText
    <3> QED BY <2>1, <2>7, <3>2
  <2> QED BY <2>8, <2>9
<1> HIDE DEF T
<1>5. \A k \in 0..l : k \in T
  BY <1>2, <1>3, <1>4, IntervalInduction
<1>6. l \in T
  BY <1>2, <1>5
<1> QED BY <1>1, <1>6 DEF T
-----------------------------------------------------------------------------
(* fmt is what n items leave of a message. *)
Rest(fmt, msg, n) == Len(fmt) = Len(msg) - n /\ \A i \in 1..Len(fmt) : fmt[i] = msg[n + i]

(* In the block of a string: j characters of s and b blanks are behind t.  The
   counter first catches up with the text, and is then one ahead of it; without
   characters it is not. *)
Taking(c, t, s, width, j, b) ==
    /\ j \in 0..Len(s) /\ b \in Nat /\ Len(c.out) = Len(t) + j + b
    /\ \A i \in 1..Len(c.out) :
          c.out[i] = IF i <= Len(t) THEN t[i] ELSE IF i <= Len(t) + j THEN s[i - Len(t)] ELSE Blank
    /\ Len(c.append) = Len(s) - j /\ \A i \in 1..Len(c.append) : c.append[i] = s[j + i]
    /\ j < Len(s) => b = 0
    /\ j = 0 /\ Len(s) > 0 => c.len <= Len(t) + 1
    /\ j > 0 => c.len = Len(t) + 1 + j + b
    /\ Len(s) = 0 => c.len <= width /\ b = IF c.len > Len(t) THEN c.len - Len(t) ELSE 0
    /\ b > 0 => c.len <= width

(* How far n items have brought the text. *)
Progress(c, i, n) ==
    LET f == TextUpTo(c.msg, i, TRUE) IN
    /\ n \in 0..Len(c.msg) /\ Rest(c.fmt, c.msg, n)
    /\ c.phase = "items" => n < Len(c.msg) /\ c.out = f[n] /\ Len(c.out) < MAX_WRITE_BUFFER
    /\ c.phase = "string" =>
        /\ n < Len(c.msg) /\ Len(f[n]) < MAX_WRITE_BUFFER
        /\ \E j, b : Taking(c, f[n], ItemText(c.msg[n + 1], i), c.msg[n + 1].width, j, b)
    /\ c.phase \in {"cast", "screen"} => c.out = f[Len(c.msg)]

Formatted(c, i, cr) ==
    /\ c \in Writing
    /\ c.phase # "idle" => c.msg \in Messages /\ \E n : Progress(c, i, n)
    /\ cr \in {"no", "aborted", "overrun"}
    /\ cr = "overrun" => c.phase = "cast" /\ Len(c.out) >= MAX_WRITE_BUFFER

WriteInv ==
    /\ intmax \in {INT, LONG} /\ level \in Levels
    /\ writers \in [Slots -> Writers \cup {Kcon, NoWriter}]
    /\ Formatted(writing, intmax, crash)

LEMMA MessageFacts ==
    ASSUME NEW msg \in Messages, NEW m \in {INT, LONG}
    PROVE  /\ msg \in Seq(MsgItem) /\ Len(msg) \in Nat
           /\ \A i \in 1..Len(msg) : msg[i] \in MsgItem
           /\ \A i \in 1..Len(msg) : msg[i].k = "lit" => Len(msg[i].text) = 1 /\ msg[i].width = 0
           /\ \A cut \in BOOLEAN : TextRun(msg, m, cut, TextUpTo(msg, m, cut))
<1>1. msg \in Seq(MsgItem)
  BY LoggingAssumption
<1>2. \A i \in 1..Len(msg) : msg[i].k = "lit" => Len(msg[i].text) = 1 /\ msg[i].width = 0
  BY LoggingAssumption
<1>3. \A cut \in BOOLEAN : TextRun(msg, m, cut, TextUpTo(msg, m, cut))
  BY <1>1, TextFacts
<1> QED BY <1>1, <1>2, <1>3

(* The end of a turn of format(), when n items are done. *)
LEMMA EndedStep ==
    ASSUME NEW m \in {INT, LONG}, NEW c \in Writing, c.msg \in Messages, NEW n \in 0..Len(c.msg),
           Rest(c.fmt, c.msg, n), c.out = TextUpTo(c.msg, m, TRUE)[n], Ended(c)
    PROVE  Formatted(writing', m, crash') /\ writing'.phase \in {"items", "cast"}
<1>1. PICK msg, f, l : msg = c.msg /\ f = TextUpTo(c.msg, m, TRUE) /\ l = Len(c.msg)
  OBVIOUS
<1>2. /\ msg \in Messages /\ msg \in Seq(MsgItem) /\ l \in Nat /\ l = Len(msg) /\ n \in 0..l
      /\ TextRun(msg, m, TRUE, f) /\ c.out = f[n]
  BY <1>1, MessageFacts
<1>3. /\ c.fmt \in Seq(MsgItem) /\ Len(c.fmt) = l - n /\ Rest(c.fmt, msg, n) /\ c.out \in Seq(Char)
      /\ Len(c.out) \in Nat
  <2>1. c.fmt \in Seq(MsgItem) /\ c.out \in Seq(Char)
    BY DEF Writing
  <2>2. Rest(c.fmt, msg, n)
    BY <1>1
  <2>3. Len(c.fmt) = l - n
    BY <1>1, <2>2 DEF Rest
  <2>4. ASSUME NEW o \in Seq(Char) PROVE Len(o) \in Nat
    OBVIOUS
  <2> QED BY <2>1, <2>2, <2>3, <2>4, Zenon
<1>4. CASE c.fmt # <<>> /\ Len(c.out) < MAX_WRITE_BUFFER
  <2>1. writing' = [c EXCEPT !.phase = "items"]
    BY <1>4 DEF Ended
  <2>2. PICK w : w = writing'
    OBVIOUS
  <2>3. w \in Writing /\ w.phase = "items" /\ w.msg = msg /\ w.fmt = c.fmt /\ w.out = c.out
    BY <1>1, <2>1, <2>2 DEF Writing
  <2>4. crash' = "no"
    <3>1. writing'.phase # "cast"
      BY <2>2, <2>3
    <3> QED BY <3>1 DEF Ended
  <2>5. n < l
    BY <1>2, <1>3, <1>4
  <2>6. Progress(w, m, n)
    BY <1>1, <1>2, <1>3, <1>4, <2>3, <2>5 DEF Progress
  <2> QED BY <1>2, <2>2, <2>3, <2>4, <2>6 DEF Formatted
<1>5. CASE ~(c.fmt # <<>> /\ Len(c.out) < MAX_WRITE_BUFFER)
  <2>1. writing' = [c EXCEPT !.phase = "cast"]
    BY <1>5 DEF Ended
  <2>2. PICK w : w = writing'
    OBVIOUS
  <2>3. w \in Writing /\ w.phase = "cast" /\ w.msg = msg /\ w.fmt = c.fmt /\ w.out = c.out
    BY <1>1, <2>1, <2>2 DEF Writing
  <2>4. crash' \in {"no", "overrun"} /\ (crash' = "overrun" => Len(c.out) >= MAX_WRITE_BUFFER)
    BY DEF Ended
  <2>5. c.out = f[l]
    <3>1. CASE c.fmt = <<>>
      <4>1. n = l
        BY <1>2, <1>3, <3>1
      <4> QED BY <1>2, <4>1
    <3>2. CASE c.fmt # <<>>
      <4>1. Len(f[n]) >= MAX_WRITE_BUFFER
        <5>1. ~(Len(c.out) < MAX_WRITE_BUFFER)
          BY <1>5, <3>2
        <5>2. Len(c.out) >= MAX_WRITE_BUFFER
          <6>1. PICK a \in Nat : a = Len(c.out)
            BY <1>3, Zenon
          <6>2. ~(a < MAX_WRITE_BUFFER)
            BY <5>1, <6>1, Zenon
          <6>3. a >= MAX_WRITE_BUFFER
            BY <6>2, Bounds
          <6> QED BY <6>1, <6>3, Zenon
        <5> QED BY <1>2, <5>2
      <4> QED BY <1>2, <4>1, FullStays
    <3> QED BY <3>1, <3>2
  <2>6. Progress(w, m, n)
    BY <1>1, <1>2, <1>3, <2>3, <2>5 DEF Progress
  <2> QED BY <1>2, <2>2, <2>3, <2>4, <2>6 DEF Formatted
<1> QED BY <1>4, <1>5

(* The first of what is left is the next item. *)
LEMMA HeadTail ==
    ASSUME NEW msg \in Seq(MsgItem), NEW n \in 0..Len(msg), NEW fmt \in Seq(MsgItem),
           Rest(fmt, msg, n), n < Len(msg)
    PROVE  /\ fmt # <<>> /\ Head(fmt) = msg[n + 1] /\ n + 1 \in 1..Len(msg) /\ Head(fmt) \in MsgItem
           /\ Tail(fmt) \in Seq(MsgItem) /\ Rest(Tail(fmt), msg, n + 1)
<1>1. PICK l, a : l = Len(msg) /\ a = Len(fmt)
  OBVIOUS
<1>2. l \in Nat /\ a \in Nat /\ a = l - n /\ n \in 0..l /\ n < l /\ \A i \in 1..a : fmt[i] = msg[n + i]
  BY <1>1 DEF Rest
<1>3. a > 0 /\ 1 \in 1..a /\ n + 1 \in 1..l
  BY <1>2
<1>4. fmt # <<>>
  BY <1>1, <1>3
<1>5. Head(fmt) = fmt[1] /\ fmt[1] = msg[n + 1]
  BY <1>1, <1>2, <1>3
<1>6. PICK r : r = Tail(fmt)
  OBVIOUS
<1>7. r \in Seq(MsgItem) /\ Len(r) = a - 1 /\ \A i \in 1..(a - 1) : r[i] = fmt[i + 1]
  BY <1>1, <1>4, <1>6, HeadTailProperties
<1>8. ASSUME NEW i \in 1..(a - 1) PROVE r[i] = msg[(n + 1) + i]
  <2>1. i + 1 \in 1..a /\ n + (i + 1) = (n + 1) + i
    BY <1>2
  <2> QED BY <1>2, <1>7, <2>1
<1>9. Rest(r, msg, n + 1)
  BY <1>1, <1>2, <1>7, <1>8 DEF Rest
<1> QED BY <1>1, <1>3, <1>4, <1>5, <1>6, <1>7, <1>9

(* FormatItem, StringTurn and PadTurn: what is common to them. *)
LEMMA InItem ==
    ASSUME WriteInv, writing.phase \in {"items", "string"}
    PROVE  \E n : /\ n \in 0..Len(writing.msg) /\ n < Len(writing.msg) /\ writing.msg \in Messages
                  /\ Progress(writing, intmax, n) /\ Rest(writing.fmt, writing.msg, n)
                  /\ writing.fmt # <<>> /\ Head(writing.fmt) = writing.msg[n + 1]
                  /\ n + 1 \in 0..Len(writing.msg) /\ Head(writing.fmt) \in MsgItem
                  /\ Tail(writing.fmt) \in Seq(MsgItem) /\ Rest(Tail(writing.fmt), writing.msg, n + 1)
<1>1. writing \in Writing /\ writing.msg \in Messages /\ \E n : Progress(writing, intmax, n)
  BY DEF WriteInv, Formatted
<1>2. PICK n : Progress(writing, intmax, n)
  BY <1>1
<1>3. n \in 0..Len(writing.msg) /\ Rest(writing.fmt, writing.msg, n) /\ n < Len(writing.msg)
  BY <1>2 DEF Progress
<1>4. PICK msg, fmt : msg = writing.msg /\ fmt = writing.fmt
  OBVIOUS
<1>5. msg \in Seq(MsgItem) /\ fmt \in Seq(MsgItem) /\ Len(msg) \in Nat
  BY <1>1, <1>4, LoggingAssumption DEF Writing
<1>6. /\ fmt # <<>> /\ Head(fmt) = msg[n + 1] /\ n + 1 \in 1..Len(msg) /\ Head(fmt) \in MsgItem
      /\ Tail(fmt) \in Seq(MsgItem) /\ Rest(Tail(fmt), msg, n + 1)
  BY <1>3, <1>4, <1>5, HeadTail
<1>7. n + 1 \in 0..Len(msg)
  BY <1>6
<1> QED BY <1>1, <1>2, <1>3, <1>4, <1>6, <1>7

LEMMA FormatItemStep ==
    ASSUME WriteInv, FormatItem
    PROVE  Formatted(writing', intmax, crash') /\ writing'.phase \in {"items", "cast", "string"}
<1>1. crash = "no" /\ writing.phase = "items" /\ intmax \in {INT, LONG} /\ writing \in Writing
  BY DEF FormatItem, In, WriteInv, Formatted
<1>2. PICK n : /\ n \in 0..Len(writing.msg) /\ n < Len(writing.msg) /\ writing.msg \in Messages
               /\ Progress(writing, intmax, n) /\ Rest(writing.fmt, writing.msg, n)
               /\ writing.fmt # <<>> /\ Head(writing.fmt) = writing.msg[n + 1]
               /\ n + 1 \in 0..Len(writing.msg) /\ Head(writing.fmt) \in MsgItem
               /\ Tail(writing.fmt) \in Seq(MsgItem) /\ Rest(Tail(writing.fmt), writing.msg, n + 1)
  BY <1>1, InItem
<1>3. PICK msg, f, item, t : /\ msg = writing.msg /\ f = TextUpTo(writing.msg, intmax, TRUE)
                             /\ item = Head(writing.fmt) /\ t = f[n]
  OBVIOUS
<1>4. TextRun(msg, intmax, TRUE, f) /\ writing.out = t /\ Len(t) < MAX_WRITE_BUFFER
  <2>1. TextRun(msg, intmax, TRUE, f)
    BY <1>1, <1>2, <1>3, MessageFacts
  <2> QED BY <1>1, <1>2, <1>3, <2>1 DEF Progress
<1>5. /\ t \in Seq(Char) /\ Len(t) \in Nat /\ item \in MsgItem /\ item = msg[n + 1] /\ Len(msg) \in Nat
      /\ f[n + 1] = Extended(t, item, intmax) /\ n + 1 \in 1..Len(msg)
  <2>1. t \in Seq(Char) /\ item = msg[n + 1] /\ item \in MsgItem /\ f[n + 1] = NextText(t, item, intmax, TRUE)
    BY <1>2, <1>3, <1>4 DEF TextRun
  <2>2. f[n + 1] = Extended(t, item, intmax)
    BY <1>4, <2>1, Bounds DEF NextText
  <2>3. Len(msg) \in Nat
    BY <1>1, <1>2, <1>3, MessageFacts
  <2>4. n + 1 \in 1..Len(msg)
    BY <1>2, <1>3, <2>3
  <2>5. Len(t) \in Nat
    BY <2>1
  <2> QED BY <2>1, <2>2, <2>3, <2>4, <2>5, Zenon
<1>6. CASE item.k = "lit"
  <2>1. Len(item.text) = 1 /\ item.width = 0 /\ item.text \in Seq(Char)
    <3>1. Len(item.text) = 1 /\ item.width = 0
      BY <1>1, <1>2, <1>3, <1>5, <1>6, MessageFacts
    <3> QED BY <1>5, <3>1 DEF MsgItem
  <2>2. PICK s, a, o : s = item.text /\ a = s[1] /\ o = Append(t, a)
    OBVIOUS
  <2>3. s \in Seq(Char) /\ Len(s) = 1 /\ a \in Char
    BY <2>1, <2>2
  <2>4. /\ o \in Seq(Char) /\ Len(o) = Len(t) + 1 /\ o[Len(t) + 1] = a
        /\ \A i \in 1..Len(t) : o[i] = t[i]
    BY <1>5, <2>2, <2>3
  <2>5. Extended(t, item, intmax) = o
    <3>1. PICK b : b = Padding(Len(t), Len(s), item.width)
      OBVIOUS
    <3>2. s = ItemText(item, intmax)
      BY <1>6, <2>2 DEF ItemText
    <3>3. Joined(Extended(t, item, intmax), t, s, b)
      BY <1>1, <1>5, <3>1, <3>2, ExtendedFacts
    <3>4. b = 0
      BY <1>5, <2>1, <2>3, <3>1 DEF Padding
    <3>5. PICK e : e = Extended(t, item, intmax)
      OBVIOUS
    <3>6. e \in Seq(Char) /\ Len(e) = Len(t) + 1
          /\ \A i \in 1..Len(e) : e[i] = IF i <= Len(t) THEN t[i] ELSE IF i <= Len(t) + 1 THEN s[i - Len(t)] ELSE Blank
      BY <1>5, <2>3, <3>3, <3>4, <3>5 DEF Joined
    <3>7. ASSUME NEW i \in 1..Len(e) PROVE e[i] = o[i]
      <4>1. CASE i <= Len(t)
        BY <1>5, <2>4, <3>6, <4>1
      <4>2. CASE i = Len(t) + 1
        <5>1. i - Len(t) = 1 /\ ~(i <= Len(t)) /\ i <= Len(t) + 1
          BY <1>5, <4>2
        <5> QED BY <2>2, <2>4, <3>6, <4>2, <5>1
      <4> QED BY <1>5, <3>6, <4>1, <4>2
    <3>8. e = o
      BY <2>4, <3>6, <3>7, SeqEqual
    <3> QED BY <3>5, <3>8
  <2>6. PICK c : c = [writing EXCEPT !.out = o, !.fmt = Tail(@)]
    OBVIOUS
  <2>7. c \in Writing /\ c.msg = msg /\ c.fmt = Tail(writing.fmt) /\ c.out = o
    <3>1. c \in Writing
      BY <1>1, <1>2, <2>4, <2>6 DEF Writing
    <3>2. c.msg = msg /\ c.fmt = Tail(writing.fmt) /\ c.out = o
      BY <1>1, <1>3, <2>6 DEF Writing
    <3> QED BY <3>1, <3>2
  <2>8. CHECKED_APPEND(writing.out, item.text[1], MAX_WRITE_BUFFER) = o
    BY <1>4, <2>2 DEF CHECKED_APPEND
  <2>9. Ended([writing EXCEPT !.out = CHECKED_APPEND(@, item.text[1], MAX_WRITE_BUFFER), !.fmt = Tail(@)])
    BY <1>3, <1>6, Zenon DEF FormatItem
  <2>10. Ended(c)
    <3>1. c = [writing EXCEPT !.out = CHECKED_APPEND(@, item.text[1], MAX_WRITE_BUFFER), !.fmt = Tail(@)]
      BY <2>6, <2>8, Zenon
    <3> QED BY <2>9, <3>1, Zenon
  <2>11. c.out = TextUpTo(c.msg, intmax, TRUE)[n + 1]
    BY <1>3, <1>5, <2>5, <2>7
  <2>12. Rest(c.fmt, c.msg, n + 1) /\ n + 1 \in 0..Len(c.msg) /\ c.msg \in Messages
    BY <1>2, <1>3, <2>7
  <2> QED BY <1>1, <2>7, <2>10, <2>11, <2>12, EndedStep
<1>7. CASE item.k # "lit"
  <2>1. PICK s, w : s = Converted(item, intmax) /\ w = writing'
    OBVIOUS
  <2>2. s \in Seq(Char) /\ s = ItemText(item, intmax) /\ Len(s) \in Nat /\ item.width \in Nat
    <3>1. s \in Seq(Char) /\ s = ItemText(item, intmax)
      BY <1>1, <1>5, <1>7, <2>1, ConvertedText DEF ItemText
    <3>2. item.width \in Nat
      BY <1>5 DEF MsgItem
    <3> QED BY <3>1, <3>2
  <2>3. w = [writing EXCEPT !.append = s, !.len = 0, !.phase = "string"] /\ crash' = crash
    BY <1>3, <1>7, <2>1, Zenon DEF FormatItem
  <2>4. /\ w \in Writing /\ w.phase = "string" /\ w.msg = msg /\ w.fmt = writing.fmt /\ w.out = t
        /\ w.append = s /\ w.len = 0
    BY <1>1, <1>3, <1>4, <2>2, <2>3 DEF Writing
  <2>5. Taking(w, t, s, item.width, 0, 0)
    BY <1>5, <2>2, <2>4 DEF Taking
  <2>6. Progress(w, intmax, n)
    BY <1>2, <1>3, <1>4, <1>5, <2>2, <2>4, <2>5 DEF Progress
  <2> QED BY <1>1, <1>2, <1>3, <2>1, <2>3, <2>4, <2>6 DEF Formatted
<1> QED BY <1>6, <1>7

(* One turn of the loop over a string: the next character is taken once the
   counter is ahead of the text. *)
LEMMA TakeOne ==
    ASSUME NEW c \in Writing, NEW w \in Writing, NEW t \in Seq(Char), NEW s \in Seq(Char),
           NEW width \in Nat, NEW j, NEW b, Taking(c, t, s, width, j, b), c.append # <<>>,
           w.out = CHECKED_APPEND(c.out, Head(c.append), c.len), w.len = c.len + 1,
           w.append = IF Len(c.out) < c.len THEN Tail(c.append) ELSE c.append
    PROVE  \E h, e : Taking(w, t, s, width, h, e)
<1>1. PICK k, n, o, a, l : k = Len(t) /\ n = Len(s) /\ o = c.out /\ a = c.append /\ l = c.len
  OBVIOUS
<1>2. /\ k \in Nat /\ n \in Nat /\ o \in Seq(Char) /\ a \in Seq(Char) /\ l \in Nat
      /\ Len(o) \in Nat /\ Len(a) \in Nat
  BY <1>1 DEF Writing
<1>3. /\ j \in 0..n /\ Len(o) = k + j + b
      /\ \A i \in 1..Len(o) : o[i] = IF i <= k THEN t[i] ELSE IF i <= k + j THEN s[i - k] ELSE Blank
      /\ Len(a) = n - j /\ \A i \in 1..Len(a) : a[i] = s[j + i]
      /\ (j < n => b = 0) /\ (j = 0 /\ n > 0 => l <= k + 1) /\ (j > 0 => l = k + 1 + j + b)
  BY <1>1, Zenon DEF Taking
<1>4. a # <<>> /\ Len(a) > 0
  BY <1>1, <1>2
<1>5. j < n /\ n > 0 /\ b = 0 /\ j \in Nat /\ Len(o) = k + j /\ j + 1 \in 0..n
  BY <1>2, <1>3, <1>4
<1>6. CASE Len(o) < l
  <2>1. l = k + 1 + j
    BY <1>2, <1>3, <1>5, <1>6
  <2>2. w.out = Append(o, Head(a)) /\ w.append = Tail(a) /\ w.len = l + 1
    BY <1>1, <1>6, Zenon DEF CHECKED_APPEND
  <2>3. Head(a) = a[1] /\ a[1] = s[j + 1] /\ a[1] \in Char
    <3>1. 1 \in 1..Len(a)
      BY <1>2, <1>4
    <3> QED BY <1>2, <1>3, <1>4, <3>1
  <2>4. PICK p, q : p = Append(o, Head(a)) /\ q = Tail(a)
    OBVIOUS
  <2>5. /\ p \in Seq(Char) /\ Len(p) = Len(o) + 1 /\ p[Len(o) + 1] = s[j + 1]
        /\ \A i \in 1..Len(o) : p[i] = o[i]
    BY <1>2, <2>3, <2>4
  <2>6. q \in Seq(Char) /\ Len(q) = Len(a) - 1 /\ \A i \in 1..(Len(a) - 1) : q[i] = a[i + 1]
    BY <1>2, <1>4, <2>4, HeadTailProperties
  <2>7. ASSUME NEW i \in 1..Len(p)
        PROVE  p[i] = IF i <= k THEN t[i] ELSE IF i <= k + (j + 1) THEN s[i - k] ELSE Blank
    <3>1. CASE i \in 1..Len(o)
      <4>1. p[i] = IF i <= k THEN t[i] ELSE IF i <= k + j THEN s[i - k] ELSE Blank
        BY <1>3, <2>5, <3>1
      <4>2. i <= k + j /\ i <= k + (j + 1)
        BY <1>2, <1>5, <3>1
      <4> QED BY <4>1, <4>2
    <3>2. CASE i = Len(o) + 1
      <4>1. i = k + (j + 1) /\ ~(i <= k) /\ i - k = j + 1
        BY <1>2, <1>5, <3>2
      <4>2. i <= k + (j + 1)
        BY <1>2, <1>5, <4>1
      <4> QED BY <2>5, <3>2, <4>1, <4>2
    <3> QED BY <1>2, <2>5, <3>1, <3>2
  <2>8. ASSUME NEW i \in 1..Len(q) PROVE q[i] = s[(j + 1) + i]
    <3>1. i + 1 \in 1..Len(a) /\ j + (i + 1) = (j + 1) + i /\ i \in 1..(Len(a) - 1)
      <4>1. i \in 1..(Len(a) - 1)
        BY <2>6, Zenon
      <4> QED BY <1>2, <1>5, <4>1
    <3> QED BY <1>3, <2>6, <3>1
  <2>9. /\ Len(p) = k + (j + 1) + 0 /\ Len(q) = n - (j + 1) /\ j + 1 > 0 /\ j + 1 # 0 /\ ~(0 > 0)
        /\ l + 1 = k + 1 + (j + 1) + 0 /\ n # 0 /\ 0 \in Nat
    BY <1>2, <1>3, <1>5, <2>1, <2>5, <2>6
  <2>10. w.out = p /\ w.append = q /\ w.len = l + 1
    BY <2>2, <2>4
  <2>11. Taking(w, t, s, width, j + 1, 0)
    BY <1>1, <1>5, <2>7, <2>8, <2>9, <2>10, Zenon DEF Taking
  <2> QED BY <2>11
<1>7. CASE ~(Len(o) < l)
  <2>1. w.out = o /\ w.append = a /\ w.len = l + 1
    BY <1>1, <1>7, Zenon DEF CHECKED_APPEND
  <2>2. j = 0 /\ ~(j > 0) /\ l + 1 <= k + 1 /\ n # 0 /\ ~(b > 0)
    BY <1>2, <1>3, <1>5, <1>7
  <2>3. b \in Nat
    BY <1>5
  <2>4. Taking(w, t, s, width, j, b)
    BY <1>1, <1>3, <2>1, <2>2, <2>3, Zenon DEF Taking
  <2> QED BY <2>4
<1> QED BY <1>6, <1>7

(* One turn of the loop that pads: a blank goes behind the text, or the counter
   has yet to catch up with it. *)
LEMMA PadOne ==
    ASSUME NEW c \in Writing, NEW w \in Writing, NEW t \in Seq(Char), NEW s \in Seq(Char),
           NEW width \in Nat, NEW j, NEW b, Taking(c, t, s, width, j, b), c.append = <<>>,
           c.len < width, w.out = CHECKED_APPEND(c.out, Blank, c.len + 1), w.len = c.len + 1,
           w.append = c.append
    PROVE  \E h, e : Taking(w, t, s, width, h, e)
<1>1. PICK k, n, o, a, l : k = Len(t) /\ n = Len(s) /\ o = c.out /\ a = c.append /\ l = c.len
  OBVIOUS
<1>2. /\ k \in Nat /\ n \in Nat /\ o \in Seq(Char) /\ a \in Seq(Char) /\ l \in Nat
      /\ Len(o) \in Nat /\ Len(a) = 0 /\ l < width
  BY <1>1 DEF Writing
<1>3. /\ j \in 0..n /\ b \in Nat /\ Len(o) = k + j + b
      /\ \A i \in 1..Len(o) : o[i] = IF i <= k THEN t[i] ELSE IF i <= k + j THEN s[i - k] ELSE Blank
      /\ Len(a) = n - j /\ \A i \in 1..Len(a) : a[i] = s[j + i]
      /\ j > 0 => l = k + 1 + j + b
      /\ n = 0 => b = IF l > k THEN l - k ELSE 0
  BY <1>1, Zenon DEF Taking
<1>4. j = n /\ j \in Nat
  BY <1>2, <1>3
<1>5. CASE Len(o) < l + 1
  <2>1. PICK p : p = Append(o, Blank)
    OBVIOUS
  <2>2. w.out = p /\ w.append = a /\ w.len = l + 1
    BY <1>1, <1>5, <2>1, Zenon DEF CHECKED_APPEND
  <2>3. /\ Len(p) = Len(o) + 1 /\ p[Len(o) + 1] = Blank
        /\ \A i \in 1..Len(o) : p[i] = o[i]
    <3>1. Blank \in Char
      BY LoggingAssumption
    <3> QED BY <1>2, <2>1, <3>1
  <2>4. ASSUME NEW i \in 1..Len(p)
        PROVE  p[i] = IF i <= k THEN t[i] ELSE IF i <= k + j THEN s[i - k] ELSE Blank
    <3>1. CASE i \in 1..Len(o)
      BY <1>3, <2>3, <3>1
    <3>2. CASE i = Len(o) + 1
      <4>1. ~(i <= k) /\ ~(i <= k + j)
        BY <1>2, <1>3, <1>4, <3>2
      <4> QED BY <2>3, <3>2, <4>1
    <3> QED BY <1>2, <2>3, <3>1, <3>2
  <2>5. /\ Len(p) = k + j + (b + 1) /\ b + 1 \in Nat /\ ~(j < n) /\ ~(j = 0 /\ n > 0)
        /\ l + 1 <= width
    BY <1>2, <1>3, <1>4, <2>3
  <2>6. j > 0 => l + 1 = k + 1 + j + (b + 1)
    BY <1>2, <1>3, <1>4
  <2>7. n = 0 => b + 1 = IF l + 1 > k THEN (l + 1) - k ELSE 0
    BY <1>2, <1>3, <1>4, <1>5
  <2>8. Taking(w, t, s, width, j, b + 1)
    BY <1>1, <1>3, <2>2, <2>4, <2>5, <2>6, <2>7, Zenon DEF Taking
  <2> QED BY <2>8
<1>6. CASE ~(Len(o) < l + 1)
  <2>1. w.out = o /\ w.append = a /\ w.len = l + 1
    BY <1>1, <1>6, Zenon DEF CHECKED_APPEND
  <2>2. n = 0 /\ b = 0 /\ ~(j > 0) /\ ~(j < n) /\ ~(j = 0 /\ n > 0) /\ l + 1 <= width /\ ~(l + 1 > k)
    BY <1>2, <1>3, <1>4, <1>6
  <2>3. (IF l + 1 > k THEN (l + 1) - k ELSE 0) = 0 /\ ~(b > 0)
    BY <2>2
  <2>4. Taking(w, t, s, width, j, b)
    BY <1>1, <1>3, <2>1, <2>2, <2>3, Zenon DEF Taking
  <2> QED BY <2>4
<1> QED BY <1>5, <1>6

(* After both loops the text of the item is behind the text before it. *)
LEMMA PadEnds ==
    ASSUME NEW c \in Writing, NEW t \in Seq(Char), NEW item \in MsgItem, NEW m \in {INT, LONG},
           NEW s, s = ItemText(item, m), NEW j, NEW b, Taking(c, t, s, item.width, j, b),
           c.append = <<>>, ~(c.len < item.width)
    PROVE  c.out = Extended(t, item, m)
<1>1. PICK k, n, o, a, l, width, e, d :
          /\ k = Len(t) /\ n = Len(s) /\ o = c.out /\ a = c.append /\ l = c.len /\ width = item.width
          /\ e = Extended(t, item, m) /\ d = Padding(Len(t), Len(s), item.width)
  OBVIOUS
<1>2. /\ k \in Nat /\ n \in Nat /\ o \in Seq(Char) /\ a \in Seq(Char) /\ l \in Nat
      /\ Len(o) \in Nat /\ Len(a) = 0 /\ width \in Nat /\ ~(l < width)
  BY <1>1, ItemTextIn DEF Writing
<1>3. /\ j \in 0..n /\ b \in Nat /\ Len(o) = k + j + b
      /\ \A i \in 1..Len(o) : o[i] = IF i <= k THEN t[i] ELSE IF i <= k + j THEN s[i - k] ELSE Blank
      /\ Len(a) = n - j
      /\ j > 0 => l = k + 1 + j + b
      /\ n = 0 => l <= width /\ b = IF l > k THEN l - k ELSE 0
      /\ b > 0 => l <= width
  BY <1>1, Zenon DEF Taking
<1>4. j = n
  BY <1>2, <1>3
<1>5. d = LET blanks == IF n = 0 THEN width - k ELSE width - (k + 1 + n)
          IN  IF blanks > 0 THEN blanks ELSE 0
  BY <1>1, Zenon DEF Padding
<1>6. b = d
  <2>1. CASE n = 0
    <3>1. l = width /\ b = IF l > k THEN l - k ELSE 0
      BY <1>2, <1>3, <2>1
    <3> QED BY <1>2, <1>5, <2>1, <3>1
  <2>2. CASE n > 0
    <3>1. l = k + 1 + n + b /\ (b > 0 => l = width)
      BY <1>2, <1>3, <1>4, <2>2
    <3> QED BY <1>2, <1>3, <1>5, <2>2, <3>1
  <2> QED BY <1>2, <2>1, <2>2
<1>7. Joined(e, t, s, d)
  BY <1>1, ExtendedFacts
<1>8. /\ e \in Seq(Char) /\ Len(e) = k + n + b
      /\ \A i \in 1..Len(e) : e[i] = IF i <= k THEN t[i] ELSE IF i <= k + n THEN s[i - k] ELSE Blank
  BY <1>1, <1>6, <1>7, Zenon DEF Joined
<1>9. Len(o) = Len(e) /\ \A i \in 1..Len(o) : o[i] = e[i]
  BY <1>3, <1>4, <1>8
<1>10. o = e
  BY <1>2, <1>8, <1>9, SeqEqual
<1> QED BY <1>1, <1>10

LEMMA StringTurnStep ==
    ASSUME WriteInv, StringTurn
    PROVE  Formatted(writing', intmax, crash') /\ writing'.phase = "string"
<1>1. /\ crash = "no" /\ writing.phase = "string" /\ intmax \in {INT, LONG} /\ writing \in Writing
      /\ writing.append # <<>> /\ crash' = crash
      /\ writing' = [writing EXCEPT !.out = CHECKED_APPEND(@, Head(writing.append), writing.len),
                            !.append = IF Len(writing.out) < writing.len THEN Tail(@) ELSE @,
                            !.len = @ + 1]
  BY DEF StringTurn, In, WriteInv, Formatted
<1>2. PICK n : /\ n \in 0..Len(writing.msg) /\ n < Len(writing.msg) /\ writing.msg \in Messages
               /\ Progress(writing, intmax, n) /\ Rest(writing.fmt, writing.msg, n)
               /\ Head(writing.fmt) = writing.msg[n + 1] /\ Head(writing.fmt) \in MsgItem
  BY <1>1, InItem
<1>3. PICK f, item, t, s : /\ f = TextUpTo(writing.msg, intmax, TRUE) /\ t = f[n]
                           /\ item = writing.msg[n + 1] /\ s = ItemText(writing.msg[n + 1], intmax)
  OBVIOUS
<1>4. TextRun(writing.msg, intmax, TRUE, f) /\ Len(t) < MAX_WRITE_BUFFER
  <2>1. TextRun(writing.msg, intmax, TRUE, f)
    BY <1>1, <1>2, <1>3, MessageFacts
  <2> QED BY <1>1, <1>2, <1>3, <2>1 DEF Progress
<1>5. t \in Seq(Char) /\ item \in MsgItem /\ s \in Seq(Char) /\ item.width \in Nat
  <2>1. t \in Seq(Char)
    BY <1>2, <1>3, <1>4 DEF TextRun
  <2>2. item \in MsgItem
    BY <1>2, <1>3
  <2> QED BY <1>1, <1>3, <2>1, <2>2, ItemTextIn
<1>6. PICK j, b : Taking(writing, t, s, item.width, j, b)
  BY <1>1, <1>2, <1>3 DEF Progress
<1>7. PICK w, o, a : /\ w = writing' /\ o = CHECKED_APPEND(writing.out, Head(writing.append), writing.len)
                     /\ a = IF Len(writing.out) < writing.len THEN Tail(writing.append) ELSE writing.append
  OBVIOUS
<1>8. o \in Seq(Char) /\ a \in Seq(Char) /\ writing.len + 1 \in Nat
  <2>1. writing.out \in Seq(Char) /\ writing.append \in Seq(Char) /\ writing.len \in Nat
    BY <1>1 DEF Writing
  <2>2. Head(writing.append) \in Char /\ Tail(writing.append) \in Seq(Char)
    BY <1>1, <2>1, HeadTailProperties
  <2>3. o \in Seq(Char)
    BY <1>7, <2>1, <2>2 DEF CHECKED_APPEND
  <2> QED BY <1>7, <2>1, <2>2, <2>3
<1>9. w = [writing EXCEPT !.out = o, !.append = a, !.len = writing.len + 1]
  BY <1>1, <1>7, Zenon
<1>10. /\ w \in Writing /\ w.phase = "string" /\ w.msg = writing.msg /\ w.fmt = writing.fmt
       /\ w.out = o /\ w.append = a /\ w.len = writing.len + 1
  <2>1. w \in Writing
    BY <1>1, <1>8, <1>9 DEF Writing
  <2>2. /\ w.phase = writing.phase /\ w.msg = writing.msg /\ w.fmt = writing.fmt
        /\ w.out = o /\ w.append = a /\ w.len = writing.len + 1
    BY <1>1, <1>9 DEF Writing
  <2> QED BY <1>1, <2>1, <2>2
<1>11. \E h, e : Taking(w, t, s, item.width, h, e)
  BY <1>1, <1>5, <1>6, <1>7, <1>10, TakeOne
<1>12. Progress(w, intmax, n)
  BY <1>2, <1>3, <1>4, <1>10, <1>11 DEF Progress
<1> QED BY <1>1, <1>2, <1>7, <1>10, <1>12 DEF Formatted

LEMMA PadTurnStep ==
    ASSUME WriteInv, PadTurn
    PROVE  Formatted(writing', intmax, crash') /\ writing'.phase \in {"items", "cast", "string"}
<1>1. /\ crash = "no" /\ writing.phase = "string" /\ intmax \in {INT, LONG} /\ writing \in Writing
      /\ writing.append = <<>>
  BY DEF PadTurn, In, WriteInv, Formatted
<1>2. PICK n : /\ n \in 0..Len(writing.msg) /\ n < Len(writing.msg) /\ writing.msg \in Messages
               /\ Progress(writing, intmax, n) /\ Rest(writing.fmt, writing.msg, n)
               /\ writing.fmt # <<>> /\ Head(writing.fmt) = writing.msg[n + 1]
               /\ n + 1 \in 0..Len(writing.msg) /\ Head(writing.fmt) \in MsgItem
               /\ Tail(writing.fmt) \in Seq(MsgItem) /\ Rest(Tail(writing.fmt), writing.msg, n + 1)
  BY <1>1, InItem
<1>3. PICK f, item, t, s : /\ f = TextUpTo(writing.msg, intmax, TRUE) /\ t = f[n]
                           /\ item = writing.msg[n + 1] /\ s = ItemText(writing.msg[n + 1], intmax)
  OBVIOUS
<1>4. TextRun(writing.msg, intmax, TRUE, f) /\ Len(t) < MAX_WRITE_BUFFER
  <2>1. TextRun(writing.msg, intmax, TRUE, f)
    BY <1>1, <1>2, <1>3, MessageFacts
  <2> QED BY <1>1, <1>2, <1>3, <2>1 DEF Progress
<1>5. t \in Seq(Char) /\ item \in MsgItem /\ s \in Seq(Char) /\ item.width \in Nat
  <2>1. t \in Seq(Char)
    BY <1>2, <1>3, <1>4 DEF TextRun
  <2>2. item \in MsgItem
    BY <1>2, <1>3
  <2> QED BY <1>1, <1>3, <2>1, <2>2, ItemTextIn
<1>6. PICK j, b : Taking(writing, t, s, item.width, j, b)
  BY <1>1, <1>2, <1>3 DEF Progress
<1>7. Width = item.width
  BY <1>2, <1>3 DEF Width
<1>8. CASE writing.len < Width
  <2>1. PICK w, o : w = writing' /\ o = CHECKED_APPEND(writing.out, Blank, writing.len + 1)
    OBVIOUS
  <2>2. w = [writing EXCEPT !.out = o, !.len = writing.len + 1] /\ crash' = crash
    BY <1>8, <2>1, Zenon DEF PadTurn
  <2>3. o \in Seq(Char) /\ writing.len + 1 \in Nat
    <3>1. writing.out \in Seq(Char) /\ writing.len \in Nat /\ Blank \in Char
      BY <1>1, LoggingAssumption DEF Writing
    <3> QED BY <2>1, <3>1 DEF CHECKED_APPEND
  <2>4. /\ w \in Writing /\ w.phase = "string" /\ w.msg = writing.msg /\ w.fmt = writing.fmt
        /\ w.out = o /\ w.append = writing.append /\ w.len = writing.len + 1
    <3>1. w \in Writing
      BY <1>1, <2>2, <2>3 DEF Writing
    <3>2. /\ w.phase = writing.phase /\ w.msg = writing.msg /\ w.fmt = writing.fmt
          /\ w.out = o /\ w.append = writing.append /\ w.len = writing.len + 1
      BY <1>1, <2>2 DEF Writing
    <3> QED BY <1>1, <3>1, <3>2
  <2>5. \E h, e : Taking(w, t, s, item.width, h, e)
    BY <1>1, <1>5, <1>6, <1>7, <1>8, <2>1, <2>4, PadOne
  <2>6. Progress(w, intmax, n)
    BY <1>2, <1>3, <1>4, <2>4, <2>5 DEF Progress
  <2> QED BY <1>1, <1>2, <2>1, <2>2, <2>4, <2>6 DEF Formatted
<1>9. CASE ~(writing.len < Width)
  <2>1. Ended([writing EXCEPT !.fmt = Tail(@)])
    BY <1>9, Zenon DEF PadTurn
  <2>2. PICK c : c = [writing EXCEPT !.fmt = Tail(@)]
    OBVIOUS
  <2>3. Ended(c)
    BY <2>1, <2>2, Zenon
  <2>4. c \in Writing /\ c.msg = writing.msg /\ c.fmt = Tail(writing.fmt) /\ c.out = writing.out
    BY <1>1, <1>2, <2>2 DEF Writing
  <2>5. writing.out = Extended(t, item, intmax)
    BY <1>1, <1>3, <1>5, <1>6, <1>7, <1>9, PadEnds
  <2>6. f[n + 1] = Extended(t, item, intmax)
    <3>1. f[n + 1] = NextText(t, item, intmax, TRUE)
      BY <1>2, <1>3, <1>4 DEF TextRun
    <3>2. Len(t) \in Nat
      BY <1>5
    <3> QED BY <1>4, <3>1, <3>2, Bounds DEF NextText
  <2>7. c.out = TextUpTo(c.msg, intmax, TRUE)[n + 1]
    BY <1>3, <2>4, <2>5, <2>6
  <2>8. Rest(c.fmt, c.msg, n + 1) /\ n + 1 \in 0..Len(c.msg) /\ c.msg \in Messages
    BY <1>2, <2>4
  <2> QED BY <1>1, <2>3, <2>4, <2>7, <2>8, EndedStep
<1> QED BY <1>8, <1>9

LEMMA NoWriteFacts ==
    /\ NoWrite \in Writing /\ NoWrite.phase = "idle" /\ NoWrite.out = <<>>
<1>1. <<>> \in Seq(Char) /\ <<>> \in Seq(MsgItem) /\ 0 \in Nat /\ 1 \in Nat
  OBVIOUS
<1> QED BY <1>1 DEF NoWrite, Writing

(* A new message. *)
LEMMA WriteStep ==
    ASSUME intmax \in {INT, LONG}, NEW msg \in Messages, NEW fatal \in BOOLEAN, Write(msg, fatal)
    PROVE  Formatted(writing', intmax, crash') /\ writing'.phase \in {"items", "cast"}
<1>1. PICK c : c = [NoWrite EXCEPT !.msg = msg, !.fmt = msg, !.fatal = fatal]
  OBVIOUS
<1>2. Ended(c)
  BY <1>1, Zenon DEF Write
<1>3. msg \in Seq(MsgItem) /\ Len(msg) \in Nat /\ TextRun(msg, intmax, TRUE, TextUpTo(msg, intmax, TRUE))
  BY MessageFacts
<1>4. c \in Writing /\ c.msg = msg /\ c.fmt = msg /\ c.out = <<>>
  <2>1. c \in Writing
    BY <1>1, <1>3, NoWriteFacts DEF Writing
  <2>2. c.msg = msg /\ c.fmt = msg /\ c.out = NoWrite.out
    BY <1>1, NoWriteFacts DEF Writing
  <2> QED BY <2>1, <2>2, NoWriteFacts
<1>5. Rest(c.fmt, c.msg, 0) /\ 0 \in 0..Len(c.msg)
  <2>1. Len(msg) - 0 = Len(msg) /\ \A i \in 1..Len(msg) : 0 + i = i
    BY <1>3
  <2>2. Rest(msg, msg, 0)
    BY <2>1 DEF Rest
  <2> QED BY <1>3, <1>4, <2>2
<1>6. c.out = TextUpTo(c.msg, intmax, TRUE)[0]
  BY <1>3, <1>4 DEF TextRun
<1> QED BY <1>2, <1>4, <1>5, <1>6, EndedStep

(* A step of multicast() or of the console leaves the text alone. *)
PassedOn(w, c, slot, a, phase) == w = [c EXCEPT !.slot = slot, !.append = a, !.phase = phase]

LEMMA TextStays ==
    ASSUME NEW m, NEW c \in Writing, Formatted(c, m, "no"), c.phase \in {"cast", "screen"},
           NEW a \in Seq(Char), NEW slot \in Nat, NEW phase \in {"cast", "screen"},
           NEW w, PassedOn(w, c, slot, a, phase)
    PROVE  Formatted(w, m, "no") /\ w.phase = phase
<1>1. w \in Writing /\ w.phase = phase /\ w.msg = c.msg /\ w.fmt = c.fmt /\ w.out = c.out
  BY DEF PassedOn, Writing
<1>2. PICK n : Progress(c, m, n)
  BY DEF Formatted
<1>3. Progress(w, m, n)
  BY <1>1, <1>2 DEF Progress
<1>4. c.msg \in Messages
  BY DEF Formatted
<1> QED BY <1>1, <1>3, <1>4 DEF Formatted

LEMMA MulticastStep ==
    ASSUME WriteInv, Multicast
    PROVE  Formatted(writing', intmax, crash')
<1>1. crash = "no" /\ writing.phase = "cast" /\ writing \in Writing /\ Formatted(writing, intmax, "no")
  BY DEF Multicast, In, WriteInv, Formatted
<1>2. writing.out \in Seq(Char) /\ writing.slot + 1 \in Nat /\ writing.fatal \in BOOLEAN
  BY <1>1 DEF Writing
<1>3. CASE writing.slot > MAX_LOG_WRITERS
  <2>1. writing' = NoWrite /\ crash' \in {"no", "aborted"}
    BY <1>3 DEF Multicast
  <2> QED BY <2>1, NoWriteFacts DEF Formatted
<1>4. CASE ~(writing.slot > MAX_LOG_WRITERS)
  <2>1. PICK w, phase, slot : w = writing' /\ slot = writing.slot + 1
                              /\ phase = IF writers[writing.slot] = Kcon THEN "screen" ELSE "cast"
    OBVIOUS
  <2>2. w = [writing EXCEPT !.slot = slot, !.append = writing.out, !.phase = phase] /\ crash' = crash
    BY <1>4, <2>1, Zenon DEF Multicast
  <2>3. phase \in {"cast", "screen"} /\ slot \in Nat
    BY <1>2, <2>1
  <2>4. PassedOn(w, writing, slot, writing.out, phase)
    BY <2>2, Zenon DEF PassedOn
  <2>5. Formatted(w, intmax, "no")
    BY <1>1, <1>2, <2>3, <2>4, TextStays
  <2> QED BY <1>1, <2>1, <2>2, <2>5
<1> QED BY <1>3, <1>4

LEMMA KconStep ==
    ASSUME WriteInv, KconChar \/ KconReturn
    PROVE  Formatted(writing', intmax, crash')
<1>1. crash = "no" /\ writing.phase = "screen" /\ writing \in Writing /\ Formatted(writing, intmax, "no")
      /\ crash' = crash
  BY DEF KconChar, KconReturn, In, WriteInv, Formatted
<1>2. writing.append \in Seq(Char) /\ writing.slot \in Nat
  BY <1>1 DEF Writing
<1>3. CASE KconChar
  <2>1. writing.append # <<>> /\ writing' = [writing EXCEPT !.append = Tail(@)]
    BY <1>3 DEF KconChar
  <2>2. PICK w, a : w = writing' /\ a = Tail(writing.append)
    OBVIOUS
  <2>3. a \in Seq(Char)
    BY <1>2, <2>1, <2>2, HeadTailProperties
  <2>4. PassedOn(w, writing, writing.slot, a, "screen")
    BY <1>1, <2>1, <2>2 DEF Writing, PassedOn
  <2>5. "screen" \in {"cast", "screen"}
    OBVIOUS
  <2>6. Formatted(w, intmax, "no")
    BY <1>1, <1>2, <2>3, <2>4, <2>5, TextStays
  <2> QED BY <1>1, <2>2, <2>6
<1>4. CASE KconReturn
  <2>1. writing' = [writing EXCEPT !.phase = "cast"]
    BY <1>4 DEF KconReturn
  <2>2. PICK w : w = writing'
    OBVIOUS
  <2>3. PassedOn(w, writing, writing.slot, writing.append, "cast")
    BY <1>1, <2>1, <2>2 DEF Writing, PassedOn
  <2>4. "cast" \in {"cast", "screen"}
    OBVIOUS
  <2>5. Formatted(w, intmax, "no")
    BY <1>1, <1>2, <2>3, <2>4, TextStays
  <2> QED BY <1>1, <2>2, <2>5
<1> QED BY <1>3, <1>4
-----------------------------------------------------------------------------
LogInv == WriteInv /\ ScreenInv

(* A step that leaves the console alone and starts no text on it. *)
LEMMA ScreenStays ==
    ASSUME ScreenInv, UNCHANGED console, writing'.phase = "screen" => writing.phase = "screen"
    PROVE  ScreenInv'
<1>1. /\ screen' = screen /\ kcon_x' = kcon_x /\ kcon_y' = kcon_y /\ vram' = vram
      /\ lines' = lines /\ returned' = returned
  BY DEF console
<1>2. Laid(lines)' = Laid(lines) /\ Shows(screen, lines)' = Shows(screen, lines)
  BY <1>1 DEF Laid, Shows, Cell
<1> QED BY <1>1, <1>2 DEF ScreenInv

LEMMA LogInitInv == LogInit => LogInv
<1> SUFFICES ASSUME LogInit PROVE LogInv
  OBVIOUS
<1>1. WriteInv
  <2>1. intmax \in {INT, LONG} /\ level \in Levels /\ crash = "no" /\ writing = NoWrite
    BY LoggingAssumption DEF LogInit
  <2>2. writers \in [Slots -> Writers \cup {Kcon, NoWriter}]
    BY DEF LogInit
  <2>3. Formatted(writing, intmax, crash)
    BY <2>1, NoWriteFacts DEF Formatted
  <2> QED BY <2>1, <2>2, <2>3 DEF WriteInv
<1>2. ScreenInv
  <2>1. /\ screen = [c \in Cells |-> Blank] /\ kcon_x = 0 /\ kcon_y = 0 /\ vram = 0
        /\ lines = <<<<>>>> /\ returned = FALSE
    BY DEF LogInit
  <2>2. <<>> \in Seq(Char) /\ Len(<<>>) = 0
    OBVIOUS
  <2>3. PICK ls, e : ls = <<e>> /\ e = <<>>
    OBVIOUS
  <2>4. ls \in Seq(Seq(Char)) /\ Len(ls) = 1 /\ ls[1] = e /\ Len(e) = 0 /\ ls = lines
    BY <2>1, <2>2, <2>3
  <2>5. KCON_WIDTH \in Nat \ {0} /\ KCON_HEIGHT \in Nat \ {0}
    BY Bounds
  <2>6. Laid(ls)
    BY <2>4, <2>5 DEF Laid
  <2>7. screen \in [Cells -> Char]
    BY <2>1, LoggingAssumption
  <2>8. ASSUME NEW r \in 1..KCON_HEIGHT, NEW k \in 1..KCON_WIDTH
        PROVE  screen[CALC_LOCATION(k - 1, r - 1)] = Cell(ls, r, k)
    <3>1. PICK a \in 0..(KCON_WIDTH - 1), b \in Nat : a = k - 1 /\ b = r - 1 /\ b < KCON_HEIGHT
      BY <2>5
    <3>2. CALC_LOCATION(a, b) \in Cells
      BY <3>1, Places
    <3>3. screen[CALC_LOCATION(k - 1, r - 1)] = Blank
      BY <2>1, <3>1, <3>2
    <3>4. ~(r <= Len(ls) /\ k <= Len(ls[r]))
      BY <2>4
    <3>5. Cell(ls, r, k) = Blank
      BY <3>4 DEF Cell
    <3> QED BY <3>3, <3>5
  <2>9. Shows(screen, lines)
    BY <2>4, <2>8 DEF Shows
  <2>10. writing.phase # "screen"
    BY NoWriteFacts DEF LogInit
  <2>11. /\ kcon_x = Len(lines[Len(lines)]) /\ kcon_y = Len(lines) - 1
         /\ kcon_x \in 0..(KCON_WIDTH - 1) /\ kcon_y \in 0..(KCON_HEIGHT - 1) /\ vram \in Int
         /\ returned \in BOOLEAN /\ Laid(lines)
    <3>1. Len(lines) = 1 /\ Len(lines[Len(lines)]) = 0
      BY <2>4
    <3>2. kcon_x = Len(lines[Len(lines)]) /\ kcon_y = Len(lines) - 1
      BY <2>1, <3>1
    <3>3. kcon_x \in 0..(KCON_WIDTH - 1) /\ kcon_y \in 0..(KCON_HEIGHT - 1)
      BY <2>1, <2>5
    <3>4. vram \in Int /\ returned \in BOOLEAN
      <4>1. vram = 0 /\ returned = FALSE
        BY <2>1
      <4>2. vram \in Int
        BY <4>1
      <4>3. returned \in BOOLEAN
        BY <4>1, Zenon
      <4> QED BY <4>2, <4>3
    <3>5. Laid(lines)
      BY <2>4, <2>6, Zenon
    <3> QED BY <3>2, <3>3, <3>4, <3>5, Zenon
  <2> QED BY <2>7, <2>9, <2>10, <2>11 DEF ScreenInv
<1> QED BY <1>1, <1>2 DEF LogInv

LEMMA LogNextInv == LogInv /\ [LogNext]_logVars => LogInv'
<1> SUFFICES ASSUME LogInv, [LogNext]_logVars PROVE LogInv'
  OBVIOUS
<1>1. /\ WriteInv /\ ScreenInv /\ intmax \in {INT, LONG} /\ level \in Levels /\ Formatted(writing, intmax, crash)
      /\ writers \in [Slots -> Writers \cup {Kcon, NoWriter}] /\ writing \in Writing
  BY DEF LogInv, WriteInv, Formatted
<1>2. ASSUME intmax' = intmax, level' \in Levels, writers' \in [Slots -> Writers \cup {Kcon, NoWriter}],
             Formatted(writing', intmax, crash')
      PROVE  WriteInv'
  BY <1>1, <1>2 DEF WriteInv
<1>3. ASSUME UNCHANGED <<intmax, writing, crash, console>>, level' \in Levels,
             writers' \in [Slots -> Writers \cup {Kcon, NoWriter}]
      PROVE  LogInv'
  <2>1. intmax' = intmax /\ writing' = writing /\ crash' = crash /\ UNCHANGED console
    BY <1>3
  <2>2. Formatted(writing', intmax, crash')
    BY <1>1, <2>1
  <2>3. WriteInv'
    BY <1>2, <1>3, <2>1, <2>2
  <2>4. ScreenInv'
    BY <1>1, <2>1, ScreenStays
  <2> QED BY <2>3, <2>4 DEF LogInv
<1>4. ASSUME NEW msg \in Messages, NEW fatal \in BOOLEAN, Write(msg, fatal), UNCHANGED <<level, writers>>
      PROVE  LogInv'
  <2>1. Formatted(writing', intmax, crash') /\ writing'.phase # "screen"
    BY <1>1, <1>4, WriteStep
  <2>2. intmax' = intmax /\ UNCHANGED console
    BY <1>4 DEF Write
  <2>3. WriteInv'
    BY <1>1, <1>2, <1>4, <2>1, <2>2
  <2>4. ScreenInv'
    BY <1>1, <2>1, <2>2, ScreenStays
  <2> QED BY <2>3, <2>4 DEF LogInv
<1>5. ASSUME NEW lvl \in Levels, setLevel(lvl) PROVE LogInv'
  <2>1. UNCHANGED <<intmax, writing, crash, console>> /\ level' \in Levels /\ writers' = writers
    BY <1>5 DEF setLevel
  <2> QED BY <1>1, <1>3, <2>1
<1>6. ASSUME NEW lvl \in Levels, NEW msg \in Messages, KLOG(lvl, msg) PROVE LogInv'
  <2>1. Write(msg, lvl = FatalLevel) /\ UNCHANGED <<level, writers>>
    BY <1>6 DEF KLOG
  <2>2. PICK fatal \in BOOLEAN : fatal = (lvl = FatalLevel)
    OBVIOUS
  <2>3. Write(msg, fatal)
    BY <2>1, <2>2, Zenon
  <2> QED BY <1>4, <2>1, <2>3
<1>7. ASSUME Warn PROVE LogInv'
  <2>1. CASE level <= WarningLevel
    <3>1. Write(Warning, FALSE) /\ UNCHANGED <<level, writers>>
      BY <1>7, <2>1, Zenon DEF Warn
    <3>2. Warning \in Messages
      BY LoggingAssumption
    <3> QED BY <1>4, <3>1, <3>2
  <2>2. CASE ~(level <= WarningLevel)
    <3>1. UNCHANGED <<intmax, writing, crash, console>> /\ UNCHANGED <<level, writers>>
      BY <1>7, <2>2, Zenon DEF Warn
    <3>2. level' \in Levels /\ writers' = writers
      BY <1>1, <3>1
    <3> QED BY <1>1, <1>3, <3>1, <3>2
  <2> QED BY <2>1, <2>2
<1>8. ASSUME NEW old, NEW new \in Writers \cup {Kcon, NoWriter}, SetWriter(old, new) PROVE LogInv'
  <2>1. UNCHANGED <<intmax, writing, crash, console>> /\ level' \in Levels
    BY <1>1, <1>8 DEF SetWriter
  <2>2. writers' \in [Slots -> Writers \cup {Kcon, NoWriter}]
    BY <1>1, <1>8 DEF SetWriter
  <2> QED BY <1>3, <2>1, <2>2
<1>9. ASSUME NEW w \in Writers \cup {Kcon}, addWriter(w) \/ removeWriter(w) PROVE LogInv'
  <2>1. w \in Writers \cup {Kcon, NoWriter} /\ NoWriter \in Writers \cup {Kcon, NoWriter}
    OBVIOUS
  <2>2. Warn \/ SetWriter(NoWriter, w) \/ SetWriter(w, NoWriter)
    BY <1>9, Zenon DEF addWriter, removeWriter
  <2> QED BY <1>7, <1>8, <2>1, <2>2
<1>10. CASE FormatItem \/ StringTurn \/ PadTurn
  <2>1. Formatted(writing', intmax, crash') /\ writing'.phase # "screen"
    BY <1>1, <1>10, FormatItemStep, StringTurnStep, PadTurnStep
  <2>2. intmax' = intmax /\ UNCHANGED console /\ level' = level /\ writers' = writers
    BY <1>10 DEF FormatItem, StringTurn, PadTurn
  <2>3. WriteInv'
    BY <1>1, <1>2, <2>1, <2>2
  <2>4. ScreenInv'
    BY <1>1, <2>1, <2>2, ScreenStays
  <2> QED BY <2>3, <2>4 DEF LogInv
<1>11. CASE Multicast
  <2>1. Formatted(writing', intmax, crash')
    BY <1>1, <1>11, MulticastStep
  <2>2. /\ intmax' = intmax /\ level' = level /\ writers' = writers /\ screen' = screen /\ kcon_x' = kcon_x
        /\ kcon_y' = kcon_y /\ lines' = lines /\ returned' = returned /\ writing.phase = "cast"
    BY <1>11 DEF Multicast, In
  <2>3. WriteInv'
    BY <1>1, <1>2, <2>1, <2>2
  <2>4. vram' \in Int /\ (writing'.phase = "screen" => vram' = CALC_LOCATION(kcon_x, kcon_y))
    <3>1. vram \in Int /\ CALC_LOCATION(kcon_x, kcon_y) \in Int
      <4>1. vram \in Int /\ kcon_x \in 0..(KCON_WIDTH - 1) /\ kcon_y \in Nat
        BY <1>1, Bounds DEF ScreenInv
      <4> QED BY <4>1, Places
    <3>2. CASE writing.slot > MAX_LOG_WRITERS
      <4>1. vram' = vram /\ writing' = NoWrite
        BY <1>11, <3>2 DEF Multicast
      <4> QED BY <3>1, <4>1, NoWriteFacts
    <3>3. CASE ~(writing.slot > MAX_LOG_WRITERS)
      <4>1. vram' = IF writers[writing.slot] = Kcon THEN CALC_LOCATION(kcon_x, kcon_y) ELSE vram
        BY <1>11, <3>3, Zenon DEF Multicast
      <4>2. writing'.phase = IF writers[writing.slot] = Kcon THEN "screen" ELSE "cast"
        <5>1. PICK p : p = IF writers[writing.slot] = Kcon THEN "screen" ELSE "cast"
          OBVIOUS
        <5>2. writing' = [writing EXCEPT !.slot = @ + 1, !.append = writing.out, !.phase = p]
          BY <1>11, <3>3, <5>1, Zenon DEF Multicast
        <5>3. writing'.phase = p
          BY <1>1, <5>2 DEF Writing
        <5> QED BY <5>1, <5>3
      <4> QED BY <3>1, <4>1, <4>2
    <3> QED BY <3>2, <3>3
  <2>5. Laid(lines)' = Laid(lines) /\ Shows(screen, lines)' = Shows(screen, lines)
    BY <2>2 DEF Laid, Shows, Cell
  <2>6. ScreenInv'
    BY <1>1, <2>2, <2>4, <2>5 DEF ScreenInv
  <2> QED BY <2>3, <2>6 DEF LogInv
<1>12. CASE KconChar
  <2>1. Formatted(writing', intmax, crash') /\ ScreenInv'
    BY <1>1, <1>12, KconStep, KconCharScreen
  <2>2. intmax' = intmax /\ level' = level /\ writers' = writers
    BY <1>12 DEF KconChar
  <2> QED BY <1>1, <1>2, <2>1, <2>2 DEF LogInv
<1>13. CASE KconReturn
  <2>1. Formatted(writing', intmax, crash')
    BY <1>1, <1>13, KconStep
  <2>2. /\ intmax' = intmax /\ level' = level /\ writers' = writers /\ screen' = screen /\ kcon_x' = kcon_x
        /\ kcon_y' = kcon_y /\ lines' = lines /\ returned' = returned /\ vram' = 0
        /\ writing' = [writing EXCEPT !.phase = "cast"]
    BY <1>13 DEF KconReturn
  <2>3. writing'.phase # "screen"
    BY <1>1, <2>2 DEF Writing
  <2>4. Laid(lines)' = Laid(lines) /\ Shows(screen, lines)' = Shows(screen, lines)
    BY <2>2 DEF Laid, Shows, Cell
  <2>5. ScreenInv'
    BY <1>1, <2>2, <2>3, <2>4 DEF ScreenInv
  <2> QED BY <1>1, <1>2, <2>1, <2>2, <2>5 DEF LogInv
<1>14. CASE UNCHANGED logVars
  <2>1. UNCHANGED <<intmax, writing, crash, console>> /\ level' = level /\ writers' = writers
    BY <1>14 DEF logVars
  <2> QED BY <1>1, <1>3, <2>1
<1>15. CASE Crashed
  BY <1>14, <1>15 DEF Crashed
<1> QED BY <1>5, <1>6, <1>9, <1>10, <1>11, <1>12, <1>13, <1>14, <1>15 DEF LogNext

LEMMA LogInductive == LogSpec => []LogInv
<1> QED BY LogInitInv, LogNextInv, PTL DEF LogSpec

(* Log.cc 97-182: every writer gets the text of the message, cut only behind
   the item that fills the buffer, and the buffer is overrun by no message
   whose text and terminator fit in it, for every message and buffer size. *)
THEOREM SpecTextExact == LogSpec => []TextExact
<1>1. LogInv => TextExact
  <2> SUFFICES ASSUME LogInv PROVE TextExact
    OBVIOUS
  <2>1. /\ intmax \in {INT, LONG} /\ Formatted(writing, intmax, crash) /\ writing \in Writing
        /\ LogTypeOK
    <3>1. writing.phase \in {"idle", "items", "string", "cast", "screen"} /\ returned \in BOOLEAN
      BY DEF LogInv, WriteInv, Formatted, Writing, ScreenInv
    <3> QED BY <3>1 DEF LogInv, WriteInv, Formatted, LogTypeOK
  <2>2. ASSUME writing.phase \in {"cast", "screen"} PROVE writing.out = Text(writing.msg, intmax, TRUE)
    BY <2>1, <2>2 DEF Formatted, Progress, Text
  <2>3. ASSUME crash = "overrun" PROVE Len(Text(writing.msg, intmax, FALSE)) >= MAX_WRITE_BUFFER
    <3>1. writing.phase = "cast" /\ Len(writing.out) >= MAX_WRITE_BUFFER /\ writing.msg \in Messages
      BY <2>1, <2>3 DEF Formatted
    <3>2. PICK msg, f, g : /\ msg = writing.msg /\ f = TextUpTo(writing.msg, intmax, TRUE)
                           /\ g = TextUpTo(writing.msg, intmax, FALSE)
      OBVIOUS
    <3>3. /\ msg \in Seq(MsgItem) /\ Len(msg) \in Nat /\ TextRun(msg, intmax, TRUE, f)
          /\ TextRun(msg, intmax, FALSE, g)
      BY <2>1, <3>1, <3>2, MessageFacts
    <3>4. Len(f[Len(msg)]) <= Len(g[Len(msg)])
      BY <2>1, <3>3, CutShorter
    <3>5. writing.out = f[Len(msg)]
      BY <2>2, <3>1, <3>2 DEF Text
    <3>6. PICK a, b : a = f[Len(msg)] /\ b = g[Len(msg)]
      OBVIOUS
    <3>7. a \in Seq(Char) /\ b \in Seq(Char) /\ Len(a) \in Nat /\ Len(b) \in Nat
      <4>1. Len(msg) \in 0..Len(msg)
        BY <3>3
      <4> QED BY <3>3, <3>6, <4>1 DEF TextRun
    <3>8. Len(b) >= MAX_WRITE_BUFFER
      BY <3>1, <3>4, <3>5, <3>6, <3>7, Bounds
    <3> QED BY <3>2, <3>6, <3>8 DEF Text
  <2> QED BY <2>1, <2>2, <2>3 DEF TextExact
<1> QED BY <1>1, LogInductive, PTL

(* Log.cc 38-83, 129-141: the text of a number reads as the argument modulo
   the values of intmax_t, as the argument itself when the type can hold it,
   has a digit and is as wide as asked for, for every argument, width and
   size of intmax_t. *)
THEOREM SpecNumbersRead == LogSpec => []NumbersRead
<1>1. LogInv => NumbersRead
  <2> SUFFICES ASSUME LogInv, writing.phase = "string", writing.len = 0,
                      Head(writing.fmt).k \in {"d", "u", "x"}
               PROVE  LET item == Head(writing.fmt)
                          n == Reading(writing.append, IF item.k = "x" THEN 16 ELSE 10)
                      IN  /\ (n - item.arg) % intmax = 0
                          /\ Fits(item) => n = item.arg
                          /\ \E i \in 1..Len(writing.append) : writing.append[i] \in DigitChars
                          /\ Len(writing.append) >= item.width
    BY Zenon DEF NumbersRead
  <2>1. WriteInv /\ intmax \in {INT, LONG} /\ writing \in Writing
    BY DEF LogInv, WriteInv, Formatted
  <2>2. PICK n : /\ n \in 0..Len(writing.msg) /\ n < Len(writing.msg) /\ writing.msg \in Messages
                 /\ Progress(writing, intmax, n) /\ Head(writing.fmt) = writing.msg[n + 1]
                 /\ Head(writing.fmt) \in MsgItem
    BY <2>1, InItem
  <2>3. PICK item, m, a, s, t : /\ item = Head(writing.fmt) /\ m = intmax /\ a = writing.append
                                /\ s = Converted(Head(writing.fmt), intmax)
                                /\ t = TextUpTo(writing.msg, intmax, TRUE)[n]
    OBVIOUS
  <2>4. item \in MsgItem /\ item.k \in {"d", "u", "x"} /\ item.k # "lit" /\ m \in {INT, LONG}
    BY <2>1, <2>2, <2>3
  <2>5. /\ item.k \in {"d", "u"} => IsNumber(s, 10, Signed(item.arg, m), item.width)
        /\ item.k = "x" => IsNumber(s, 16, Unsigned(item.arg, m), item.width)
    BY <2>3, <2>4, ConvertedText, Zenon
  <2>6. s \in Seq(Char) /\ Len(s) >= item.width /\ \E i \in 1..Len(s) : s[i] \in DigitChars
    BY <2>4, <2>5, Zenon DEF IsNumber
  <2>7. PICK j, b : Taking(writing, t, s, item.width, j, b)
    <3>1. ItemText(item, m) = s
      BY <2>3, <2>4 DEF ItemText
    <3>2. \E j, b : Taking(writing, t, ItemText(writing.msg[n + 1], intmax), writing.msg[n + 1].width, j, b)
      BY <2>2, <2>3, Zenon DEF Progress
    <3> QED BY <2>2, <2>3, <3>1, <3>2, Zenon
  <2>8. t \in Seq(Char)
    <3>1. TextRun(writing.msg, intmax, TRUE, TextUpTo(writing.msg, intmax, TRUE))
      BY <2>1, <2>2, MessageFacts, Zenon
    <3> QED BY <2>2, <2>3, <3>1, Zenon DEF TextRun
  <2>9. a = s
    <3>1. Len(s) \in Nat /\ Len(s) > 0 /\ Len(t) \in Nat
      BY <2>6, <2>8
    <3>2. /\ j \in 0..Len(s) /\ b \in Nat /\ (j > 0 => writing.len = Len(t) + 1 + j + b)
          /\ Len(a) = Len(s) - j /\ \A i \in 1..Len(a) : a[i] = s[j + i]
      BY <2>3, <2>7, Zenon DEF Taking
    <3>3. j = 0
      BY <3>1, <3>2
    <3>4. Len(a) = Len(s)
      BY <3>1, <3>2, <3>3
    <3>5. \A i \in 1..Len(a) : a[i] = s[i]
      BY <3>2, <3>3
    <3>6. a \in Seq(Char)
      BY <2>1, <2>3 DEF Writing
    <3> QED BY <2>6, <3>4, <3>5, <3>6, SeqEqual
  <2>10. PICK v : v = Reading(a, IF item.k = "x" THEN 16 ELSE 10)
    OBVIOUS
  <2>11. m \in Nat \ {0} /\ item.arg \in Int
    BY <2>4, Bounds DEF MsgItem
  <2>12. (v - item.arg) % m = 0 /\ (Fits(item) => v = item.arg)
    <3>1. CASE item.k = "x"
      <4>1. v = item.arg % m
        BY <2>5, <2>9, <2>10, <3>1, Zenon DEF IsNumber, Unsigned
      <4>2. Fits(item) => item.arg \in 0..(m - 1)
        BY <2>3, <2>11, <3>1 DEF Fits
      <4> QED BY <2>11, <4>1, <4>2, ModFacts
    <3>2. CASE item.k \in {"d", "u"}
      <4>1. item.k # "x"
        BY <3>2
      <4>2. v = Signed(item.arg, m)
        BY <2>5, <2>9, <2>10, <3>2, <4>1, Zenon DEF IsNumber
      <4>3. Fits(item) => -(m \div 2) <= item.arg /\ item.arg < m \div 2
        BY <2>3, <4>1, Zenon DEF Fits
      <4> QED BY <2>11, <4>2, <4>3, SignedFacts, Zenon
    <3> QED BY <2>4, <3>1, <3>2
  <2> QED BY <2>3, <2>6, <2>9, <2>10, <2>12, Zenon
<1> QED BY <1>1, LogInductive, PTL

(* console.c 36-80: after every character the screen shows the last lines of
   what was written and the cursor is behind them, for every size of screen;
   a '\r' puts an end to that, and the cursor stays on the screen. *)
THEOREM SpecScreenIsTail == LogSpec => []ScreenIsTail
<1>1. LogInv => ScreenIsTail
  <2> SUFFICES ASSUME ScreenInv PROVE ScreenIsTail
    BY DEF LogInv
  <2>1. kcon_x < KCON_WIDTH /\ kcon_y < KCON_HEIGHT
    BY Bounds DEF ScreenInv
  <2>2. ASSUME ~returned
        PROVE  /\ kcon_x = Len(Last(lines)) /\ kcon_y = Len(lines) - 1
               /\ \A r \in 1..KCON_HEIGHT, c \in 1..KCON_WIDTH :
                    screen[CALC_LOCATION(c - 1, r - 1)] =
                        IF r <= Len(lines) /\ c <= Len(lines[r]) THEN lines[r][c] ELSE Blank
    BY <2>2 DEF ScreenInv, Shows, Cell, Last
  <2> QED BY <2>1, <2>2 DEF ScreenIsTail
<1> QED BY <1>1, LogInductive, PTL
=============================================================================
