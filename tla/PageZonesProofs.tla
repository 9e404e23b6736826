-------------------------- MODULE PageZonesProofs --------------------------
(***************************************************************************)
(* Proofs about PageZones, for any number of zones, regions of any size,   *)
(* any requests and any number of frames.                                  *)
(***************************************************************************)
EXTENDS PageZones, LoopTheorems, TLAPS

(* The loop of increase() ends in D[n] when round i leads from D[i] to D[i + 1]. *)
LEMMA GrowLoop ==
    ASSUME NEW n \in Nat, NEW D, NEW st \in D[0],
           \A k \in 0..n : k < n => \A x \in D[k] : GrowPage(x) \in D[k + 1]
    PROVE  Times(n, GrowPage, st) \in D[n]
<1> DEFINE U == UNION {D[k] : k \in 0..n}
           F == [i \in 1..n |-> [x \in U |-> GrowPage(x)]]
<1>1. \A i \in 1..n, k \in 0..n : \A x \in D[k] : F[i][x] = GrowPage(x)
  OBVIOUS
<1>2. \A k \in 0..n : k < n => \A x \in D[k] : F[k + 1][x] \in D[k + 1]
  BY <1>1
<1> HIDE DEF F
<1>3. PICK g : LoopRun(n, st, F, g)
  BY LoopExists
<1>4. \A k \in 0..n : g[k] \in D[k]
  BY <1>2, <1>3, LoopIn
<1>5. g = [i \in 0..n |-> g[i]] /\ DOMAIN g = 0..n
  BY <1>3 DEF LoopRun
<1>6. ASSUME NEW i \in 0..n
      PROVE  g[i] = IF i = 0 THEN st ELSE GrowPage(g[i - 1])
  <2>1. g[i] = IF i = 0 THEN st ELSE F[i][g[i - 1]]
    BY <1>3 DEF LoopRun
  <2>2. CASE i # 0
    <3>1. i - 1 \in 0..n
      BY <2>2
    <3>2. PICK y : y = g[i - 1]
      OBVIOUS
    <3>3. F[i][y] = GrowPage(y)
      BY <3>1, <3>2, <1>1, <1>4
    <3> QED BY <2>1, <2>2, <3>2, <3>3, Zenon
  <2> QED BY <2>1, <2>2, Zenon
<1>7. g = [i \in 0..n |-> IF i = 0 THEN st ELSE GrowPage(g[i - 1])]
  BY <1>5, <1>6, Zenon
<1> DEFINE f == CHOOSE h : h = [i \in 0..n |-> IF i = 0 THEN st ELSE GrowPage(h[i - 1])]
<1>8. f = [i \in 0..n |-> IF i = 0 THEN st ELSE GrowPage(f[i - 1])]
  BY <1>7
<1>9. Times(n, GrowPage, st) = f[n]
  BY DEF Times
<1> HIDE DEF f
<1>10. \A k \in 0..n : f[k] \in D[k]
  <2> DEFINE T == {k \in 0..n : f[k] \in D[k]}
  <2>1. 0 \in T
    BY <1>8
  <2>2. ASSUME NEW k \in T, k < n PROVE k + 1 \in T
    <3>1. PICK m : m = k + 1
      OBVIOUS
    <3>2. m \in 0..n /\ m # 0 /\ m - 1 = k
      BY <3>1, <2>2
    <3>3. f[m] = GrowPage(f[m - 1])
      BY <1>8, <3>2, Zenon
    <3>4. PICK y : y = f[k]
      OBVIOUS
    <3>5. GrowPage(y) \in D[k + 1]
      BY <2>2, <3>4
    <3>6. f[m] = GrowPage(y)
      BY <3>2, <3>3, <3>4, Zenon
    <3>7. f[k + 1] \in D[k + 1]
      BY <3>1, <3>5, <3>6, Zenon
    <3> QED BY <3>1, <3>2, <3>7
  <2> HIDE DEF T
  <2>3. \A k \in 0..n : k \in T
    BY <2>1, <2>2, IntervalInduction
  <2> QED BY <2>3 DEF T
<1> QED BY <1>9, <1>10

(* The loop of decrease() ends in D[n] when round i leads from D[i] to D[i + 1]. *)
LEMMA ShrinkLoop ==
    ASSUME NEW n \in Nat, NEW D, NEW st \in D[0],
           \A k \in 0..n : k < n => \A x \in D[k] : ShrinkPage(x) \in D[k + 1]
    PROVE  Times(n, ShrinkPage, st) \in D[n]
<1> DEFINE U == UNION {D[k] : k \in 0..n}
           F == [i \in 1..n |-> [x \in U |-> ShrinkPage(x)]]
<1>1. \A i \in 1..n, k \in 0..n : \A x \in D[k] : F[i][x] = ShrinkPage(x)
  OBVIOUS
<1>2. \A k \in 0..n : k < n => \A x \in D[k] : F[k + 1][x] \in D[k + 1]
  BY <1>1
<1> HIDE DEF F
<1>3. PICK g : LoopRun(n, st, F, g)
  BY LoopExists
<1>4. \A k \in 0..n : g[k] \in D[k]
  BY <1>2, <1>3, LoopIn
<1>5. g = [i \in 0..n |-> g[i]] /\ DOMAIN g = 0..n
  BY <1>3 DEF LoopRun
<1>6. ASSUME NEW i \in 0..n
      PROVE  g[i] = IF i = 0 THEN st ELSE ShrinkPage(g[i - 1])
  <2>1. g[i] = IF i = 0 THEN st ELSE F[i][g[i - 1]]
    BY <1>3 DEF LoopRun
  <2>2. CASE i # 0
    <3>1. i - 1 \in 0..n
      BY <2>2
    <3>2. PICK y : y = g[i - 1]
      OBVIOUS
    <3>3. F[i][y] = ShrinkPage(y)
      BY <3>1, <3>2, <1>1, <1>4
    <3> QED BY <2>1, <2>2, <3>2, <3>3, Zenon
  <2> QED BY <2>1, <2>2, Zenon
<1>7. g = [i \in 0..n |-> IF i = 0 THEN st ELSE ShrinkPage(g[i - 1])]
  BY <1>5, <1>6, Zenon
<1> DEFINE f == CHOOSE h : h = [i \in 0..n |-> IF i = 0 THEN st ELSE ShrinkPage(h[i - 1])]
<1>8. f = [i \in 0..n |-> IF i = 0 THEN st ELSE ShrinkPage(f[i - 1])]
  BY <1>7
<1>9. Times(n, ShrinkPage, st) = f[n]
  BY DEF Times
<1> HIDE DEF f
<1>10. \A k \in 0..n : f[k] \in D[k]
  <2> DEFINE T == {k \in 0..n : f[k] \in D[k]}
  <2>1. 0 \in T
    BY <1>8
  <2>2. ASSUME NEW k \in T, k < n PROVE k + 1 \in T
    <3>1. PICK m : m = k + 1
      OBVIOUS
    <3>2. m \in 0..n /\ m # 0 /\ m - 1 = k
      BY <3>1, <2>2
    <3>3. f[m] = ShrinkPage(f[m - 1])
      BY <1>8, <3>2, Zenon
    <3>4. PICK y : y = f[k]
      OBVIOUS
    <3>5. ShrinkPage(y) \in D[k + 1]
      BY <2>2, <3>4
    <3>6. f[m] = ShrinkPage(y)
      BY <3>2, <3>3, <3>4, Zenon
    <3>7. f[k + 1] \in D[k + 1]
      BY <3>1, <3>5, <3>6, Zenon
    <3> QED BY <3>1, <3>2, <3>7
  <2> HIDE DEF T
  <2>3. \A k \in 0..n : k \in T
    BY <2>1, <2>2, IntervalInduction
  <2> QED BY <2>3 DEF T
<1> QED BY <1>9, <1>10
-----------------------------------------------------------------------------
(* A zone is unset or one that was asked for. *)
ZonesInv == \A z \in Zone : Unset(z) \/ <<zones[z].start, zones[z].end>> \in Extents

Apart(y, z) == zones[y].end <= zones[z].start \/ zones[z].end <= zones[y].start
Inside(y, z) == zones[z].start < zones[y].start /\ zones[y].end < zones[z].end

(* Two zones are apart or one is strictly inside the other. *)
OverlapInv ==
    \A y, z \in Zone : y # z /\ ~Unset(y) /\ ~Unset(z) => Apart(y, z) \/ Inside(y, z) \/ Inside(z, y)

(* The break of an allocator is in its zone, and on a region for large pages. *)
BreakInv ==
    \A z \in Zone : allocators[z] # None =>
        /\ zones[z].start <= allocators[z].brk /\ allocators[z].brk <= zones[z].end
        /\ allocators[z].large => allocators[z].brk % RegionPages = 0

(* What the page tables m with the directory d say of the free frames f: a page
   is on a frame that is not free, or on the device; only the pages of a large
   one share a frame; and a region without an entry has no page. *)
FramesOk(d, m, f) ==
    /\ f \subseteq 1..NumFrames
    /\ \A p \in Pages : m[p] \in {Device, NotMapped} \/ m[p] \in 1..NumFrames \ f
    /\ \A p, q \in Pages : p # q /\ m[p] = m[q] /\ m[p] \in 1..NumFrames =>
          p \div RegionPages = q \div RegionPages /\ d[p \div RegionPages] = "large"
    /\ \A p \in Pages : d[p \div RegionPages] = "none" => m[p] = NotMapped

(* A page that an allocator of large pages, or of small ones, has filled. *)
FilledOk(d, m, p, large) ==
    m[p] \in 1..NumFrames /\ (d[p \div RegionPages] = "large" => large)

FilledInv ==
    /\ \A z \in Zone : \A p \in Filled(z) : FilledOk(pd, mapped, p, allocators[z].large)
    /\ \A y, z \in Zone : y # z => Filled(y) \cap Filled(z) = {}

IInv ==
    /\ TypeOK /\ ZonesInv /\ OverlapInv /\ BreakInv
    /\ ~halted /\ ~shrunk => FramesOk(pd, mapped, free) /\ FilledInv
-----------------------------------------------------------------------------
LEMMA Quotient ==
    ASSUME NEW a \in Nat, NEW b \in Nat \ {0}
    PROVE  a \div b \in Nat /\ (a \div b) * b \in Nat /\ (a \div b) * b <= a /\ a < (a \div b) * b + b
  BY Z3

LEMMA QuotientUnique ==
    ASSUME NEW a \in Nat, NEW b \in Nat \ {0}, NEW r \in Nat, r * b <= a, a < r * b + b
    PROVE  a \div b = r
  BY Z3

LEMMA QuotientMonotone ==
    ASSUME NEW a \in Nat, NEW c \in Nat, NEW b \in Nat \ {0}, a <= c
    PROVE  a \div b <= c \div b
  BY Z3

LEMMA Multiple ==
    ASSUME NEW a \in Nat, NEW b \in Nat \ {0}, a % b = 0
    PROVE  /\ a = (a \div b) * b
           /\ (a + b) % b = 0
           /\ a - b >= 0 => (a - b) % b = 0
<1>1. a = (a \div b) * b
  BY Z3
<1>2. \A c \in Nat, q \in Nat : c = q * b => c % b = 0
  <2> SUFFICES ASSUME NEW c \in Nat, NEW q \in Nat, c = q * b PROVE c % b = 0
    OBVIOUS
  <2>1. c \div b = q
    BY QuotientUnique
  <2>2. c = (c \div b) * b + (c % b) /\ c % b \in Nat
    BY Z3
  <2>3. q * b \in Nat
    OBVIOUS
  <2> QED BY <2>1, <2>2, <2>3
<1>3. (a + b) % b = 0
  <2>1. PICK q : q = a \div b
    OBVIOUS
  <2>2. q \in Nat /\ q + 1 \in Nat /\ a = q * b /\ a + b \in Nat
    BY <1>1, <2>1, Quotient
  <2>3. a + b = (q + 1) * b
    BY <2>2, Z3
  <2> QED BY <2>2, <2>3, <1>2
<1>4. ASSUME a - b >= 0 PROVE (a - b) % b = 0
  <2>1. PICK q : q = a \div b
    OBVIOUS
  <2>2. q \in Nat /\ a = q * b /\ a - b \in Nat
    BY <1>1, <1>4, <2>1, Quotient
  <2>3. q # 0
    BY <2>2, Z3
  <2>4. a - b = (q - 1) * b /\ q - 1 \in Nat
    BY <2>2, <2>3, Z3
  <2> QED BY <2>2, <2>4, <1>2
<1> QED BY <1>1, <1>3, <1>4

LEMMA Rounds ==
    ASSUME NEW i \in Nat, NEW n \in Nat, NEW s \in Nat, i < n
    PROVE  (i + 1) * s = i * s + s /\ i * s \in Nat /\ i * s + s <= n * s
  BY Z3

LEMMA QuotientTimes ==
    ASSUME NEW a \in Nat, NEW s \in Nat \ {0}
    PROVE  a \div s \in Nat /\ (a \div s) * s <= a
  BY Quotient

(* A page below the end of a request is one the model has. *)
LEMMA PageIn ==
    ASSUME NEW e \in Extents, NEW p \in Nat, p < e[2]
    PROVE  p \in Pages /\ p \div RegionPages \in Regions
<1>1. e[2] \in Nat /\ RegionPages \in Nat \ {0}
  BY ZonesAssumption
<1>2. PICK r : r = p \div RegionPages
  OBVIOUS
<1>3. r \in Nat /\ r * RegionPages \in Nat /\ r * RegionPages <= p /\ p < r * RegionPages + RegionPages
  BY <1>1, <1>2, Quotient
<1>4. r <= (e[2] - 1) \div RegionPages /\ (e[2] - 1) \div RegionPages \in Nat
  <2>1. e[2] - 1 \in Nat /\ p <= e[2] - 1
    BY <1>1
  <2> QED BY <1>1, <1>2, <2>1, QuotientMonotone, Quotient
<1>5. r \in 0..((e[2] - 1) \div RegionPages)
  BY <1>3, <1>4
<1>6. r \in Regions
  BY <1>5 DEF Regions
<1>7. p \in PagesOf(r)
  BY <1>1, <1>3 DEF PagesOf
<1> QED BY <1>2, <1>6, <1>7 DEF Pages

(* The pages of a region are those whose number of regions is its own. *)
LEMMA PageRegion ==
    /\ \A r \in Regions : r \in Nat /\ \A p \in PagesOf(r) : p \in Pages /\ p \div RegionPages = r
    /\ \A p \in Pages : p \in Nat /\ p \div RegionPages \in Regions /\ p \in PagesOf(p \div RegionPages)
<1>1. ASSUME NEW r \in Regions
      PROVE  r \in Nat /\ \A p \in PagesOf(r) : p \in Nat /\ p \in Pages /\ p \div RegionPages = r
  <2>1. PICK e \in Extents : r \in 0..((e[2] - 1) \div RegionPages)
    BY DEF Regions
  <2>2. r \in Nat /\ RegionPages \in Nat \ {0} /\ r * RegionPages \in Nat
    <3>1. r \in Nat /\ RegionPages \in Nat \ {0}
      BY <2>1, ZonesAssumption
    <3> QED BY <3>1, Z3
  <2>3. ASSUME NEW p \in PagesOf(r) PROVE p \in Nat /\ p \in Pages /\ p \div RegionPages = r
    <3>1. p \in Nat /\ r * RegionPages <= p /\ p < r * RegionPages + RegionPages
      BY <2>2, <2>3 DEF PagesOf
    <3>2. p \div RegionPages = r
      BY <3>1, <2>2, QuotientUnique
    <3> QED BY <3>1, <3>2 DEF Pages
  <2> QED BY <2>2, <2>3
<1>2. ASSUME NEW p \in Pages
      PROVE  p \in Nat /\ p \div RegionPages \in Regions /\ p \in PagesOf(p \div RegionPages)
  <2>1. PICK r \in Regions : p \in PagesOf(r)
    BY DEF Pages
  <2> QED BY <2>1, <1>1
<1> QED BY <1>1, <1>2

(* What is left of the frames has a smallest one. *)
LEMMA SmallestIn ==
    ASSUME NEW S, S \subseteq Nat, S # {}
    PROVE  Smallest(S) \in S
<1>1. \E d \in S : \A c \in S : d <= c
  BY SmallestOf
<1> QED BY <1>1 DEF Smallest
-----------------------------------------------------------------------------
Entries == {"none", "table", "large"}
Contents == 0..NumFrames \cup {Device, NotMapped}

(* The states of the loops of increase() and decrease(). *)
LoopState ==
    [pd : [Regions -> Entries], mapped : [Pages -> Contents],
     free : SUBSET (0..NumFrames \cup {Device}), halted : BOOLEAN, brk : Int, large : BOOLEAN]

(* map() where nothing was there: d and m become d1 and m1. *)
Mapped(d, m, p, f, large, d1, m1) ==
    /\ large => d[p \div RegionPages] = "none"
    /\ ~large => d[p \div RegionPages] # "large" /\ m[p] = NotMapped
    /\ d1 = [d EXCEPT ![p \div RegionPages] = IF large THEN "large" ELSE "table"]
    /\ m1 = [q \in Pages |-> IF q \in (IF large THEN PagesOf(p \div RegionPages) ELSE {p})
                             THEN f ELSE m[q]]

(* A page that was mapped is mapped as before. *)
Kept(d, m, d1, m1) ==
    \A q \in Pages : m[q] # NotMapped =>
        m1[q] = m[q] /\ d1[q \div RegionPages] = d[q \div RegionPages]

(* The pages one call of map() covers. *)
Covered(p, large) == IF large THEN PagesOf(p \div RegionPages) ELSE {p}

(* What Mapped says of each page. *)
MapEffect(d, m, p, f, large, d1, m1) ==
    /\ \A q \in Covered(p, large) : q \in Pages /\ q \div RegionPages = p \div RegionPages
    /\ \A q \in Pages : m1[q] = IF q \in Covered(p, large) THEN f ELSE m[q]
    /\ \A q \in Pages : q \div RegionPages = p \div RegionPages =>
          d1[q \div RegionPages] = IF large THEN "large" ELSE "table"
    /\ \A q \in Pages : q \div RegionPages # p \div RegionPages =>
          d1[q \div RegionPages] = d[q \div RegionPages]

LEMMA MappedPages ==
    ASSUME NEW d \in [Regions -> Entries], NEW m \in [Pages -> Contents],
           NEW p \in Pages, NEW f, NEW large \in BOOLEAN, NEW d1, NEW m1,
           Mapped(d, m, p, f, large, d1, m1)
    PROVE  MapEffect(d, m, p, f, large, d1, m1)
<1>1. p \div RegionPages \in Regions
  BY PageRegion
<1>2. ASSUME NEW q \in Covered(p, large)
      PROVE  q \in Pages /\ q \div RegionPages = p \div RegionPages
  BY <1>1, PageRegion DEF Covered
<1>3. \A q \in Pages : q \div RegionPages \in Regions
  BY PageRegion
<1>4. m1 = [q \in Pages |-> IF q \in Covered(p, large) THEN f ELSE m[q]]
  BY DEF Mapped, Covered
<1>5. d1 = [d EXCEPT ![p \div RegionPages] = IF large THEN "large" ELSE "table"]
  BY DEF Mapped
<1>6. \A r \in Regions : d1[r] = IF r = p \div RegionPages
                                 THEN IF large THEN "large" ELSE "table" ELSE d[r]
  BY <1>5
<1> QED BY <1>2, <1>3, <1>4, <1>6 DEF MapEffect

Untouched(m, S) == \A q \in S : m[q] = NotMapped

LEMMA MappedKept ==
    ASSUME NEW d \in [Regions -> Entries], NEW m \in [Pages -> Contents], NEW g, FramesOk(d, m, g),
           NEW p \in Pages, NEW f, NEW large \in BOOLEAN, NEW d1, NEW m1,
           Mapped(d, m, p, f, large, d1, m1)
    PROVE  Kept(d, m, d1, m1) /\ Untouched(m, Covered(p, large))
<1>0. MapEffect(d, m, p, f, large, d1, m1)
  BY MappedPages, Zenon
<1>1. ASSUME NEW q \in Covered(p, large) PROVE m[q] = NotMapped
  <2>1. q \in Pages /\ q \div RegionPages = p \div RegionPages
    BY <1>0 DEF MapEffect
  <2>2. CASE large
    BY <2>1, <2>2 DEF Mapped, FramesOk
  <2>3. CASE ~large
    BY <2>3 DEF Mapped, Covered
  <2> QED BY <2>2, <2>3
<1>2. ASSUME NEW q \in Pages, m[q] # NotMapped
      PROVE  m1[q] = m[q] /\ d1[q \div RegionPages] = d[q \div RegionPages]
  <2>1. q \notin Covered(p, large)
    BY <1>1, <1>2
  <2>2. m1[q] = m[q]
    BY <2>1, <1>0 DEF MapEffect
  <2>3. CASE q \div RegionPages # p \div RegionPages
    BY <2>2, <2>3, <1>0 DEF MapEffect
  <2>4. CASE q \div RegionPages = p \div RegionPages
    <3>1. d[q \div RegionPages] # "none"
      BY <1>2 DEF FramesOk
    <3>2. ~large
      BY <3>1, <2>4 DEF Mapped
    <3>3. d[q \div RegionPages] # "large" /\ d[q \div RegionPages] \in Entries
      <4>1. q \div RegionPages \in Regions
        BY PageRegion
      <4> QED BY <3>2, <2>4, <4>1 DEF Mapped
    <3>4. d[q \div RegionPages] = "table"
      BY <3>1, <3>3 DEF Entries
    <3>5. d1[q \div RegionPages] = "table"
      BY <2>4, <3>2, <1>0 DEF MapEffect
    <3> QED BY <2>2, <3>4, <3>5
  <2> QED BY <2>3, <2>4
<1> QED BY <1>1, <1>2 DEF Kept, Untouched

(* map() of a free frame, or of the device, keeps what the tables say of the
   frames when the frame is no longer free. *)
LEMMA MappedFrames ==
    ASSUME NEW d \in [Regions -> Entries], NEW m \in [Pages -> Contents], NEW g, FramesOk(d, m, g),
           NEW p \in Pages, NEW f \in g \cup {Device}, NEW large \in BOOLEAN, NEW d1, NEW m1,
           Mapped(d, m, p, f, large, d1, m1)
    PROVE  FramesOk(d1, m1, g \ {f})
<1> DEFINE C == Covered(p, large)
<1>0. MapEffect(d, m, p, f, large, d1, m1)
  BY MappedPages, Zenon
<1>1. /\ g \subseteq 1..NumFrames /\ Device \notin 1..NumFrames /\ NotMapped \notin 1..NumFrames
      /\ NumFrames \in Nat /\ Device # NotMapped
  BY ZonesAssumption DEF FramesOk, NotMapped
<1>2. \A q \in Pages : m1[q] = IF q \in C THEN f ELSE m[q]
  BY <1>0 DEF MapEffect
<1>3. \A q \in C : q \in Pages /\ q \div RegionPages = p \div RegionPages
  BY <1>0 DEF MapEffect
<1>4. /\ \A q \in Pages : q \div RegionPages = p \div RegionPages =>
            d1[q \div RegionPages] = IF large THEN "large" ELSE "table"
      /\ \A q \in Pages : q \div RegionPages # p \div RegionPages =>
            d1[q \div RegionPages] = d[q \div RegionPages]
  BY <1>0 DEF MapEffect
<1>5. \A q \in C : m[q] = NotMapped
  <2>1. Untouched(m, C)
    BY MappedKept, Zenon
  <2> QED BY <2>1 DEF Untouched
<1> HIDE DEF C
<1>6. ASSUME NEW q \in Pages
      PROVE  m1[q] \in {Device, NotMapped} \/ m1[q] \in 1..NumFrames \ (g \ {f})
  <2>1. m[q] \in {Device, NotMapped} \/ m[q] \in 1..NumFrames \ g
    BY DEF FramesOk
  <2> QED BY <1>1, <1>2, <2>1
<1>7. ASSUME NEW s \in Pages, NEW t \in Pages, s # t, m1[s] = m1[t], m1[s] \in 1..NumFrames
      PROVE  s \div RegionPages = t \div RegionPages /\ d1[s \div RegionPages] = "large"
  <2>1. \A q \in Pages : m[q] \in {Device, NotMapped} \/ m[q] \in 1..NumFrames \ g
    BY DEF FramesOk
  <2>2. CASE s \in C /\ t \in C
    <3>1. large
      BY <1>7, <2>2 DEF C, Covered
    <3> QED BY <1>3, <1>4, <2>2, <3>1
  <2>3. CASE s \notin C /\ t \notin C
    <3>1. m[s] = m[t] /\ m[s] \in 1..NumFrames
      BY <1>2, <1>7, <2>3
    <3>2. s \div RegionPages = t \div RegionPages /\ d[s \div RegionPages] = "large"
      BY <3>1, <1>7 DEF FramesOk
    <3>3. s \div RegionPages # p \div RegionPages
      BY <3>2 DEF Mapped
    <3> QED BY <3>2, <3>3, <1>4
  <2>4. CASE s \in C /\ t \notin C
    <3>1. f \in g /\ m[t] = f
      BY <1>1, <1>2, <1>7, <2>4
    <3> QED BY <3>1, <2>1, <1>1
  <2>5. CASE s \notin C /\ t \in C
    <3>1. f \in g /\ m[s] = f
      BY <1>1, <1>2, <1>7, <2>5
    <3> QED BY <3>1, <2>1, <1>1
  <2> QED BY <2>2, <2>3, <2>4, <2>5
<1>8. ASSUME NEW q \in Pages, d1[q \div RegionPages] = "none" PROVE m1[q] = NotMapped
  <2>1. q \div RegionPages # p \div RegionPages
    BY <1>4, <1>8
  <2>2. q \notin C /\ d[q \div RegionPages] = "none"
    BY <1>3, <1>4, <1>8, <2>1
  <2>3. m[q] = NotMapped
    BY <2>2 DEF FramesOk
  <2> QED BY <1>2, <2>2, <2>3
<1>9. g \ {f} \subseteq 1..NumFrames
  BY <1>1
<1> QED BY <1>6, <1>7, <1>8, <1>9, Zenon DEF FramesOk
-----------------------------------------------------------------------------
(* A round of increase() stops the kernel or maps a free frame at the break. *)
Grew(x, y) ==
    /\ y \in LoopState /\ y.large = x.large
    /\ \/ y.halted /\ y.brk = x.brk
       \/ /\ ~x.halted /\ ~y.halted /\ y.brk = x.brk + PageSize(x.large)
          /\ \E f \in x.free : /\ y.free = x.free \ {f}
                               /\ Mapped(x.pd, x.mapped, x.brk, f, x.large, y.pd, y.mapped)

LEMMA PageSizeNat == \A large : PageSize(large) \in Nat \ {0}
  BY ZonesAssumption DEF PageSize

LEMMA GrowPageCases ==
    ASSUME NEW x \in LoopState, x.brk \in Pages
    PROVE  Grew(x, GrowPage(x))
<1>1. CASE x.halted
  <2>1. GrowPage(x) = x
    BY <1>1 DEF GrowPage
  <2> QED BY <1>1, <2>1 DEF Grew
<1>2. CASE ~x.halted /\ x.free = {}
  <2>1. GrowPage(x) = [x EXCEPT !.halted = TRUE]
    BY <1>2 DEF GrowPage
  <2>2. PICK y : y = [x EXCEPT !.halted = TRUE]
    OBVIOUS
  <2>3. y \in LoopState /\ y.large = x.large /\ y.halted /\ y.brk = x.brk
    BY <2>2 DEF LoopState
  <2> QED BY <2>1, <2>2, <2>3 DEF Grew
<1>3. CASE ~x.halted /\ x.free # {}
  <2>1. x.free \subseteq Nat
    BY ZonesAssumption DEF LoopState
  <2>2. PICK f : f = Smallest(x.free)
    OBVIOUS
  <2>3. f \in x.free
    BY <2>1, <2>2, <1>3, SmallestIn
  <2>4. PICK s0 : s0 = [x EXCEPT !.free = @ \ {f}]
    OBVIOUS
  <2>5. /\ s0 \in LoopState /\ s0.pd = x.pd /\ s0.mapped = x.mapped /\ s0.free = x.free \ {f}
        /\ s0.halted = FALSE /\ s0.brk = x.brk /\ s0.large = x.large
    BY <2>4, <1>3 DEF LoopState
  <2>6. PICK s1 : s1 = Map(s0, x.brk, f, x.large)
    OBVIOUS
  <2>7. GrowPage(x) = IF s1.halted THEN s1 ELSE [s1 EXCEPT !.brk = @ + PageSize(x.large)]
    BY <1>3, <2>2, <2>4, <2>6 DEF GrowPage
  <2>8. CASE Present(s0, x.brk, x.large)
    <3>1. s1 = [s0 EXCEPT !.halted = TRUE]
      BY <2>6, <2>8 DEF Map
    <3>2. s1 \in LoopState /\ s1.halted /\ s1.brk = x.brk /\ s1.large = x.large
      BY <2>5, <3>1 DEF LoopState
    <3> QED BY <2>7, <3>2 DEF Grew
  <2>9. CASE ~Present(s0, x.brk, x.large)
    <3>1. PICK d1 : d1 = [x.pd EXCEPT ![x.brk \div RegionPages] = IF x.large THEN "large" ELSE "table"]
      OBVIOUS
    <3>2. PICK m1 : m1 = [q \in Pages |-> IF q \in (IF x.large THEN PagesOf(x.brk \div RegionPages) ELSE {x.brk})
                                         THEN f ELSE x.mapped[q]]
      OBVIOUS
    <3>3. s1 = [s0 EXCEPT !.pd = d1, !.mapped = m1]
      BY <2>5, <2>6, <2>9, <3>1, <3>2 DEF Map, LoopState
    <3>4. d1 \in [Regions -> Entries]
      BY <3>1 DEF LoopState, Entries
    <3>5. f \in Contents
      BY <2>3 DEF LoopState, Contents
    <3>6. m1 \in [Pages -> Contents]
      BY <3>2, <3>5 DEF LoopState
    <3>7. /\ s1 \in LoopState /\ s1.pd = d1 /\ s1.mapped = m1 /\ s1.free = x.free \ {f}
          /\ s1.halted = FALSE /\ s1.brk = x.brk /\ s1.large = x.large
      BY <2>5, <3>3, <3>4, <3>6 DEF LoopState
    <3>8. PICK b : b = x.brk + PageSize(x.large)
      OBVIOUS
    <3>9. b \in Int
      BY <3>8, PageSizeNat DEF LoopState
    <3>10. PICK y : y = [s1 EXCEPT !.brk = b]
      OBVIOUS
    <3>11. y = GrowPage(x)
      BY <2>7, <3>7, <3>8, <3>10
    <3>12. /\ y \in LoopState /\ y.pd = d1 /\ y.mapped = m1 /\ y.free = x.free \ {f}
           /\ y.halted = FALSE /\ y.brk = b /\ y.large = x.large
      BY <3>7, <3>9, <3>10 DEF LoopState
    <3>13. Mapped(x.pd, x.mapped, x.brk, f, x.large, d1, m1)
      <4>1. /\ x.large => x.pd[x.brk \div RegionPages] = "none"
            /\ ~x.large => x.pd[x.brk \div RegionPages] # "large" /\ x.mapped[x.brk] = NotMapped
        BY <2>5, <2>9 DEF Present
      <4> QED BY <4>1, <3>1, <3>2, Zenon DEF Mapped
    <3> QED BY <1>3, <2>3, <3>8, <3>11, <3>12, <3>13 DEF Grew
  <2> QED BY <2>8, <2>9
<1> QED BY <1>1, <1>2, <1>3 DEF LoopState

(* A round of decrease() stops the kernel or moves the break down a page. *)
Shrank(x, y) ==
    /\ y \in LoopState /\ y.large = x.large
    /\ (y.halted /\ y.brk = x.brk) \/ y.brk = x.brk - PageSize(x.large)

LEMMA UnmapTyped ==
    ASSUME NEW x \in LoopState, NEW p \in Pages, NEW y, y = Unmap(x, p)
    PROVE  y \in LoopState /\ y.large = x.large /\ y.brk = x.brk
<1>1. p \div RegionPages \in Regions
  BY PageRegion
<1>2. PICK r : r = p \div RegionPages
  OBVIOUS
<1>3. x.pd[r] \in {"none", "table", "large"}
  BY <1>1, <1>2 DEF LoopState, Entries
<1>4. CASE x.pd[r] = "none"
  <2>1. y = [x EXCEPT !.halted = TRUE]
    BY <1>2, <1>4 DEF Unmap
  <2> QED BY <2>1 DEF LoopState
<1>5. CASE x.pd[r] = "large"
  <2>1. y = x
    BY <1>2, <1>5 DEF Unmap
  <2> QED BY <2>1
<1>6. CASE x.pd[r] = "table"
  <2>1. PICK d1 : d1 = [x.pd EXCEPT ![r] = "none"]
    OBVIOUS
  <2>2. PICK m1 : m1 = [q \in Pages |-> IF q \in PagesOf(r) THEN NotMapped ELSE x.mapped[q]]
    OBVIOUS
  <2>3. y = [x EXCEPT !.pd = d1, !.mapped = m1]
    BY <1>2, <1>6, <2>1, <2>2 DEF Unmap, LoopState
  <2>4. d1 \in [Regions -> Entries] /\ m1 \in [Pages -> Contents]
    BY <2>1, <2>2 DEF LoopState, Entries, Contents
  <2> QED BY <2>3, <2>4 DEF LoopState
<1> QED BY <1>3, <1>4, <1>5, <1>6

LEMMA ShrinkPageCases ==
    ASSUME NEW x \in LoopState, x.brk - PageSize(x.large) \in Pages
    PROVE  Shrank(x, ShrinkPage(x))
<1>1. PICK p : p = x.brk - PageSize(x.large)
  OBVIOUS
<1>2. PICK f : f = IF x.mapped[p] = NotMapped THEN 0 ELSE x.mapped[p]
  OBVIOUS
<1>3. PICK s1 : s1 = Unmap(x, p)
  OBVIOUS
<1>4. s1 \in LoopState /\ s1.large = x.large /\ s1.brk = x.brk
  BY <1>1, <1>3, UnmapTyped
<1>5. ShrinkPage(x) = IF x.halted THEN x
                      ELSE IF s1.halted THEN s1
                      ELSE [s1 EXCEPT !.free = @ \cup {f}, !.brk = p]
  BY <1>1, <1>2, <1>3 DEF ShrinkPage
<1>6. CASE x.halted
  BY <1>5, <1>6 DEF Shrank
<1>7. CASE ~x.halted /\ s1.halted
  BY <1>4, <1>5, <1>7 DEF Shrank
<1>8. CASE ~x.halted /\ ~s1.halted
  <2>1. x.mapped[p] \in Contents
    BY <1>1 DEF LoopState
  <2>2. f \in 0..NumFrames \cup {Device}
    BY <1>2, <2>1, ZonesAssumption DEF Contents
  <2>3. p \in Int
    BY <1>1, PageRegion
  <2>4. PICK g : g = s1.free \cup {f}
    OBVIOUS
  <2>5. g \in SUBSET (0..NumFrames \cup {Device})
    BY <1>4, <2>2, <2>4 DEF LoopState
  <2>6. PICK y : y = [s1 EXCEPT !.free = g, !.brk = p]
    OBVIOUS
  <2>7. y = ShrinkPage(x)
    BY <1>5, <1>8, <2>4, <2>6
  <2>8. y \in LoopState /\ y.large = x.large /\ y.brk = p
    BY <1>4, <2>3, <2>5, <2>6 DEF LoopState
  <2> QED BY <1>1, <2>7, <2>8 DEF Shrank
<1> QED BY <1>6, <1>7, <1>8
-----------------------------------------------------------------------------
(* The loop of increase() has led from st to x, at most k pages up.  As long as
   nothing was given back (ok), what was mapped still is, and the pages from the
   old break to the new one were not and are on frames of their own. *)
GrowInv(x, st, k, ok) ==
    /\ x \in LoopState /\ x.large = st.large
    /\ st.brk <= x.brk /\ x.brk <= st.brk + k
    /\ x.large => x.brk % RegionPages = 0
    /\ ok /\ ~x.halted =>
          /\ FramesOk(x.pd, x.mapped, x.free)
          /\ Kept(st.pd, st.mapped, x.pd, x.mapped)
          /\ \A p \in Pages : st.brk <= p /\ p < x.brk =>
                st.mapped[p] = NotMapped /\ FilledOk(x.pd, x.mapped, p, x.large)

LEMMA GrowStep ==
    ASSUME NEW e \in Extents, NEW st \in LoopState, NEW k \in Nat, NEW s, NEW ok, NEW x, NEW y,
           GrowInv(x, st, k, ok), st.brk \in Nat, s = PageSize(st.large),
           st.brk + k + s <= e[2], Grew(x, y)
    PROVE  GrowInv(y, st, k + s, ok)
<1>1. /\ x \in LoopState /\ x.large = st.large /\ x.large \in BOOLEAN
      /\ st.brk <= x.brk /\ x.brk <= st.brk + k /\ x.brk \in Nat /\ s \in Nat \ {0}
      /\ x.large => x.brk % RegionPages = 0
  <2>1. x \in LoopState /\ x.large = st.large /\ st.brk <= x.brk /\ x.brk <= st.brk + k
    BY DEF GrowInv
  <2>2. x.brk \in Int /\ x.large \in BOOLEAN
    BY <2>1 DEF LoopState
  <2>3. s \in Nat \ {0}
    BY PageSizeNat
  <2> QED BY <2>1, <2>2, <2>3 DEF GrowInv
<1>2. e[2] \in Nat /\ RegionPages \in Nat \ {0} /\ NumFrames \in Nat
  BY ZonesAssumption
<1>3. x.brk \in Pages
  <2>1. x.brk < e[2]
    BY <1>1, <1>2
  <2> QED BY <1>1, <2>1, PageIn
<1>4. y \in LoopState /\ y.large = x.large
  BY DEF Grew
<1>5. CASE y.halted /\ y.brk = x.brk
  BY <1>1, <1>4, <1>5 DEF GrowInv
<1>6. CASE ~(y.halted /\ y.brk = x.brk)
  <2>1. ~x.halted /\ ~y.halted /\ y.brk = x.brk + s
    BY <1>1, <1>6 DEF Grew
  <2>2. PICK f \in x.free : /\ y.free = x.free \ {f}
                            /\ Mapped(x.pd, x.mapped, x.brk, f, x.large, y.pd, y.mapped)
    BY <1>6 DEF Grew
  <2>3. y.large => y.brk % RegionPages = 0
    <3>1. CASE y.large
      <4>1. s = RegionPages /\ x.brk % RegionPages = 0
        BY <1>1, <1>4, <3>1 DEF PageSize
      <4>2. (x.brk + RegionPages) % RegionPages = 0
        BY <4>1, <1>1, <1>2, Multiple
      <4> QED BY <2>1, <4>1, <4>2
    <3> QED BY <3>1
  <2>4. st.brk <= y.brk /\ y.brk <= st.brk + (k + s)
    BY <1>1, <2>1
  <2>5. ASSUME ok
        PROVE  /\ FramesOk(y.pd, y.mapped, y.free)
               /\ Kept(st.pd, st.mapped, y.pd, y.mapped)
               /\ \A p \in Pages : st.brk <= p /\ p < y.brk =>
                     st.mapped[p] = NotMapped /\ FilledOk(y.pd, y.mapped, p, y.large)
    <3>1. /\ FramesOk(x.pd, x.mapped, x.free)
          /\ Kept(st.pd, st.mapped, x.pd, x.mapped)
          /\ \A p \in Pages : st.brk <= p /\ p < x.brk =>
                st.mapped[p] = NotMapped /\ FilledOk(x.pd, x.mapped, p, x.large)
      BY <2>1, <2>5 DEF GrowInv
    <3>2. x.pd \in [Regions -> Entries] /\ x.mapped \in [Pages -> Contents]
      BY <1>1 DEF LoopState
    <3>3. FramesOk(y.pd, y.mapped, x.free \ {f})
      BY <1>1, <1>3, <2>2, <3>1, <3>2, MappedFrames
    <3>4. Kept(x.pd, x.mapped, y.pd, y.mapped) /\ Untouched(x.mapped, Covered(x.brk, x.large))
      BY <1>1, <1>3, <2>2, <3>1, <3>2, MappedKept
    <3>5. MapEffect(x.pd, x.mapped, x.brk, f, x.large, y.pd, y.mapped)
      BY <1>1, <1>3, <2>2, <3>2, MappedPages
    <3>6. Kept(st.pd, st.mapped, y.pd, y.mapped)
      BY <3>1, <3>4 DEF Kept
    <3>7. ASSUME NEW p \in Pages, st.brk <= p, p < y.brk
          PROVE  st.mapped[p] = NotMapped /\ FilledOk(y.pd, y.mapped, p, y.large)
      <4>1. p \in Nat
        BY PageRegion
      <4>2. CASE p < x.brk
        <5>1. st.mapped[p] = NotMapped /\ x.mapped[p] \in 1..NumFrames
              /\ (x.pd[p \div RegionPages] = "large" => x.large)
          BY <3>1, <3>7, <4>2 DEF FilledOk
        <5>2. x.mapped[p] # NotMapped
          BY <5>1 DEF NotMapped
        <5>3. y.mapped[p] = x.mapped[p] /\ y.pd[p \div RegionPages] = x.pd[p \div RegionPages]
          BY <3>4, <5>2 DEF Kept
        <5> QED BY <5>1, <5>3, <1>4 DEF FilledOk
      <4>3. CASE x.brk <= p
        <5>1. p \in Covered(x.brk, x.large)
          <6>1. CASE x.large
            <7>1. s = RegionPages
              BY <1>1, <6>1 DEF PageSize
            <7>2. PICK r : r = x.brk \div RegionPages
              OBVIOUS
            <7>3. x.brk = r * RegionPages
              BY <1>1, <1>2, <6>1, <7>2, Multiple
            <7>4. p \in x.brk..(x.brk + RegionPages - 1)
              BY <1>1, <1>2, <2>1, <3>7, <4>1, <4>3, <7>1
            <7> QED BY <6>1, <7>2, <7>3, <7>4 DEF Covered, PagesOf
          <6>2. CASE ~x.large
            <7>1. s = 1
              BY <1>1, <6>2 DEF PageSize
            <7>2. p = x.brk
              BY <1>1, <2>1, <3>7, <4>1, <4>3, <7>1
            <7> QED BY <6>2, <7>2 DEF Covered
          <6> QED BY <6>1, <6>2
        <5>2. x.mapped[p] = NotMapped
          BY <3>4, <5>1 DEF Untouched
        <5>3. st.mapped[p] = NotMapped
          BY <3>1, <5>2 DEF Kept
        <5>4. y.mapped[p] = f /\ p \div RegionPages = x.brk \div RegionPages
          BY <3>5, <5>1 DEF MapEffect
        <5>5. f \in 1..NumFrames
          BY <3>1, <2>2 DEF FramesOk
        <5>6. y.pd[p \div RegionPages] = IF x.large THEN "large" ELSE "table"
          BY <3>5, <5>4 DEF MapEffect
        <5>7. y.pd[p \div RegionPages] = "large" => y.large
          BY <5>6, <1>4
        <5> QED BY <5>3, <5>4, <5>5, <5>7 DEF FilledOk
      <4> QED BY <4>1, <4>2, <4>3, <1>1
    <3> QED BY <2>2, <3>3, <3>6, <3>7
  <2> QED BY <1>1, <1>4, <2>1, <2>3, <2>4, <2>5 DEF GrowInv
<1> QED BY <1>5, <1>6

(* increase() of n pages that fit below the end of a request. *)
LEMMA Grows ==
    ASSUME NEW e \in Extents, NEW st \in LoopState, NEW n \in Nat, NEW s, NEW ok,
           st.brk \in Nat, s = PageSize(st.large), st.brk + n * s <= e[2],
           st.large => st.brk % RegionPages = 0,
           ok => FramesOk(st.pd, st.mapped, st.free)
    PROVE  GrowInv(Times(n, GrowPage, st), st, n * s, ok)
<1> DEFINE D == [i \in 0..n |-> {x \in LoopState : GrowInv(x, st, i * s, ok)}]
<1>1. s \in Nat \ {0} /\ e[2] \in Nat
  BY PageSizeNat, ZonesAssumption
<1>2. st \in D[0]
  <2>1. GrowInv(st, st, 0, ok)
    <3>1. Kept(st.pd, st.mapped, st.pd, st.mapped)
      BY DEF Kept
    <3>2. \A p \in Pages : ~(st.brk <= p /\ p < st.brk)
      BY PageRegion
    <3>3. st.brk <= st.brk /\ st.brk <= st.brk + 0
      OBVIOUS
    <3> QED BY <3>1, <3>2, <3>3 DEF GrowInv
  <2>2. 0 * s = 0 /\ 0 \in 0..n
    BY <1>1
  <2> QED BY <2>1, <2>2
<1>3. ASSUME NEW i \in 0..n, i < n, NEW x \in D[i] PROVE GrowPage(x) \in D[i + 1]
  <2>1. i \in Nat /\ i + 1 \in 0..n
    BY <1>3
  <2>2. (i + 1) * s = i * s + s /\ i * s \in Nat /\ i * s + s <= n * s /\ n * s \in Nat
    BY <1>1, <1>3, <2>1, Rounds
  <2>3. x \in LoopState /\ GrowInv(x, st, i * s, ok)
    OBVIOUS
  <2>4. PICK k : k = i * s
    OBVIOUS
  <2>5. x.brk \in Pages
    <3>1. x.brk \in Int /\ st.brk <= x.brk /\ x.brk <= st.brk + k
      BY <2>3, <2>4 DEF GrowInv, LoopState
    <3>2. x.brk \in Nat /\ x.brk < e[2]
      BY <1>1, <2>2, <2>4, <3>1
    <3> QED BY <3>2, PageIn
  <2>6. PICK y : y = GrowPage(x)
    OBVIOUS
  <2>7. Grew(x, y)
    BY <2>3, <2>5, <2>6, GrowPageCases
  <2>8. st.brk + k + s <= e[2]
    BY <1>1, <2>2, <2>4
  <2>9. GrowInv(y, st, k + s, ok)
    BY <2>2, <2>3, <2>4, <2>7, <2>8, GrowStep
  <2>10. y \in LoopState
    BY <2>7 DEF Grew
  <2> QED BY <2>1, <2>2, <2>4, <2>6, <2>9, <2>10
<1>4. D[n] = {x \in LoopState : GrowInv(x, st, n * s, ok)}
  OBVIOUS
<1> HIDE DEF D
<1>5. Times(n, GrowPage, st) \in D[n]
  BY <1>2, <1>3, GrowLoop
<1> QED BY <1>4, <1>5

(* decrease() has led from st to x, at most k pages down. *)
ShrinkInv(x, st, k) ==
    /\ x \in LoopState /\ x.large = st.large
    /\ st.brk - k <= x.brk /\ x.brk <= st.brk
    /\ x.large => x.brk % RegionPages = 0

LEMMA ShrinkStep ==
    ASSUME NEW st \in LoopState, NEW k \in Nat, NEW s, NEW x, NEW y,
           ShrinkInv(x, st, k), s = PageSize(st.large), st.brk - k - s >= 0, Shrank(x, y)
    PROVE  ShrinkInv(y, st, k + s)
<1>1. /\ x \in LoopState /\ x.large = st.large /\ x.brk \in Int /\ s \in Nat \ {0} /\ st.brk \in Int
      /\ st.brk - k <= x.brk /\ x.brk <= st.brk /\ RegionPages \in Nat \ {0}
      /\ x.large => x.brk % RegionPages = 0
  BY PageSizeNat, ZonesAssumption DEF ShrinkInv, LoopState
<1>2. y \in LoopState /\ y.large = x.large
  BY DEF Shrank
<1>3. CASE y.brk = x.brk
  BY <1>1, <1>2, <1>3 DEF ShrinkInv
<1>4. CASE y.brk = x.brk - s
  <2>1. st.brk - (k + s) <= y.brk /\ y.brk <= st.brk
    BY <1>1, <1>4
  <2>2. ASSUME y.large PROVE y.brk % RegionPages = 0
    <3>1. s = RegionPages /\ x.brk % RegionPages = 0
      BY <1>1, <1>2, <2>2 DEF PageSize
    <3>2. x.brk \in Nat /\ x.brk - RegionPages >= 0
      BY <1>1, <3>1
    <3>3. (x.brk - RegionPages) % RegionPages = 0
      BY <1>1, <3>1, <3>2, Multiple
    <3> QED BY <1>4, <3>1, <3>3
  <2> QED BY <1>1, <1>2, <2>1, <2>2 DEF ShrinkInv
<1> QED BY <1>1, <1>3, <1>4 DEF Shrank

(* decrease() of n pages that are there, of a zone inside a request. *)
LEMMA Shrinks ==
    ASSUME NEW e \in Extents, NEW st \in LoopState, NEW n \in Nat, NEW s, NEW lo \in Nat,
           st.brk \in Nat, s = PageSize(st.large), lo + n * s <= st.brk, st.brk <= e[2],
           st.large => st.brk % RegionPages = 0
    PROVE  ShrinkInv(Times(n, ShrinkPage, st), st, n * s)
<1> DEFINE D == [i \in 0..n |-> {x \in LoopState : ShrinkInv(x, st, i * s)}]
<1>1. s \in Nat \ {0} /\ e[2] \in Nat
  BY PageSizeNat, ZonesAssumption
<1>2. st \in D[0]
  <2>1. ShrinkInv(st, st, 0)
    BY DEF ShrinkInv
  <2>2. 0 * s = 0 /\ 0 \in 0..n
    BY <1>1
  <2> QED BY <2>1, <2>2
<1>3. ASSUME NEW i \in 0..n, i < n, NEW x \in D[i] PROVE ShrinkPage(x) \in D[i + 1]
  <2>1. i \in Nat /\ i + 1 \in 0..n
    BY <1>3
  <2>2. (i + 1) * s = i * s + s /\ i * s \in Nat /\ i * s + s <= n * s /\ n * s \in Nat
    BY <1>1, <1>3, <2>1, Rounds
  <2>3. x \in LoopState /\ ShrinkInv(x, st, i * s)
    OBVIOUS
  <2>4. PICK k : k = i * s
    OBVIOUS
  <2>5. x.brk - PageSize(x.large) \in Pages
    <3>1. x.brk \in Int /\ st.brk - k <= x.brk /\ x.brk <= st.brk /\ PageSize(x.large) = s
      BY <2>3, <2>4 DEF ShrinkInv, LoopState
    <3>2. x.brk - s \in Nat /\ x.brk - s < e[2]
      BY <1>1, <2>2, <2>4, <3>1
    <3> QED BY <3>1, <3>2, PageIn
  <2>6. PICK y : y = ShrinkPage(x)
    OBVIOUS
  <2>7. Shrank(x, y)
    BY <2>3, <2>5, <2>6, ShrinkPageCases
  <2>8. st.brk - k - s >= 0
    BY <1>1, <2>2, <2>4
  <2>9. ShrinkInv(y, st, k + s)
    BY <2>2, <2>3, <2>4, <2>7, <2>8, ShrinkStep
  <2>10. y \in LoopState
    BY <2>7 DEF Shrank
  <2> QED BY <2>1, <2>2, <2>4, <2>6, <2>9, <2>10
<1>4. D[n] = {x \in LoopState : ShrinkInv(x, st, n * s)}
  OBVIOUS
<1> HIDE DEF D
<1>5. Times(n, ShrinkPage, st) \in D[n]
  BY <1>2, <1>3, ShrinkLoop
<1> QED BY <1>4, <1>5
-----------------------------------------------------------------------------
(* The loop of define() finds an unset zone when there is one. *)
LEMMA FreeZoneUnset ==
    ASSUME \E z \in Zone : Unset(z)
    PROVE  FreeZone \in Zone /\ Unset(FreeZone)
<1> DEFINE S == {z \in Zone : Unset(z)}
           N == {MAX_VZONES - z : z \in S}
<1>1. MAX_VZONES \in Nat /\ \A z \in S : z \in Nat /\ z <= MAX_VZONES
  BY ZonesAssumption DEF Zone
<1>2. N \subseteq Nat /\ N # {}
  BY <1>1
<1>3. PICK d : d = Smallest(N)
  OBVIOUS
<1>4. d \in N /\ \A c \in N : d <= c
  <2> HIDE DEF N
  <2>1. \E b \in N : \A c \in N : b <= c
    BY <1>2, SmallestOf
  <2> QED BY <1>3, <2>1 DEF Smallest
<1>5. PICK v \in S : d = MAX_VZONES - v
  BY <1>4
<1>6. ASSUME NEW y \in S PROVE y <= v
  <2>1. d <= MAX_VZONES - y
    BY <1>4
  <2> QED BY <1>1, <1>5, <2>1
<1>7. v \in Zone /\ Unset(v) /\ \A y \in Zone : Unset(y) => y <= v
  BY <1>6
<1> HIDE DEF S, N
<1> QED BY <1>7 DEF FreeZone

LEMMA ExtentNat == \A e \in Extents : e = <<e[1], e[2]>> /\ e[1] \in Nat /\ e[2] \in Nat /\ 0 < e[1] /\ e[1] < e[2]
  BY ZonesAssumption

(* The bounds of a zone that is set. *)
LEMMA SetZone ==
    ASSUME TypeOK, ZonesInv, NEW z \in Zone, ~Unset(z)
    PROVE  /\ zones[z].start \in Nat /\ zones[z].end \in Nat
           /\ 0 < zones[z].start /\ zones[z].start < zones[z].end
           /\ \E e \in Extents : e[1] = zones[z].start /\ e[2] = zones[z].end
<1>1. PICK e \in Extents : e = <<zones[z].start, zones[z].end>>
  BY DEF ZonesInv
<1>2. e[1] = zones[z].start /\ e[2] = zones[z].end
  BY <1>1
<1> QED BY <1>2, ExtentNat

(* What define() does to the zones, also as LocalApic::init() calls it. *)
LEMMA ZoneDefined ==
    ASSUME IInv, NEW e \in Extents, Definable(e[1], e[2]), NEW v, v = FreeZone, NEW u \in BOOLEAN,
           zones' = [zones EXCEPT ![v] = [start |-> e[1], end |-> e[2], use |-> u]],
           allocators' = allocators
    PROVE  /\ zones' \in [Zone -> [start : Nat, end : Nat, use : BOOLEAN]]
           /\ \A z \in Zone : allocators'[z] # None => ~Unset(z)' /\ zones'[z].use
           /\ ZonesInv' /\ OverlapInv' /\ BreakInv'
           /\ \A z \in Zone : Filled(z)' = Filled(z)
<1>1. v \in Zone /\ Unset(v)
  BY FreeZoneUnset DEF Definable
<1>2. e[1] \in Nat /\ e[2] \in Nat /\ 0 < e[1] /\ e[1] < e[2] /\ e = <<e[1], e[2]>>
  BY ExtentNat
<1>3. TypeOK /\ ZonesInv /\ OverlapInv /\ BreakInv
  BY DEF IInv
<1>4. /\ zones' \in [Zone -> [start : Nat, end : Nat, use : BOOLEAN]]
      /\ zones'[v].start = e[1] /\ zones'[v].end = e[2]
      /\ \A z \in Zone : z # v => zones'[z] = zones[z]
  BY <1>1, <1>2, <1>3 DEF TypeOK
<1>5. allocators[v] = None
  BY <1>1, <1>3 DEF TypeOK
<1>6. /\ \A z \in Zone : z # v => (Unset(z)' <=> Unset(z))
      /\ ~Unset(v)'
  BY <1>2, <1>4 DEF Unset
<1>7. \A z \in Zone : allocators'[z] # None => ~Unset(z)' /\ zones'[z].use
  BY <1>3, <1>4, <1>5, <1>6 DEF TypeOK
<1>8. ZonesInv'
  BY <1>1, <1>2, <1>3, <1>4, <1>6 DEF ZonesInv
<1>9. ASSUME NEW z \in Zone, z # v, ~Unset(z)
      PROVE  (Apart(v, z) \/ Inside(v, z))' /\ (Apart(z, v) \/ Inside(v, z))'
  <2>1. /\ zones[z].start \in Nat /\ zones[z].end \in Nat /\ zones[z].start < zones[z].end
    BY <1>3, <1>9, SetZone
  <2>2. ~Collides(z, e[1], e[2])
    BY <1>9 DEF Definable
  <2>3. zones'[z] = zones[z]
    BY <1>4, <1>9
  <2> QED BY <1>2, <1>4, <2>1, <2>2, <2>3 DEF Collides, Apart, Inside
<1>10. OverlapInv'
  <2> SUFFICES ASSUME NEW y \in Zone, NEW z \in Zone, y # z, ~Unset(y)', ~Unset(z)'
               PROVE  (Apart(y, z) \/ Inside(y, z) \/ Inside(z, y))'
    BY DEF OverlapInv
  <2>1. CASE y = v
    BY <1>6, <1>9, <2>1
  <2>2. CASE z = v
    BY <1>6, <1>9, <2>2
  <2>3. CASE y # v /\ z # v
    <3>1. Apart(y, z) \/ Inside(y, z) \/ Inside(z, y)
      BY <1>3, <1>6, <2>3 DEF OverlapInv
    <3> QED BY <1>4, <2>3, <3>1 DEF Apart, Inside
  <2> QED BY <2>1, <2>2, <2>3
<1>11. BreakInv'
  BY <1>3, <1>4, <1>5 DEF BreakInv
<1>12. \A z \in Zone : Filled(z)' = Filled(z)
  BY <1>4, <1>5 DEF Filled
<1> QED BY <1>4, <1>7, <1>8, <1>10, <1>11, <1>12
-----------------------------------------------------------------------------
LEMMA InitIInv == Init => IInv
<1> SUFFICES ASSUME Init PROVE IInv
  OBVIOUS
<1>1. /\ \A z \in Zone : Unset(z) /\ allocators[z] = None /\ Filled(z) = {}
      /\ NumFrames \in Nat
  BY ZonesAssumption DEF Init, Unset, Filled
<1>2. TypeOK
  <2>1. mapped \in [Pages -> 0..NumFrames \cup {Device, NotMapped}]
    BY DEF Init
  <2>2. allocators \in [Zone -> [brk : Nat, large : BOOLEAN]]
    BY DEF Init, None
  <2>3. /\ zones \in [Zone -> [start : Nat, end : Nat, use : BOOLEAN]]
        /\ pd \in [Regions -> {"none", "table", "large"}]
    BY DEF Init
  <2>4. free \subseteq 0..NumFrames \cup {Device}
    BY <1>1 DEF Init
  <2>5. halted \in BOOLEAN /\ shrunk \in BOOLEAN
    BY DEF Init
  <2> QED BY <1>1, <2>1, <2>2, <2>3, <2>4, <2>5, Zenon DEF TypeOK
<1>3. ZonesInv /\ OverlapInv /\ BreakInv /\ FilledInv
  BY <1>1 DEF ZonesInv, OverlapInv, BreakInv, FilledInv
<1>4. FramesOk(pd, mapped, free)
  <2>1. \A p \in Pages : mapped[p] = NotMapped /\ NotMapped \notin 1..NumFrames
    BY DEF Init, NotMapped
  <2> QED BY <2>1 DEF Init, FramesOk
<1> QED BY <1>2, <1>3, <1>4 DEF IInv

LEMMA DefineStep ==
    ASSUME IInv, NEW e \in Extents, define(e[1], e[2])
    PROVE  IInv'
<1>1. PICK v : v = FreeZone
  OBVIOUS
<1>2. TypeOK /\ v \in Zone
  BY <1>1, FreeZoneUnset DEF IInv, define, Definable
<1>3. PICK u : u = zones[v].use
  OBVIOUS
<1>4. u \in BOOLEAN
  BY <1>2, <1>3 DEF TypeOK
<1>5. zones' = [zones EXCEPT ![v] = [start |-> e[1], end |-> e[2], use |-> u]]
  <2>1. PICK Z : Z = zones
    OBVIOUS
  <2>2. PICK s : s = e[1]
    OBVIOUS
  <2>3. PICK t : t = e[2]
    OBVIOUS
  <2>4. Z \in [Zone -> [start : Nat, end : Nat, use : BOOLEAN]]
    BY <1>2, <2>1 DEF TypeOK
  <2>5. PICK w : w = [start |-> s, end |-> t, use |-> u]
    OBVIOUS
  <2>6. [[Z[v] EXCEPT !.start = s] EXCEPT !.end = t] = w
    <3>1. PICK a : a = Z[v]
      OBVIOUS
    <3>2. a \in [start : Nat, end : Nat, use : BOOLEAN] /\ a.use = u
      BY <1>2, <1>3, <2>1, <2>4, <3>1
    <3>3. PICK b : b = [a EXCEPT !.start = s]
      OBVIOUS
    <3>4. b = [start |-> s, end |-> a.end, use |-> u]
      BY <3>2, <3>3
    <3>5. [b EXCEPT !.end = t] = [start |-> s, end |-> t, use |-> u]
      BY <3>4
    <3> QED BY <2>5, <3>1, <3>3, <3>5
  <2>7. [Z EXCEPT ![v].start = s, ![v].end = t] = [Z EXCEPT ![v] = w]
    BY <1>2, <2>4, <2>6
  <2>8. zones' = [Z EXCEPT ![v].start = s, ![v].end = t]
    BY <1>1, <2>1, <2>2, <2>3 DEF define
  <2> QED BY <2>1, <2>2, <2>3, <2>5, <2>7, <2>8
<1>6. /\ allocators' = allocators /\ pd' = pd /\ mapped' = mapped /\ free' = free
      /\ halted' = halted /\ shrunk' = shrunk /\ Definable(e[1], e[2])
  BY DEF define
<1>7. /\ zones' \in [Zone -> [start : Nat, end : Nat, use : BOOLEAN]]
      /\ \A z \in Zone : allocators'[z] # None => ~Unset(z)' /\ zones'[z].use
      /\ ZonesInv' /\ OverlapInv' /\ BreakInv'
      /\ \A z \in Zone : Filled(z)' = Filled(z)
  BY <1>1, <1>4, <1>5, <1>6, ZoneDefined
<1>8. TypeOK'
  BY <1>2, <1>6, <1>7 DEF TypeOK
<1>9. FilledInv => FilledInv'
  BY <1>6, <1>7 DEF FilledInv, FilledOk
<1> QED BY <1>6, <1>7, <1>8, <1>9 DEF IInv, FramesOk

LEMMA RemoveStep ==
    ASSUME IInv, NEW z \in Zone, remove(z)
    PROVE  IInv'
<1>1. /\ TypeOK /\ ZonesInv /\ OverlapInv /\ BreakInv
      /\ pd' = pd /\ mapped' = mapped /\ free' = free /\ halted' = halted /\ shrunk' = shrunk
  BY DEF IInv, remove
<1>2. /\ zones' \in [Zone -> [start : Nat, end : Nat, use : BOOLEAN]]
      /\ zones'[z].start = 0 /\ zones'[z].end = 0
      /\ \A y \in Zone : y # z => zones'[y] = zones[y]
  BY <1>1 DEF remove, TypeOK
<1>3. /\ allocators' \in [Zone -> [brk : Nat, large : BOOLEAN]]
      /\ allocators'[z] = None
      /\ \A y \in Zone : y # z => allocators'[y] = allocators[y]
  <2>1. None \in [brk : Nat, large : BOOLEAN]
    BY DEF None
  <2> QED BY <1>1, <2>1 DEF remove, TypeOK
<1>4. Unset(z)' /\ \A y \in Zone : y # z => (Unset(y)' <=> Unset(y))
  BY <1>2 DEF Unset
<1>5. TypeOK'
  BY <1>1, <1>2, <1>3, <1>4 DEF TypeOK
<1>6. ZonesInv' /\ BreakInv'
  BY <1>1, <1>2, <1>3, <1>4 DEF ZonesInv, BreakInv
<1>7. OverlapInv'
  BY <1>1, <1>2, <1>4 DEF OverlapInv, Apart, Inside
<1>8. Filled(z)' = {} /\ \A y \in Zone : y # z => Filled(y)' = Filled(y)
  BY <1>2, <1>3 DEF Filled
<1>9. FilledInv => FilledInv'
  BY <1>1, <1>3, <1>8 DEF FilledInv, FilledOk
<1> QED BY <1>1, <1>5, <1>6, <1>7, <1>9 DEF IInv, FramesOk

LEMMA NewAllocatorStep ==
    ASSUME IInv, NEW z \in Zone, NEW large \in BOOLEAN, NewAllocator(z, large)
    PROVE  IInv'
<1>1. /\ TypeOK /\ ZonesInv /\ OverlapInv /\ BreakInv /\ ~Unset(z) /\ (large => Aligned(z))
      /\ pd' = pd /\ mapped' = mapped /\ free' = free /\ shrunk' = shrunk
  BY DEF IInv, NewAllocator
<1>2. CASE zones[z].use
  <2>1. halted' /\ halted' \in BOOLEAN /\ zones' = zones /\ allocators' = allocators
    BY <1>2 DEF NewAllocator
  <2>2. TypeOK'
    BY <1>1, <2>1 DEF TypeOK, Unset
  <2>3. ZonesInv' /\ BreakInv' /\ OverlapInv'
    BY <1>1, <2>1 DEF ZonesInv, BreakInv, OverlapInv, Unset, Apart, Inside
  <2> QED BY <2>1, <2>2, <2>3 DEF IInv
<1>3. CASE ~zones[z].use
  <2>1. /\ allocators' = [allocators EXCEPT ![z] = [brk |-> zones[z].start, large |-> large]]
        /\ zones' = [zones EXCEPT ![z].use = TRUE]
        /\ halted' = halted
    BY <1>3 DEF NewAllocator
  <2>2. zones[z].start \in Nat /\ zones[z].end \in Nat /\ zones[z].start < zones[z].end
    BY <1>1, SetZone
  <2>3. /\ zones' \in [Zone -> [start : Nat, end : Nat, use : BOOLEAN]] /\ zones'[z].use
        /\ \A y \in Zone : zones'[y].start = zones[y].start /\ zones'[y].end = zones[y].end
        /\ \A y \in Zone : y # z => zones'[y] = zones[y]
    BY <1>1, <2>1 DEF TypeOK
  <2>4. /\ allocators' \in [Zone -> [brk : Nat, large : BOOLEAN]]
        /\ allocators'[z].brk = zones[z].start /\ allocators'[z].large = large
        /\ \A y \in Zone : y # z => allocators'[y] = allocators[y]
    BY <1>1, <2>1, <2>2 DEF TypeOK
  <2>5. \A y \in Zone : Unset(y)' <=> Unset(y)
    BY <2>3 DEF Unset
  <2>6. TypeOK'
    BY <1>1, <2>1, <2>3, <2>4, <2>5 DEF TypeOK
  <2>7. ZonesInv' /\ OverlapInv'
    BY <1>1, <2>3, <2>5 DEF ZonesInv, OverlapInv, Apart, Inside
  <2>8. BreakInv'
    <3> SUFFICES ASSUME NEW y \in Zone, allocators'[y] # None
                 PROVE  /\ zones'[y].start <= allocators'[y].brk /\ allocators'[y].brk <= zones'[y].end
                        /\ allocators'[y].large => allocators'[y].brk % RegionPages = 0
      BY DEF BreakInv
    <3>1. CASE y = z
      BY <1>1, <2>2, <2>3, <2>4, <3>1 DEF Aligned
    <3>2. CASE y # z
      BY <1>1, <2>3, <2>4, <3>2 DEF BreakInv
    <3> QED BY <3>1, <3>2
  <2>9. Filled(z)' = {}
    <3>1. \A p \in Pages : p \in Nat
      BY PageRegion
    <3> QED BY <2>2, <2>3, <2>4, <3>1 DEF Filled
  <2>10. \A y \in Zone : y # z => Filled(y)' = Filled(y)
    BY <2>3, <2>4 DEF Filled
  <2>11. FilledInv => FilledInv'
    BY <1>1, <2>4, <2>9, <2>10 DEF FilledInv, FilledOk
  <2> QED BY <1>1, <2>1, <2>6, <2>7, <2>8, <2>11 DEF IInv, FramesOk
<1> QED BY <1>2, <1>3

LEMMA FilledKept ==
    ASSUME NEW d, NEW m, NEW d1, NEW m1, NEW p \in Pages, NEW large,
           FilledOk(d, m, p, large), Kept(d, m, d1, m1)
    PROVE  FilledOk(d1, m1, p, large) /\ m[p] # NotMapped
  BY ZonesAssumption DEF FilledOk, Kept, NotMapped

LEMMA MapDeviceStep ==
    ASSUME IInv, NEW e \in Extents, mapDevice(e[1], e[2])
    PROVE  IInv'
<1>1. PICK v : v = FreeZone
  OBVIOUS
<1>2. PICK s0 : s0 = [pd |-> pd, mapped |-> mapped, halted |-> FALSE]
  OBVIOUS
<1>3. PICK st : st = Map(s0, e[1], Device, FALSE)
  OBVIOUS
<1>4. /\ zones' = [zones EXCEPT ![v] = [start |-> e[1], end |-> e[2], use |-> TRUE]]
      /\ allocators' = allocators /\ free' = free /\ shrunk' = shrunk /\ Definable(e[1], e[2])
      /\ pd' = st.pd /\ mapped' = st.mapped /\ halted' = st.halted /\ ~halted
  BY <1>1, <1>2, <1>3 DEF mapDevice
<1>5. /\ zones' \in [Zone -> [start : Nat, end : Nat, use : BOOLEAN]]
      /\ \A z \in Zone : allocators'[z] # None => ~Unset(z)' /\ zones'[z].use
      /\ ZonesInv' /\ OverlapInv' /\ BreakInv'
      /\ \A z \in Zone : Filled(z)' = Filled(z)
  BY <1>1, <1>4, ZoneDefined
<1>6. TypeOK
  BY DEF IInv
<1>7. e[1] \in Pages
  BY ExtentNat, PageIn
<1>8. pd \in [Regions -> Entries] /\ mapped \in [Pages -> Contents]
  BY <1>6 DEF TypeOK, Entries, Contents
<1>9. CASE Present(s0, e[1], FALSE)
  <2>1. st = [s0 EXCEPT !.halted = TRUE]
    BY <1>3, <1>9 DEF Map
  <2>2. pd' = pd /\ mapped' = mapped /\ halted' = TRUE
    BY <1>2, <1>4, <2>1
  <2>3. TypeOK'
    BY <1>4, <1>5, <1>6, <2>2 DEF TypeOK
  <2> QED BY <1>5, <2>2, <2>3 DEF IInv
<1>10. CASE ~Present(s0, e[1], FALSE)
  <2>1. PICK r : r = e[1] \div RegionPages
    OBVIOUS
  <2>2. PICK d1 : d1 = [pd EXCEPT ![r] = "table"]
    OBVIOUS
  <2>3. PICK m1 : m1 = [q \in Pages |-> IF q \in {e[1]} THEN Device ELSE mapped[q]]
    OBVIOUS
  <2>4. st = [pd |-> d1, mapped |-> m1, halted |-> FALSE]
    BY <1>2, <1>3, <1>10, <2>1, <2>2, <2>3 DEF Map
  <2>5. pd' = d1 /\ mapped' = m1 /\ halted' = FALSE
    BY <1>4, <2>4
  <2>6. pd[r] # "large" /\ mapped[e[1]] = NotMapped
    BY <1>2, <1>10, <2>1 DEF Present
  <2>7. Mapped(pd, mapped, e[1], Device, FALSE, d1, m1)
    BY <2>1, <2>2, <2>3, <2>6 DEF Mapped
  <2>8. d1 \in [Regions -> {"none", "table", "large"}] /\ m1 \in [Pages -> 0..NumFrames \cup {Device, NotMapped}]
    BY <1>6, <2>2, <2>3 DEF TypeOK
  <2>9. TypeOK'
    BY <1>4, <1>5, <1>6, <2>5, <2>8 DEF TypeOK
  <2>10. ASSUME ~shrunk PROVE FramesOk(d1, m1, free) /\ FilledInv'
    <3>1. FramesOk(pd, mapped, free) /\ FilledInv
      BY <1>4, <2>10 DEF IInv
    <3>2. FramesOk(d1, m1, free \ {Device})
      BY <1>7, <1>8, <2>7, <3>1, MappedFrames
    <3>3. free \ {Device} = free
      BY <3>1, ZonesAssumption DEF FramesOk
    <3>4. Kept(pd, mapped, d1, m1)
      BY <1>7, <1>8, <2>7, <3>1, MappedKept
    <3>5. ASSUME NEW z \in Zone, NEW p \in Filled(z)
          PROVE  FilledOk(d1, m1, p, allocators[z].large)
      <4>1. p \in Pages
        BY <3>5 DEF Filled
      <4>2. FilledOk(pd, mapped, p, allocators[z].large)
        BY <3>1, <3>5 DEF FilledInv
      <4> QED BY <3>4, <4>1, <4>2, FilledKept
    <3>6. FilledInv'
      BY <1>4, <1>5, <2>5, <3>1, <3>5 DEF FilledInv
    <3> QED BY <3>2, <3>3, <3>6
  <2> QED BY <1>4, <1>5, <2>5, <2>9, <2>10 DEF IInv
<1> QED BY <1>9, <1>10

(* What increase() and decrease() start from. *)
LEMMA StateTyped ==
    ASSUME IInv, NEW z \in Zone, allocators[z] # None
    PROVE  /\ State(z) \in LoopState
           /\ State(z).pd = pd /\ State(z).mapped = mapped /\ State(z).free = free
           /\ State(z).halted = FALSE /\ State(z).brk = allocators[z].brk
           /\ State(z).large = allocators[z].large
           /\ State(z).brk \in Nat /\ (State(z).large => State(z).brk % RegionPages = 0)
<1>1. TypeOK /\ BreakInv
  BY DEF IInv
<1>2. /\ pd \in [Regions -> Entries] /\ mapped \in [Pages -> Contents]
      /\ free \in SUBSET (0..NumFrames \cup {Device})
      /\ allocators[z].brk \in Nat /\ allocators[z].large \in BOOLEAN
  BY <1>1 DEF TypeOK, Entries, Contents
<1>3. State(z) \in LoopState
  BY <1>2 DEF State, LoopState
<1>4. allocators[z].large => allocators[z].brk % RegionPages = 0
  BY <1>1 DEF BreakInv
<1> QED BY <1>2, <1>3, <1>4 DEF State

(* The fields of a state with a break in the zone, written back. *)
LEMMA Applied ==
    ASSUME IInv, NEW z \in Zone, allocators[z] # None, NEW t \in LoopState, Apply(z, t),
           shrunk' \in BOOLEAN, t.large = allocators[z].large,
           zones[z].start <= t.brk, t.brk <= zones[z].end,
           t.large => t.brk % RegionPages = 0
    PROVE  /\ TypeOK' /\ ZonesInv' /\ OverlapInv' /\ BreakInv'
           /\ allocators'[z].brk = t.brk /\ allocators'[z].large = t.large /\ allocators'[z] # None
           /\ \A y \in Zone : y # z => allocators'[y] = allocators[y]
<1>1. TypeOK /\ ZonesInv /\ OverlapInv /\ BreakInv
  BY DEF IInv
<1>2. /\ pd' = t.pd /\ mapped' = t.mapped /\ free' = t.free /\ halted' = t.halted /\ zones' = zones
      /\ allocators' = [allocators EXCEPT ![z].brk = t.brk]
  BY DEF Apply
<1>3. ~Unset(z) /\ zones[z].use
  BY <1>1 DEF TypeOK
<1>4. zones[z].start \in Nat /\ 0 < zones[z].start
  BY <1>1, <1>3, SetZone
<1>5. t.brk \in Nat /\ t.brk # 0
  BY <1>4 DEF LoopState
<1>6. /\ allocators' \in [Zone -> [brk : Nat, large : BOOLEAN]]
      /\ allocators'[z].brk = t.brk /\ allocators'[z].large = allocators[z].large
      /\ \A y \in Zone : y # z => allocators'[y] = allocators[y]
  BY <1>1, <1>2, <1>5 DEF TypeOK
<1>7. allocators'[z] # None
  BY <1>5, <1>6 DEF None
<1>8. TypeOK'
  <2>1. \A y \in Zone : allocators'[y] # None => ~Unset(y)' /\ zones'[y].use
    BY <1>1, <1>2, <1>3, <1>6 DEF TypeOK, Unset
  <2>2. /\ pd' \in [Regions -> {"none", "table", "large"}]
        /\ mapped' \in [Pages -> 0..NumFrames \cup {Device, NotMapped}]
        /\ free' \subseteq 0..NumFrames \cup {Device}
        /\ halted' \in BOOLEAN
    BY <1>2 DEF LoopState, Entries, Contents
  <2>3. zones' \in [Zone -> [start : Nat, end : Nat, use : BOOLEAN]]
    BY <1>1, <1>2 DEF TypeOK
  <2> QED BY <1>6, <2>1, <2>2, <2>3 DEF TypeOK
<1>9. ZonesInv' /\ OverlapInv'
  BY <1>1, <1>2 DEF ZonesInv, OverlapInv, Unset, Apart, Inside
<1>10. BreakInv'
  BY <1>1, <1>2, <1>6 DEF BreakInv
<1> QED BY <1>6, <1>7, <1>8, <1>9, <1>10

LEMMA IncreaseStep ==
    ASSUME IInv, NEW z \in Zone, NEW n \in Nat, increase(z, n)
    PROVE  IInv'
<1>1. TypeOK /\ ZonesInv /\ BreakInv /\ ~halted /\ allocators[z] # None /\ Room(z, n) /\ shrunk' = shrunk
  BY DEF IInv, increase
<1>2. ~Unset(z)
  BY <1>1 DEF TypeOK
<1>3. /\ zones[z].start \in Nat /\ zones[z].end \in Nat
      /\ \E e \in Extents : e[1] = zones[z].start /\ e[2] = zones[z].end
  BY <1>1, <1>2, SetZone
<1>4. PICK e \in Extents : e[2] = zones[z].end
  BY <1>3
<1>5. PICK st : st = State(z)
  OBVIOUS
<1>6. /\ st \in LoopState /\ st.pd = pd /\ st.mapped = mapped /\ st.free = free
      /\ st.brk = allocators[z].brk /\ st.large = allocators[z].large
      /\ st.brk \in Nat /\ (st.large => st.brk % RegionPages = 0)
  BY <1>1, <1>5, StateTyped
<1>7. PICK s : s = PageSize(st.large)
  OBVIOUS
<1>8. st.brk + n * s <= e[2]
  BY <1>1, <1>4, <1>6, <1>7 DEF Room
<1>9. PICK ok : ok = ~shrunk
  OBVIOUS
<1>10. ok => FramesOk(st.pd, st.mapped, st.free)
  BY <1>1, <1>6, <1>9 DEF IInv
<1>11. PICK t : t = Times(n, GrowPage, st)
  OBVIOUS
<1>12. GrowInv(t, st, n * s, ok)
  BY <1>6, <1>7, <1>8, <1>10, <1>11, Grows
<1>13. Apply(z, t)
  BY <1>5, <1>11 DEF increase
<1>14. /\ t \in LoopState /\ t.large = allocators[z].large /\ t.brk \in Int
       /\ st.brk <= t.brk /\ t.brk <= st.brk + n * s
       /\ t.large => t.brk % RegionPages = 0
  BY <1>6, <1>12 DEF GrowInv, LoopState
<1>15. zones[z].start <= t.brk /\ t.brk <= zones[z].end
  <2>1. zones[z].start <= st.brk
    BY <1>1, <1>6 DEF BreakInv
  <2>2. s \in Nat
    BY <1>7, PageSizeNat
  <2>3. n * s \in Nat
    BY <2>2
  <2>4. PICK k : k = n * s
    OBVIOUS
  <2> QED BY <1>3, <1>4, <1>6, <1>8, <1>14, <2>1, <2>3, <2>4
<1>16. shrunk' \in BOOLEAN
  BY <1>1 DEF TypeOK
<1>17. /\ TypeOK' /\ ZonesInv' /\ OverlapInv' /\ BreakInv'
       /\ allocators'[z].brk = t.brk /\ allocators'[z].large = t.large /\ allocators'[z] # None
       /\ \A y \in Zone : y # z => allocators'[y] = allocators[y]
  BY <1>1, <1>13, <1>14, <1>15, <1>16, Applied
<1>18. pd' = t.pd /\ mapped' = t.mapped /\ free' = t.free /\ halted' = t.halted /\ zones' = zones
  BY <1>13 DEF Apply
<1>19. ASSUME ~halted', ~shrunk' PROVE FramesOk(t.pd, t.mapped, t.free) /\ FilledInv'
  <2>1. FramesOk(pd, mapped, free) /\ FilledInv
    BY <1>1, <1>19 DEF IInv
  <2>2. /\ FramesOk(t.pd, t.mapped, t.free)
        /\ Kept(pd, mapped, t.pd, t.mapped)
        /\ \A p \in Pages : st.brk <= p /\ p < t.brk =>
              mapped[p] = NotMapped /\ FilledOk(t.pd, t.mapped, p, t.large)
    BY <1>1, <1>6, <1>9, <1>12, <1>18, <1>19 DEF GrowInv
  <2>3. \A y \in Zone : y # z => Filled(y)' = Filled(y)
    BY <1>17, <1>18 DEF Filled
  <2>4. ASSUME NEW p \in Filled(z)' PROVE p \in Pages /\ (p \in Filled(z) \/ (st.brk <= p /\ p < t.brk))
    <3>1. p \in Pages /\ zones[z].start <= p /\ p < t.brk
      BY <1>17, <1>18, <2>4 DEF Filled
    <3>2. p \in Nat
      BY <3>1, PageRegion
    <3> QED BY <1>1, <1>6, <3>1, <3>2 DEF Filled
  <2>5. ASSUME NEW y \in Zone, NEW p \in Filled(y)
        PROVE  /\ p \in Pages /\ mapped[p] # NotMapped
               /\ FilledOk(t.pd, t.mapped, p, allocators[y].large)
    <3>1. p \in Pages
      BY <2>5 DEF Filled
    <3>2. FilledOk(pd, mapped, p, allocators[y].large)
      BY <2>1, <2>5 DEF FilledInv
    <3> QED BY <2>2, <3>1, <3>2, FilledKept
  <2>6. ASSUME NEW y \in Zone, NEW p \in Filled(y)'
        PROVE  FilledOk(t.pd, t.mapped, p, allocators'[y].large)
    <3>1. CASE y # z
      BY <1>17, <2>3, <2>5, <2>6, <3>1
    <3>2. CASE y = z
      <4>1. allocators'[z].large = t.large /\ t.large = allocators[z].large
        BY <1>14, <1>17
      <4>2. p \in Pages /\ (p \in Filled(z) \/ (st.brk <= p /\ p < t.brk))
        BY <2>4, <2>6, <3>2
      <4> QED BY <2>2, <2>5, <3>2, <4>1, <4>2
    <3> QED BY <3>1, <3>2
  <2>7. ASSUME NEW y \in Zone, y # z PROVE Filled(y) \cap (Filled(z)') = {}
    <3>1. ASSUME NEW p \in Filled(y), p \in Filled(z)' PROVE FALSE
      <4>1. mapped[p] # NotMapped /\ p \in Pages
        BY <2>5, <3>1
      <4>2. p \notin Filled(z)
        BY <2>1, <2>7, <3>1 DEF FilledInv
      <4>3. st.brk <= p /\ p < t.brk
        BY <2>4, <3>1, <4>2
      <4> QED BY <2>2, <4>1, <4>3
    <3> QED BY <3>1
  <2>8. ASSUME NEW x \in Zone, NEW y \in Zone, x # y PROVE Filled(x)' \cap (Filled(y)') = {}
    <3>1. CASE x = z
      BY <2>3, <2>7, <2>8, <3>1
    <3>2. CASE y = z
      BY <2>3, <2>7, <2>8, <3>2
    <3>3. CASE x # z /\ y # z
      BY <2>1, <2>3, <2>8, <3>3 DEF FilledInv
    <3> QED BY <3>1, <3>2, <3>3
  <2>9. FilledInv'
    BY <1>18, <2>6, <2>8 DEF FilledInv
  <2> QED BY <2>2, <2>9
<1> QED BY <1>17, <1>18, <1>19 DEF IInv

LEMMA DecreaseStep ==
    ASSUME IInv, NEW z \in Zone, NEW n \in Nat, decrease(z, n)
    PROVE  IInv'
<1>1. TypeOK /\ ZonesInv /\ BreakInv /\ ~halted /\ allocators[z] # None /\ shrunk' = TRUE
  BY DEF IInv, decrease
<1>2. ~Unset(z)
  BY <1>1 DEF TypeOK
<1>3. /\ zones[z].start \in Nat /\ zones[z].end \in Nat
      /\ \E e \in Extents : e[1] = zones[z].start /\ e[2] = zones[z].end
  BY <1>1, <1>2, SetZone
<1>4. PICK e \in Extents : e[2] = zones[z].end
  BY <1>3
<1>5. PICK st : st = State(z)
  OBVIOUS
<1>6. /\ st \in LoopState /\ st.brk = allocators[z].brk /\ st.large = allocators[z].large
      /\ st.brk \in Nat /\ (st.large => st.brk % RegionPages = 0)
  BY <1>1, <1>5, StateTyped
<1>7. PICK s : s = PageSize(st.large)
  OBVIOUS
<1>8. s \in Nat \ {0}
  BY <1>7, PageSizeNat
<1>9. PICK lo : lo = zones[z].start
  OBVIOUS
<1>10. lo \in Nat /\ lo <= st.brk /\ st.brk <= e[2]
  BY <1>1, <1>3, <1>4, <1>6, <1>9 DEF BreakInv
<1>11. PICK k : k = Shrinkable(z, n)
  OBVIOUS
<1>12. k \in Nat /\ lo + k * s <= st.brk
  <2>1. k = IF st.brk - n * s < lo THEN (st.brk - lo) \div s ELSE n
    BY <1>6, <1>7, <1>9, <1>11 DEF Shrinkable
  <2>2. CASE st.brk - n * s < lo
    <3>1. st.brk - lo \in Nat
      BY <1>6, <1>10
    <3>2. k \in Nat /\ k * s <= st.brk - lo
      BY <1>8, <2>1, <2>2, <3>1, QuotientTimes
    <3>3. k * s \in Nat
      BY <1>8, <3>2
    <3> QED BY <1>6, <1>10, <3>2, <3>3
  <2>3. CASE ~(st.brk - n * s < lo)
    <3>1. n * s \in Nat
      BY <1>8
    <3> QED BY <1>6, <1>10, <2>1, <2>3, <3>1
  <2> QED BY <2>2, <2>3
<1>13. PICK t : t = Times(k, ShrinkPage, st)
  OBVIOUS
<1>14. ShrinkInv(t, st, k * s)
  BY <1>6, <1>7, <1>10, <1>12, <1>13, Shrinks
<1>15. Apply(z, t)
  BY <1>5, <1>11, <1>13 DEF decrease
<1>16. /\ t \in LoopState /\ t.large = allocators[z].large /\ t.brk \in Int
       /\ st.brk - k * s <= t.brk /\ t.brk <= st.brk
       /\ t.large => t.brk % RegionPages = 0
  BY <1>6, <1>14 DEF ShrinkInv, LoopState
<1>17. zones[z].start <= t.brk /\ t.brk <= zones[z].end
  <2>1. k * s \in Nat
    BY <1>8, <1>12
  <2>2. PICK c : c = k * s
    OBVIOUS
  <2> QED BY <1>3, <1>4, <1>6, <1>9, <1>10, <1>12, <1>16, <2>1, <2>2
<1>18. TypeOK' /\ ZonesInv' /\ OverlapInv' /\ BreakInv'
  BY <1>1, <1>15, <1>16, <1>17, Applied
<1> QED BY <1>1, <1>18 DEF IInv
-----------------------------------------------------------------------------
LEMMA NextIInv == IInv /\ [Next]_vars => IInv'
<1> SUFFICES ASSUME IInv, [Next]_vars PROVE IInv'
  OBVIOUS
<1>1. ASSUME NEW e \in Extents, define(e[1], e[2]) PROVE IInv'
  BY <1>1, DefineStep
<1>2. ASSUME NEW e \in Extents, mapDevice(e[1], e[2]) PROVE IInv'
  BY <1>2, MapDeviceStep
<1>3. ASSUME NEW z \in Zone, remove(z) PROVE IInv'
  BY <1>3, RemoveStep
<1>4. ASSUME NEW z \in Zone, NEW l \in BOOLEAN, NewAllocator(z, l) PROVE IInv'
  BY <1>4, NewAllocatorStep
<1>5. \A n \in 1..MaxIncrease : n \in Nat
  BY ZonesAssumption
<1>6. ASSUME NEW z \in Zone, NEW n \in 1..MaxIncrease, increase(z, n) PROVE IInv'
  BY <1>5, <1>6, IncreaseStep
<1>7. ASSUME NEW z \in Zone, NEW n \in 1..MaxIncrease, decrease(z, n) PROVE IInv'
  BY <1>5, <1>7, DecreaseStep
<1>8. CASE UNCHANGED vars
  <2>1. /\ zones' = zones /\ allocators' = allocators /\ pd' = pd /\ mapped' = mapped
        /\ free' = free /\ halted' = halted /\ shrunk' = shrunk
    BY <1>8 DEF vars
  <2>2. TypeOK'
    BY <2>1 DEF IInv, TypeOK, Unset
  <2>3. ZonesInv' /\ OverlapInv' /\ BreakInv'
    BY <2>1 DEF IInv, ZonesInv, OverlapInv, BreakInv, Unset, Apart, Inside
  <2>4. FilledInv => FilledInv'
    BY <2>1 DEF FilledInv, Filled, FilledOk
  <2> QED BY <2>1, <2>2, <2>3, <2>4 DEF IInv, FramesOk
<1>9. CASE Abort
  BY <1>8, <1>9 DEF Abort
<1> QED BY <1>1, <1>2, <1>3, <1>4, <1>6, <1>7, <1>8, <1>9 DEF Next

LEMMA SpecIInv == Spec => []IInv
<1> QED BY InitIInv, NextIInv, PTL DEF Spec

LEMMA IInvOverlap == IInv => OverlapOnlyInside
<1> SUFFICES ASSUME IInv, NEW y \in Zone, NEW z \in Zone, y # z, NEW p \in Extent(y), p \in Extent(z)
             PROVE  \/ zones[y].start < zones[z].start /\ zones[z].end < zones[y].end
                    \/ zones[z].start < zones[y].start /\ zones[y].end < zones[z].end
  BY DEF OverlapOnlyInside
<1>1. /\ p \in Pages /\ zones[y].start <= p /\ p < zones[y].end
      /\ zones[z].start <= p /\ p < zones[z].end
  BY DEF Extent
<1>2. p \in Nat
  BY <1>1, PageRegion
<1>3. ~Unset(y) /\ ~Unset(z)
  BY <1>1, <1>2 DEF Unset
<1>4. Apart(y, z) \/ Inside(y, z) \/ Inside(z, y)
  BY <1>3 DEF IInv, OverlapInv
<1>5. /\ zones[y].start \in Nat /\ zones[y].end \in Nat
      /\ zones[z].start \in Nat /\ zones[z].end \in Nat
  BY DEF IInv, TypeOK
<1> QED BY <1>1, <1>2, <1>4, <1>5 DEF Apart, Inside

LEMMA IInvFilled == IInv => FilledIsOwn
<1> SUFFICES ASSUME IInv, ~halted, ~shrunk, NEW z \in Zone, NEW p \in Filled(z)
             PROVE  /\ p \in Extent(z)
                    /\ mapped[p] \in 1..NumFrames \ free
                    /\ \A q \in Pages : mapped[q] = mapped[p] /\ q # p
                          => allocators[z].large /\ q \div RegionPages = p \div RegionPages
                    /\ \A y \in Zone \ {z} : p \notin Filled(y)
  BY DEF FilledIsOwn
<1>1. TypeOK /\ BreakInv /\ FramesOk(pd, mapped, free) /\ FilledInv
  BY DEF IInv
<1>2. allocators[z] # None /\ p \in Pages /\ zones[z].start <= p /\ p < allocators[z].brk
  BY DEF Filled
<1>3. p \in Extent(z)
  <2>1. p \in Nat
    BY <1>2, PageRegion
  <2>2. allocators[z].brk <= zones[z].end
    BY <1>1, <1>2 DEF BreakInv
  <2>3. allocators[z].brk \in Nat /\ zones[z].end \in Nat
    BY <1>1 DEF TypeOK
  <2> QED BY <1>2, <2>1, <2>2, <2>3 DEF Extent
<1>4. FilledOk(pd, mapped, p, allocators[z].large)
  BY <1>1 DEF FilledInv
<1>5. mapped[p] \in 1..NumFrames \ free
  <2>1. mapped[p] \in 1..NumFrames
    BY <1>4 DEF FilledOk
  <2>2. mapped[p] \notin {Device, NotMapped}
    BY <2>1, ZonesAssumption DEF NotMapped
  <2> QED BY <1>1, <1>2, <2>2 DEF FramesOk
<1>6. ASSUME NEW q \in Pages, mapped[q] = mapped[p], q # p
      PROVE  allocators[z].large /\ q \div RegionPages = p \div RegionPages
  <2>1. p \div RegionPages = q \div RegionPages /\ pd[p \div RegionPages] = "large"
    BY <1>1, <1>2, <1>5, <1>6 DEF FramesOk
  <2> QED BY <1>4, <2>1 DEF FilledOk
<1>7. \A y \in Zone \ {z} : p \notin Filled(y)
  BY <1>1 DEF FilledInv
<1> QED BY <1>3, <1>5, <1>6, <1>7

(* The zones, the allocators and the tables keep their types, and an allocator
   is in a zone that is set and marked used. *)
THEOREM SpecTypeOK == Spec => []TypeOK
<1>1. IInv => TypeOK
  BY DEF IInv
<1> QED BY <1>1, SpecIInv, PTL

(* VirtualZoneManager.cc 12-34: the test of define() against the edges of the
   zones there are leaves zones that are apart or strictly inside each other. *)
THEOREM SpecOverlapOnlyInside == Spec => []OverlapOnlyInside
<1> QED BY IInvOverlap, SpecIInv, PTL

(* BreakPageAllocator.cc 8-49: the break stays in the zone, whatever increase()
   and decrease() are asked for. *)
THEOREM SpecBreakInZone == Spec => []BreakInZone
<1>1. IInv => BreakInZone
  BY DEF IInv, BreakInv, BreakInZone
<1> QED BY <1>1, SpecIInv, PTL

(* BreakPageAllocator.cc 8-29: the pages an allocator has filled are in its
   zone and on frames of their own that are not free, and no other allocator
   has filled them, although zones may be inside each other. *)
THEOREM SpecFilledIsOwn == Spec => []FilledIsOwn
<1> QED BY IInvFilled, SpecIInv, PTL
=============================================================================
