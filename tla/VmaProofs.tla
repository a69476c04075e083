----------------------------- MODULE VmaProofs ------------------------------
(***************************************************************************)
(* Proofs about Vma, for address spaces and pages of every size: the list  *)
(* of areas stays sorted and without overlap through every mm_map, fork    *)
(* and exec, its cache stays harmless, and user_mem_check answers for      *)
(* every byte.                                                             *)
(***************************************************************************)
EXTENDS Vma, SequencesExt, SequenceTheorems, WellFoundedInduction,
        FiniteSetTheorems, TLAPS

-----------------------------------------------------------------------------
(* Positions in a list, and loops.                                         *)

\* A search from the head of a list stops at the first entry that will do.
LEMMA LeastExists ==
  ASSUME NEW S \in SUBSET Nat, S # {}
  PROVE  \E i \in S : \A j \in S : i <= j
<1>1. PICK i \in S : \A j \in S : <<j, i>> \notin OpToRel(<, Nat)
  BY NatLessThanWellFounded, WFMin
<1>2. \A j \in S : ~(j < i)
  BY <1>1 DEF OpToRel
<1> QED BY <1>2

\* What list_add_before the i-th entry does to positions.
LEMMA InsertBefore ==
  ASSUME NEW S, NEW s \in Seq(S), NEW i \in 1 .. Len(s) + 1, NEW e \in S
  PROVE  LET t == InsertAt(s, i, e)
         IN  /\ t \in Seq(S) /\ Len(t) = Len(s) + 1 /\ t[i] = e
             /\ \A k \in 1 .. i - 1 : t[k] = s[k]
             /\ \A k \in i + 1 .. Len(s) + 1 : t[k] = s[k - 1]
<1> DEFINE a == SubSeq(s, 1, i - 1)
           b == SubSeq(s, i, Len(s))
           c == Append(a, e)
<1>1. a \in Seq(S) /\ Len(a) = i - 1 /\ \A k \in 1 .. i - 1 : a[k] = s[k]
  OBVIOUS
<1>2. /\ b \in Seq(S) /\ Len(b) = Len(s) - i + 1
      /\ \A k \in 1 .. Len(s) - i + 1 : b[k] = s[i + k - 1]
  OBVIOUS
<1>3. InsertAt(s, i, e) = c \o b
  <2>1. a \o <<e>> = c
    BY <1>1, AppendIsConcat
  <2> QED BY <2>1 DEF InsertAt
<1> HIDE DEF a, b
<1>4. /\ c \in Seq(S) /\ Len(c) = i /\ c[i] = e
      /\ \A k \in 1 .. i - 1 : c[k] = a[k]
  <2>1. Len(a) + 1 = i
    BY <1>1
  <2> QED BY <1>1, <2>1, AppendProperties
<1> HIDE DEF c
<1>5. /\ c \o b \in Seq(S) /\ Len(c \o b) = Len(s) + 1
      /\ \A k \in 1 .. Len(s) + 1 : (c \o b)[k] = IF k <= i THEN c[k] ELSE b[k - i]
  <2>1. c \o b \in Seq(S) /\ Len(c \o b) = Len(c) + Len(b)
    BY <1>2, <1>4, ConcatProperties
  <2>2. \A k \in 1 .. Len(c) + Len(b) :
          (c \o b)[k] = IF k <= Len(c) THEN c[k] ELSE b[k - Len(c)]
    BY <1>2, <1>4, ConcatProperties
  <2>3. Len(c) + Len(b) = Len(s) + 1
    BY <1>2, <1>4
  <2> QED BY <1>4, <2>1, <2>2, <2>3
<1>6. (c \o b)[i] = e
  BY <1>4, <1>5
<1>7. \A k \in 1 .. i - 1 : (c \o b)[k] = s[k]
  BY <1>1, <1>4, <1>5
<1>8. \A k \in i + 1 .. Len(s) + 1 : (c \o b)[k] = s[k - 1]
  <2> SUFFICES ASSUME NEW k \in i + 1 .. Len(s) + 1 PROVE (c \o b)[k] = s[k - 1]
    OBVIOUS
  <2>1. k - i \in 1 .. Len(s) - i + 1 /\ i + (k - i) - 1 = k - 1
    OBVIOUS
  <2>2. (c \o b)[k] = b[k - i]
    BY <1>5
  <2> QED BY <1>2, <2>1, <2>2
<1> QED BY <1>3, <1>5, <1>6, <1>7, <1>8

\* Among what is left of several walks one is nearest its end.
LEMMA NearestExists ==
  ASSUME NEW D, NEW left \in [D -> Nat], NEW B \in SUBSET D, B # {}
  PROVE  \E x \in B : \A y \in B : left[x] <= left[y]
<1> DEFINE S == {left[x] : x \in B}
<1>1. S \in SUBSET Nat /\ S # {}
  OBVIOUS
<1>2. PICK i \in S : \A j \in S : i <= j
  BY <1>1, LeastExists
<1>3. PICK x \in B : left[x] = i
  OBVIOUS
<1> QED BY <1>2, <1>3

\* A loop over D: where it stops it has the value val, and elsewhere it makes of
\* what it has after its next turn its own value; each turn leaves fewer.
Loop(D, V, N, left, done, val, next, turn) ==
  /\ N \in Nat /\ left \in [D -> 0 .. N] /\ done \subseteq D
  /\ val \in [D -> V] /\ next \in [D -> D] /\ turn \in [D -> [V -> V]]
  /\ \A x \in D \ done : left[next[x]] < left[x]

Computes(g, D, V, done, val, next, turn) ==
  /\ g \in [D -> V]
  /\ \A x \in D : g[x] = IF x \in done THEN val[x] ELSE turn[x][g[next[x]]]

\* Such a loop computes something: the function that a recursive definition with
\* the same turns stands for.
LEMMA LoopComputes ==
  ASSUME NEW D, NEW V, NEW N, NEW left, NEW done, NEW val, NEW next, NEW turn,
         Loop(D, V, N, left, done, val, next, turn)
  PROVE  \E g : Computes(g, D, V, done, val, next, turn)
<1>0. /\ N \in Nat /\ left \in [D -> 0 .. N] /\ done \subseteq D
      /\ val \in [D -> V] /\ next \in [D -> D] /\ turn \in [D -> [V -> V]]
      /\ \A x \in D \ done : left[next[x]] < left[x]
  BY DEF Loop
<1> USE <1>0
<1> DEFINE Right(g, x) == g[x] = IF x \in done THEN val[x] ELSE turn[x][g[next[x]]]
           UpTo(n) == \E g \in [D -> V] : \A x \in D : left[x] < n => Right(g, x)
<1>1. UpTo(0)
  <2>1. \A x \in D : ~(left[x] < 0)
    OBVIOUS
  <2> QED BY <2>1
<1>2. ASSUME NEW n \in Nat, UpTo(n)
      PROVE  UpTo(n + 1)
  <2>1. PICK g \in [D -> V] : \A x \in D : left[x] < n => Right(g, x)
    BY <1>2
  <2> DEFINE h == [x \in D |-> IF x \in done THEN val[x] ELSE turn[x][g[next[x]]]]
  <2>2. h \in [D -> V]
    OBVIOUS
  <2>3. \A x \in D : left[x] < n => h[x] = g[x]
    BY <2>1
  <2>4. ASSUME NEW x \in D, left[x] < n + 1
        PROVE  Right(h, x)
    <3>1. CASE x \in done
      BY <3>1
    <3>2. CASE x \notin done
      <4>1. next[x] \in D /\ left[next[x]] < left[x]
        BY <3>2
      <4>2. left[next[x]] \in Nat /\ left[x] \in Nat
        BY <4>1
      <4>3. left[next[x]] < n
        BY <2>4, <4>1, <4>2
      <4>4. h[next[x]] = g[next[x]]
        BY <2>3, <4>1, <4>3
      <4>5. h[x] = turn[x][g[next[x]]]
        BY <3>2
      <4> QED BY <3>2, <4>4, <4>5
    <3> QED BY <3>1, <3>2
  <2> HIDE DEF h
  <2> QED BY <2>2, <2>4
<1> HIDE DEF UpTo
<1>3. \A n \in Nat : UpTo(n)
  <2> DEFINE Bad == {n \in Nat : ~UpTo(n)}
  <2>1. SUFFICES ASSUME Bad # {} PROVE FALSE
    OBVIOUS
  <2>2. PICK n \in Bad : \A k \in Bad : n <= k
    BY <2>1, LeastExists
  <2>3. n # 0
    BY <1>1
  <2>4. n - 1 \in Nat /\ n - 1 + 1 = n
    BY <2>3
  <2>5. UpTo(n - 1)
    BY <2>2, <2>4
  <2>6. UpTo(n - 1 + 1)
    BY <1>2, <2>4, <2>5
  <2> QED BY <2>4, <2>6
<1>4. UpTo(N + 1)
  BY <1>3
<1>5. \A x \in D : left[x] < N + 1
  OBVIOUS
<1> QED BY <1>4, <1>5 DEF UpTo, Computes

-----------------------------------------------------------------------------
\* The inductive invariant: the cache holds areas of the list only, so that what
\* find_vma takes from it is what the list has.
CacheIsListed == mmap_cache \subseteq ToSet(mmap_list)
IInv == TypeOK /\ AreasInOrder /\ CacheIsListed

-----------------------------------------------------------------------------
(* Addresses                                                               *)

\* A multiple of the page size smaller than a page is none at all.
LEMMA NoPageBetween ==
  ASSUME NEW P \in Nat \ {0}, NEW i \in Int, NEW j \in Int, NEW r \in 0 .. P - 1,
         P * i = P * j + r
  PROVE  r = 0
<1>1. PICK k \in Int : k = i - j
  OBVIOUS
<1>2. P * k = P * i - P * j
  BY <1>1
<1>3. PICK x \in Int, y \in Int : x = P * i /\ y = P * j
  OBVIOUS
<1>4. PICK z \in Int : z = P * k
  OBVIOUS
<1>5. z = r
  BY <1>2, <1>3, <1>4
<1>6. CASE k >= 1
  <2>1. P * k >= P
    BY <1>6
  <2> QED BY <1>4, <1>5, <2>1
<1>7. CASE k <= -1
  <2>1. P * k <= -P
    BY <1>7
  <2> QED BY <1>4, <1>5, <2>1
<1>8. CASE k = 0
  BY <1>4, <1>5, <1>8
<1> QED BY <1>6, <1>7, <1>8

\* ROUNDDOWN and ROUNDUP (defs.h) give page boundaries.
LEMMA RoundsToPages ==
  ASSUME NEW a \in Int
  PROVE  /\ RoundDown(a) \in Int /\ RoundDown(a) % PGSIZE = 0
         /\ RoundDown(a) <= a /\ a < RoundDown(a) + PGSIZE
         /\ RoundUp(a) \in Int /\ RoundUp(a) % PGSIZE = 0
<1> DEFINE P == PGSIZE
<1>1. P \in Nat \ {0}
  BY VmaAssumption
<1> HIDE DEF P
<1>2. ASSUME NEW x \in Int
      PROVE  /\ x - (x % P) \in Int /\ (x - (x % P)) % P = 0
             /\ x - (x % P) <= x /\ x < x - (x % P) + P
  <2>0. ASSUME NEW z \in Int
        PROVE  \E i \in Int, s \in 0 .. P - 1 : z = P * i + s /\ s = z % P
    <3>1. z \div P \in Int /\ z % P \in 0 .. P - 1
      BY <1>1
    <3>2. z = P * (z \div P) + (z % P)
      BY <1>1
    <3> QED BY <3>1, <3>2
  <2>1. PICK i \in Int, s \in 0 .. P - 1 : x = P * i + s /\ s = x % P
    BY <2>0
  <2>2. PICK y \in Int : y = x - s
    OBVIOUS
  <2>3. PICK j \in Int, r \in 0 .. P - 1 : y = P * j + r /\ r = y % P
    BY <2>0
  <2>4. P * i = P * j + r
    <3>1. PICK m \in Int, n \in Int : m = P * i /\ n = P * j
      BY <1>1
    <3> QED BY <2>1, <2>2, <2>3, <3>1
  <2>5. r = 0
    BY <1>1, <2>4, NoPageBetween
  <2>6. x - (x % P) = y
    BY <2>1, <2>2
  <2>7. y % P = 0
    BY <2>3, <2>5
  <2>8. y \in Int /\ y <= x /\ x < y + P
    BY <1>1, <2>2
  <2> QED BY <2>6, <2>7, <2>8
<1>3. PICK x \in Int : x = a + P - 1
  BY <1>1
<1>4. RoundDown(a) = a - (a % P) /\ RoundUp(a) = x - (x % P)
  BY ONLY <1>3 DEF RoundDown, RoundUp, P
<1>5. /\ RoundDown(a) \in Int /\ RoundDown(a) % P = 0
      /\ RoundDown(a) <= a /\ a < RoundDown(a) + P
  BY <1>2, <1>4, Zenon
<1>6. RoundUp(a) \in Int /\ RoundUp(a) % P = 0
  BY <1>2, <1>4, Zenon
<1> QED BY <1>5, <1>6 DEF P

-----------------------------------------------------------------------------
(* Lists of areas                                                          *)

\* A list that keeps the order of AreasInOrder, whichever it is.
Sorted(L) ==
  /\ L \in Seq(Area)
  /\ \A i \in DOMAIN L :
       /\ USER_ACCESS(L[i].vm_start, L[i].vm_end)
       /\ L[i].vm_start % PGSIZE = 0 /\ L[i].vm_end % PGSIZE = 0
  /\ \A i, j \in DOMAIN L : i < j => L[i].vm_end <= L[j].vm_start

LEMMA ListIsSorted == TypeOK /\ AreasInOrder <=> TypeOK /\ Sorted(mmap_list)
BY DEF TypeOK, AreasInOrder, Sorted

\* The bounds of a listed area are numbers of user memory.
LEMMA ListedArea ==
  ASSUME NEW L, Sorted(L), NEW i \in DOMAIN L
  PROVE  /\ L[i] \in Area /\ L[i].vm_start \in Byte /\ L[i].vm_end \in Byte
         /\ L[i].vm_start \in Nat /\ L[i].vm_end \in Nat
         /\ L[i].vm_start < L[i].vm_end /\ L[i].vm_end <= USERTOP
         /\ L[i].vm_flags \in Flags
<1>1. L[i] \in Area
  BY DEF Sorted
<1>2. Byte \subseteq Nat
  BY DEF Byte
<1>3. USER_ACCESS(L[i].vm_start, L[i].vm_end)
  BY DEF Sorted
<1> QED BY <1>1, <1>2, <1>3 DEF Area, USER_ACCESS

\* No address belongs to two areas.
LEMMA OneArea ==
  ASSUME NEW L, Sorted(L), NEW a \in Int, NEW u \in ToSet(L), NEW v \in ToSet(L),
         In(a, u), In(a, v)
  PROVE  u = v
<1>1. PICK i \in DOMAIN L, j \in DOMAIN L : u = L[i] /\ v = L[j]
  BY DEF ToSet
<1>2. i \in Int /\ j \in Int
  BY DEF Sorted
<1>3. CASE i < j
  BY <1>1, <1>3, ListedArea DEF Sorted, In
<1>4. CASE j < i
  BY <1>1, <1>4, ListedArea DEF Sorted, In
<1> QED BY <1>1, <1>2, <1>3, <1>4

\* find_vma, with a cache that holds areas of the list only, finds the area an
\* address belongs to and nothing else.
LEMMA FindIsExact ==
  ASSUME Sorted(mmap_list), NEW c \in SUBSET ToSet(mmap_list), NEW a \in Int
  PROVE  find_vma(a, c) = {vma \in ToSet(mmap_list) : In(a, vma)}
<1> DEFINE T == {vma \in ToSet(mmap_list) : In(a, vma)}
           found == {i \in DOMAIN mmap_list : In(a, mmap_list[i])}
<1>1. \A u, v \in T : u = v
  BY OneArea
<1>2. CASE Hits(a, c) # {}
  <2>1. Hits(a, c) \subseteq T
    BY DEF Hits
  <2>2. Hits(a, c) = T
    BY <1>1, <1>2, <2>1
  <2> QED BY <1>2, <2>2 DEF find_vma
<1>3. CASE Hits(a, c) = {}
  <2>1. CASE found = {}
    <3>1. T = {}
      BY <2>1 DEF ToSet
    <3>2. Listed(a) = {}
      BY <2>1 DEF Listed
    <3> QED BY <1>3, <3>1, <3>2 DEF find_vma
  <2>2. CASE found # {}
    <3>1. found \subseteq Nat
      BY DEF Sorted
    <3>2. \E i \in found : \A j \in found : i <= j
      BY <2>2, <3>1, LeastExists
    <3>3. Min(found) \in found
      BY <3>2 DEF Min
    <3> HIDE DEF found
    <3>4. Listed(a) = {mmap_list[Min(found)]}
      BY <2>2 DEF Listed, found
    <3>5. mmap_list[Min(found)] \in T
      BY <3>3 DEF found, ToSet
    <3> QED BY <1>1, <1>3, <3>4, <3>5 DEF find_vma
  <2> QED BY <2>1, <2>2
<1> QED BY <1>2, <1>3

\* So is what it leaves in the cache.
LEMMA CacheStaysListed ==
  ASSUME Sorted(mmap_list), NEW c \in SUBSET ToSet(mmap_list), NEW a \in Int
  PROVE  CacheAfter(a, c) \in SUBSET ToSet(mmap_list)
BY FindIsExact DEF CacheAfter

\* t is L with e put before the i-th entry.
Puts(t, L, i, e, S) ==
  /\ t \in Seq(S) /\ Len(t) = Len(L) + 1 /\ t[i] = e
  /\ \A k \in 1 .. i - 1 : t[k] = L[k]
  /\ \A k \in i + 1 .. Len(L) + 1 : t[k] = L[k - 1]

LEMMA InsertPuts ==
  ASSUME NEW S, NEW L \in Seq(S), NEW i \in 1 .. Len(L) + 1, NEW e \in S
  PROVE  Puts(InsertAt(L, i, e), L, i, e, S)
BY InsertBefore, SMT DEF Puts

\* insert_vma_struct's place: all before it do not start above the new area, all
\* from it on do.
LEMMA PlaceSplits ==
  ASSUME NEW L, L \in Seq(Area), NEW vma \in Area
  PROVE  /\ Place(L, vma) \in 1 .. Len(L) + 1
         /\ \A i \in DOMAIN L : i < Place(L, vma) => L[i].vm_start <= vma.vm_start
         /\ Place(L, vma) <= Len(L) => vma.vm_start < L[Place(L, vma)].vm_start
<1> DEFINE above == {i \in DOMAIN L : L[i].vm_start > vma.vm_start}
           S == above \cup {Len(L) + 1}
<1>1. S \subseteq Nat /\ S # {}
  OBVIOUS
<1>2. \E i \in S : \A j \in S : i <= j
  BY <1>1, LeastExists
<1>3. Min(S) \in S /\ \A j \in S : Min(S) <= j
  BY <1>2 DEF Min
<1>4. Place(L, vma) = Min(S)
  BY DEF Place
<1>5. \A x \in Area : x.vm_start \in Int
  <2>1. Byte \subseteq Int
    BY DEF Byte
  <2> QED BY <2>1 DEF Area
<1>6. vma.vm_start \in Int /\ \A i \in DOMAIN L : L[i].vm_start \in Int
  BY <1>5
<1> HIDE DEF S
<1>7. PICK p : p = Min(S)
  OBVIOUS
<1>8. p \in 1 .. Len(L) + 1
  BY <1>3, <1>7 DEF S
<1>9. ASSUME NEW i \in DOMAIN L, i < p
      PROVE  ~(L[i].vm_start > vma.vm_start)
  <2>1. i \notin S
    BY <1>3, <1>7, <1>8, <1>9
  <2> QED BY <2>1 DEF S
<1>10. p <= Len(L) => L[p].vm_start > vma.vm_start
  BY <1>3, <1>7 DEF S
<1> QED BY <1>4, <1>6, <1>7, <1>8, <1>9, <1>10

\* The assertions of check_vma_overlap on the neighbours of a new area show that it
\* keeps clear of all.
LEMMA NeighboursSuffice ==
  ASSUME NEW L, Sorted(L), NEW vma \in Area, vma.vm_start < vma.vm_end,
         ~Overlaps(L, vma)
  PROVE  \A i \in DOMAIN L : IF i < Place(L, vma) THEN L[i].vm_end <= vma.vm_start
                                                  ELSE vma.vm_end <= L[i].vm_start
<1>1. PICK p : p = Place(L, vma)
  OBVIOUS
<1>2. /\ L \in Seq(Area) /\ Len(L) \in Nat /\ DOMAIN L = 1 .. Len(L)
      /\ p \in 1 .. Len(L) + 1 /\ p \in Int
      /\ \A i \in DOMAIN L : i < p => L[i].vm_start <= vma.vm_start
      /\ p <= Len(L) => vma.vm_start < L[p].vm_start
  BY <1>1, PlaceSplits DEF Sorted
<1>4. vma.vm_start \in Nat /\ vma.vm_end \in Nat /\ vma.vm_start < vma.vm_end
  BY DEF Area, Byte
<1>5. /\ p > 1 => L[p - 1].vm_end <= vma.vm_start
      /\ p <= Len(L) => vma.vm_end <= L[p].vm_start
  <2>1. CASE p > 1
    <3>1. p - 1 \in DOMAIN L
      BY <1>2, <2>1
    <3> QED BY <1>1, <1>2, <1>4, <2>1, <3>1, ListedArea DEF Overlaps
  <2>2. CASE p <= Len(L)
    <3>1. p \in DOMAIN L
      BY <1>2, <2>2
    <3> QED BY <1>1, <1>2, <1>4, <2>2, <3>1, ListedArea DEF Overlaps
  <2> QED BY <2>1, <2>2
\* Not only the neighbours keep clear.
<1>6. \A i \in DOMAIN L : IF i < p THEN L[i].vm_end <= vma.vm_start
                                   ELSE vma.vm_end <= L[i].vm_start
  <2> SUFFICES ASSUME NEW i \in DOMAIN L
               PROVE  IF i < p THEN L[i].vm_end <= vma.vm_start
                               ELSE vma.vm_end <= L[i].vm_start
    OBVIOUS
  <2>1. i \in Int
    BY <1>2
  <2>2. CASE i = p - 1 \/ i = p
    BY <1>2, <1>5, <2>1, <2>2
  <2>3. CASE i < p - 1
    <3>1. p - 1 \in DOMAIN L
      BY <1>2, <2>1, <2>3
    <3>2. L[i].vm_end <= L[p - 1].vm_start
      BY <2>3, <3>1 DEF Sorted
    <3> QED BY <1>2, <1>4, <1>5, <2>1, <2>3, <3>1, <3>2, ListedArea
  <2>4. CASE i > p
    <3>1. p \in DOMAIN L
      BY <1>2, <2>1, <2>4
    <3>2. L[p].vm_end <= L[i].vm_start
      BY <2>4, <3>1 DEF Sorted
    <3> QED BY <1>2, <1>4, <1>5, <2>1, <2>4, <3>1, <3>2, ListedArea
  <2> QED BY <1>2, <2>1, <2>2, <2>3, <2>4
<1> QED BY <1>1, <1>6

\* check_vma_overlap fails exactly if a byte of the new area is taken.
LEMMA OverlapIsExact ==
  ASSUME NEW L, Sorted(L), NEW vma \in Area, vma.vm_start < vma.vm_end
  PROVE  Overlaps(L, vma) <=>
           \E a \in vma.vm_start .. vma.vm_end - 1 : \E x \in ToSet(L) : In(a, x)
<1>1. PICK p : p = Place(L, vma)
  OBVIOUS
<1>2. /\ L \in Seq(Area) /\ Len(L) \in Nat /\ DOMAIN L = 1 .. Len(L)
      /\ p \in 1 .. Len(L) + 1 /\ p \in Int
      /\ \A i \in DOMAIN L : i < p => L[i].vm_start <= vma.vm_start
      /\ p <= Len(L) => vma.vm_start < L[p].vm_start
  BY <1>1, PlaceSplits DEF Sorted
<1>3. vma.vm_start \in Nat /\ vma.vm_end \in Nat
  BY DEF Area, Byte
<1>4. ASSUME NEW i \in DOMAIN L, NEW a \in vma.vm_start .. vma.vm_end - 1, In(a, L[i])
      PROVE  \E b \in vma.vm_start .. vma.vm_end - 1 : \E x \in ToSet(L) : In(b, x)
  BY <1>4 DEF ToSet
<1>5. ASSUME p > 1, L[p - 1].vm_end > vma.vm_start
      PROVE  \E a \in vma.vm_start .. vma.vm_end - 1 : \E x \in ToSet(L) : In(a, x)
  <2>1. p - 1 \in DOMAIN L /\ p - 1 < p
    BY <1>2, <1>5
  <2>2. L[p - 1].vm_start <= vma.vm_start /\ L[p - 1].vm_end \in Nat
    BY <1>2, <2>1, ListedArea
  <2>3. In(vma.vm_start, L[p - 1])
    BY <1>3, <1>5, <2>2 DEF In
  <2>4. vma.vm_start \in vma.vm_start .. vma.vm_end - 1
    BY <1>3
  <2> QED BY <1>4, <2>1, <2>3, <2>4
<1>6. ASSUME p <= Len(L), L[p].vm_start < vma.vm_end
      PROVE  \E a \in vma.vm_start .. vma.vm_end - 1 : \E x \in ToSet(L) : In(a, x)
  <2>1. p \in DOMAIN L
    BY <1>2, <1>6
  <2>2. /\ L[p].vm_start \in Nat /\ L[p].vm_start < L[p].vm_end
        /\ vma.vm_start < L[p].vm_start
    BY <1>2, <1>6, <2>1, ListedArea
  <2>3. In(L[p].vm_start, L[p])
    BY <2>2 DEF In
  <2>4. L[p].vm_start \in vma.vm_start .. vma.vm_end - 1
    BY <1>3, <1>6, <2>2
  <2> QED BY <1>4, <2>1, <2>3, <2>4
<1>7. ASSUME ~Overlaps(L, vma), NEW a \in vma.vm_start .. vma.vm_end - 1,
             NEW x \in ToSet(L), In(a, x)
      PROVE  FALSE
  <2>1. PICK i \in DOMAIN L : x = L[i]
    BY DEF ToSet
  <2>2. x.vm_start <= a /\ a < x.vm_end
    BY <1>7 DEF In
  <2>3. x.vm_end <= vma.vm_start \/ vma.vm_end <= x.vm_start
    BY <1>7, <2>1, NeighboursSuffice
  <2>4. x.vm_start \in Nat /\ x.vm_end \in Nat /\ a \in Int
    BY <1>3, <2>1, ListedArea
  <2> QED BY <1>3, <2>2, <2>3, <2>4
<1> QED BY <1>1, <1>5, <1>6, <1>7 DEF Overlaps

\* insert_vma_struct, past the assertions of check_vma_overlap, keeps the list
\* sorted and loses no area.
LEMMA InsertKeepsSorted ==
  ASSUME NEW L, Sorted(L), NEW vma \in Area,
         USER_ACCESS(vma.vm_start, vma.vm_end),
         vma.vm_start % PGSIZE = 0, vma.vm_end % PGSIZE = 0,
         ~Overlaps(L, vma)
  PROVE  /\ Sorted(Inserted(L, vma)) /\ Len(Inserted(L, vma)) = Len(L) + 1
         /\ ToSet(L) \subseteq ToSet(Inserted(L, vma))
<1> DEFINE t == Inserted(L, vma)
<1>1. PICK p : p = Place(L, vma)
  OBVIOUS
<1>2. /\ L \in Seq(Area) /\ Len(L) \in Nat /\ DOMAIN L = 1 .. Len(L)
      /\ p \in 1 .. Len(L) + 1 /\ p \in Int
      /\ \A i \in DOMAIN L : i < p => L[i].vm_start <= vma.vm_start
      /\ p <= Len(L) => vma.vm_start < L[p].vm_start
  BY <1>1, PlaceSplits DEF Sorted
<1>3. /\ t \in Seq(Area) /\ Len(t) = Len(L) + 1 /\ t[p] = vma
      /\ \A k \in 1 .. p - 1 : t[k] = L[k]
      /\ \A k \in p + 1 .. Len(L) + 1 : t[k] = L[k - 1]
  <2>1. t = InsertAt(L, p, vma)
    BY <1>1 DEF Inserted
  <2>2. L \in Seq(Area) /\ p \in 1 .. Len(L) + 1
    BY <1>2
  <2>3. Puts(InsertAt(L, p, vma), L, p, vma, Area)
    BY <2>2, InsertPuts
  <2> QED BY <2>1, <2>3 DEF Puts
<1>4. vma.vm_start \in Nat /\ vma.vm_end \in Nat /\ vma.vm_start < vma.vm_end
  BY DEF Area, Byte, USER_ACCESS
<1>6. \A i \in DOMAIN L : IF i < p THEN L[i].vm_end <= vma.vm_start
                                   ELSE vma.vm_end <= L[i].vm_start
  BY <1>1, <1>4, NeighboursSuffice
<1> DEFINE old(k) == IF k < p THEN k ELSE k - 1
<1>7. \A k \in DOMAIN t : k # p => old(k) \in DOMAIN L /\ t[k] = L[old(k)]
  BY <1>2, <1>3
<1>8. \A k \in DOMAIN t : k \in Int /\ t[k] \in Area
  BY <1>3
<1> HIDE DEF t
<1>9. ASSUME NEW k \in DOMAIN t
      PROVE  /\ USER_ACCESS(t[k].vm_start, t[k].vm_end)
             /\ t[k].vm_start % PGSIZE = 0 /\ t[k].vm_end % PGSIZE = 0
  <2>1. CASE k = p
    BY <1>3, <2>1
  <2>2. CASE k # p
    <3> HIDE DEF old
    <3> QED BY <1>7, <2>2 DEF Sorted
  <2> QED BY <2>1, <2>2
<1>10. ASSUME NEW k \in DOMAIN t, NEW m \in DOMAIN t, k < m
       PROVE  t[k].vm_end <= t[m].vm_start
  <2>1. CASE k = p
    <3>1. old(m) \in DOMAIN L /\ t[m] = L[old(m)] /\ ~(old(m) < p)
      BY <1>2, <1>7, <1>8, <1>10, <2>1
    <3> HIDE DEF old
    <3> QED BY <1>3, <1>6, <2>1, <3>1
  <2>2. CASE m = p
    <3>1. old(k) \in DOMAIN L /\ t[k] = L[old(k)] /\ old(k) < p
      BY <1>2, <1>7, <1>8, <1>10, <2>2
    <3> HIDE DEF old
    <3> QED BY <1>3, <1>6, <2>2, <3>1
  <2>3. CASE k # p /\ m # p
    <3>1. old(k) < old(m)
      BY <1>2, <1>8, <1>10, <2>3
    <3> HIDE DEF old
    <3> QED BY <1>7, <2>3, <3>1 DEF Sorted
  <2> QED BY <2>1, <2>2, <2>3
<1>11. Sorted(t)
  BY <1>3, <1>9, <1>10 DEF Sorted
<1>12. ToSet(L) \subseteq ToSet(t)
  <2> SUFFICES ASSUME NEW i \in DOMAIN L PROVE \E k \in DOMAIN t : t[k] = L[i]
    BY DEF ToSet
  <2>1. CASE i < p
    BY <1>2, <1>3, <2>1
  <2>2. CASE ~(i < p)
    <3>1. i \in 1 .. Len(L) /\ DOMAIN t = 1 .. Len(L) + 1
      BY <1>2, <1>3
    <3>2. i + 1 \in p + 1 .. Len(L) + 1 /\ i + 1 \in DOMAIN t /\ i + 1 - 1 = i
      BY <1>2, <2>2, <3>1
    <3>3. t[i + 1] = L[i + 1 - 1]
      BY <1>3, <3>2
    <3> QED BY <3>2, <3>3
  <2> QED BY <2>1, <2>2
<1> QED BY <1>3, <1>11, <1>12 DEF t

\* An area that starts below all of a list goes to its head.
LEMMA InsertAtHead ==
  ASSUME NEW L, L \in Seq(Area), NEW vma \in Area,
         Len(L) > 0 => vma.vm_start < L[1].vm_start
  PROVE  /\ Inserted(L, vma) \in Seq(Area) /\ Len(Inserted(L, vma)) = Len(L) + 1
         /\ Inserted(L, vma)[1] = vma
         /\ \A k \in 1 .. Len(L) : Inserted(L, vma)[k + 1] = L[k]
<1>1. PICK p : p = Place(L, vma)
  OBVIOUS
<1>2. \A x \in Area : x.vm_start \in Int
  <2>1. Byte \subseteq Int
    BY DEF Byte
  <2> QED BY <2>1 DEF Area
<1>3. p = 1
  <2>1. /\ p \in 1 .. Len(L) + 1
        /\ \A i \in DOMAIN L : i < p => L[i].vm_start <= vma.vm_start
    BY <1>1, PlaceSplits
  <2>2. CASE Len(L) = 0
    BY <2>1, <2>2
  <2>3. CASE Len(L) > 0
    <3>1. 1 \in DOMAIN L /\ L[1] \in Area
      BY <2>3
    <3>2. ~(1 < p)
      BY <1>2, <2>1, <2>3, <3>1
    <3> QED BY <2>1, <3>2
  <2>4. Len(L) \in Nat
    OBVIOUS
  <2> QED BY <2>2, <2>3, <2>4
<1> DEFINE t == Inserted(L, vma)
<1>4. /\ t \in Seq(Area) /\ Len(t) = Len(L) + 1 /\ t[p] = vma
      /\ \A k \in p + 1 .. Len(L) + 1 : t[k] = L[k - 1]
  <2>1. t = InsertAt(L, p, vma)
    BY <1>1 DEF Inserted
  <2>2. L \in Seq(Area) /\ p \in 1 .. Len(L) + 1
    BY <1>3
  <2>3. Puts(InsertAt(L, p, vma), L, p, vma, Area)
    BY <2>2, InsertPuts
  <2> QED BY <2>1, <2>3 DEF Puts
<1> HIDE DEF t
<1>5. ASSUME NEW k \in 1 .. Len(L)
      PROVE  t[k + 1] = L[k]
  <2>1. k + 1 \in p + 1 .. Len(L) + 1 /\ k + 1 - 1 = k
    BY <1>3
  <2> QED BY <1>4, <2>1
<1> QED BY <1>3, <1>4, <1>5 DEF t

\* dup_mmap's loop, as the fold computes it: what is left of the parent's list is
\* a set of positions.
LEMMA FoldIsWalk ==
  ASSUME NEW L, L \in Seq(Area)
  PROVE  \E g :
           /\ FoldRight(LAMBDA vma, list : Inserted(list, Copy(vma)), L, <<>>)
              = g[DOMAIN L]
           /\ g[{}] = <<>>
           /\ \A s \in SUBSET DOMAIN L : s # {} =>
                g[s] = Inserted(g[s \ {Min(s)}], L[Min(s)])
<1> DEFINE D == SUBSET DOMAIN L
           body(g) == [s \in D |-> IF s = {} THEN <<>>
                                   ELSE Inserted(g[s \ {Min(s)}], L[Min(s)])]
<1>1. IsFiniteSet(DOMAIN L) /\ Cardinality(DOMAIN L) = Len(L) /\ Len(L) \in Nat
  <2>1. DOMAIN L = 1 .. Len(L) /\ Len(L) \in Nat
    OBVIOUS
  <2>2. IsFiniteSet(1 .. Len(L)) /\ Cardinality(1 .. Len(L)) = Len(L)
    BY <2>1, FS_Interval
  <2> QED BY <2>1, <2>2
<1>2. ASSUME NEW s \in D, s # {}
      PROVE  Min(s) \in s
  <2>1. s \subseteq Nat
    OBVIOUS
  <2>2. \E i \in s : \A j \in s : i <= j
    BY <1>2, <2>1, LeastExists
  <2> QED BY <2>2 DEF Min
<1>3. \E g \in [D -> Seq(Area)] : g = body(g)
  <2> DEFINE left == [s \in D |-> Cardinality(s)]
             val == [s \in D |-> <<>>]
             done == {{}}
             next == [s \in D |-> s \ {Min(s)}]
             turn == [s \in D |-> [l \in Seq(Area) |->
                        IF s = {} THEN <<>> ELSE Inserted(l, L[Min(s)])]]
  <2>1. left \in [D -> 0 .. Len(L)]
    <3>1. \A s \in D : Cardinality(s) \in Nat /\ Cardinality(s) <= Len(L)
      BY <1>1, FS_Subset, FS_CardinalityType
    <3> QED BY <1>1, <3>1
  <2>2. val \in [D -> Seq(Area)] /\ next \in [D -> D]
    OBVIOUS
  <2>3. turn \in [D -> [Seq(Area) -> Seq(Area)]]
    <3>1. ASSUME NEW s \in D, s # {}, NEW l \in Seq(Area)
          PROVE  Inserted(l, L[Min(s)]) \in Seq(Area)
      <4>1. L[Min(s)] \in Area
        BY <1>2, <3>1
      <4>2. Place(l, L[Min(s)]) \in 1 .. Len(l) + 1
        BY <4>1, PlaceSplits
      <4> QED BY <4>1, <4>2, InsertBefore DEF Inserted
    <3> QED BY <3>1
  <2>4. \A s \in D \ done : left[next[s]] < left[s]
    <3> SUFFICES ASSUME NEW s \in D, s # {} PROVE Cardinality(s \ {Min(s)}) < Cardinality(s)
      OBVIOUS
    <3>1. IsFiniteSet(s) /\ Min(s) \in s
      BY <1>1, <1>2, FS_Subset
    <3>2. Cardinality(s \ {Min(s)}) = Cardinality(s) - 1 /\ Cardinality(s) \in Nat
      BY <3>1, FS_RemoveElement, FS_CardinalityType
    <3> QED BY <3>2
  <2>5. done \in SUBSET D
    OBVIOUS
  <2> HIDE DEF left, val, next, turn, done, D
  <2>6. PICK g \in [D -> Seq(Area)] : \A s \in D :
          g[s] = IF s \in done THEN val[s] ELSE turn[s][g[next[s]]]
    <3>1. Loop(D, Seq(Area), Len(L), left, done, val, next, turn)
      BY <1>1, <2>1, <2>2, <2>3, <2>4, <2>5 DEF Loop
    <3>2. \E g : Computes(g, D, Seq(Area), done, val, next, turn)
      BY <3>1, LoopComputes
    <3> QED BY <3>2 DEF Computes
  <2>7. ASSUME NEW s \in D
        PROVE  g[s] = IF s = {} THEN <<>> ELSE Inserted(g[s \ {Min(s)}], L[Min(s)])
    <3>1. CASE s = {}
      BY <2>6, <3>1 DEF val, done
    <3>2. CASE s # {}
      <4>1. next[s] \in D /\ next[s] = s \ {Min(s)}
        BY <2>2 DEF next
      <4>2. g[next[s]] \in Seq(Area)
        BY <4>1
      <4>3. g[s] = turn[s][g[next[s]]]
        BY <2>6, <3>2 DEF done
      <4> QED BY <3>2, <4>1, <4>2, <4>3 DEF turn
    <3> QED BY <3>1, <3>2
  <2>8. g = [s \in D |-> g[s]]
    OBVIOUS
  <2> QED BY <2>7, <2>8
<1> DEFINE iter == CHOOSE g : g = body(g)
<1>4. iter = body(iter)
  BY <1>3
<1>5. FoldRight(LAMBDA vma, list : Inserted(list, Copy(vma)), L, <<>>) = iter[DOMAIN L]
  BY DEF FoldRight, MapThenFoldSet, Copy
<1>6. \A s \in D : iter[s] = body(iter)[s]
  BY <1>4
<1> HIDE DEF iter
<1> QED BY <1>5, <1>6

\* dup_mmap gives the child the same list: from its end, every area goes to the
\* head of what is already there.
LEMMA DuplicateKeepsList ==
  ASSUME NEW L, Sorted(L)
  PROVE  FoldRight(LAMBDA vma, list : Inserted(list, Copy(vma)), L, <<>>) = L
<1>1. L \in Seq(Area) /\ Len(L) \in Nat /\ DOMAIN L = 1 .. Len(L)
  BY DEF Sorted
<1>2. PICK g :
        /\ FoldRight(LAMBDA vma, list : Inserted(list, Copy(vma)), L, <<>>) = g[DOMAIN L]
        /\ g[{}] = <<>>
        /\ \A s \in SUBSET DOMAIN L : s # {} =>
             g[s] = Inserted(g[s \ {Min(s)}], L[Min(s)])
  BY <1>1, FoldIsWalk
<1> DEFINE Left(k) == Len(L) - k + 1 .. Len(L)
           Rear(k) == [i \in 1 .. k |-> L[Len(L) - k + i]]
           Done(k) == g[Left(k)] = Rear(k)
<1>3. Done(0)
  <2>1. Left(0) = {} /\ Rear(0) = <<>>
    BY <1>1
  <2> QED BY <1>2, <2>1
<1>4. ASSUME NEW k \in Nat, k + 1 <= Len(L), Done(k)
      PROVE  Done(k + 1)
  <2> DEFINE m == Len(L) - k
  <2>1. m \in DOMAIN L /\ Left(k + 1) \in SUBSET DOMAIN L /\ m \in Left(k + 1)
    BY <1>1, <1>4
  <2>2. \A j \in Left(k + 1) : m <= j
    BY <1>1, <1>4
  <2>3. Min(Left(k + 1)) = m
    <3>0. m \in Int /\ Left(k + 1) \subseteq Int
      BY <1>1, <1>4
    <3> HIDE DEF Left, m
    <3>1. \A x \in Left(k + 1) : (\A y \in Left(k + 1) : x <= y) => x = m
      BY <2>1, <2>2, <3>0
    <3> QED BY <2>1, <2>2, <3>1 DEF Min
  <2>4. Left(k + 1) \ {m} = Left(k)
    BY <1>1, <1>4
  <2>5. g[Left(k + 1)] = Inserted(Rear(k), L[m])
    <3> HIDE DEF Left, m, Rear
    <3> QED BY <1>2, <1>4, <2>1, <2>3, <2>4
  <2>6. Rear(k) \in Seq(Area) /\ Len(Rear(k)) = k /\ L[m] \in Area
    BY <1>1, <1>4, <2>1
  <2>7. Len(Rear(k)) > 0 => L[m].vm_start < Rear(k)[1].vm_start
    <3> SUFFICES ASSUME k > 0 PROVE L[m].vm_start < L[m + 1].vm_start
      BY <1>1, <1>4, <2>6
    <3>1. m + 1 \in DOMAIN L /\ m < m + 1
      BY <1>1, <1>4
    <3> HIDE DEF m
    <3>2. L[m].vm_end <= L[m + 1].vm_start
      BY <2>1, <3>1 DEF Sorted
    <3> QED BY <2>1, <3>1, <3>2, ListedArea
  <2> DEFINE t == Inserted(Rear(k), L[m])
  <2>8. /\ t \in Seq(Area) /\ Len(t) = k + 1 /\ t[1] = L[m]
        /\ \A i \in 1 .. k : t[i + 1] = Rear(k)[i]
    <3> HIDE DEF Rear, m
    <3> QED BY <2>6, <2>7, InsertAtHead
  <2> HIDE DEF t
  <2>9. ASSUME NEW i \in 1 .. k + 1
        PROVE  t[i] = L[Len(L) - (k + 1) + i]
    <3>1. CASE i = 1
      BY <1>1, <1>4, <2>8, <3>1
    <3>2. CASE i # 1
      <4>1. i - 1 \in 1 .. k /\ i - 1 + 1 = i
        BY <3>2
      <4>2. t[i] = Rear(k)[i - 1]
        BY <2>8, <4>1
      <4>3. Rear(k)[i - 1] = L[Len(L) - k + (i - 1)]
        BY <4>1
      <4>4. Len(L) - k + (i - 1) = Len(L) - (k + 1) + i
        BY <1>1, <1>4, <4>1
      <4> QED BY <4>2, <4>3, <4>4
    <3> QED BY <3>1, <3>2
  <2>10. t = Rear(k + 1)
    BY <2>8, <2>9
  <2> QED BY <2>5, <2>10 DEF t
<1> HIDE DEF Done
<1>5. \A k \in 0 .. Len(L) : Done(k)
  <2> DEFINE Bad == {k \in 0 .. Len(L) : ~Done(k)}
  <2>1. SUFFICES ASSUME Bad # {} PROVE FALSE
    OBVIOUS
  <2>2. PICK k \in Bad : \A j \in Bad : k <= j
    <3>1. Bad \in SUBSET Nat
      BY <1>1
    <3> HIDE DEF Bad
    <3> QED BY <2>1, <3>1, LeastExists
  <2>3. k # 0
    BY <1>3
  <2>4. k - 1 \in 0 .. Len(L) /\ k - 1 + 1 = k /\ k - 1 \in Nat /\ k <= Len(L)
    BY <1>1, <2>3
  <2>5. Done(k - 1)
    BY <2>2, <2>4
  <2>6. Done(k - 1 + 1)
    BY <1>4, <2>4, <2>5
  <2> QED BY <2>4, <2>6
<1>6. g[Left(Len(L))] = Rear(Len(L))
  BY <1>1, <1>5 DEF Done
<1>7. Left(Len(L)) = DOMAIN L
  BY <1>1
<1>8. Rear(Len(L)) = L
  <2>1. \A i \in 1 .. Len(L) : Len(L) - Len(L) + i = i
    BY <1>1
  <2>2. L = [i \in 1 .. Len(L) |-> L[i]]
    BY <1>1
  <2> QED BY <2>1, <2>2
<1> QED BY <1>2, <1>6, <1>7, <1>8

-----------------------------------------------------------------------------
(* user_mem_check                                                          *)

\* The bounds of an area of the list are addresses.
LEMMA AreaOfList ==
  ASSUME Sorted(mmap_list), NEW vma \in ToSet(mmap_list)
  PROVE  /\ vma.vm_start \in Nat /\ vma.vm_end \in Nat /\ vma.vm_end \in Byte
         /\ vma.vm_start < vma.vm_end /\ vma.vm_end <= USERTOP
<1>1. PICK i \in DOMAIN mmap_list : vma = mmap_list[i]
  BY DEF ToSet
<1> QED BY <1>1, ListedArea

\* A turn of the loop finds the one area of the address or none, and what Permits
\* says of it holds for every byte up to its end (the stack's lowest page has
\* been passed).
LEMMA TurnIsExact ==
  ASSUME Sorted(mmap_list), NEW c \in SUBSET ToSet(mmap_list), NEW a \in Byte,
         NEW write \in BOOLEAN,
         \E vma \in find_vma(a, c) : Permits(a, vma, write)
  PROVE  LET v == CHOOSE vma \in find_vma(a, c) : TRUE
         IN  /\ v.vm_end \in Byte /\ a < v.vm_end
             /\ \A b \in a .. v.vm_end - 1 : MayAccess(b, write)
<1>1. a \in Int /\ PGSIZE \in Nat
  BY VmaAssumption DEF Byte
<1>2. find_vma(a, c) = {vma \in ToSet(mmap_list) : In(a, vma)}
  BY <1>1, FindIsExact
<1>3. PICK u \in find_vma(a, c) : Permits(a, u, write)
  OBVIOUS
<1>4. PICK v : v = CHOOSE vma \in find_vma(a, c) : TRUE
  OBVIOUS
<1>5. v \in find_vma(a, c)
  BY <1>3, <1>4
<1>6. v \in ToSet(mmap_list) /\ In(a, v) /\ u \in ToSet(mmap_list) /\ In(a, u)
  BY <1>2, <1>3, <1>5
<1>7. u = v
  BY <1>1, <1>6, OneArea
<1>8. /\ v.vm_start \in Nat /\ v.vm_end \in Nat /\ v.vm_end \in Byte
      /\ v.vm_start <= a /\ a < v.vm_end
  BY <1>6, AreaOfList DEF In
<1>9. ASSUME NEW b \in a .. v.vm_end - 1
      PROVE  MayAccess(b, write)
  <2>1. In(b, v)
    BY <1>1, <1>8, <1>9 DEF In
  <2>2. Permits(a, v, write)
    BY <1>3, <1>7
  <2>3. (write => "write" \in v.vm_flags) /\ (~write => "read" \in v.vm_flags)
    BY <2>2 DEF Permits
  <2>4. write /\ "stack" \in v.vm_flags => ~(a < v.vm_start + PGSIZE)
    BY <2>2 DEF Permits
  <2>5. ~(a < v.vm_start + PGSIZE) => b - v.vm_start >= PGSIZE
    BY <1>1, <1>8, <1>9
  <2> QED BY <1>6, <2>1, <2>3, <2>4, <2>5 DEF MayAccess
<1> QED BY <1>4, <1>8, <1>9

\* Where Permits refuses, or there is no area, the byte may not be accessed.
LEMMA TurnStops ==
  ASSUME Sorted(mmap_list), NEW c \in SUBSET ToSet(mmap_list), NEW a \in Byte,
         NEW write \in BOOLEAN,
         ~(\E vma \in find_vma(a, c) : Permits(a, vma, write))
  PROVE  ~MayAccess(a, write)
<1>1. a \in Int /\ PGSIZE \in Nat
  BY VmaAssumption DEF Byte
<1>2. find_vma(a, c) = {vma \in ToSet(mmap_list) : In(a, vma)}
  BY <1>1, FindIsExact
<1>3. ASSUME MayAccess(a, write)
      PROVE  \E vma \in find_vma(a, c) : Permits(a, vma, write)
  <2>1. PICK v \in ToSet(mmap_list) :
          /\ In(a, v)
          /\ write => "write" \in v.vm_flags
          /\ ~write => "read" \in v.vm_flags
          /\ write /\ "stack" \in v.vm_flags => a - v.vm_start >= PGSIZE
    BY <1>3 DEF MayAccess
  <2>2. v.vm_start \in Nat
    BY AreaOfList
  <2>3. a - v.vm_start >= PGSIZE => ~(a < v.vm_start + PGSIZE)
    BY <1>1, <2>2
  <2>4. Permits(a, v, write)
    BY <2>1, <2>3 DEF Permits
  <2> QED BY <1>2, <2>1, <2>4
<1> QED BY <1>3

\* The answers of the loop, from every address and with every cache it may have:
\* it ends, since every turn takes it to a higher address.
LoopGoesOn(g, end, write) ==
  \A q \in Byte \X SUBSET ToSet(mmap_list) :
    g[q] = IF q[1] >= end THEN [ok |-> TRUE, cache |-> q[2]]
           ELSE IF \E vma \in find_vma(q[1], q[2]) : Permits(q[1], vma, write)
           THEN g[<<(CHOOSE vma \in find_vma(q[1], q[2]) : TRUE).vm_end,
                    CacheAfter(q[1], q[2])>>]
           ELSE [ok |-> FALSE, cache |-> CacheAfter(q[1], q[2])]

LEMMA LoopOfCheck ==
  ASSUME Sorted(mmap_list), NEW addr \in Byte, NEW len \in 0 .. USERTOP,
         NEW write \in BOOLEAN
  PROVE  \E g : /\ LoopGoesOn(g, addr + len, write)
                /\ user_mem_check(addr, len, write) =
                     IF USER_ACCESS(addr, addr + len) THEN g[<<addr, mmap_cache>>]
                     ELSE [ok |-> FALSE, cache |-> mmap_cache]
<1> DEFINE D == Byte \X SUBSET ToSet(mmap_list)
           V == [ok : BOOLEAN, cache : SUBSET ToSet(mmap_list)]
           end == addr + len
           body(g) == [q \in D |->
             LET found == find_vma(q[1], q[2])
                 cache == CacheAfter(q[1], q[2])
             IN  IF q[1] >= end THEN [ok |-> TRUE, cache |-> q[2]]
                 ELSE IF \E vma \in found : Permits(q[1], vma, write)
                 THEN g[<<(CHOOSE vma \in found : TRUE).vm_end, cache>>]
                 ELSE [ok |-> FALSE, cache |-> cache]]
           go(q) == q[1] < end /\ \E vma \in find_vma(q[1], q[2]) : Permits(q[1], vma, write)
           on(q) == <<(CHOOSE vma \in find_vma(q[1], q[2]) : TRUE).vm_end,
                      CacheAfter(q[1], q[2])>>
           top == USERTOP + PGSIZE
           left == [q \in D |-> top - q[1]]
           done == {q \in D : ~go(q)}
           val == [q \in D |-> IF q[1] >= end THEN [ok |-> TRUE, cache |-> q[2]]
                               ELSE [ok |-> FALSE, cache |-> CacheAfter(q[1], q[2])]]
           next == [q \in D |-> IF go(q) THEN on(q) ELSE q]
           turn == [q \in D |-> [v \in V |-> v]]
<1>1. top \in Nat /\ end \in Int /\ Byte = 0 .. top - 1
  BY VmaAssumption DEF Byte
<1>2. ASSUME NEW q \in D
      PROVE  /\ q[1] \in Byte /\ q[1] \in Int /\ q[2] \in SUBSET ToSet(mmap_list)
             /\ CacheAfter(q[1], q[2]) \in SUBSET ToSet(mmap_list)
             /\ go(q) => on(q) \in D /\ q[1] < on(q)[1]
  <2>1. q[1] \in Byte /\ q[1] \in Int /\ q[2] \in SUBSET ToSet(mmap_list)
    BY <1>1
  <2>2. CacheAfter(q[1], q[2]) \in SUBSET ToSet(mmap_list)
    BY <2>1, CacheStaysListed
  <2>3. ASSUME go(q)
        PROVE  on(q) \in D /\ q[1] < on(q)[1]
    <3>1. on(q)[1] \in Byte /\ q[1] < on(q)[1]
      BY <2>1, <2>3, TurnIsExact
    <3> QED BY <2>2, <3>1
  <2> QED BY <2>1, <2>2, <2>3
<1>3. left \in [D -> 0 .. top]
  BY <1>1
<1>4. val \in [D -> V] /\ done \subseteq D /\ turn \in [D -> [V -> V]]
  <2>1. val \in [D -> V]
    BY <1>2
  <2> QED BY <2>1
<1>5. next \in [D -> D]
  BY <1>2
<1>6. \A q \in D \ done : left[next[q]] < left[q]
  <2> SUFFICES ASSUME NEW q \in D, go(q)
               PROVE  left[next[q]] < left[q]
    OBVIOUS
  <2>1. next[q] = on(q) /\ on(q) \in D /\ q[1] < on(q)[1]
    BY <1>2
  <2> HIDE DEF on, D
  <2>2. left[q] = top - q[1] /\ left[on(q)] = top - on(q)[1]
    BY <2>1
  <2>3. q[1] \in Int /\ on(q)[1] \in Int
    BY <1>1, <1>2, <2>1
  <2> QED BY <1>1, <2>1, <2>2, <2>3
<1>7. \E g : g = body(g)
  <2> HIDE DEF left, val, next, turn, done, D, V, top, go
  <2>1. Loop(D, V, top, left, done, val, next, turn)
    BY <1>1, <1>3, <1>4, <1>5, <1>6 DEF Loop
  <2>2. PICK g : Computes(g, D, V, done, val, next, turn)
    BY <2>1, LoopComputes
  <2>3. g \in [D -> V] /\ \A q \in D : g[q] = IF q \in done THEN val[q] ELSE turn[q][g[next[q]]]
    BY <2>2 DEF Computes
  <2>4. ASSUME NEW q \in D
        PROVE  g[q] = body(g)[q]
    <3>0. q[1] \in Int /\ (q[1] < end <=> ~(q[1] >= end))
      <4>1. q[1] \in Int
        BY <1>2
      <4> HIDE DEF end
      <4> QED BY <1>1, <4>1
    <3>1. CASE go(q)
      <4>1. q \notin done /\ next[q] = on(q)
        BY <3>1 DEF done, next
      <4>2. g[next[q]] \in V
        BY <1>5, <2>3
      <4>3. g[q] = g[on(q)]
        BY <2>3, <4>1, <4>2 DEF turn
      <4>4. ~(q[1] >= end)
        BY <3>0, <3>1 DEF go
      <4> QED BY <3>1, <4>3, <4>4 DEF go
    <3>2. CASE ~go(q)
      <4>1. g[q] = val[q]
        BY <2>3, <3>2 DEF done
      <4>2. q[1] >= end \/ ~(\E vma \in find_vma(q[1], q[2]) : Permits(q[1], vma, write))
        BY <3>0, <3>2 DEF go
      <4> QED BY <4>1, <4>2 DEF val
    <3> QED BY <3>1, <3>2
  <2>5. g = [q \in D |-> g[q]]
    BY <2>3
  <2>6. body(g) = [q \in D |-> body(g)[q]]
    OBVIOUS
  <2> HIDE DEF body
  <2>7. g = body(g)
    BY <2>4, <2>5, <2>6
  <2> QED BY <2>7
<1> DEFINE loop == CHOOSE g : g = body(g)
<1>8. loop = body(loop)
  <2> HIDE DEF body
  <2> QED BY <1>7
<1>9. LoopGoesOn(loop, end, write)
  <2>1. \A q \in D : loop[q] = body(loop)[q]
    BY <1>8
  <2> HIDE DEF loop
  <2> QED BY <2>1 DEF LoopGoesOn
<1>10. user_mem_check(addr, len, write) =
         IF USER_ACCESS(addr, end) THEN loop[<<addr, mmap_cache>>]
         ELSE [ok |-> FALSE, cache |-> mmap_cache]
  BY DEF user_mem_check
<1> HIDE DEF loop
<1> QED BY <1>9, <1>10

\* user_mem_check's answer is that for every byte of the range, and the areas it
\* leaves in the cache are in the list.
LEMMA CheckIsExact ==
  ASSUME Sorted(mmap_list), CacheIsListed, NEW addr \in Byte, NEW len \in 0 .. USERTOP,
         NEW write \in BOOLEAN
  PROVE  /\ user_mem_check(addr, len, write).ok <=>
              /\ USER_ACCESS(addr, addr + len)
              /\ \A b \in addr .. addr + len - 1 : MayAccess(b, write)
         /\ user_mem_check(addr, len, write).cache \subseteq ToSet(mmap_list)
<1>0. addr \in Int /\ len \in Int
  BY DEF Byte
<1>1. PICK end \in Int : end = addr + len
  BY <1>0
<1>2. PICK g : /\ LoopGoesOn(g, end, write)
               /\ user_mem_check(addr, len, write) =
                    IF USER_ACCESS(addr, end) THEN g[<<addr, mmap_cache>>]
                    ELSE [ok |-> FALSE, cache |-> mmap_cache]
  BY <1>1, LoopOfCheck
<1> DEFINE D == Byte \X SUBSET ToSet(mmap_list)
           top == USERTOP + PGSIZE
           left == [q \in D |-> top - q[1]]
           Right(q) == /\ g[q].ok <=> \A b \in q[1] .. end - 1 : MayAccess(b, write)
                       /\ g[q].cache \subseteq ToSet(mmap_list)
<1>3. top \in Nat /\ Byte = 0 .. top - 1
  BY VmaAssumption DEF Byte
<1>4. left \in [D -> Nat]
  BY <1>3
\* A turn is right if the next is.
<1>5. ASSUME NEW q \in D,
             \A r \in D : q[1] < r[1] => Right(r)
      PROVE  Right(q)
  <2>1. PICK a \in Byte, c \in SUBSET ToSet(mmap_list) : q = <<a, c>>
    OBVIOUS
  <2>2. a \in Int /\ q[1] = a /\ q[2] = c
    BY <1>3, <2>1
  <2> DEFINE allowed == \E vma \in find_vma(a, c) : Permits(a, vma, write)
             r == <<(CHOOSE vma \in find_vma(a, c) : TRUE).vm_end, CacheAfter(a, c)>>
  <2>3. g[q] = IF a >= end THEN [ok |-> TRUE, cache |-> c]
               ELSE IF allowed THEN g[r]
               ELSE [ok |-> FALSE, cache |-> CacheAfter(a, c)]
    BY <1>2, <2>2 DEF LoopGoesOn
  <2>4. CacheAfter(a, c) \in SUBSET ToSet(mmap_list)
    BY <2>2, CacheStaysListed
  <2>5. CASE a >= end
    <3>1. g[q] = [ok |-> TRUE, cache |-> c]
      BY <2>3, <2>5
    <3>2. \A b \in a .. end - 1 : MayAccess(b, write)
      BY <1>1, <2>2, <2>5
    <3> QED BY <2>2, <3>1, <3>2
  <2>6. CASE ~(a >= end) /\ allowed
    <3>1. PICK e : e = (CHOOSE vma \in find_vma(a, c) : TRUE).vm_end
      OBVIOUS
    <3>2. e \in Byte /\ a < e /\ \A b \in a .. e - 1 : MayAccess(b, write)
      BY <2>6, <3>1, TurnIsExact
    <3>3. r = <<e, CacheAfter(a, c)>> /\ r \in D /\ r[1] = e
      BY <2>4, <3>1, <3>2
    <3> HIDE DEF r, allowed
    <3>4. g[q] = g[r]
      BY <2>3, <2>6
    <3>5. Right(r)
      BY <1>5, <2>2, <3>2, <3>3
    <3>6. e \in Int
      BY <1>3, <3>2
    <3>7. (\A b \in e .. end - 1 : MayAccess(b, write)) <=>
          (\A b \in a .. end - 1 : MayAccess(b, write))
      <4>1. \A b \in a .. end - 1 : b \in a .. e - 1 \/ b \in e .. end - 1
        BY <1>1, <2>2, <3>6
      <4>2. \A b \in e .. end - 1 : b \in a .. end - 1
        BY <1>1, <2>2, <3>2, <3>6
      <4> QED BY <3>2, <4>1, <4>2
    <3>8. /\ g[r].ok <=> \A b \in e .. end - 1 : MayAccess(b, write)
          /\ g[r].cache \subseteq ToSet(mmap_list)
      BY <3>3, <3>5
    <3> QED BY <2>2, <3>4, <3>7, <3>8
  <2>7. CASE ~(a >= end) /\ ~allowed
    <3>1. g[q] = [ok |-> FALSE, cache |-> CacheAfter(a, c)]
      BY <2>3, <2>7
    <3>2. ~MayAccess(a, write)
      <4>1. ~(\E vma \in find_vma(a, c) : Permits(a, vma, write))
        BY <2>7
      <4> QED BY <4>1, TurnStops
    <3>3. a \in a .. end - 1
      BY <1>1, <2>2, <2>7
    <3> QED BY <2>2, <2>4, <3>1, <3>2, <3>3
  <2> QED BY <2>5, <2>6, <2>7
<1> HIDE DEF Right
<1>6. \A q \in D : Right(q)
  <2> DEFINE Bad == {q \in D : ~Right(q)}
  <2>1. SUFFICES ASSUME Bad # {} PROVE FALSE
    OBVIOUS
  <2>2. PICK q \in Bad : \A r \in Bad : left[q] <= left[r]
    <3>1. Bad \in SUBSET D
      OBVIOUS
    <3> HIDE DEF Bad, left, D
    <3> QED BY <1>4, <2>1, <3>1, NearestExists
  <2>3. ASSUME NEW r \in D, q[1] < r[1]
        PROVE  Right(r)
    <3>1. q \in D /\ q[1] \in Int /\ r[1] \in Int
      BY <1>3
    <3>2. left[q] = top - q[1] /\ left[r] = top - r[1]
      BY <3>1
    <3> HIDE DEF left, top, D
    <3>3. ~(left[q] <= left[r])
      BY <1>3, <2>3, <3>1, <3>2
    <3> QED BY <2>2, <2>3, <3>3
  <2> QED BY <1>5, <2>3
<1>7. CASE USER_ACCESS(addr, end)
  <2>1. <<addr, mmap_cache>> \in D
    BY DEF CacheIsListed
  <2>2. Right(<<addr, mmap_cache>>)
    BY <1>6, <2>1
  <2>3. user_mem_check(addr, len, write) = g[<<addr, mmap_cache>>]
    BY <1>2, <1>7
  <2>4. /\ g[<<addr, mmap_cache>>].ok <=> \A b \in addr .. end - 1 : MayAccess(b, write)
        /\ g[<<addr, mmap_cache>>].cache \subseteq ToSet(mmap_list)
    BY <2>2 DEF Right
  <2> HIDE DEF Right, D, left, top
  <2>5. user_mem_check(addr, len, write).ok <=> \A b \in addr .. end - 1 : MayAccess(b, write)
    BY <2>3, <2>4
  <2>6. user_mem_check(addr, len, write).cache \subseteq ToSet(mmap_list)
    BY <2>3, <2>4
  <2> QED BY <1>0, <1>1, <1>7, <2>5, <2>6
<1>8. CASE ~USER_ACCESS(addr, end)
  BY <1>1, <1>2, <1>8 DEF CacheIsListed
<1> QED BY <1>7, <1>8

-----------------------------------------------------------------------------
(* The invariant                                                           *)

LEMMA InitHolds == Init => IInv
<1> SUFFICES ASSUME Init PROVE IInv
  OBVIOUS
<1>1. mmap_list = <<>> /\ mmap_cache = {} /\ map_count = 0 /\ panicked = FALSE
  BY DEF Init
<1>2. mmap_list \in Seq(Area) /\ Len(mmap_list) = 0 /\ DOMAIN mmap_list = {}
  BY <1>1
<1>3. TypeOK
  BY <1>1, <1>2 DEF TypeOK
<1>4. AreasInOrder
  BY <1>2 DEF AreasInOrder
<1> QED BY <1>1, <1>3, <1>4 DEF IInv, CacheIsListed

\* The areas of the list are areas.
LEMMA CacheIsTyped ==
  ASSUME mmap_list \in Seq(Area)
  PROVE  ToSet(mmap_list) \subseteq Area
BY DEF ToSet

\* What a step must show of a list it leaves alone: its new cache is listed.
LEMMA SameList ==
  ASSUME IInv, mmap_list' = mmap_list, map_count' = map_count,
         panicked' \in BOOLEAN, mmap_cache' \subseteq ToSet(mmap_list)
  PROVE  IInv'
<1>1. mmap_cache' \subseteq Area
  BY CacheIsTyped DEF IInv, TypeOK
<1>2. TypeOK'
  BY <1>1 DEF IInv, TypeOK
<1>3. AreasInOrder'
  BY DEF IInv, AreasInOrder
<1> QED BY <1>2, <1>3 DEF IInv, CacheIsListed

LEMMA FindKeeps ==
  ASSUME IInv, NEW a \in Int, Find(a)
  PROVE  IInv' /\ mmap_list' = mmap_list
<1>1. Sorted(mmap_list) /\ mmap_cache \in SUBSET ToSet(mmap_list)
  BY ListIsSorted DEF IInv, CacheIsListed
<1>2. mmap_cache' \subseteq ToSet(mmap_list)
  BY <1>1, CacheStaysListed DEF Find
<1> QED BY <1>2, SameList DEF Find, IInv, TypeOK

LEMMA CheckKeeps ==
  ASSUME IInv, NEW a \in Byte, NEW len \in 0 .. USERTOP, NEW write \in BOOLEAN,
         Check(a, len, write)
  PROVE  IInv' /\ mmap_list' = mmap_list
<1>1. Sorted(mmap_list) /\ CacheIsListed
  BY ListIsSorted DEF IInv
<1>2. mmap_cache' \subseteq ToSet(mmap_list)
  BY <1>1, CheckIsExact DEF Check
<1> QED BY <1>2, SameList DEF Check, IInv, TypeOK

\* mm_map adds a whole number of pages where no area is, or asserts.
LEMMA MmMapKeeps ==
  ASSUME IInv, NEW addr \in Byte, NEW len \in 0 .. USERTOP, NEW flags \in Flags,
         ~panicked, MmMap(addr, len, flags)
  PROVE  IInv' /\ (mmap_list' = mmap_list \/ Grows)
<1> DEFINE start == RoundDown(addr)
           end == RoundUp(addr + len)
           vma == [vm_start |-> start, vm_end |-> end, vm_flags |-> flags]
<1>1. /\ start \in Int /\ start % PGSIZE = 0 /\ end \in Int /\ end % PGSIZE = 0
  <2>1. addr \in Int /\ addr + len \in Int
    BY DEF Byte
  <2> QED BY <2>1, RoundsToPages
<1>2. Sorted(mmap_list) /\ TypeOK
  BY ListIsSorted DEF IInv
<1>3. /\ USER_ACCESS(start, end)
      /\ IF find_vma(start, mmap_cache) # {}
         THEN Find(start)
         ELSE IF Overlaps(mmap_list, vma)
         THEN panicked' = TRUE /\ UNCHANGED <<mmap_list, mmap_cache, map_count>>
         ELSE /\ mmap_list' = Inserted(mmap_list, vma)
              /\ map_count' = map_count + 1
              /\ UNCHANGED <<mmap_cache, panicked>>
  BY DEF MmMap
<1>4. vma \in Area /\ vma.vm_start = start /\ vma.vm_end = end
  <2>1. start \in Byte /\ end \in Byte
    <3> HIDE DEF start, end
    <3> QED BY <1>1, <1>3, VmaAssumption DEF USER_ACCESS, Byte
  <2> HIDE DEF start, end
  <2> QED BY <2>1 DEF Area
<1> HIDE DEF vma, start, end
<1>5. CASE find_vma(start, mmap_cache) # {}
  BY <1>1, <1>3, <1>5, FindKeeps
<1>6. CASE find_vma(start, mmap_cache) = {} /\ Overlaps(mmap_list, vma)
  <2>1. panicked' = TRUE /\ UNCHANGED <<mmap_list, mmap_cache, map_count>>
    BY <1>3, <1>6
  <2> QED BY <2>1, SameList DEF IInv, CacheIsListed
<1>7. CASE find_vma(start, mmap_cache) = {} /\ ~Overlaps(mmap_list, vma)
  <2>1. /\ mmap_list' = Inserted(mmap_list, vma)
        /\ map_count' = map_count + 1
        /\ UNCHANGED <<mmap_cache, panicked>>
    BY <1>3, <1>7
  <2>2. /\ Sorted(mmap_list') /\ Len(mmap_list') = Len(mmap_list) + 1
        /\ ToSet(mmap_list) \subseteq ToSet(mmap_list')
    BY <1>1, <1>2, <1>3, <1>4, <1>7, <2>1, InsertKeepsSorted
  <2>3. TypeOK'
    BY <1>2, <2>1, <2>2 DEF TypeOK, Sorted
  <2>4. AreasInOrder'
    BY <2>2 DEF Sorted, AreasInOrder
  <2>5. CacheIsListed'
    BY <2>1, <2>2 DEF IInv, CacheIsListed
  <2>6. Grows
    BY <2>1, <2>2 DEF Grows
  <2> QED BY <2>3, <2>4, <2>5, <2>6 DEF IInv
<1> QED BY <1>5, <1>6, <1>7

LEMMA DuplicateKeeps ==
  ASSUME IInv, Duplicate
  PROVE  IInv' /\ mmap_list' = mmap_list
<1>1. Sorted(mmap_list)
  BY ListIsSorted DEF IInv
<1>2. mmap_list' = mmap_list
  BY <1>1, DuplicateKeepsList DEF Duplicate
<1>3. mmap_cache' = {} /\ map_count' = Len(mmap_list) /\ panicked' = panicked
  BY <1>2 DEF Duplicate
<1>4. map_count' = map_count /\ panicked' \in BOOLEAN
  BY <1>3 DEF IInv, TypeOK
<1> QED BY <1>2, <1>3, <1>4, SameList

LEMMA RenewKeeps ==
  ASSUME IInv, Renew
  PROVE  IInv' /\ mmap_list' = <<>>
<1>1. /\ mmap_list' = <<>> /\ mmap_cache' = {} /\ map_count' = 0
      /\ panicked' = panicked
  BY DEF Renew
<1>2. mmap_list' \in Seq(Area) /\ Len(mmap_list') = 0 /\ DOMAIN mmap_list' = {}
  BY <1>1
<1>3. TypeOK'
  BY <1>1, <1>2 DEF IInv, TypeOK
<1>4. AreasInOrder'
  BY <1>2 DEF AreasInOrder
<1> QED BY <1>1, <1>3, <1>4 DEF IInv, CacheIsListed

\* What a step may do to the areas.
AreasKept == /\ Duplicate => mmap_list' = mmap_list
             /\ ~Renew => mmap_list' = mmap_list \/ Grows

\* A step keeps the invariant, and the areas but for Renew.
LEMMA StepKeeps ==
  ASSUME IInv, [Next]_vars
  PROVE  IInv' /\ AreasKept
<1>0. Duplicate => mmap_list' = mmap_list
  BY DuplicateKeeps
<1>1. CASE UNCHANGED vars
  <2>1. UNCHANGED <<mmap_list, mmap_cache, map_count, panicked>>
    BY <1>1 DEF vars
  <2>2. IInv' /\ mmap_list' = mmap_list
    BY <2>1, SameList DEF IInv, TypeOK, CacheIsListed
  <2> QED BY <2>2 DEF AreasKept
<1>2. ASSUME NEW a \in Byte, Find(a)
      PROVE  IInv' /\ mmap_list' = mmap_list
  <2>1. a \in Int
    BY DEF Byte
  <2> QED BY <1>2, <2>1, FindKeeps
<1>3. ASSUME ~panicked, NEW a \in Byte, NEW len \in 0 .. USERTOP, NEW flags \in Flags,
             MmMap(a, len, flags)
      PROVE  IInv' /\ (mmap_list' = mmap_list \/ Grows)
  BY <1>3, MmMapKeeps
<1>4. ASSUME NEW a \in Byte, NEW len \in 0 .. USERTOP, NEW write \in BOOLEAN,
             Check(a, len, write)
      PROVE  IInv' /\ mmap_list' = mmap_list
  BY <1>4, CheckKeeps
<1>5. CASE Duplicate
  BY <1>0, <1>5, DuplicateKeeps DEF AreasKept
<1>6. CASE Renew
  BY <1>0, <1>6, RenewKeeps DEF AreasKept
<1> QED BY <1>0, <1>1, <1>2, <1>3, <1>4, <1>5, <1>6 DEF Next, Stopped, AreasKept

\* The invariant is inductive.
THEOREM Invariance == Spec => []IInv
BY InitHolds, StepKeeps, PTL DEF Spec

\* mmap_list stays sorted, page by page and without overlap, the cache holds what
\* the list has, find_vma finds the area of every address, and the assertions of
\* check_vma_overlap fail exactly on an overlap (insert_vma_struct, find_vma,
\* dup_mmap).
THEOREM AreasCorrect == Spec => []AreasOK
<1>1. IInv => AreasOK
  <2> SUFFICES ASSUME IInv PROVE AreasOK
    OBVIOUS
  <2>1. Sorted(mmap_list) /\ mmap_cache \in SUBSET ToSet(mmap_list)
    BY ListIsSorted DEF IInv, CacheIsListed
  <2>2. Byte \subseteq Int
    BY DEF Byte
  <2>3. FindsTheArea
    BY <2>1, <2>2, FindIsExact DEF FindsTheArea
  <2>4. FailsOnOverlap
    <3> SUFFICES ASSUME NEW start \in Byte, NEW end \in Byte, NEW flags \in Flags,
                        USER_ACCESS(start, end)
                 PROVE  Overlaps(mmap_list,
                            [vm_start |-> start, vm_end |-> end, vm_flags |-> flags])
                        <=> \E a \in start .. end - 1 :
                              \E vma \in ToSet(mmap_list) : In(a, vma)
      BY DEF FailsOnOverlap
    <3>1. PICK new : new = [vm_start |-> start, vm_end |-> end, vm_flags |-> flags]
      OBVIOUS
    <3>2. new \in Area /\ new.vm_start = start /\ new.vm_end = end /\ start < end
      BY <3>1 DEF Area, USER_ACCESS
    <3> QED BY <2>1, <3>1, <3>2, OverlapIsExact
  <2> QED BY <2>3, <2>4 DEF IInv, AreasOK
<1> QED BY <1>1, Invariance, PTL

\* user_mem_check agrees to a range exactly if each of its bytes may be accessed,
\* whatever was mapped and whatever the cache holds (user_mem_check, vmm.c).
THEOREM EveryByteIsChecked == Spec => []ChecksEveryByte
<1>1. IInv => ChecksEveryByte
  <2> SUFFICES ASSUME IInv PROVE ChecksEveryByte
    OBVIOUS
  <2>1. Sorted(mmap_list) /\ CacheIsListed
    BY ListIsSorted DEF IInv
  <2> QED BY <2>1, CheckIsExact DEF ChecksEveryByte
<1> QED BY <1>1, Invariance, PTL

\* dup_mmap rebuilds the list it copies, mm_map adds one area to it or none, and no
\* area is lost but by exec and exit.
THEOREM AreasAreKept == Spec => AreasStay
<1>1. IInv /\ [Next]_vars => IInv' /\ AreasKept
  BY StepKeeps
<1>2. Spec => [][AreasKept]_vars
  BY <1>1, Invariance, PTL DEF Spec
<1> QED BY <1>2 DEF AreasKept, AreasStay
=============================================================================
