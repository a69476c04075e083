----------------------------- MODULE SlobProofs -----------------------------
(***************************************************************************)
(* Proofs about Slob, for any number of pages, any sizes and any calls:    *)
(* the circle of free blocks stays in order and merged, the pages that     *)
(* slob_alloc has taken are cut into blocks and pieces in use without gap  *)
(* or overlap, and objects share no cell.                                  *)
(*                                                                         *)
(* The circle is first taken by itself (Ring): slob_free's search ends at  *)
(* the one place where the block belongs, and a block may leave behind or  *)
(* come behind any other.  Then memory is cut into pieces (Cut), which     *)
(* join and part.  HeapHolds has both: the free blocks are the circle, and *)
(* they and the pieces Q in use cut up the cells G.  The calls are shown   *)
(* to keep it, with a piece less or a piece more.                          *)
(***************************************************************************)
EXTENDS Slob, FiniteSetTheorems, SequenceTheorems, WellFoundedInduction, TLAPS

-----------------------------------------------------------------------------
(* Numbers and lists.                                                      *)

\* The first place on a search.
LEMMA LeastExists ==
  ASSUME NEW S \in SUBSET Nat, S # {}
  PROVE  Min(S) \in S /\ \A i \in S : Min(S) <= i
<1>1. PICK i \in S : \A j \in S : <<j, i>> \notin OpToRel(<, Nat)
  BY NatLessThanWellFounded, WFMin
<1>2. \A j \in S : ~(j < i)
  BY <1>1 DEF OpToRel
<1>3. \E x \in S : \A y \in S : x <= y
  BY <1>2
<1> QED BY <1>3 DEF Min

\* The block behind the i-th.
LEMMA NextIs ==
  ASSUME NEW S, NEW c \in Seq(S), NEW i \in 1 .. Len(c)
  PROVE  /\ NextOf(c, i) = IF i = Len(c) THEN c[1] ELSE c[i + 1]
         /\ NextOf(c, i) \in S
<1> DEFINE n == Len(c)
<1>1. n \in Nat \ {0} /\ i \in 1 .. n
  OBVIOUS
<1>2. i % n = IF i = n THEN 0 ELSE i
  <2> HIDE DEF n
  <2> QED BY <1>1
<1>3. NextOf(c, i) = IF i = Len(c) THEN c[1] ELSE c[i + 1]
  BY <1>1, <1>2 DEF NextOf
<1>4. 1 \in 1 .. n /\ (i # n => i + 1 \in 1 .. n)
  BY <1>1
<1> QED BY <1>3, <1>4, ElementOfSeq

\* The circle from its i-th block on is as long, and has the same blocks in turn.
LEMMA FromIs ==
  ASSUME NEW S, NEW c \in Seq(S), NEW i \in 1 .. Len(c)
  PROVE  /\ From(c, i) \in Seq(S) /\ Len(From(c, i)) = Len(c)
         /\ \A j \in 1 .. Len(c) :
              From(c, i)[j] = IF j <= Len(c) - i + 1 THEN c[i + j - 1]
                                                     ELSE c[j - (Len(c) - i + 1)]
<1> DEFINE a == SubSeq(c, i, Len(c))
           b == SubSeq(c, 1, i - 1)
<1>1. a \in Seq(S) /\ Len(a) = Len(c) - i + 1 /\ \A j \in 1 .. Len(a) : a[j] = c[i + j - 1]
  OBVIOUS
<1>2. b \in Seq(S) /\ Len(b) = i - 1 /\ \A j \in 1 .. Len(b) : b[j] = c[j]
  OBVIOUS
<1>3. From(c, i) = a \o b
  BY DEF From
<1> HIDE DEF a, b
<1>4. /\ a \o b \in Seq(S) /\ Len(a \o b) = Len(a) + Len(b)
      /\ \A j \in 1 .. Len(a) + Len(b) :
           (a \o b)[j] = IF j <= Len(a) THEN a[j] ELSE b[j - Len(a)]
  BY <1>1, <1>2, ConcatProperties
<1>5. Len(a) + Len(b) = Len(c)
  BY <1>1, <1>2
<1>6. ASSUME NEW j \in 1 .. Len(c)
      PROVE  (a \o b)[j] = IF j <= Len(c) - i + 1 THEN c[i + j - 1]
                                                  ELSE c[j - (Len(c) - i + 1)]
  <2>1. CASE j <= Len(a)
    BY <1>1, <1>4, <1>5, <2>1
  <2>2. CASE ~(j <= Len(a))
    <3>1. j - Len(a) \in 1 .. Len(b)
      BY <1>1, <1>5, <2>2
    <3> QED BY <1>1, <1>2, <1>4, <1>5, <2>2, <3>1
  <2> QED BY <2>1, <2>2
<1> QED BY <1>3, <1>4, <1>5, <1>6

-----------------------------------------------------------------------------
(* The circle.                                                             *)

Block == Cell \cup {arena}

\* The circle with the lengths of its blocks, wherever it is cut: it goes up, and
\* comes back to the arena.
Ring(c, u) ==
  /\ c \in Seq(Block) /\ arena \in ToSet(c)
  /\ \A i, j \in 1 .. Len(c) : c[i] = c[j] => i = j
  /\ \A i \in 1 .. Len(c) : NextOf(c, i) = arena \/ c[i] + u[c[i]] < NextOf(c, i)

\* From whichever block it is listed, the circle is in order.
LEMMA Turned ==
  ASSUME NEW c, NEW u, Ring(c, u), NEW i \in 1 .. Len(c)
  PROVE  /\ Ring(From(c, i), u) /\ ToSet(From(c, i)) = ToSet(c) /\ From(c, i)[1] = c[i]
         /\ Len(From(c, i)) = Len(c) /\ NextOf(From(c, i), 1) = NextOf(c, i)
<1> DEFINE n == Len(c)
           d == From(c, i)
           at(j) == IF j <= n - i + 1 THEN i + j - 1 ELSE j - (n - i + 1)
<1>0. c \in Seq(Block) /\ n \in Nat /\ i \in 1 .. n
  BY DEF Ring
<1>1. d \in Seq(Block) /\ Len(d) = n /\ \A j \in 1 .. n : d[j] = c[at(j)]
  BY <1>0, FromIs
<1>2. \A j \in 1 .. n : at(j) \in 1 .. n
  <2> HIDE DEF n
  <2> QED BY <1>0
<1>3. \A k \in 1 .. n : \E j \in 1 .. n : k = at(j)
  <2> SUFFICES ASSUME NEW k \in 1 .. n PROVE \E j \in 1 .. n : k = at(j)
    OBVIOUS
  <2> HIDE DEF n
  <2>1. CASE k >= i
    <3>1. k - i + 1 \in 1 .. n /\ k = at(k - i + 1)
      BY <1>0, <2>1
    <3> QED BY <3>1
  <2>2. CASE k < i
    <3>1. k + (n - i + 1) \in 1 .. n /\ k = at(k + (n - i + 1))
      BY <1>0, <2>2
    <3> QED BY <3>1
  <2> QED BY <1>0, <2>1, <2>2
<1>4. \A j, k \in 1 .. n : at(j) = at(k) => j = k
  <2> HIDE DEF n
  <2> QED BY <1>0
<1>5. ASSUME NEW j \in 1 .. n
      PROVE  NextOf(d, j) = NextOf(c, at(j))
  <2>0. at(j) \in 1 .. Len(c) /\ j \in 1 .. Len(d)
    BY <1>1, <1>2
  <2>1. NextOf(c, at(j)) = IF at(j) = n THEN c[1] ELSE c[at(j) + 1]
    <3> HIDE DEF at
    <3> QED BY <1>0, <2>0, NextIs
  <2>2. NextOf(d, j) = IF j = n THEN d[1] ELSE d[j + 1]
    <3> HIDE DEF d
    <3> QED BY <1>1, <2>0, NextIs
  <2>3. /\ (j = n => 1 \in 1 .. n /\ IF at(j) = n THEN at(1) = 1 ELSE at(1) = at(j) + 1)
        /\ (j # n => j + 1 \in 1 .. n
                     /\ IF at(j) = n THEN at(j + 1) = 1 ELSE at(j + 1) = at(j) + 1)
    <3> HIDE DEF n
    <3> QED BY <1>0
  <2> HIDE DEF at, d, n
  <2> QED BY <1>1, <2>1, <2>2, <2>3
<1>6. at(1) = i /\ 1 \in 1 .. n
  <2> HIDE DEF n
  <2> QED BY <1>0
<1> HIDE DEF at, d
<1>7. ToSet(d) = ToSet(c)
  <2>1. ToSet(d) = {d[j] : j \in 1 .. n} /\ ToSet(c) = {c[j] : j \in 1 .. n}
    BY <1>0, <1>1 DEF ToSet
  <2>2. \A j \in 1 .. n : \E k \in 1 .. n : d[j] = c[k]
    BY <1>1, <1>2
  <2>3. \A k \in 1 .. n : \E j \in 1 .. n : d[j] = c[k]
    BY <1>1, <1>3
  <2> HIDE DEF n
  <2> QED BY <2>1, <2>2, <2>3
<1>8. Ring(d, u)
  <2>1. \A j, k \in 1 .. n : d[j] = d[k] => j = k
    BY <1>1, <1>2, <1>4 DEF Ring
  <2>2. \A j \in 1 .. n : NextOf(d, j) = arena \/ d[j] + u[d[j]] < NextOf(d, j)
    BY <1>1, <1>2, <1>5 DEF Ring
  <2> QED BY <1>1, <1>7, <2>1, <2>2 DEF Ring
<1> QED BY <1>1, <1>5, <1>6, <1>7, <1>8 DEF d

\* Blocks begin at numbers, and the arena below all cells.
LEMMA Blocks ==
  /\ \A x \in Block : x \in Int /\ arena <= x
  /\ \A x \in Cell : x \in Int /\ x >= 0 /\ x # arena /\ x \in Block
  /\ arena \in Block /\ arena = -2
BY HeapAssumption DEF Block, Cell, arena

\* The end of a sequence.
LEMMA PartFrom ==
  ASSUME NEW S, NEW s \in Seq(S), NEW k \in 1 .. Len(s) + 1
  PROVE  LET t == SubSeq(s, k, Len(s))
         IN  /\ t \in Seq(S) /\ Len(t) = Len(s) - k + 1
             /\ \A j \in 1 .. Len(s) - k + 1 : t[j] = s[k + j - 1]
OBVIOUS

\* The entries of a sequence.
LEMMA EntriesAre ==
  ASSUME NEW S, NEW s \in Seq(S), NEW n, n = Len(s)
  PROVE  ToSet(s) = {s[j] : j \in 1 .. n}
<1>1. DOMAIN s = 1 .. n
  OBVIOUS
<1> QED BY <1>1 DEF ToSet

\* The second block leaves the circle.
LEMMA SecondOut ==
  ASSUME NEW d, NEW u, Ring(d, u), u \in [Block -> Nat], Len(d) >= 2, d[2] # arena
  PROVE  LET e == <<d[1]>> \o SubSeq(d, 3, Len(d))
         IN  /\ Ring(e, u) /\ ToSet(e) = ToSet(d) \ {d[2]} /\ e[1] = d[1]
             /\ Len(e) \in Nat \ {0} /\ Tail(e) = SubSeq(d, 3, Len(d))
             /\ NextOf(e, 1) = NextOf(d, 2) /\ NextOf(d, 1) = d[2]
<1> DEFINE n == Len(d)
           a == <<d[1]>>
           o == SubSeq(d, 3, n)
           e == a \o o
<1>0. d \in Seq(Block) /\ n \in Nat /\ n >= 2 /\ d[1] \in Block
  BY ElementOfSeq DEF Ring
<1>1. o \in Seq(Block) /\ Len(o) = n - 2 /\ \A j \in 1 .. n - 2 : o[j] = d[j + 2]
  <2>1. 3 \in 1 .. n + 1 /\ n - 3 + 1 = n - 2 /\ \A j \in 1 .. n - 2 : 3 + j - 1 = j + 2
    BY <1>0
  <2>2. /\ o \in Seq(Block) /\ Len(o) = n - 3 + 1
        /\ \A j \in 1 .. n - 3 + 1 : o[j] = d[3 + j - 1]
    BY <1>0, <2>1, PartFrom
  <2> QED BY <2>1, <2>2
<1>2. a \in Seq(Block) /\ Len(a) = 1 /\ a[1] = d[1]
  BY <1>0
<1> HIDE DEF a, o
<1>3. /\ e \in Seq(Block) /\ Len(e) = Len(a) + Len(o)
      /\ \A j \in 1 .. Len(a) + Len(o) : e[j] = IF j <= Len(a) THEN a[j] ELSE o[j - Len(a)]
  BY <1>1, <1>2, ConcatProperties
<1>r. Len(a) + Len(o) = n - 1
  BY <1>0, <1>1, <1>2
<1>4. e \in Seq(Block) /\ Len(e) = n - 1
  BY <1>0, <1>1, <1>2, <1>3
<1>5. \A j \in 1 .. n - 1 : e[j] = IF j = 1 THEN d[1] ELSE d[j + 1]
  <2> SUFFICES ASSUME NEW j \in 1 .. n - 1 PROVE e[j] = IF j = 1 THEN d[1] ELSE d[j + 1]
    OBVIOUS
  <2>1. CASE j = 1
    BY <1>0, <1>1, <1>2, <1>3, <2>1
  <2>2. CASE j # 1
    <3>1. j - 1 \in 1 .. n - 2 /\ (j - 1) + 2 = j + 1 /\ ~(j <= 1)
      BY <1>0, <2>2
    <3>2. e[j] = o[j - 1]
      BY <1>2, <1>3, <1>r, <3>1
    <3> QED BY <1>1, <2>2, <3>1, <3>2
  <2> QED BY <2>1, <2>2
<1>6. Tail(e) = o
  <2>1. Tail(e) \in Seq(Block) /\ Len(Tail(e)) = n - 2
        /\ \A j \in 1 .. n - 2 : Tail(e)[j] = e[j + 1]
    <3> HIDE DEF e, n
    <3> QED BY <1>0, <1>4
  <2>2. \A j \in 1 .. n - 2 : j + 1 \in 1 .. n - 1 /\ j + 1 # 1 /\ (j + 1) + 1 = j + 2
    BY <1>0
  <2>3. \A j \in 1 .. n - 2 : Tail(e)[j] = o[j]
    <3> HIDE DEF e, n
    <3> QED BY <1>1, <1>5, <2>1, <2>2
  <2> DEFINE t == Tail(e)
  <2>4. t \in Seq(Block) /\ Len(t) = Len(o) /\ \A j \in 1 .. Len(t) : t[j] = o[j]
    BY <1>1, <2>1, <2>3
  <2> HIDE DEF t
  <2>5. t = o
    BY <1>1, <2>4, SeqEqual
  <2> QED BY <2>5 DEF t
<1> HIDE DEF e
<1>7. \A j \in 1 .. n - 1 :
        NextOf(e, j) = IF j = n - 1 THEN d[1] ELSE d[j + 2]
  <2> SUFFICES ASSUME NEW j \in 1 .. n - 1
               PROVE  NextOf(e, j) = IF j = n - 1 THEN d[1] ELSE d[j + 2]
    OBVIOUS
  <2>1. NextOf(e, j) = IF j = Len(e) THEN e[1] ELSE e[j + 1]
    BY <1>4, NextIs
  <2>2. 1 \in 1 .. n - 1 /\ (j # n - 1 => j + 1 \in 1 .. n - 1 /\ j + 1 # 1 /\ (j + 1) + 1 = j + 2)
    BY <1>0
  <2> QED BY <1>4, <1>5, <2>1, <2>2
<1>8. \A j \in 1 .. n : NextOf(d, j) = IF j = n THEN d[1] ELSE d[j + 1]
  BY <1>0, NextIs
<1>9. NextOf(e, 1) = NextOf(d, 2) /\ NextOf(d, 1) = d[2]
  <2>0. 1 \in 1 .. n - 1 /\ 2 \in 1 .. n /\ 1 + 2 = 3 /\ 2 + 1 = 3 /\ (1 = n - 1 <=> n = 2)
    BY <1>0
  <2>1. NextOf(e, 1) = IF n = 2 THEN d[1] ELSE d[3]
    BY <1>7, <2>0
  <2>2. NextOf(d, 2) = IF n = 2 THEN d[1] ELSE d[3]
    BY <1>8, <2>0
  <2>3. NextOf(d, 1) = d[2]
    BY <1>0, <1>8
  <2> QED BY <2>1, <2>2, <2>3
<1>10. ToSet(e) = ToSet(d) \ {d[2]}
  <2>1. ToSet(e) = {e[j] : j \in 1 .. n - 1} /\ ToSet(d) = {d[j] : j \in 1 .. n}
    BY <1>0, <1>4, EntriesAre
  <2>2. \A j \in 1 .. n - 1 : \E k \in 1 .. n : k # 2 /\ e[j] = d[k]
    <3> SUFFICES ASSUME NEW j \in 1 .. n - 1 PROVE \E k \in 1 .. n : k # 2 /\ e[j] = d[k]
      OBVIOUS
    <3> DEFINE k == IF j = 1 THEN 1 ELSE j + 1
    <3>1. k \in 1 .. n /\ k # 2
      BY <1>0
    <3>2. e[j] = d[k]
      BY <1>5
    <3> QED BY <3>1, <3>2
  <2>3. \A k \in 1 .. n : k # 2 => \E j \in 1 .. n - 1 : e[j] = d[k]
    <3> SUFFICES ASSUME NEW k \in 1 .. n, k # 2 PROVE \E j \in 1 .. n - 1 : e[j] = d[k]
      OBVIOUS
    <3> DEFINE j == IF k = 1 THEN 1 ELSE k - 1
    <3>1. j \in 1 .. n - 1 /\ (k # 1 => j # 1 /\ j + 1 = k) /\ (k = 1 => j = 1)
      BY <1>0
    <3>2. e[j] = d[k]
      <4> HIDE DEF j
      <4> QED BY <1>5, <3>1
    <3> QED BY <3>1, <3>2
  <2>4. \A k \in 1 .. n : k # 2 => d[k] # d[2]
    BY <1>0 DEF Ring
  <2>5. \A x : x \in ToSet(e) => x \in ToSet(d) \ {d[2]}
    BY <2>1, <2>2, <2>4
  <2>6. \A x : x \in ToSet(d) \ {d[2]} => x \in ToSet(e)
    BY <2>1, <2>3
  <2> QED BY <2>5, <2>6
<1>11. \A j, k \in 1 .. Len(e) : e[j] = e[k] => j = k
  <2> SUFFICES ASSUME NEW j \in 1 .. n - 1, NEW k \in 1 .. n - 1, e[j] = e[k]
               PROVE  j = k
    BY <1>4
  <2> DEFINE p == IF j = 1 THEN 1 ELSE j + 1
             q == IF k = 1 THEN 1 ELSE k + 1
  <2>1. p \in 1 .. n /\ q \in 1 .. n /\ (p = q => j = k)
    BY <1>0
  <2>2. e[j] = d[p] /\ e[k] = d[q]
    BY <1>5
  <2> HIDE DEF p, q
  <2> QED BY <2>1, <2>2 DEF Ring
<1>12. \A j \in 1 .. Len(e) : NextOf(e, j) = arena \/ e[j] + u[e[j]] < NextOf(e, j)
  <2> SUFFICES ASSUME NEW j \in 1 .. n - 1, NextOf(e, j) # arena
               PROVE  e[j] + u[e[j]] < NextOf(e, j)
    BY <1>4
  <2>1. CASE j = 1
    <3>1. NextOf(e, 1) = NextOf(d, 2) /\ NextOf(d, 1) = d[2] /\ e[1] = d[1]
      BY <1>0, <1>5, <1>9
    <3>2. 1 \in 1 .. n /\ 2 \in 1 .. n /\ 1 \in 1 .. n - 1
      BY <1>0
    <3>3. d[1] + u[d[1]] < d[2] /\ d[2] + u[d[2]] < NextOf(d, 2)
      BY <2>1, <3>1, <3>2 DEF Ring
    <3>4. d[1] \in Block /\ d[2] \in Block /\ NextOf(d, 2) \in Block
      BY <1>0, <3>2, NextIs, ElementOfSeq
    <3>5. d[1] \in Int /\ d[2] \in Int /\ NextOf(d, 2) \in Int /\ u[d[1]] \in Nat /\ u[d[2]] \in Nat
      BY <3>4, Blocks
    <3>6. \A w, x, y \in Int : \A p, q \in Nat : w + p < x /\ x + q < y => w + p < y
      OBVIOUS
    <3>7. d[1] + u[d[1]] < NextOf(d, 2)
      BY <3>3, <3>5, <3>6
    <3> QED BY <2>1, <3>1, <3>7
  <2>2. CASE j # 1
    <3>1. j + 1 \in 1 .. n /\ (j + 1) + 1 = j + 2 /\ (j = n - 1 <=> j + 1 = n)
      BY <1>0
    <3>2. e[j] = d[j + 1] /\ NextOf(e, j) = NextOf(d, j + 1)
      BY <1>5, <1>7, <1>8, <2>2, <3>1
    <3> QED BY <3>1, <3>2 DEF Ring
  <2> QED BY <2>1, <2>2
<1>13. arena \in ToSet(e)
  BY <1>10 DEF Ring
<1>14. e[1] = d[1] /\ Len(e) \in Nat \ {0}
  BY <1>0, <1>4, <1>5
<1>15. Ring(e, u)
  BY <1>4, <1>11, <1>12, <1>13 DEF Ring
<1> QED BY <1>6, <1>9, <1>10, <1>14, <1>15 DEF e, a, o

\* A block comes into the circle behind the first.
LEMMA SecondIn ==
  ASSUME NEW d, NEW u, Ring(d, u), u \in [Block -> Nat], NEW b \in Cell, b \notin ToSet(d),
         d[1] + u[d[1]] < b, NEW w, w \in [Block -> Nat], \A x \in ToSet(d) : w[x] = u[x],
         NextOf(d, 1) = arena \/ b + w[b] < NextOf(d, 1)
  PROVE  LET e == <<d[1], b>> \o Tail(d)
         IN  Ring(e, w) /\ ToSet(e) = ToSet(d) \cup {b}
<1> DEFINE n == Len(d)
           a == <<d[1], b>>
           o == Tail(d)
           e == a \o o
<1>0. d \in Seq(Block) /\ n \in Nat /\ n >= 1 /\ d[1] \in Block /\ b \in Block
  <2>1. d \in Seq(Block) /\ ToSet(d) # {}
    BY DEF Ring
  <2>2. n # 0
    BY <2>1 DEF ToSet
  <2>3. n \in Nat /\ n >= 1 /\ 1 \in 1 .. n
    BY <2>1, <2>2
  <2> QED BY <2>1, <2>3, ElementOfSeq, Blocks
<1>1. o \in Seq(Block) /\ Len(o) = n - 1 /\ \A j \in 1 .. n - 1 : o[j] = d[j + 1]
  <2> HIDE DEF n
  <2>1. d # <<>>
    BY <1>0 DEF n
  <2> QED BY <1>0, <2>1 DEF n
<1>2. a \in Seq(Block) /\ Len(a) = 2 /\ a[1] = d[1] /\ a[2] = b
  BY <1>0
<1> HIDE DEF a, o
<1>3. /\ e \in Seq(Block) /\ Len(e) = Len(a) + Len(o)
      /\ \A j \in 1 .. Len(a) + Len(o) : e[j] = IF j <= Len(a) THEN a[j] ELSE o[j - Len(a)]
  BY <1>1, <1>2, ConcatProperties
<1>r. Len(a) + Len(o) = n + 1
  BY <1>0, <1>1, <1>2
<1>4. e \in Seq(Block) /\ Len(e) = n + 1
  BY <1>3, <1>r
<1>5. \A j \in 1 .. n + 1 : e[j] = IF j = 1 THEN d[1] ELSE IF j = 2 THEN b ELSE d[j - 1]
  <2> SUFFICES ASSUME NEW j \in 1 .. n + 1
               PROVE  e[j] = IF j = 1 THEN d[1] ELSE IF j = 2 THEN b ELSE d[j - 1]
    OBVIOUS
  <2>1. CASE j = 1 \/ j = 2
    BY <1>0, <1>2, <1>3, <1>r, <2>1
  <2>2. CASE j # 1 /\ j # 2
    <3>1. j - 2 \in 1 .. n - 1 /\ (j - 2) + 1 = j - 1 /\ ~(j <= 2)
      BY <1>0, <2>2
    <3>2. e[j] = o[j - 2]
      BY <1>2, <1>3, <1>r, <3>1
    <3> QED BY <1>1, <2>2, <3>1, <3>2
  <2> QED BY <2>1, <2>2
<1> HIDE DEF e
<1>6. \A j \in 1 .. n : NextOf(d, j) = IF j = n THEN d[1] ELSE d[j + 1]
  BY <1>0, NextIs
<1>7. \A j \in 1 .. n + 1 :
        NextOf(e, j) = IF j = 1 THEN b ELSE NextOf(d, j - 1)
  <2> SUFFICES ASSUME NEW j \in 1 .. n + 1
               PROVE  NextOf(e, j) = IF j = 1 THEN b ELSE NextOf(d, j - 1)
    OBVIOUS
  <2>1. NextOf(e, j) = IF j = Len(e) THEN e[1] ELSE e[j + 1]
    BY <1>4, NextIs
  <2>2. CASE j = 1
    <3>1. j # n + 1 /\ j + 1 = 2 /\ 2 \in 1 .. n + 1 /\ 2 # 1
      BY <1>0, <2>2
    <3> QED BY <1>4, <1>5, <2>1, <2>2, <3>1
  <2>3. CASE j = n + 1
    <3>1. j - 1 = n /\ n \in 1 .. n /\ 1 \in 1 .. n + 1 /\ j # 1
      BY <1>0, <2>3
    <3> QED BY <1>4, <1>5, <1>6, <2>1, <2>3, <3>1
  <2>4. CASE j # 1 /\ j # n + 1
    <3>1. /\ j - 1 \in 1 .. n /\ j - 1 # n /\ j + 1 \in 1 .. n + 1 /\ j + 1 # 1 /\ j + 1 # 2
          /\ (j + 1) - 1 = j /\ (j - 1) + 1 = j
      <4> HIDE DEF n
      <4> QED BY <1>0, <2>4
    <3>2. e[j + 1] = d[(j + 1) - 1]
      BY <1>5, <3>1
    <3>3. NextOf(d, j - 1) = d[(j - 1) + 1]
      BY <1>6, <3>1
    <3> QED BY <1>4, <2>1, <2>4, <3>1, <3>2, <3>3
  <2> QED BY <2>2, <2>3, <2>4
<1>8. ToSet(e) = ToSet(d) \cup {b}
  <2>1. ToSet(e) = {e[j] : j \in 1 .. n + 1} /\ ToSet(d) = {d[j] : j \in 1 .. n}
    <3>1. DOMAIN e = 1 .. Len(e) /\ DOMAIN d = 1 .. Len(d)
      BY <1>0, <1>4
    <3> QED BY <1>4, <3>1 DEF ToSet
  <2>2. \A j \in 1 .. n + 1 : e[j] = b \/ \E k \in 1 .. n : e[j] = d[k]
    <3> SUFFICES ASSUME NEW j \in 1 .. n + 1, e[j] # b PROVE \E k \in 1 .. n : e[j] = d[k]
      OBVIOUS
    <3> DEFINE k == IF j = 1 THEN 1 ELSE j - 1
    <3>1. k \in 1 .. n
      BY <1>0
    <3>2. e[j] = d[k]
      BY <1>5
    <3> QED BY <3>1, <3>2
  <2>3. \A k \in 1 .. n : \E j \in 1 .. n + 1 : e[j] = d[k]
    <3> SUFFICES ASSUME NEW k \in 1 .. n PROVE \E j \in 1 .. n + 1 : e[j] = d[k]
      OBVIOUS
    <3> DEFINE j == IF k = 1 THEN 1 ELSE k + 1
    <3>1. j \in 1 .. n + 1 /\ (k # 1 => j # 1 /\ j # 2 /\ j - 1 = k) /\ (k = 1 => j = 1)
      <4> HIDE DEF n
      <4> QED BY <1>0
    <3>2. e[j] = d[k]
      <4> HIDE DEF j
      <4> QED BY <1>5, <3>1
    <3> QED BY <3>1, <3>2
  <2>4. e[2] = b /\ 2 \in 1 .. n + 1
    <3>1. 2 \in 1 .. n + 1 /\ 2 # 1
      BY <1>0
    <3> QED BY <1>5, <3>1
  <2>5. \A x : x \in ToSet(e) => x \in ToSet(d) \cup {b}
    BY <2>1, <2>2
  <2>6. \A x : x \in ToSet(d) \cup {b} => x \in ToSet(e)
    BY <2>1, <2>3, <2>4
  <2> QED BY <2>5, <2>6
<1>9. \A j \in 1 .. n : d[j] \in ToSet(d)
  BY <1>0 DEF ToSet
<1>10. \A j, k \in 1 .. Len(e) : e[j] = e[k] => j = k
  <2> SUFFICES ASSUME NEW j \in 1 .. n + 1, NEW k \in 1 .. n + 1, e[j] = e[k]
               PROVE  j = k
    BY <1>4
  <2> DEFINE p == IF j = 1 THEN 1 ELSE j - 1
             q == IF k = 1 THEN 1 ELSE k - 1
  <2>1. /\ j # 2 => p \in 1 .. n /\ e[j] = d[p]
        /\ k # 2 => q \in 1 .. n /\ e[k] = d[q]
    <3>1. (j # 2 => p \in 1 .. n) /\ (k # 2 => q \in 1 .. n)
      BY <1>0
    <3>2. j # 2 => e[j] = d[p]
      BY <1>5
    <3>3. k # 2 => e[k] = d[q]
      BY <1>5
    <3> QED BY <3>1, <3>2, <3>3
  <2>2. j # 2 /\ k # 2 /\ p = q => j = k
    OBVIOUS
  <2>3. e[2] = b
    <3>1. 2 \in 1 .. n + 1 /\ 2 # 1
      BY <1>0
    <3> QED BY <1>5, <3>1
  <2> HIDE DEF p, q
  <2>4. CASE j = 2 \/ k = 2
    BY <1>9, <2>1, <2>3, <2>4
  <2>5. CASE j # 2 /\ k # 2
    BY <2>1, <2>2, <2>5 DEF Ring
  <2> QED BY <2>4, <2>5
<1>11. \A j \in 1 .. Len(e) : NextOf(e, j) = arena \/ e[j] + w[e[j]] < NextOf(e, j)
  <2> SUFFICES ASSUME NEW j \in 1 .. n + 1, NextOf(e, j) # arena
               PROVE  e[j] + w[e[j]] < NextOf(e, j)
    BY <1>4
  <2>0. 1 \in 1 .. n /\ 1 \in 1 .. n + 1 /\ 2 \in 1 .. n + 1 /\ 2 # 1 /\ 2 - 1 = 1
    BY <1>0
  <2>1. CASE j = 1
    <3>1. e[1] = d[1] /\ NextOf(e, 1) = b
      BY <1>5, <1>7, <2>0
    <3>2. w[d[1]] = u[d[1]]
      BY <1>9, <2>0
    <3> QED BY <2>1, <3>1, <3>2
  <2>2. CASE j = 2
    <3>1. e[2] = b
      BY <1>5, <2>0
    <3>2. NextOf(e, 2) = NextOf(d, 1)
      BY <1>7, <2>0
    <3> QED BY <2>2, <3>1, <3>2
  <2>3. CASE j # 1 /\ j # 2
    <3>1. j - 1 \in 1 .. n
      BY <2>3, <1>0
    <3>2. e[j] = d[j - 1] /\ NextOf(e, j) = NextOf(d, j - 1)
      BY <1>5, <1>7, <2>3
    <3>3. w[d[j - 1]] = u[d[j - 1]]
      BY <1>9, <3>1
    <3> QED BY <3>1, <3>2, <3>3 DEF Ring
  <2> QED BY <2>1, <2>2, <2>3
<1>12. Ring(e, w)
  BY <1>4, <1>8, <1>10, <1>11 DEF Ring
<1> QED BY <1>8, <1>12 DEF e, a, o

\* The first block grows, or blocks that are not in the circle.
LEMMA Regrown ==
  ASSUME NEW d, NEW u, Ring(d, u), NEW w,
         \A x \in ToSet(d) \ {d[1]} : w[x] = u[x],
         NextOf(d, 1) = arena \/ d[1] + w[d[1]] < NextOf(d, 1)
  PROVE  Ring(d, w)
<1>1. d \in Seq(Block)
  BY DEF Ring
<1>2. ASSUME NEW j \in 1 .. Len(d)
      PROVE  NextOf(d, j) = arena \/ d[j] + w[d[j]] < NextOf(d, j)
  <2>1. CASE j = 1
    BY <2>1
  <2>2. CASE j # 1
    <3>1. 1 \in 1 .. Len(d)
      BY <1>1
    <3>2. d[j] # d[1]
      BY <2>2, <3>1 DEF Ring
    <3>3. d[j] \in ToSet(d)
      BY <1>1 DEF ToSet
    <3>4. w[d[j]] = u[d[j]]
      BY <3>2, <3>3
    <3> QED BY <3>4 DEF Ring
  <2> QED BY <2>1, <2>2
<1> QED BY <1>1, <1>2 DEF Ring

\* slob_free's search ends, and where it ends the block belongs.
LEMMA BelongsSomewhere ==
  ASSUME NEW c, NEW u, Ring(c, u), u \in [Block -> Nat], NEW b \in Cell, b \notin ToSet(c)
  PROVE  \E j \in DOMAIN c : Belongs(c, j, b)
<1> DEFINE n == Len(c)
           low == {j \in 1 .. n : c[j] < b}
           gaps == {b - c[j] : j \in low}
<1>1. c \in Seq(Block) /\ n \in Nat /\ DOMAIN c = 1 .. n
      /\ \A j \in 1 .. n : c[j] \in Block /\ c[j] \in Int /\ c[j] \in ToSet(c) /\ arena <= c[j]
  <2>1. c \in Seq(Block)
    BY DEF Ring
  <2>2. n \in Nat /\ DOMAIN c = 1 .. n
    BY <2>1
  <2>3. \A j \in 1 .. n : c[j] \in Block /\ c[j] \in ToSet(c)
    BY <2>1, <2>2, ElementOfSeq DEF ToSet
  <2> QED BY <2>1, <2>2, <2>3, Blocks
<1>2. b \in Int /\ b >= 0 /\ arena = -2
  BY Blocks
<1>3. gaps \in SUBSET Nat
  BY <1>1, <1>2
<1>4. gaps # {}
  <2>1. PICK k \in 1 .. n : c[k] = arena
    BY <1>1 DEF Ring, ToSet
  <2>2. k \in low
    BY <1>2, <2>1
  <2> QED BY <2>2
<1>5. PICK k \in low : Min(gaps) = b - c[k] /\ \A j \in low : b - c[k] <= b - c[j]
  <2> HIDE DEF low
  <2>1. Min(gaps) \in gaps /\ \A g \in gaps : Min(gaps) <= g
    <3> HIDE DEF gaps
    <3> QED BY <1>3, <1>4, LeastExists
  <2> QED BY <2>1
<1>6. NextOf(c, k) \in ToSet(c) /\ NextOf(c, k) \in Block
  <2>1. NextOf(c, k) = IF k = n THEN c[1] ELSE c[k + 1]
    BY <1>1, NextIs
  <2>2. 1 \in 1 .. n /\ (k # n => k + 1 \in 1 .. n)
    <3>1. k \in 1 .. n
      OBVIOUS
    <3> HIDE DEF n, low
    <3> QED BY <1>1, <3>1
  <2> QED BY <1>1, <2>1, <2>2
<1>7. CASE NextOf(c, k) = arena
  BY <1>1, <1>7 DEF Belongs
<1>8. CASE NextOf(c, k) # arena
  <2>1. c[k] + u[c[k]] < NextOf(c, k)
    BY <1>8 DEF Ring
  <2>2. NextOf(c, k) \in Int /\ u[c[k]] \in Nat
    BY <1>1, <1>6, Blocks
  <2>3. c[k] < NextOf(c, k)
    BY <1>1, <2>1, <2>2
  <2>4. PICK j \in 1 .. n : c[j] = NextOf(c, k)
    BY <1>1, <1>6 DEF ToSet
  <2>5. ~(c[j] < b)
    BY <1>1, <1>2, <1>5, <2>3, <2>4
  <2>6. b < NextOf(c, k)
    BY <1>2, <1>6, <2>2, <2>4, <2>5
  <2> QED BY <1>1, <2>6 DEF Belongs
<1> QED BY <1>7, <1>8

\* What slob_free has found: the block before is below b, and the one behind above it.
LEMMA BelongsMeans ==
  ASSUME NEW c, NEW u, Ring(c, u), u \in [Block -> Nat], NEW b \in Cell,
         NEW i \in 1 .. Len(c), Belongs(c, i, b)
  PROVE  c[i] < b /\ (NextOf(c, i) = arena \/ b < NextOf(c, i))
<1>1. c \in Seq(Block) /\ c[i] \in Block /\ NextOf(c, i) \in Block
  BY NextIs, ElementOfSeq DEF Ring
<1>2. /\ c[i] \in Int /\ arena <= c[i] /\ NextOf(c, i) \in Int /\ u[c[i]] \in Nat
      /\ b \in Int /\ b >= 0 /\ arena = -2
  BY <1>1, Blocks
<1>3. NextOf(c, i) = arena \/ c[i] + u[c[i]] < NextOf(c, i)
  BY DEF Ring
<1> QED BY <1>2, <1>3 DEF Belongs

-----------------------------------------------------------------------------
(* Memory cut into pieces.                                                 *)

\* The cells of G are cut into pieces that begin at the places X, of these lengths.
Cut(X, len, G) ==
  /\ \A x \in X : x \in Int /\ len[x] \in Nat \ {0}
  /\ \A x, y \in X : x < y => x + len[x] <= y
  /\ \A a : (\E x \in X : a \in Run(x, len[x])) <=> a \in G

\* The lengths of other places do not matter.
LEMMA SameCut ==
  ASSUME NEW X, NEW len, NEW G, Cut(X, len, G), NEW lens, \A x \in X : lens[x] = len[x]
  PROVE  Cut(X, lens, G)
BY DEF Cut

\* Two pieces that touch are one.
LEMMA Joined ==
  ASSUME NEW X, NEW len, NEW G, Cut(X, len, G), NEW x \in X, NEW y \in X, x + len[x] = y,
         NEW lens, \A z \in X \ {y} : lens[z] = IF z = x THEN len[x] + len[y] ELSE len[z]
  PROVE  x # y /\ Cut(X \ {y}, lens, G)
<1>1. /\ x \in Int /\ len[x] \in Nat \ {0} /\ y \in Int /\ len[y] \in Nat \ {0}
      /\ \A z \in X : z \in Int /\ len[z] \in Nat \ {0}
      /\ \A w, z \in X : w < z => w + len[w] <= z
      /\ \A a : (\E z \in X : a \in Run(z, len[z])) <=> a \in G
  BY DEF Cut
<1>2. x # y /\ x < y
  BY <1>1
<1>3. lens[x] = len[x] + len[y]
  BY <1>2
<1>4. \A z \in X \ {y} : z \in Int /\ lens[z] \in Nat \ {0}
  BY <1>1
<1>5. ASSUME NEW w \in X \ {y}, NEW z \in X \ {y}, w < z
      PROVE  w + lens[w] <= z
  <2>1. w + len[w] <= z /\ w \in Int /\ z \in Int
    BY <1>1, <1>5
  <2>2. CASE w # x
    BY <2>1, <2>2
  <2>3. CASE w = x
    <3>1. y <= z
      BY <1>1, <2>1, <2>3
    <3>2. y < z
      BY <1>1, <2>1, <3>1
    <3>3. y + len[y] <= z
      BY <1>1, <3>2
    <3> QED BY <1>1, <1>3, <2>1, <2>3, <3>3
  <2> QED BY <2>2, <2>3
<1>6. ASSUME NEW a
      PROVE  (\E z \in X \ {y} : a \in Run(z, lens[z])) <=> (\E z \in X : a \in Run(z, len[z]))
  <2>1. a \in Run(x, lens[x]) <=> a \in Run(x, len[x]) \/ a \in Run(y, len[y])
    BY <1>1, <1>3 DEF Run
  <2>2. \A z \in X \ {y} : z # x => lens[z] = len[z]
    OBVIOUS
  <2>3. x \in X \ {y}
    BY <1>2
  <2> QED BY <2>1, <2>2, <2>3
<1> QED BY <1>1, <1>2, <1>4, <1>5, <1>6 DEF Cut

\* A piece is cut in two.
LEMMA Parted ==
  ASSUME NEW X, NEW len, NEW G, Cut(X, len, G), NEW x \in X, NEW n \in Nat \ {0}, n < len[x],
         NEW lens, lens[x] = n, lens[x + n] = len[x] - n,
         \A z \in X \ {x} : lens[z] = len[z]
  PROVE  x + n \notin X /\ Cut(X \cup {x + n}, lens, G)
<1> DEFINE y == x + n
<1>1. /\ x \in Int /\ len[x] \in Nat \ {0}
      /\ \A z \in X : z \in Int /\ len[z] \in Nat \ {0}
      /\ \A w, z \in X : w < z => w + len[w] <= z
      /\ \A a : (\E z \in X : a \in Run(z, len[z])) <=> a \in G
  BY DEF Cut
<1>2. y \in Int /\ x < y /\ y < x + len[x] /\ lens[y] \in Nat \ {0}
      /\ y + lens[y] = x + len[x]
  BY <1>1
<1>3. y \notin X
  BY <1>1, <1>2
<1> HIDE DEF y
<1>4. \A z \in X \cup {y} : z \in Int /\ lens[z] \in Nat \ {0}
  BY <1>1, <1>2
<1>5. ASSUME NEW w \in X \cup {y}, NEW z \in X \cup {y}, w < z
      PROVE  w + lens[w] <= z
  <2>1. CASE w \in X \ {x} /\ z \in X
    BY <1>1, <1>5, <2>1
  <2>2. CASE w = x /\ z \in X
    <3>1. x + len[x] <= z
      BY <1>1, <1>5, <2>2
    <3> QED BY <1>1, <2>2, <3>1
  <2>3. CASE w \in X \ {x} /\ z = y
    <3>1. w < x
      <4> SUFFICES ASSUME ~(w < x) PROVE FALSE
        OBVIOUS
      <4>1. x < w /\ w \in Int
        BY <1>1, <2>3
      <4>2. x + len[x] <= w
        BY <1>1, <2>3, <4>1
      <4> QED BY <1>1, <1>2, <1>5, <2>3, <4>1, <4>2
    <3>2. w + len[w] <= x /\ w \in Int
      BY <1>1, <2>3, <3>1
    <3> QED BY <1>1, <1>2, <2>3, <3>2
  <2>4. CASE w = x /\ z = y
    BY <1>1, <2>4 DEF y
  <2>5. CASE w = y /\ z \in X
    <3>1. x < z /\ z \in Int
      BY <1>1, <1>2, <1>5, <2>5
    <3>2. x + len[x] <= z
      BY <1>1, <2>5, <3>1
    <3> QED BY <1>2, <2>5, <3>2
  <2> QED BY <1>2, <1>5, <2>1, <2>2, <2>3, <2>4, <2>5
<1>6. ASSUME NEW a
      PROVE  (\E z \in X \cup {y} : a \in Run(z, lens[z])) <=> (\E z \in X : a \in Run(z, len[z]))
  <2>1. a \in Run(x, len[x]) <=> a \in Run(x, lens[x]) \/ a \in Run(y, lens[y])
    BY <1>1, <1>2 DEF Run, y
  <2>2. \A z \in X : z # x => lens[z] = len[z]
    OBVIOUS
  <2> QED BY <2>1, <2>2
<1>7. Cut(X \cup {y}, lens, G)
  BY <1>1, <1>4, <1>5, <1>6 DEF Cut
<1> QED BY <1>3, <1>7 DEF y

\* A piece comes from elsewhere.
LEMMA Added ==
  ASSUME NEW X, NEW len, NEW G, Cut(X, len, G), NEW p \in Int, NEW m \in Nat \ {0},
         G \cap Run(p, m) = {}, NEW lens, lens[p] = m, \A z \in X : lens[z] = len[z]
  PROVE  p \notin X /\ Cut(X \cup {p}, lens, G \cup Run(p, m))
<1>1. /\ \A z \in X : z \in Int /\ len[z] \in Nat \ {0}
      /\ \A w, z \in X : w < z => w + len[w] <= z
      /\ \A a : (\E z \in X : a \in Run(z, len[z])) <=> a \in G
  BY DEF Cut
<1>2. p \in Run(p, m) /\ \A z \in X : z \in Run(z, len[z]) /\ z \in G
  <2>1. p \in Run(p, m)
    BY DEF Run
  <2>2. \A z \in X : z \in Run(z, len[z])
    BY <1>1 DEF Run
  <2> QED BY <1>1, <2>1, <2>2
<1>3. p \notin X
  BY <1>2
<1>4. \A z \in X \cup {p} : z \in Int /\ lens[z] \in Nat \ {0}
  BY <1>1
<1>5. ASSUME NEW w \in X \cup {p}, NEW z \in X \cup {p}, w < z
      PROVE  w + lens[w] <= z
  <2>1. CASE w \in X /\ z \in X
    BY <1>1, <1>5, <2>1
  <2>2. CASE w \in X /\ z = p
    <3>1. p \notin Run(w, len[w])
      BY <1>1, <1>2, <2>2
    <3> QED BY <1>1, <1>5, <2>2, <3>1 DEF Run
  <2>3. CASE w = p /\ z \in X
    <3>1. z \notin Run(p, m)
      BY <1>2, <2>3
    <3> QED BY <1>1, <1>5, <2>3, <3>1 DEF Run
  <2> QED BY <1>5, <2>1, <2>2, <2>3
<1>6. \A a : (\E z \in X \cup {p} : a \in Run(z, lens[z])) <=> a \in G \cup Run(p, m)
  BY <1>1
<1> QED BY <1>3, <1>4, <1>5, <1>6 DEF Cut

-----------------------------------------------------------------------------
(* The heap: its free blocks, and the pieces Q in use, of lengths L.       *)

Heap(h) ==
  /\ h.units \in [Block -> Nat] /\ h.units[arena] = 1
  /\ Ring(h.circle, h.units)
Free(h) == ToSet(h.circle) \ {arena}
Lengths(h, Q, L) == [x \in Q \cup Free(h) |-> IF x \in Q THEN L[x] ELSE h.units[x]]

HeapHolds(h, G, Q, L) ==
  /\ Heap(h) /\ Q \subseteq Cell /\ Q \cap Free(h) = {}
  /\ Cut(Q \cup Free(h), Lengths(h, Q, L), G)

\* Free blocks and pieces in use have the lengths that Lengths says.
LEMMA FreeIs ==
  ASSUME NEW h, NEW G, NEW Q, NEW L, HeapHolds(h, G, Q, L)
  PROVE  /\ Free(h) \subseteq Cell
         /\ \A x \in Free(h) : h.units[x] \in Nat \ {0} /\ Lengths(h, Q, L)[x] = h.units[x]
         /\ \A x \in Q : L[x] \in Nat \ {0} /\ Lengths(h, Q, L)[x] = L[x]
<1>1. ToSet(h.circle) \subseteq Block
  <2>1. h.circle \in Seq(Block)
    BY DEF HeapHolds, Heap, Ring
  <2> QED BY <2>1, ElementOfSeq DEF ToSet
<1>2. Free(h) \subseteq Cell
  BY <1>1 DEF Free, Block
<1>3. \A x \in Free(h) : Lengths(h, Q, L)[x] = h.units[x]
  BY DEF HeapHolds, Lengths
<1>4. \A x \in Q : Lengths(h, Q, L)[x] = L[x]
  BY DEF Lengths
<1> QED BY <1>2, <1>3, <1>4 DEF HeapHolds, Cut

\* A sequence is its first entry and the others.
LEMMA HeadAndTail ==
  ASSUME NEW S, NEW d \in Seq(S), Len(d) >= 1
  PROVE  <<d[1]>> \o Tail(d) = d
<1> DEFINE n == Len(d)
           a == <<d[1]>>
           o == Tail(d)
           e == a \o o
<1>1. n \in Nat /\ n >= 1 /\ d[1] \in S
  OBVIOUS
<1>2. o \in Seq(S) /\ Len(o) = n - 1 /\ \A j \in 1 .. n - 1 : o[j] = d[j + 1]
  <2>1. d # <<>>
    OBVIOUS
  <2> QED BY <2>1
<1>3. a \in Seq(S) /\ Len(a) = 1 /\ a[1] = d[1]
  BY <1>1
<1> HIDE DEF a, o
<1>4. /\ e \in Seq(S) /\ Len(e) = Len(a) + Len(o)
      /\ \A j \in 1 .. Len(a) + Len(o) : e[j] = IF j <= Len(a) THEN a[j] ELSE o[j - Len(a)]
  <2>1. a \in Seq(S) /\ o \in Seq(S)
    BY <1>2, <1>3
  <2> QED BY <2>1, ConcatProperties
<1>5. Len(a) + Len(o) = n
  BY <1>1, <1>2, <1>3
<1>6. \A j \in 1 .. n : e[j] = d[j]
  <2> SUFFICES ASSUME NEW j \in 1 .. n PROVE e[j] = d[j]
    OBVIOUS
  <2>1. CASE j = 1
    BY <1>3, <1>4, <1>5, <2>1
  <2>2. CASE j # 1
    <3>1. j - 1 \in 1 .. n - 1 /\ (j - 1) + 1 = j /\ ~(j <= 1)
      BY <1>1, <2>2
    <3> QED BY <1>2, <1>3, <1>4, <1>5, <3>1
  <2> QED BY <2>1, <2>2
<1> HIDE DEF e
<1>7. e = d
  BY <1>4, <1>5, <1>6, SeqEqual
<1> QED BY <1>7 DEF e, a, o

\* What slob_free leaves of a piece in use: the others are as they were, the heap has a
\* free block at least as long.
Returned(h, h2, G, Q, L, b) ==
  /\ HeapHolds(h2, G, Q \ {b}, L)
  /\ \A x \in Q \ {b} : h2.units[x] = h.units[x]
  /\ \E x \in Free(h2) : h2.units[x] >= L[b]

\* The circle in slob_free: cut before the block it has found, and without the one
\* that b is joined with.
LEMMA FreedCircle ==
  ASSUME NEW h, Heap(h), NEW b \in Cell, b \notin ToSet(h.circle)
  PROVE  LET i == Min({j \in DOMAIN h.circle : Belongs(h.circle, j, b)})
             d == From(h.circle, i)
         IN  /\ Ring(d, h.units) /\ ToSet(d) = ToSet(h.circle) /\ d \in Seq(Block)
             /\ Len(d) \in Nat \ {0} /\ d[1] \in ToSet(d) /\ NextOf(d, 1) \in ToSet(d)
             /\ d[1] < b /\ (NextOf(d, 1) = arena \/ b < NextOf(d, 1))
             /\ (NextOf(d, 1) # arena => Len(d) >= 2)
<1> DEFINE B == {j \in DOMAIN h.circle : Belongs(h.circle, j, b)}
           i == Min(B)
           d == From(h.circle, i)
<1>1. h.circle \in Seq(Block) /\ Ring(h.circle, h.units) /\ h.units \in [Block -> Nat]
  BY DEF Heap, Ring
<1>2. B # {}
  BY <1>1, BelongsSomewhere
<1>3. B \in SUBSET Nat
  BY <1>1
<1>4. i \in B
  <2> HIDE DEF B
  <2> QED BY <1>2, <1>3, LeastExists
<1>5. i \in 1 .. Len(h.circle) /\ Belongs(h.circle, i, b)
  <2> HIDE DEF i
  <2>1. DOMAIN h.circle = 1 .. Len(h.circle)
    BY <1>1
  <2> QED BY <1>4, <2>1
<1> HIDE DEF i, B
<1>6. /\ Ring(d, h.units) /\ ToSet(d) = ToSet(h.circle) /\ d[1] = h.circle[i]
      /\ Len(d) = Len(h.circle) /\ NextOf(d, 1) = NextOf(h.circle, i)
  BY <1>1, <1>5, Turned
<1>7. d[1] < b /\ (NextOf(d, 1) = arena \/ b < NextOf(d, 1))
  BY <1>1, <1>5, <1>6, BelongsMeans
<1> HIDE DEF d
<1>8. d \in Seq(Block) /\ Len(d) \in Nat \ {0} /\ 1 \in 1 .. Len(d)
      /\ (1 # Len(d) => 2 \in 1 .. Len(d) /\ Len(d) >= 2)
  <2>1. d \in Seq(Block) /\ Len(h.circle) \in Nat \ {0}
    BY <1>1, <1>5, <1>6 DEF Ring
  <2> DEFINE m == Len(d)
  <2>2. m \in Nat \ {0}
    BY <1>6, <2>1
  <2> HIDE DEF m
  <2>3. 1 \in 1 .. m /\ (1 # m => 2 \in 1 .. m /\ m >= 2)
    BY <2>2
  <2> QED BY <2>1, <2>2, <2>3 DEF m
<1>9. NextOf(d, 1) = IF 1 = Len(d) THEN d[1] ELSE d[2]
  <2>1. 1 + 1 = 2
    OBVIOUS
  <2> QED BY <1>8, <2>1, NextIs
<1>10. d[1] \in ToSet(d) /\ NextOf(d, 1) \in ToSet(d)
  <2>1. ToSet(d) = {d[j] : j \in 1 .. Len(d)}
    BY <1>8 DEF ToSet
  <2> QED BY <1>8, <1>9, <2>1
<1>11. NextOf(d, 1) # arena => Len(d) >= 2
  <2> SUFFICES ASSUME 1 = Len(d), NextOf(d, 1) # arena PROVE FALSE
    BY <1>8
  <2>1. d[1] \in Block
    BY <1>8, ElementOfSeq
  <2>2. d[1] < b /\ b < d[1]
    BY <1>7, <1>9
  <2>3. d[1] \in Int /\ b \in Int
    BY <2>1, Blocks
  <2> QED BY <2>2, <2>3
<1> QED BY <1>6, <1>7, <1>8, <1>10, <1>11 DEF d, i, B

\* slob_free gives back a piece, joins it with the blocks it touches, and keeps the rest.
LEMMA FreedKeeps ==
  ASSUME NEW h, NEW G, NEW Q, NEW L, HeapHolds(h, G, Q, L), NEW b \in Q, NEW n,
         IF n = 0 THEN h.units[b] = L[b] ELSE n = L[b]
  PROVE  Returned(h, Freed(h, b, n), G, Q, L, b)
<1> DEFINE d == From(h.circle, Min({j \in DOMAIN h.circle : Belongs(h.circle, j, b)}))
           u == h.units
           cur == d[1]
           next == NextOf(d, 1)
           size == IF n = 0 THEN u[b] ELSE n
           high == b + size = next
           low == cur + u[cur] = b
           total == size + (IF high THEN u[next] ELSE 0)
           others == IF high THEN SubSeq(d, 3, Len(d)) ELSE Tail(d)
           e == IF high THEN <<cur>> \o SubSeq(d, 3, Len(d)) ELSE d
           w == [a \in DOMAIN u |-> IF a = cur /\ low THEN u[cur] + total
                                    ELSE IF a = b THEN IF low THEN 0 ELSE total
                                    ELSE IF a = next /\ high THEN 0 ELSE u[a]]
           k == (IF low THEN <<cur>> ELSE <<cur, b>>) \o others
           h2 == Freed(h, b, n)
           F == Free(h)
           F2 == Free(h2)
           P == Q \ {b}
           len == Lengths(h, Q, L)
           len2 == Lengths(h2, P, L)
<1>0. size = L[b]
  OBVIOUS
<1>1. h2 = [circle |-> k, units |-> w]
  BY DEF Freed, Touches
<1>2. h2.circle = k /\ h2.units = w
  <2> HIDE DEF h2, k, w
  <2> QED BY <1>1
<1>3. /\ Heap(h) /\ u \in [Block -> Nat] /\ u[arena] = 1 /\ Q \subseteq Cell /\ Q \cap F = {}
      /\ Cut(Q \cup F, len, G) /\ b \in Cell /\ DOMAIN u = Block
  BY DEF HeapHolds, Heap
<1>4. b \notin ToSet(h.circle)
  BY <1>3, Blocks DEF Free
<1>5. /\ Ring(d, u) /\ ToSet(d) = ToSet(h.circle) /\ d \in Seq(Block)
      /\ Len(d) \in Nat \ {0} /\ cur \in ToSet(d) /\ next \in ToSet(d)
      /\ cur < b /\ (next = arena \/ b < next) /\ (next # arena => Len(d) >= 2)
  BY <1>3, <1>4, FreedCircle
<1> HIDE DEF d, h2
<1>6. /\ F \subseteq Cell /\ \A x \in F : u[x] \in Nat \ {0} /\ len[x] = u[x]
      /\ \A x \in Q : L[x] \in Nat \ {0} /\ len[x] = L[x]
  BY FreeIs
<1>7. /\ \A x, y \in Q \cup F : x < y => x + len[x] <= y
      /\ size \in Nat \ {0} /\ b \in Int /\ b >= 0 /\ len[b] = size
  <2> HIDE DEF size, len, F
  <2> QED BY <1>0, <1>3, <1>6, Blocks DEF Cut
<1>8. /\ cur = arena \/ cur \in F
      /\ next = arena \/ next \in F
  BY <1>5 DEF Free
<1>9. arena = -2 /\ arena \notin Cell /\ \A x \in Cell : x \in Int /\ x >= 0
  BY Blocks
<1> HIDE DEF cur, next, F, len, size
<1>10. next # arena => next \in F /\ next \in Int /\ next # cur /\ b + size <= next
                        /\ u[next] \in Nat \ {0}
  <2> SUFFICES ASSUME next # arena
               PROVE  next \in F /\ next \in Int /\ next # cur /\ b + size <= next
                      /\ u[next] \in Nat \ {0}
    OBVIOUS
  <2>1. next \in F /\ next \in Int /\ b < next /\ u[next] \in Nat \ {0}
    BY <1>5, <1>6, <1>8, <1>9
  <2>2. cur \in Int
    BY <1>6, <1>8, <1>9
  <2>3. b + size <= next
    BY <1>7, <2>1
  <2> QED BY <1>5, <1>7, <2>1, <2>2, <2>3
<1>11. high => next # arena
  BY <1>7, <1>9
<1>12. /\ cur # arena => cur \in F /\ u[cur] \in Nat \ {0} /\ cur + u[cur] <= b
       /\ low => cur # arena
       /\ cur \in Int /\ u[cur] \in Nat /\ cur \in Block /\ cur + u[cur] <= b
  <2>1. cur # arena => cur \in F /\ u[cur] \in Nat \ {0} /\ cur + u[cur] <= b
    BY <1>5, <1>6, <1>7, <1>8
  <2>2. cur = arena => u[cur] = 1 /\ cur + u[cur] = -1
    BY <1>3, <1>9
  <2>3. cur \in Block /\ cur \in Int
    BY <1>6, <1>8, <1>9, Blocks
  <2>4. CASE cur = arena
    <3>1. u[cur] = 1 /\ cur = -2 /\ u[cur] \in Nat
      BY <1>9, <2>2, <2>4
    <3>2. ~low
      BY <1>7, <3>1
    <3>3. cur + u[cur] <= b
      BY <1>7, <3>1
    <3> QED BY <2>3, <2>4, <3>1, <3>2, <3>3
  <2>5. CASE cur # arena
    BY <2>1, <2>3, <2>5
  <2> QED BY <2>4, <2>5
<1>13. total \in Nat \ {0} /\ total >= size /\ (~high => total = size)
       /\ (high => total = size + u[next])
  BY <1>7, <1>10, <1>11
<1>14. b \notin F /\ b # arena /\ b # cur /\ b # next
  BY <1>3, <1>5, <1>8, <1>9
<1>15. /\ Ring(e, u) /\ ToSet(e) = IF high THEN ToSet(d) \ {next} ELSE ToSet(d)
       /\ e[1] = cur /\ Tail(e) = others /\ e \in Seq(Block) /\ Len(e) \in Nat \ {0}
       /\ (NextOf(e, 1) = arena \/ b + total < NextOf(e, 1))
  <2>1. CASE high
    <3>1. Len(d) >= 2
      BY <1>5, <1>11, <2>1
    <3>2. d \in Seq(Block) /\ 1 \in 1 .. Len(d) /\ 1 # Len(d) /\ 2 \in 1 .. Len(d)
      <4> DEFINE m == Len(d)
      <4>1. m \in Nat \ {0} /\ m >= 2
        BY <1>5, <3>1
      <4> HIDE DEF m
      <4>2. 1 \in 1 .. m /\ 1 # m /\ 2 \in 1 .. m
        BY <4>1
      <4> QED BY <1>5, <4>2 DEF m
    <3>3. next = d[2]
      <4>1. NextOf(d, 1) = d[1 + 1] /\ 1 + 1 = 2
        BY <3>2, NextIs
      <4> QED BY <4>1 DEF next
    <3>4. d[2] # arena
      BY <1>11, <2>1, <3>3
    <3>5. e = <<d[1]>> \o SubSeq(d, 3, Len(d)) /\ others = SubSeq(d, 3, Len(d))
      BY <2>1 DEF cur
    <3> DEFINE f == <<d[1]>> \o SubSeq(d, 3, Len(d))
    <3>6. /\ Ring(f, u) /\ ToSet(f) = ToSet(d) \ {d[2]} /\ f[1] = d[1]
          /\ Len(f) \in Nat \ {0} /\ Tail(f) = SubSeq(d, 3, Len(d))
          /\ NextOf(f, 1) = NextOf(d, 2)
      BY <1>3, <1>5, <3>1, <3>4, SecondOut
    <3> HIDE DEF f, e, others
    <3>7. NextOf(d, 2) = arena \/ next + u[next] < NextOf(d, 2)
      BY <1>5, <3>2, <3>3 DEF Ring
    <3>8. b + total = next + u[next]
      BY <1>7, <1>10, <1>11, <1>13, <2>1
    <3>9. e = f
      BY <3>5 DEF f
    <3>10. f \in Seq(Block)
      BY <3>6 DEF Ring
    <3>11. cur = d[1]
      BY DEF cur
    <3> QED BY <2>1, <3>3, <3>5, <3>6, <3>7, <3>8, <3>9, <3>10, <3>11
  <2>2. CASE ~high
    <3>1. e = d /\ others = Tail(d) /\ cur = d[1] /\ next = NextOf(d, 1)
      BY <2>2 DEF cur, next
    <3>2. next = arena \/ b + total < next
      BY <1>7, <1>10, <1>13, <2>2
    <3> HIDE DEF e, others
    <3> QED BY <1>5, <2>2, <3>1, <3>2
  <2> QED BY <2>1, <2>2
<1>16. k = IF low THEN <<e[1]>> \o Tail(e) ELSE <<e[1], b>> \o Tail(e)
  BY <1>15
<1> HIDE DEF e, others
<1>17. /\ w \in [Block -> Nat]
       /\ \A a \in Block : w[a] = IF a = cur /\ low THEN u[cur] + total
                                  ELSE IF a = b THEN IF low THEN 0 ELSE total
                                  ELSE IF a = next /\ high THEN 0 ELSE u[a]
  BY <1>3, <1>12, <1>13
<1> HIDE DEF w, k, total
<1>18. b \in Block /\ (ToSet(e) \subseteq Block) /\ b \notin ToSet(e)
  <2>1. b \in Block
    BY <1>3, Blocks
  <2>2. ToSet(e) \subseteq ToSet(h.circle)
    BY <1>5, <1>15
  <2>3. \A x \in ToSet(e) : x \in Block
    BY <1>15, ElementOfSeq DEF ToSet
  <2> QED BY <1>4, <2>1, <2>2, <2>3
<1>19. Ring(k, w) /\ ToSet(k) = IF low THEN ToSet(e) ELSE ToSet(e) \cup {b}
  <2>1. CASE low
    <3>1. k = e
      <4>1. Len(e) >= 1
        BY <1>15
      <4> QED BY <1>15, <1>16, <2>1, <4>1, HeadAndTail
    <3>2. \A x \in ToSet(e) \ {e[1]} : w[x] = u[x]
      BY <1>15, <1>17, <1>18
    <3>3. e[1] + w[e[1]] = b + total
      <4>1. e[1] = cur /\ w[cur] = u[cur] + total
        BY <1>12, <1>15, <1>17, <2>1
      <4>2. cur + u[cur] = b
        BY <2>1
      <4>3. cur \in Int /\ u[cur] \in Int /\ total \in Int /\ b \in Int
        BY <1>7, <1>12, <1>13
      <4>4. cur + (u[cur] + total) = b + total
        BY <4>2, <4>3
      <4> QED BY <4>1, <4>4
    <3>4. Ring(e, w)
      BY <1>15, <3>2, <3>3, Regrown
    <3> QED BY <2>1, <3>1, <3>4
  <2>2. CASE ~low
    <3>1. e[1] + u[e[1]] < b
      BY <1>7, <1>12, <1>15, <2>2
    <3>2. \A x \in ToSet(e) : w[x] = u[x]
      BY <1>15, <1>17, <1>18, <2>2
    <3>3. w[b] = total
      BY <1>14, <1>17, <1>18, <2>2
    <3>4. Ring(<<e[1], b>> \o Tail(e), w) /\ ToSet(<<e[1], b>> \o Tail(e)) = ToSet(e) \cup {b}
      <4>1. Ring(e, u) /\ w \in [Block -> Nat] /\ b \notin ToSet(e) /\ b \in Cell
        BY <1>3, <1>15, <1>17, <1>18
      <4>2. NextOf(e, 1) = arena \/ b + w[b] < NextOf(e, 1)
        BY <1>15, <3>3
      <4>3. u \in [Block -> Nat]
        BY <1>3
      <4> HIDE DEF u
      <4> QED BY <3>1, <3>2, <4>1, <4>2, <4>3, SecondIn
    <3> QED BY <1>16, <2>2, <3>4
  <2> QED BY <2>1, <2>2
<1> HIDE DEF high, low
<1>20. F2 = (IF high THEN F \ {next} ELSE F) \cup (IF low THEN {} ELSE {b})
  <2>1. ToSet(h2.circle) = ToSet(k)
    BY <1>2
  <2>2. F = ToSet(d) \ {arena}
    BY <1>5 DEF F, Free
  <2>3. F2 = ToSet(k) \ {arena}
    BY <2>1 DEF Free
  <2> QED BY <1>14, <1>15, <1>19, <2>2, <2>3
<1> HIDE DEF F2
<1>21. Heap(h2)
  <2>1. w[arena] = 1
    BY <1>3, <1>9, <1>11, <1>12, <1>14, <1>17, Blocks
  <2> QED BY <1>2, <1>17, <1>19, <2>1 DEF Heap
<1>22. \A x \in P : w[x] = u[x] /\ x \in Cell /\ x \notin F2
  <2> SUFFICES ASSUME NEW x \in P PROVE w[x] = u[x] /\ x \in Cell /\ x \notin F2
    OBVIOUS
  <2>1. x \in Cell /\ x \notin F /\ x # b /\ x \in Block /\ x # arena
    BY <1>3, Blocks
  <2>2. x # cur /\ ~(x = next /\ high)
    BY <1>8, <2>1
  <2> QED BY <1>17, <1>20, <2>1, <2>2
<1>23. \A x \in F2 : len2[x] = w[x]
  BY <1>2, <1>22 DEF Lengths, F2
<1>24. \A x \in P : len2[x] = L[x]
  BY DEF Lengths
<1> HIDE DEF len2
<1>25. Cut(P \cup F2, len2, G)
  <2> DEFINE X == Q \cup F
             lenh == [x \in X |-> IF high /\ x = b THEN size + u[next] ELSE len[x]]
             Y == IF high THEN X \ {next} ELSE X
  <2>0. P \cup F2 = IF low THEN Y \ {b} ELSE Y
    BY <1>3, <1>10, <1>11, <1>14, <1>20
  <2>1. /\ b \in X /\ b \in Y
        /\ \A x \in X : lenh[x] = IF high /\ x = b THEN size + u[next] ELSE len[x]
    BY <1>14
  <2> HIDE DEF lenh
  <2>2. lenh[b] = total
    BY <1>7, <1>13, <2>1
  <2>3. Cut(Y, lenh, G)
    <3>1. CASE high
      <4>1. next \in X /\ b + len[b] = next
        BY <1>7, <1>10, <1>11, <3>1 DEF high
      <4>2. \A z \in X \ {next} : lenh[z] = IF z = b THEN len[b] + len[next] ELSE len[z]
        BY <1>6, <1>7, <1>10, <1>11, <2>1, <3>1
      <4>3. Cut(X \ {next}, lenh, G)
        <5> HIDE DEF X
        <5> QED BY <1>3, <2>1, <4>1, <4>2, Joined DEF X
      <4> QED BY <3>1, <4>3
    <3>2. CASE ~high
      <4>1. \A x \in X : lenh[x] = len[x]
        BY <2>1, <3>2
      <4>2. Cut(X, lenh, G)
        BY <1>3, <4>1, SameCut
      <4> QED BY <3>2, <4>2
    <3> QED BY <3>1, <3>2
  <2>4. \A x \in F : x \in Block
    BY <1>6, Blocks
  <2>5. \A x \in F2 \ {b} : x \in F /\ ~(high /\ x = next)
    BY <1>20
  <2>6. CASE ~low
    <3>1. \A x \in P \cup F2 : len2[x] = lenh[x]
      <4> SUFFICES ASSUME NEW x \in P \cup F2 PROVE len2[x] = lenh[x]
        OBVIOUS
      <4>1. CASE x = b
        <5>1. b \in F2
          BY <1>20, <2>6
        <5>2. w[b] = total
          BY <1>14, <1>17, <1>18, <2>6
        <5> QED BY <1>23, <2>2, <4>1, <5>1, <5>2
      <4>2. CASE x \in P
        <5>1. len2[x] = L[x] /\ len[x] = L[x] /\ lenh[x] = len[x]
          BY <1>6, <1>24, <2>1, <4>2
        <5> QED BY <5>1
      <4>3. CASE x \in F2 /\ x # b
        <5>1. x \in F /\ ~(high /\ x = next) /\ x \in Block
          BY <2>4, <2>5, <4>3
        <5>2. w[x] = u[x]
          BY <1>17, <2>6, <4>3, <5>1
        <5>3. lenh[x] = u[x]
          BY <1>6, <2>1, <4>3, <5>1
        <5> QED BY <1>23, <4>3, <5>2, <5>3
      <4> QED BY <4>1, <4>2, <4>3
    <3>2. Cut(P \cup F2, lenh, G)
      BY <2>0, <2>3, <2>6
    <3> QED BY <3>1, <3>2, SameCut
  <2>7. CASE low
    <3>1. cur \in F /\ cur # next /\ cur # b /\ cur \in Y /\ cur \in X
      <4>1. cur \in F /\ cur # b
        BY <1>12, <1>14, <2>7
      <4>2. high => next # cur
        BY <1>10, <1>11
      <4>3. next # cur
        <5>1. CASE next = arena
          BY <1>12, <2>7, <5>1
        <5> QED BY <1>10, <5>1
      <4> QED BY <4>1, <4>3
    <3>2. lenh[cur] = u[cur] /\ cur + u[cur] = b
      BY <1>6, <2>1, <2>7, <3>1 DEF low
    <3>3. b \notin F2
      BY <1>14, <1>20, <2>7
    <3>4. \A z \in Y \ {b} : len2[z] = IF z = cur THEN lenh[cur] + lenh[b] ELSE lenh[z]
      <4> SUFFICES ASSUME NEW z \in Y, z # b
                   PROVE  len2[z] = IF z = cur THEN lenh[cur] + lenh[b] ELSE lenh[z]
        OBVIOUS
      <4>0. z \in P \cup F2 /\ z \in X
        BY <2>0, <2>7
      <4>1. CASE z = cur
        <5>1. z \in F2 /\ z \in Block
          BY <1>20, <2>4, <3>1, <4>1
        <5>2. w[z] = u[cur] + total
          BY <1>17, <2>7, <4>1, <5>1
        <5> QED BY <1>23, <2>2, <3>2, <4>1, <5>1, <5>2
      <4>2. CASE z # cur /\ z \in P
        <5>1. len2[z] = L[z] /\ len[z] = L[z] /\ lenh[z] = len[z]
          BY <1>6, <1>24, <2>1, <4>2
        <5> QED BY <4>2, <5>1
      <4>3. CASE z # cur /\ z \in F2
        <5>1. z \in F /\ ~(high /\ z = next) /\ z \in Block
          BY <2>4, <2>5, <4>3
        <5>2. w[z] = u[z]
          BY <1>17, <4>3, <5>1
        <5>3. lenh[z] = u[z]
          BY <1>6, <2>1, <5>1
        <5> QED BY <1>23, <4>3, <5>2, <5>3
      <4> QED BY <4>0, <4>1, <4>2, <4>3
    <3>5. cur + lenh[cur] = b
      BY <3>2
    <3>6. Cut(Y \ {b}, len2, G)
      <4> HIDE DEF Y
      <4> QED BY <2>1, <2>3, <3>1, <3>4, <3>5, Joined
    <3> QED BY <2>0, <2>7, <3>6
  <2> QED BY <2>6, <2>7
<1>26. HeapHolds(h2, G, P, L)
  <2>1. P \subseteq Cell /\ P \cap F2 = {}
    BY <1>22
  <2> QED BY <1>21, <1>25, <2>1 DEF HeapHolds, F2, len2
<1>27. \E x \in F2 : w[x] >= size
  <2>1. CASE low
    <3>1. cur \in F2 /\ cur \in Block
      BY <1>10, <1>11, <1>12, <1>20, <2>1
    <3>2. w[cur] = u[cur] + total
      BY <1>17, <2>1, <3>1
    <3>3. w[cur] >= size
      BY <1>7, <1>12, <1>13, <3>2
    <3> QED BY <3>1, <3>3
  <2>2. CASE ~low
    <3>1. b \in F2 /\ w[b] = total
      BY <1>14, <1>17, <1>18, <1>20, <2>2
    <3> QED BY <1>13, <3>1
  <2> QED BY <2>1, <2>2
<1>28. Returned(h, h2, G, Q, L, b)
  <2>1. \A x \in P : h2.units[x] = h.units[x]
    BY <1>2, <1>22
  <2>2. \E x \in F2 : h2.units[x] >= L[b]
    BY <1>0, <1>2, <1>27
  <2> QED BY <1>26, <2>1, <2>2 DEF Returned, F2
<1> QED BY <1>28 DEF h2

-----------------------------------------------------------------------------
(* slob_alloc.                                                             *)

\* The pieces in use with a new one.
With(Q, L, b, n) == [x \in Q \cup {b} |-> IF x = b THEN n ELSE L[x]]

\* Only the lengths of the pieces in use matter.
LEMMA SameLengths ==
  ASSUME NEW h, NEW G, NEW Q, NEW L, HeapHolds(h, G, Q, L), NEW K, \A x \in Q : K[x] = L[x]
  PROVE  HeapHolds(h, G, Q, K)
<1> DEFINE X == Q \cup Free(h)
<1>1. \A x \in X : Lengths(h, Q, K)[x] = Lengths(h, Q, L)[x]
  BY DEF Lengths
<1>2. Cut(X, Lengths(h, Q, L), G)
  BY DEF HeapHolds
<1> HIDE DEF X
<1>3. Cut(X, Lengths(h, Q, K), G)
  BY <1>1, <1>2, SameCut
<1> QED BY <1>3 DEF HeapHolds, X

\* The headers of pieces in use may change.
LEMMA SameHeap ==
  ASSUME NEW h, NEW G, NEW Q, NEW L, HeapHolds(h, G, Q, L), NEW h2,
         h2.circle = h.circle, h2.units \in [Block -> Nat],
         \A x \in Block \ Q : h2.units[x] = h.units[x]
  PROVE  HeapHolds(h2, G, Q, L)
<1> DEFINE u == h.units
           w == h2.units
           c == h.circle
<1>1. /\ Ring(c, u) /\ u[arena] = 1 /\ Q \subseteq Cell /\ Q \cap Free(h) = {}
      /\ Cut(Q \cup Free(h), Lengths(h, Q, L), G) /\ u \in [Block -> Nat]
  BY DEF HeapHolds, Heap
<1>2. Free(h2) = Free(h)
  BY DEF Free
<1>3. arena \in Block \ Q /\ \A x \in ToSet(c) : x \in Block \ Q
  <2>1. \A x \in ToSet(c) : x \in Block
    <3>1. c \in Seq(Block)
      BY <1>1 DEF Ring
    <3> QED BY <3>1, ElementOfSeq DEF ToSet
  <2> QED BY <1>1, <2>1, Blocks DEF Free
<1>4. Ring(c, w)
  <2>1. \A i \in 1 .. Len(c) : c[i] \in ToSet(c)
    <3>1. c \in Seq(Block)
      BY <1>1 DEF Ring
    <3>2. DOMAIN c = 1 .. Len(c)
      BY <3>1
    <3> QED BY <3>2 DEF ToSet
  <2>2. \A i \in 1 .. Len(c) : w[c[i]] = u[c[i]]
    BY <1>3, <2>1
  <2> HIDE DEF w, u, c
  <2> QED BY <1>1, <2>2 DEF Ring
<1>5. Heap(h2)
  BY <1>1, <1>3, <1>4 DEF Heap
<1>6. \A x \in Free(h) : x \in Block \ Q
  BY <1>3 DEF Free
<1>7. \A x \in Q \cup Free(h) : Lengths(h2, Q, L)[x] = Lengths(h, Q, L)[x]
  BY <1>2, <1>6 DEF Lengths
<1>8. Cut(Q \cup Free(h), Lengths(h2, Q, L), G)
  <2> DEFINE X == Q \cup Free(h)
  <2>1. Cut(X, Lengths(h, Q, L), G) /\ \A x \in X : Lengths(h2, Q, L)[x] = Lengths(h, Q, L)[x]
    BY <1>1, <1>7
  <2> HIDE DEF X
  <2>2. Cut(X, Lengths(h2, Q, L), G)
    BY <2>1, SameCut
  <2> QED BY <2>2 DEF X
<1> QED BY <1>1, <1>2, <1>5, <1>8 DEF HeapHolds

\* slob_alloc has cut b, of n cells, off a free block.
CutOff(h, h2, G, Q, L, n, b) ==
  /\ b \in Free(h) /\ HeapHolds(h2, G, Q \cup {b}, With(Q, L, b, n))
  /\ h2.units[b] = n /\ \A x \in Q : h2.units[x] = h.units[x]

\* The circle in slob_alloc: cut before the block that fits, and without it.
FitsHere(h, n, d, b) ==
  LET e == <<d[1]>> \o SubSeq(d, 3, Len(d))
  IN  /\ d \in Seq(Block) /\ Ring(d, h.units) /\ ToSet(d) = ToSet(h.circle) /\ d[2] = b
      /\ b \in Free(h) /\ n <= h.units[b] /\ d[1] + h.units[d[1]] < b
      /\ Ring(e, h.units) /\ ToSet(e) = ToSet(d) \ {b} /\ e[1] = d[1]
      /\ e \in Seq(Block) /\ Len(e) \in Nat \ {0} /\ Tail(e) = SubSeq(d, 3, Len(d))
      /\ (NextOf(e, 1) = arena \/ b + h.units[b] < NextOf(e, 1))

\* slob_alloc has found a block that is long enough, and it is not the arena.
LEMMA FitCircle ==
  ASSUME NEW h, Heap(h), NEW n \in Nat, n >= 2, Fit(h, n) # {}
  PROVE  FitsHere(h, n, From(h.circle, Min(Fit(h, n))), Found(h, n))
<1> DEFINE c == h.circle
           u == h.units
           i == Min(Fit(h, n))
           d == From(c, i)
           e == <<d[1]>> \o SubSeq(d, 3, Len(d))
           b == NextOf(c, i)
<1>1. Ring(c, u) /\ u \in [Block -> Nat] /\ u[arena] = 1 /\ c \in Seq(Block)
  BY DEF Heap, Ring
<1>2. i \in Fit(h, n)
  <2>1. Fit(h, n) \in SUBSET Nat
    BY <1>1 DEF Fit
  <2> QED BY <2>1, LeastExists
<1>3. i \in 1 .. Len(c) /\ n <= u[b]
  <2> HIDE DEF i
  <2>1. DOMAIN c = 1 .. Len(c)
    BY <1>1
  <2>2. i \in 1 .. Len(c) /\ u[b] >= n
    BY <1>2, <2>1 DEF Fit
  <2>3. b \in Block
    BY <1>1, <2>2, NextIs
  <2>4. u[b] \in Nat
    BY <1>1, <2>3
  <2> QED BY <2>2, <2>4
<1>4. Found(h, n) = b
  BY DEF Found
<1> HIDE DEF i
<1>5. Ring(d, u) /\ ToSet(d) = ToSet(c) /\ Len(d) = Len(c) /\ NextOf(d, 1) = b
  BY <1>1, <1>3, Turned
<1>6. b # arena
  BY <1>1, <1>3
<1> HIDE DEF b, d
<1>7. d \in Seq(Block) /\ Len(d) \in Nat \ {0} /\ 1 \in 1 .. Len(d)
  <2> DEFINE m == Len(c)
  <2>1. d \in Seq(Block) /\ m \in Nat \ {0}
    BY <1>1, <1>3, <1>5 DEF Ring
  <2> HIDE DEF m
  <2>2. 1 \in 1 .. m
    BY <2>1
  <2> QED BY <1>5, <2>1, <2>2 DEF m
<1>8. d[1] + u[d[1]] < b /\ d[1] \in Block
  <2>1. \A j \in 1 .. Len(d) : NextOf(d, j) = arena \/ d[j] + u[d[j]] < NextOf(d, j)
    BY <1>5 DEF Ring
  <2> QED BY <1>5, <1>6, <1>7, <2>1, ElementOfSeq
<1>9. Len(d) >= 2
  <2> SUFFICES ASSUME 1 = Len(d) PROVE FALSE
    <3> DEFINE m == Len(d)
    <3>1. m \in Nat \ {0}
      BY <1>7
    <3> HIDE DEF m
    <3>2. m = 1 \/ m >= 2
      BY <3>1
    <3> QED BY <3>2 DEF m
  <2>1. b = d[1]
    BY <1>5, <1>7, NextIs
  <2>2. b \in Int /\ u[b] \in Nat
    BY <1>1, <1>8, <2>1, Blocks
  <2> QED BY <1>8, <2>1, <2>2
<1>10. b = d[2] /\ 2 \in 1 .. Len(d)
  <2> DEFINE m == Len(d)
  <2>1. m \in Nat /\ m >= 2
    BY <1>7, <1>9
  <2> HIDE DEF m
  <2>2. 1 # m /\ 2 \in 1 .. m /\ 1 + 1 = 2
    BY <2>1
  <2>3. NextOf(d, 1) = IF 1 = m THEN d[1] ELSE d[1 + 1]
    BY <1>7, NextIs DEF m
  <2> QED BY <1>5, <2>2, <2>3 DEF m
<1>11. b \in Free(h)
  <2>1. DOMAIN d = 1 .. Len(d)
    BY <1>7
  <2>2. b \in ToSet(d)
    BY <1>10, <2>1 DEF ToSet
  <2> QED BY <1>5, <1>6, <2>2 DEF Free
<1>12. /\ Ring(e, u) /\ ToSet(e) = ToSet(d) \ {d[2]} /\ e[1] = d[1]
       /\ Len(e) \in Nat \ {0} /\ Tail(e) = SubSeq(d, 3, Len(d)) /\ NextOf(e, 1) = NextOf(d, 2)
  BY <1>1, <1>5, <1>6, <1>9, <1>10, SecondOut
<1>13. NextOf(d, 2) = arena \/ b + u[b] < NextOf(d, 2)
  BY <1>5, <1>10 DEF Ring
<1>14. e \in Seq(Block)
  <2> HIDE DEF e
  <2> QED BY <1>12 DEF Ring
<1>15. FitsHere(h, n, d, b)
  <2> HIDE DEF e
  <2>1. /\ d \in Seq(Block) /\ Ring(d, u) /\ ToSet(d) = ToSet(c) /\ d[2] = b
        /\ b \in Free(h) /\ n <= u[b] /\ d[1] + u[d[1]] < b
    BY <1>3, <1>5, <1>7, <1>8, <1>10, <1>11
  <2>2. /\ Ring(e, u) /\ ToSet(e) = ToSet(d) \ {b} /\ e[1] = d[1]
        /\ e \in Seq(Block) /\ Len(e) \in Nat \ {0} /\ Tail(e) = SubSeq(d, 3, Len(d))
        /\ (NextOf(e, 1) = arena \/ b + u[b] < NextOf(e, 1))
    BY <1>10, <1>12, <1>13, <1>14
  <2> QED BY <2>1, <2>2 DEF FitsHere, e
<1> QED BY <1>4, <1>15 DEF b, d, i

\* The block fits as it is.
LEMMA TakenWhole ==
  ASSUME NEW h, NEW G, NEW Q, NEW L, HeapHolds(h, G, Q, L), NEW n \in Nat, n >= 2,
         Fit(h, n) # {}, h.units[Found(h, n)] = n
  PROVE  CutOff(h, Taken(h, n), G, Q, L, n, Found(h, n))
<1> DEFINE u == h.units
           F == Free(h)
           d == From(h.circle, Min(Fit(h, n)))
           b == d[2]
           S == SubSeq(d, 3, Len(d))
           e == <<d[1]>> \o S
           w == [a \in DOMAIN u |-> IF a = b THEN n ELSE IF a \in ToSet(Rest(h, b, n))
                                                         THEN u[b] - n ELSE u[a]]
           h2 == Taken(h, n)
           M == With(Q, L, b, n)
<1>1. h2 = [circle |-> <<d[1]>> \o Rest(h, b, n) \o S, units |-> w]
  BY DEF Taken
<1>2. FitsHere(h, n, d, Found(h, n)) /\ Heap(h)
  BY FitCircle DEF HeapHolds
<1>3. /\ b = Found(h, n) /\ d \in Seq(Block) /\ b \in F /\ ToSet(d) = ToSet(h.circle)
      /\ Ring(e, u) /\ ToSet(e) = ToSet(d) \ {b} /\ e \in Seq(Block)
  <2>1. b = Found(h, n)
    BY <1>2 DEF FitsHere
  <2> HIDE DEF d
  <2> QED BY <1>2, <2>1 DEF FitsHere
<1>4. Rest(h, b, n) = <<>> /\ u[b] = n
  BY <1>3 DEF Rest
<1>5. /\ u \in [Block -> Nat] /\ u[arena] = 1 /\ Q \subseteq Cell /\ Q \cap F = {}
      /\ Cut(Q \cup F, Lengths(h, Q, L), G)
  BY <1>2 DEF HeapHolds, Heap
<1>6. F \subseteq Cell /\ \A x \in F : Lengths(h, Q, L)[x] = u[x]
  BY FreeIs
<1> HIDE DEF h2, d
<1>7. d[1] \in Block
  <2>1. ToSet(d) # {} /\ DOMAIN d = 1 .. Len(d) /\ Len(d) \in Nat
    BY <1>3 DEF Free
  <2>2. Len(d) >= 1
    BY <2>1 DEF ToSet
  <2> QED BY <1>3, <2>1, <2>2, ElementOfSeq
<1>8. h2.circle = e /\ h2.units = w
  <2>1. <<d[1]>> \o <<>> = <<d[1]>>
    <3>1. <<d[1]>> \in Seq(Block)
      BY <1>7
    <3> QED BY <3>1, ConcatEmptySeq
  <2> QED BY <1>1, <1>4, <2>1
<1>9. \A a \in Block : w[a] = IF a = b THEN n ELSE u[a]
  <2>1. ToSet(<<>>) = {}
    BY DEF ToSet
  <2> QED BY <1>4, <1>5, <2>1
<1>10. w \in [Block -> Nat] /\ w[b] = n /\ b \in Block /\ b \in Cell /\ b # arena
  <2>1. b \in Block /\ b \in Cell /\ b # arena
    BY <1>3, <1>6, Blocks
  <2>2. w[b] = n
    BY <1>9, <2>1
  <2>3. ASSUME NEW a \in Block PROVE w[a] \in Nat
    BY <1>5, <1>9
  <2>4. w \in [Block -> Nat]
    BY <1>5, <2>3
  <2> QED BY <2>1, <2>2, <2>4
<1> HIDE DEF w, e, b
<1>11. Free(h2) = F \ {b}
  BY <1>3, <1>8 DEF Free
<1>12. Heap(h2)
  <2>1. \A x \in Block \ {b} : w[x] = u[x]
    BY <1>9
  <2>2. \A j \in 1 .. Len(e) : e[j] \in Block \ {b}
    <3>1. \A j \in 1 .. Len(e) : e[j] \in ToSet(e) /\ e[j] \in Block
      <4>1. DOMAIN e = 1 .. Len(e)
        BY <1>3
      <4> QED BY <1>3, <4>1, ElementOfSeq DEF ToSet
    <3> QED BY <1>3, <3>1
  <2>3. Ring(e, w)
    <3> HIDE DEF u
    <3>1. \A j \in 1 .. Len(e) : w[e[j]] = u[e[j]]
      BY <2>1, <2>2
    <3> QED BY <1>3, <3>1 DEF Ring
  <2>4. w[arena] = 1
    BY <1>5, <1>9, <1>10, Blocks
  <2> QED BY <1>8, <1>10, <2>3, <2>4 DEF Heap
<1>13. \A x \in Q : x # b /\ w[x] = u[x]
  BY <1>3, <1>5, <1>9, Blocks
<1> DEFINE X == Q \cup F
<1>14. (Q \cup {b}) \cup Free(h2) = X
  BY <1>3, <1>11
<1>15. \A x \in X : Lengths(h2, Q \cup {b}, M)[x] = Lengths(h, Q, L)[x]
  <2> SUFFICES ASSUME NEW x \in X PROVE Lengths(h2, Q \cup {b}, M)[x] = Lengths(h, Q, L)[x]
    OBVIOUS
  <2>1. Lengths(h2, Q \cup {b}, M)[x] = IF x \in Q \cup {b} THEN M[x] ELSE w[x]
    BY <1>8, <1>14 DEF Lengths
  <2>2. Lengths(h, Q, L)[x] = IF x \in Q THEN L[x] ELSE u[x]
    BY DEF Lengths
  <2>3. x \in Q \cup {b} => M[x] = IF x = b THEN n ELSE L[x]
    BY DEF With
  <2>4. x \notin Q \cup {b} => w[x] = u[x]
    BY <1>6, <1>9, Blocks
  <2>5. b \notin Q /\ u[b] = n
    BY <1>3, <1>4, <1>5
  <2> HIDE DEF M, X, u, F
  <2> QED BY <2>1, <2>2, <2>3, <2>4, <2>5
<1>16. Cut(X, Lengths(h2, Q \cup {b}, M), G)
  <2>1. Cut(X, Lengths(h, Q, L), G)
    BY <1>5
  <2> HIDE DEF X, M
  <2> QED BY <1>15, <2>1, SameCut
<1>17. HeapHolds(h2, G, Q \cup {b}, M)
  <2>1. Q \cup {b} \subseteq Cell /\ (Q \cup {b}) \cap Free(h2) = {}
    BY <1>5, <1>10, <1>11
  <2>2. Cut((Q \cup {b}) \cup Free(h2), Lengths(h2, Q \cup {b}, M), G)
    <3> HIDE DEF M, X
    <3> QED BY <1>14, <1>16
  <2> HIDE DEF M
  <2> QED BY <1>12, <2>1, <2>2 DEF HeapHolds
<1>18. CutOff(h, h2, G, Q, L, n, b)
  BY <1>3, <1>8, <1>10, <1>13, <1>17 DEF CutOff
<1> QED BY <1>3, <1>18 DEF h2

\* Two entries, one behind the other.
LEMMA PairIs ==
  ASSUME NEW x, NEW y
  PROVE  <<x>> \o <<y>> = <<x, y>>
<1> DEFINE S == {x, y}
           e == <<x>> \o <<y>>
           f == <<x, y>>
<1>1. <<x>> \in Seq(S) /\ <<y>> \in Seq(S) /\ Len(<<x>>) = 1 /\ Len(<<y>>) = 1
  OBVIOUS
<1>2. /\ e \in Seq(S) /\ Len(e) = 2
      /\ \A j \in 1 .. 2 : e[j] = IF j <= 1 THEN <<x>>[j] ELSE <<y>>[j - 1]
  <2> HIDE DEF S
  <2> QED BY <1>1, ConcatProperties
<1>3. f \in Seq(S) /\ Len(f) = 2 /\ f[1] = x /\ f[2] = y
  OBVIOUS
<1>4. \A j \in 1 .. 2 : e[j] = f[j]
  <2> SUFFICES ASSUME NEW j \in 1 .. 2 PROVE e[j] = f[j]
    OBVIOUS
  <2>1. CASE j = 1
    <3>1. e[1] = <<x>>[1]
      BY <1>2
    <3> QED BY <1>3, <2>1, <3>1
  <2>2. CASE j = 2
    <3>1. e[2] = <<y>>[1]
      BY <1>2
    <3> QED BY <1>3, <2>2, <3>1
  <2>3. j = 1 \/ j = 2
    OBVIOUS
  <2> QED BY <2>1, <2>2, <2>3
<1> HIDE DEF e, f, S
<1>5. e = f
  BY <1>2, <1>3, <1>4, SeqEqual
<1> QED BY <1>5 DEF e, f

\* The block that fits is longer.
LEMMA TakenPart ==
  ASSUME NEW h, NEW G, NEW Q, NEW L, HeapHolds(h, G, Q, L), G \subseteq Cell,
         NEW n \in Nat, n >= 2, Fit(h, n) # {}, h.units[Found(h, n)] # n
  PROVE  CutOff(h, Taken(h, n), G, Q, L, n, Found(h, n))
<1> DEFINE u == h.units
           F == Free(h)
           d == From(h.circle, Min(Fit(h, n)))
           b == d[2]
           r == b + n
           S == SubSeq(d, 3, Len(d))
           e == <<d[1]>> \o S
           w == [a \in DOMAIN u |-> IF a = b THEN n ELSE IF a \in ToSet(Rest(h, b, n))
                                                         THEN u[b] - n ELSE u[a]]
           h2 == Taken(h, n)
           M == With(Q, L, b, n)
           X == Q \cup F
           len == Lengths(h, Q, L)
           lens == [x \in X \cup {r} |-> IF x = b THEN n ELSE IF x = r THEN u[b] - n ELSE len[x]]
<1>1. h2 = [circle |-> <<d[1]>> \o Rest(h, b, n) \o S, units |-> w]
  BY DEF Taken
<1>2. FitsHere(h, n, d, Found(h, n)) /\ Heap(h)
  BY FitCircle DEF HeapHolds
<1>3. /\ b = Found(h, n) /\ d \in Seq(Block) /\ b \in F /\ ToSet(d) = ToSet(h.circle)
      /\ n <= u[b] /\ d[1] + u[d[1]] < b
      /\ Ring(e, u) /\ ToSet(e) = ToSet(d) \ {b} /\ e \in Seq(Block) /\ Len(e) \in Nat \ {0}
      /\ e[1] = d[1] /\ Tail(e) = S
      /\ (NextOf(e, 1) = arena \/ b + u[b] < NextOf(e, 1))
  <2>1. b = Found(h, n)
    BY <1>2 DEF FitsHere
  <2> HIDE DEF d
  <2> QED BY <1>2, <2>1 DEF FitsHere
<1>4. Rest(h, b, n) = <<r>> /\ u[b] # n
  BY <1>3 DEF Rest
<1>5. /\ u \in [Block -> Nat] /\ u[arena] = 1 /\ Q \subseteq Cell /\ Q \cap F = {}
      /\ Cut(X, len, G)
  BY <1>2 DEF HeapHolds, Heap
<1>6. F \subseteq Cell /\ (\A x \in F : u[x] \in Nat \ {0} /\ len[x] = u[x])
      /\ \A x \in Q : len[x] = L[x]
  BY FreeIs
<1> HIDE DEF h2, d
<1>7. /\ d[1] \in Block /\ d[1] \in Int /\ u[d[1]] \in Nat /\ b \in Int /\ b \in Cell
      /\ u[b] \in Nat /\ n < u[b] /\ b \in Block /\ b # arena /\ b >= 0
  <2>1. d[1] \in Block
    <3>1. 1 \in 1 .. Len(e)
      BY <1>3
    <3> HIDE DEF e
    <3> QED BY <1>3, <3>1, ElementOfSeq
  <2>2. b \in Cell /\ b \in Block /\ b # arena /\ b \in Int /\ b >= 0
    BY <1>3, <1>6, Blocks
  <2>3. u[b] \in Nat /\ u[d[1]] \in Nat /\ d[1] \in Int
    BY <1>5, <2>1, <2>2, Blocks
  <2> HIDE DEF u, b
  <2> QED BY <1>3, <1>4, <2>1, <2>2, <2>3
<1>8. h2.circle = <<d[1], r>> \o S /\ h2.units = w
  <2>1. <<d[1]>> \o <<r>> = <<d[1], r>>
    BY PairIs
  <2> QED BY <1>1, <1>4, <2>1
<1>9. \A a \in Block : w[a] = IF a = b THEN n ELSE IF a = r THEN u[b] - n ELSE u[a]
  <2>1. ToSet(<<r>>) = {r}
    BY DEF ToSet
  <2> HIDE DEF r, b
  <2> QED BY <1>4, <1>5, <2>1
<1> HIDE DEF w, e, b, S
<1>10. r \notin X /\ Cut(X \cup {r}, lens, G)
  <2>1. b \in X /\ n \in Nat \ {0} /\ n < len[b]
    BY <1>3, <1>6, <1>7
  <2>2. r # b
    BY <1>7
  <2>3. lens[b] = n /\ lens[r] = len[b] - n
    BY <1>3, <1>6, <2>1, <2>2
  <2>4. \A z \in X \ {r, b} : lens[z] = len[z]
    OBVIOUS
  <2>5. r \notin X
    <3> SUFFICES ASSUME r \in X PROVE FALSE
      OBVIOUS
    <3>1. \A x, y \in X : x < y => x + len[x] <= y
      BY <1>5 DEF Cut
    <3>2. b + len[b] <= r
      <4>1. b < r
        BY <1>7
      <4> HIDE DEF len, X, r
      <4> QED BY <2>1, <3>1, <4>1
    <3>3. len[b] = u[b]
      BY <1>3, <1>6
    <3> HIDE DEF len, u
    <3> QED BY <1>7, <3>2, <3>3
  <2>6. \A z \in X \ {b} : lens[z] = len[z]
    <3> HIDE DEF lens, X, len
    <3> QED BY <2>4, <2>5
  <2> HIDE DEF lens, X, len
  <2> QED BY <1>5, <2>1, <2>3, <2>5, <2>6, Parted DEF r
<1>11. r \in Cell /\ r \in Block /\ r # arena /\ r \in Int /\ r # b
  <2>1. r \in Run(b, len[b])
    <3>1. len[b] = u[b]
      BY <1>3, <1>6
    <3> HIDE DEF len
    <3> QED BY <1>7, <3>1 DEF Run
  <2>2. r \in G
    <3>1. b \in X
      BY <1>3
    <3> HIDE DEF X, r, len
    <3> QED BY <1>5, <2>1, <3>1 DEF Cut
  <2>3. r # b
    BY <1>7
  <2> HIDE DEF r
  <2> QED BY <2>2, <2>3, Blocks
<1>12. w \in [Block -> Nat] /\ w[b] = n /\ w[r] = u[b] - n /\ r + w[r] = b + u[b]
  <2>1. w[b] = n /\ w[r] = u[b] - n
    <3> HIDE DEF r
    <3> QED BY <1>7, <1>9, <1>11
  <2>2. u[b] - n \in Nat /\ r + (u[b] - n) = b + u[b]
    BY <1>7
  <2>3. ASSUME NEW a \in Block PROVE w[a] \in Nat
    <3> HIDE DEF r
    <3> QED BY <1>5, <1>9, <2>2
  <2>4. w \in [Block -> Nat]
    <3>1. w = [a \in Block |-> w[a]]
      BY <1>5 DEF w
    <3> QED BY <2>3, <3>1
  <2> QED BY <2>1, <2>2, <2>4
<1> HIDE DEF r
<1>13. r \notin ToSet(e)
  BY <1>3, <1>10, <1>11 DEF Free
<1>14. Ring(h2.circle, w) /\ ToSet(h2.circle) = ToSet(e) \cup {r}
  <2>1. \A x \in ToSet(e) : x \in Block /\ x # b /\ x # r
    <3>1. \A x \in ToSet(e) : x \in Block
      <4>1. e \in Seq(Block)
        BY <1>3
      <4> QED BY <4>1, ElementOfSeq DEF ToSet
    <3>2. \A x \in ToSet(e) : x # b
      BY <1>3
    <3> QED BY <1>13, <3>1, <3>2
  <2>2. \A x \in ToSet(e) : w[x] = u[x]
    BY <1>9, <2>1
  <2>3. e[1] + u[e[1]] < r
    <3>1. d[1] + u[d[1]] < b
      BY <1>3
    <3>2. b < r
      BY <1>7 DEF r
    <3>3. d[1] + u[d[1]] < r
      <4>1. PICK y \in Int : y = d[1] + u[d[1]]
        BY <1>7
      <4> QED BY <1>7, <1>11, <3>1, <3>2, <4>1
    <3> QED BY <1>3, <3>3
  <2>4. NextOf(e, 1) = arena \/ r + w[r] < NextOf(e, 1)
    BY <1>3, <1>12
  <2>5. h2.circle = <<e[1], r>> \o Tail(e)
    BY <1>3, <1>8
  <2>6. u \in [Block -> Nat] /\ w \in [Block -> Nat] /\ Ring(e, u) /\ r \in Cell
    BY <1>3, <1>5, <1>11, <1>12
  <2> HIDE DEF u
  <2>7. Ring(<<e[1], r>> \o Tail(e), w) /\ ToSet(<<e[1], r>> \o Tail(e)) = ToSet(e) \cup {r}
    BY <1>13, <2>2, <2>3, <2>4, <2>6, SecondIn
  <2> QED BY <2>5, <2>7
<1>15. Free(h2) = (F \ {b}) \cup {r}
  <2>1. F = ToSet(d) \ {arena}
    BY <1>3 DEF Free
  <2>2. Free(h2) = ToSet(h2.circle) \ {arena}
    BY DEF Free
  <2> HIDE DEF F
  <2> QED BY <1>3, <1>11, <1>14, <2>1, <2>2
<1>16. Heap(h2)
  <2>1. w[arena] = 1
    BY <1>5, <1>7, <1>9, <1>11, Blocks
  <2> QED BY <1>8, <1>12, <1>14, <2>1 DEF Heap
<1>17. \A x \in Q : x # b /\ x # r /\ w[x] = u[x]
  <2> SUFFICES ASSUME NEW x \in Q PROVE x # b /\ x # r /\ w[x] = u[x]
    OBVIOUS
  <2>1. x # b /\ x # r /\ x \in Block
    BY <1>3, <1>5, <1>10, Blocks
  <2> QED BY <1>9, <2>1
<1>18. (Q \cup {b}) \cup Free(h2) = X \cup {r}
  BY <1>3, <1>15
<1>19. \A x \in X \cup {r} : Lengths(h2, Q \cup {b}, M)[x] = lens[x]
  <2> SUFFICES ASSUME NEW x \in X \cup {r} PROVE Lengths(h2, Q \cup {b}, M)[x] = lens[x]
    OBVIOUS
  <2>1. Lengths(h2, Q \cup {b}, M)[x] = IF x \in Q \cup {b} THEN M[x] ELSE w[x]
    <3> HIDE DEF X, M
    <3> QED BY <1>8, <1>18 DEF Lengths
  <2>2. lens[x] = IF x = b THEN n ELSE IF x = r THEN u[b] - n ELSE len[x]
    OBVIOUS
  <2>3. x \in Q \cup {b} => M[x] = IF x = b THEN n ELSE L[x]
    BY DEF With
  <2>4. x \notin Q \cup {b} => w[x] = IF x = r THEN u[b] - n ELSE u[x]
    <3>1. x \in Block
      BY <1>5, <1>6, <1>11, Blocks
    <3> QED BY <1>9, <3>1
  <2>5. x \in Q => x # r /\ len[x] = L[x]
    BY <1>6, <1>17
  <2>6. x \notin Q /\ x # r => len[x] = u[x]
    BY <1>6
  <2> HIDE DEF M, X, u, F, lens, len
  <2> QED BY <2>1, <2>2, <2>3, <2>4, <2>5, <2>6
<1>20. Cut(X \cup {r}, Lengths(h2, Q \cup {b}, M), G)
  <2> HIDE DEF X, M, lens
  <2> QED BY <1>10, <1>19, SameCut
<1>21. HeapHolds(h2, G, Q \cup {b}, M)
  <2>1. Q \cup {b} \subseteq Cell /\ (Q \cup {b}) \cap Free(h2) = {}
    <3>1. Q \subseteq Cell /\ b \in Cell /\ Q \cap F = {} /\ b # r
      BY <1>5, <1>7, <1>11
    <3>2. \A x \in Q : x # r
      BY <1>17
    <3> HIDE DEF F
    <3> QED BY <1>15, <3>1, <3>2
  <2>2. Cut((Q \cup {b}) \cup Free(h2), Lengths(h2, Q \cup {b}, M), G)
    <3> HIDE DEF M, X
    <3> QED BY <1>18, <1>20
  <2> HIDE DEF M
  <2> QED BY <1>16, <2>1, <2>2 DEF HeapHolds
<1>22. CutOff(h, h2, G, Q, L, n, b)
  BY <1>3, <1>8, <1>12, <1>17, <1>21 DEF CutOff
<1> QED BY <1>3, <1>22 DEF h2

\* slob_alloc cuts the piece off the block that fits and keeps the rest.
LEMMA TakenKeeps ==
  ASSUME NEW h, NEW G, NEW Q, NEW L, HeapHolds(h, G, Q, L), G \subseteq Cell,
         NEW n \in Nat, n >= 2, Fit(h, n) # {}
  PROVE  CutOff(h, Taken(h, n), G, Q, L, n, Found(h, n))
<1>1. CASE h.units[Found(h, n)] = n
  BY <1>1, TakenWhole
<1>2. CASE h.units[Found(h, n)] # n
  BY <1>2, TakenPart
<1> QED BY <1>1, <1>2

-----------------------------------------------------------------------------
(* Pages.                                                                  *)

Cells(g) == UNION {Run(p * PageUnits, PageUnits) : p \in g}

\* A cell lies in one page.
LEMMA PageOfCell ==
  ASSUME NEW p \in Int, NEW q \in Int, NEW a \in Run(p * PageUnits, PageUnits),
         a \in Run(q * PageUnits, PageUnits)
  PROVE  p = q
<1>1. PageUnits \in Nat /\ PageUnits > 3
  BY HeapAssumption
<1>2. PICK x \in Int, y \in Int : x = p * PageUnits /\ y = q * PageUnits
  BY <1>1
<1>3. a \in Int /\ x <= a /\ a < x + PageUnits /\ y <= a /\ a < y + PageUnits
  BY <1>1, <1>2 DEF Run
<1>4. \A i, j \in Int : i < j => i * PageUnits + PageUnits <= j * PageUnits
  <2> SUFFICES ASSUME NEW i \in Int, NEW j \in Int, i < j
               PROVE  i * PageUnits + PageUnits <= j * PageUnits
    OBVIOUS
  <2>1. PICK k \in Nat : j = i + k + 1
    <3>1. j - i - 1 \in Nat /\ j = i + (j - i - 1) + 1
      OBVIOUS
    <3> QED BY <3>1
  <2>2. j * PageUnits = i * PageUnits + k * PageUnits + PageUnits
    BY <1>1, <2>1
  <2>3. k * PageUnits \in Nat /\ i * PageUnits \in Int
    BY <1>1
  <2> QED BY <1>1, <2>2, <2>3
<1>5. ~(p < q)
  <2> SUFFICES ASSUME p < q PROVE FALSE
    OBVIOUS
  <2>1. x + PageUnits <= y
    BY <1>2, <1>4
  <2> QED BY <1>1, <1>3, <2>1
<1>6. ~(q < p)
  <2> SUFFICES ASSUME q < p PROVE FALSE
    OBVIOUS
  <2>1. y + PageUnits <= x
    BY <1>2, <1>4
  <2> QED BY <1>1, <1>3, <2>1
<1> QED BY <1>5, <1>6

\* The cells of a page are cells of memory.
LEMMA CellsOfPage ==
  ASSUME NEW p \in 0 .. NPAGE - 1
  PROVE  /\ Run(p * PageUnits, PageUnits) \subseteq Cell
         /\ p * PageUnits \in Cell /\ p * PageUnits \in Run(p * PageUnits, PageUnits)
<1>1. PageUnits \in Nat /\ PageUnits > 3 /\ NPAGE \in Nat
  BY HeapAssumption
<1>2. PICK k \in Nat : NPAGE = p + k + 1
  <2>1. NPAGE - p - 1 \in Nat /\ NPAGE = p + (NPAGE - p - 1) + 1
    BY <1>1
  <2> QED BY <2>1
<1>3. NPAGE * PageUnits = p * PageUnits + k * PageUnits + PageUnits
  BY <1>1, <1>2
<1>4. PICK x \in Nat, y \in Nat, z \in Nat :
        x = p * PageUnits /\ y = k * PageUnits /\ z = NPAGE * PageUnits
  BY <1>1
<1>5. z = x + y + PageUnits
  BY <1>3, <1>4
<1>6. Run(x, PageUnits) \subseteq 0 .. z - 1 /\ x \in Run(x, PageUnits)
  BY <1>1, <1>5 DEF Run
<1> QED BY <1>4, <1>6 DEF Cell

\* So are those of several pages.
LEMMA GrownCells ==
  ASSUME NEW g \in SUBSET (0 .. NPAGE - 1)
  PROVE  Cells(g) \subseteq Cell
BY CellsOfPage DEF Cells

\* The free block that is long enough is behind some other.
LEMMA FitsIf ==
  ASSUME NEW h, Heap(h), NEW n \in Int, NEW x \in Free(h), h.units[x] >= n
  PROVE  Fit(h, n) # {}
<1> DEFINE c == h.circle
           m == Len(c)
<1>1. c \in Seq(Block) /\ m \in Nat /\ DOMAIN c = 1 .. m
  BY DEF Heap, Ring
<1>2. PICK j \in 1 .. m : c[j] = x
  BY <1>1 DEF Free, ToSet
<1> HIDE DEF m
<1>3. \A i \in 1 .. m : NextOf(c, i) = IF i = m THEN c[1] ELSE c[i + 1]
  <2> SUFFICES ASSUME NEW i \in 1 .. m PROVE NextOf(c, i) = IF i = m THEN c[1] ELSE c[i + 1]
    OBVIOUS
  <2> HIDE DEF c
  <2> QED BY <1>1, NextIs DEF m
<1>4. \E i \in 1 .. m : NextOf(c, i) = x
  <2>1. CASE j = 1
    <3>1. m \in 1 .. m
      BY <1>1
    <3> QED BY <1>2, <1>3, <2>1, <3>1
  <2>2. CASE j # 1
    <3>1. j - 1 \in 1 .. m /\ (j - 1) + 1 = j /\ j - 1 # m
      BY <1>1, <2>2
    <3>2. NextOf(c, j - 1) = c[j]
      BY <1>3, <3>1
    <3> QED BY <1>2, <3>1, <3>2
  <2> QED BY <2>1, <2>2
<1>5. PICK i \in DOMAIN c : NextOf(c, i) = x
  BY <1>1, <1>4
<1> QED BY <1>5 DEF Fit

\* slob_alloc frees a new page into the circle.
PageFreed(h, h2, g, p, Q, L) ==
  /\ HeapHolds(h2, Cells(g \cup {p}), Q, L)
  /\ \A x \in Q : h2.units[x] = h.units[x]
  /\ \A n \in Nat : n <= PageUnits => Fit(h2, n) # {}

\* A new page is a free block like others once slob_free has it.
LEMMA PageAdded ==
  ASSUME NEW h, NEW g \in SUBSET (0 .. NPAGE - 1), NEW Q, NEW L, HeapHolds(h, Cells(g), Q, L),
         NEW p \in (0 .. NPAGE - 1) \ g
  PROVE  PageFreed(h, Freed(h, p * PageUnits, PageUnits), g, p, Q, L)
<1> DEFINE P == p * PageUnits
           R == Run(P, PageUnits)
           X == Q \cup Free(h)
           G == Cells(g)
           G2 == Cells(g \cup {p})
           M == With(Q, L, P, PageUnits)
           h2 == Freed(h, P, PageUnits)
           len == Lengths(h, Q, L)
           lens == Lengths(h, Q \cup {P}, M)
<1>1. PageUnits \in Nat \ {0}
  BY HeapAssumption
<1>2. P \in Cell /\ P \in R /\ P \in Int
  BY CellsOfPage, Blocks
<1>3. G \cap R = {}
  <2> SUFFICES ASSUME NEW q \in g, NEW a \in R, a \in Run(q * PageUnits, PageUnits) PROVE FALSE
    BY DEF Cells
  <2>1. p \in Int /\ q \in Int
    BY HeapAssumption
  <2>2. p = q
    BY <2>1, PageOfCell
  <2> QED BY <2>2
<1>4. G2 = G \cup R
  BY DEF Cells
<1> HIDE DEF P, R, G, G2
<1>5. /\ Heap(h) /\ Q \subseteq Cell /\ Q \cap Free(h) = {} /\ Cut(X, len, G)
  BY DEF HeapHolds, G
<1>6. \A x \in Free(h) : len[x] = h.units[x]
  BY FreeIs DEF G
<1>7. \A x \in Q : len[x] = L[x]
  BY DEF Lengths
<1> HIDE DEF len, X
<1>8. P \notin X
  <2> SUFFICES ASSUME P \in X PROVE FALSE
    OBVIOUS
  <2>1. P \in Run(P, len[P])
    <3>1. len[P] \in Nat \ {0}
      BY <1>5 DEF Cut
    <3> QED BY <1>2, <3>1 DEF Run
  <2>2. P \in G
    BY <1>5, <2>1 DEF Cut
  <2> QED BY <1>2, <1>3, <2>2
<1>9. lens[P] = PageUnits /\ \A z \in X : lens[z] = len[z]
  <2>1. \A z \in (Q \cup {P}) \cup Free(h) : lens[z] = IF z \in Q \cup {P} THEN M[z] ELSE h.units[z]
    BY DEF Lengths
  <2>2. \A z \in Q \cup {P} : M[z] = IF z = P THEN PageUnits ELSE L[z]
    BY DEF With
  <2> HIDE DEF lens, M
  <2>3. lens[P] = PageUnits
    BY <2>1, <2>2
  <2>4. \A z \in Q : lens[z] = len[z]
    BY <1>7, <1>8, <2>1, <2>2 DEF X
  <2>5. \A z \in Free(h) : lens[z] = len[z]
    BY <1>5, <1>6, <1>8, <2>1 DEF X
  <2> QED BY <2>3, <2>4, <2>5 DEF X
<1> HIDE DEF lens, M
<1>10. Cut(X \cup {P}, lens, G \cup R)
  BY <1>1, <1>2, <1>3, <1>5, <1>9, Added DEF R
<1>11. HeapHolds(h, G2, Q \cup {P}, M)
  <2>1. X \cup {P} = (Q \cup {P}) \cup Free(h)
    BY DEF X
  <2>2. Q \cup {P} \subseteq Cell /\ (Q \cup {P}) \cap Free(h) = {}
    BY <1>2, <1>5, <1>8 DEF X
  <2> QED BY <1>4, <1>5, <1>10, <2>1, <2>2 DEF HeapHolds, lens
<1>12. M[P] = PageUnits /\ \A x \in Q : L[x] = M[x]
  BY <1>8 DEF M, With, X
<1>13. Returned(h, h2, G2, Q \cup {P}, M, P)
  <2>1. IF PageUnits = 0 THEN h.units[P] = M[P] ELSE PageUnits = M[P]
    BY <1>1, <1>12
  <2> QED BY <1>11, <2>1, FreedKeeps
<1> HIDE DEF h2
<1>14. (Q \cup {P}) \ {P} = Q
  BY <1>8 DEF X
<1>15. HeapHolds(h2, G2, Q, L)
  <2>1. HeapHolds(h2, G2, Q, M)
    BY <1>13, <1>14 DEF Returned
  <2> QED BY <1>12, <2>1, SameLengths
<1>16. \A x \in Q : h2.units[x] = h.units[x]
  BY <1>13, <1>14 DEF Returned
<1>17. ASSUME NEW n \in Nat, n <= PageUnits PROVE Fit(h2, n) # {}
  <2>1. PICK x \in Free(h2) : h2.units[x] >= PageUnits
    BY <1>12, <1>13 DEF Returned
  <2>2. Heap(h2)
    BY <1>15 DEF HeapHolds
  <2>3. h2.units[x] \in Nat
    BY <1>15, <2>1, FreeIs
  <2>4. h2.units[x] >= n
    BY <1>1, <1>17, <2>1, <2>3
  <2> QED BY <2>2, <2>4, FitsIf
<1> QED BY <1>15, <1>16, <1>17 DEF PageFreed, G2, h2, P

-----------------------------------------------------------------------------
(* Sizes in cells, and orders.                                             *)

\* The next multiple is one step away.
LEMMA Multiples ==
  ASSUME NEW U \in Nat, NEW i \in Int, NEW j \in Int, i < j
  PROVE  U * i + U <= U * j
<1>1. PICK k \in Nat : j = i + k + 1
  <2>1. j - i - 1 \in Nat /\ j = i + (j - i - 1) + 1
    OBVIOUS
  <2> QED BY <2>1
<1>2. U * j = U * i + U * k + U
  BY <1>1
<1>3. U * k \in Nat /\ U * i \in Int
  OBVIOUS
<1> QED BY <1>2, <1>3

\* Division leaves a rest.
LEMMA DivIs ==
  ASSUME NEW U \in Nat \ {0}, NEW x \in Int
  PROVE  \E q \in Int, r \in 0 .. U - 1 : x = U * q + r /\ x \div U = q
<1>1. x \div U \in Int /\ x % U \in 0 .. U - 1
  OBVIOUS
<1>2. x = U * (x \div U) + (x % U)
  OBVIOUS
<1> QED BY <1>1, <1>2

\* Division keeps the order.
LEMMA DivBetween ==
  ASSUME NEW U \in Nat \ {0}, NEW x \in Int, NEW i \in Int
  PROVE  /\ U * i <= x => i <= x \div U
         /\ x < U * i => x \div U < i
<1>1. PICK q \in Int, r \in 0 .. U - 1 : x = U * q + r /\ x \div U = q
  BY DivIs
<1>2. PICK a \in Int, b \in Int : a = U * i /\ b = U * q
  OBVIOUS
<1>3. ASSUME U * i <= x PROVE i <= q
  <2> SUFFICES ASSUME q < i PROVE FALSE
    OBVIOUS
  <2>1. b + U <= a
    BY <1>2, Multiples
  <2> QED BY <1>1, <1>2, <1>3, <2>1
<1>4. ASSUME x < U * i PROVE q < i
  <2> SUFFICES ASSUME i <= q PROVE FALSE
    OBVIOUS
  <2>1. a <= b
    <3>1. CASE i = q
      BY <1>2, <3>1
    <3>2. CASE i < q
      <4>1. a + U <= b
        BY <1>2, <3>2, Multiples
      <4> QED BY <1>2, <4>1
    <3> QED BY <3>1, <3>2
  <2> QED BY <1>1, <1>2, <1>4, <2>1
<1> QED BY <1>1, <1>3, <1>4

\* The cells of an object and of its header.
LEMMA UnitsAre ==
  ASSUME NEW size \in Nat \ {0}
  PROVE  /\ SLOB_UNITS(size) \in Nat \ {0}
         /\ SLOB_UNITS(size + SLOB_UNIT) = SLOB_UNITS(size) + 1
         /\ (~TooLarge(size + SLOB_UNIT) => SLOB_UNITS(size + SLOB_UNIT) <= PageUnits)
         /\ \A m \in Nat : size <= m * PAGE_SIZE => SLOB_UNITS(size) <= m * PageUnits
<1> DEFINE U == SLOB_UNIT
           x == size + U - 1
           q == x \div U
           y == size + U + U - 1
           t == y \div U
<1>1. U \in Nat \ {0} /\ PageUnits \in Nat /\ PageUnits > 3
  BY HeapAssumption
<1> HIDE DEF U
<1>2. x \in Int /\ y \in Int /\ y = x + U /\ x >= U /\ size <= x
  BY <1>1
<1>3. SLOB_UNITS(size) = q /\ SLOB_UNITS(size + SLOB_UNIT) = t
  BY DEF SLOB_UNITS, U
<1>4. PICK r \in 0 .. U - 1 : x = U * q + r /\ q \in Int
  <2> HIDE DEF x, q
  <2>1. \E p \in Int, s \in 0 .. U - 1 : x = U * p + s /\ x \div U = p
    BY <1>1, <1>2, DivIs
  <2> QED BY <2>1 DEF q
<1>5. q >= 1
  <2>1. U * 1 <= x
    BY <1>1, <1>2
  <2> HIDE DEF x
  <2>2. 1 <= x \div U
    BY <1>1, <1>2, <2>1, DivBetween
  <2> QED BY <2>2
<1>6. t = q + 1
  <2> HIDE DEF x, y, q
  <2>1. PICK a \in Int : a = U * q
    BY <1>1, <1>4
  <2>2. U * (q + 1) = a + U /\ U * (q + 2) = a + U + U
    BY <1>1, <1>4, <2>1
  <2>3. U * (q + 1) <= y /\ y < U * (q + 2)
    BY <1>1, <1>2, <1>4, <2>1, <2>2
  <2>4. q + 1 <= y \div U /\ y \div U < q + 2
    BY <1>1, <1>2, <1>4, <2>3, DivBetween
  <2>5. y \div U \in Int
    BY <1>1, <1>2, DivIs
  <2> QED BY <1>4, <2>4, <2>5
<1>7. ASSUME ~TooLarge(size + SLOB_UNIT) PROVE t <= PageUnits
  <2>1. ~(size + U + U >= PageUnits * U)
    BY <1>7 DEF TooLarge, PAGE_SIZE, U
  <2>2. PICK a \in Int : a = PageUnits * U /\ a = U * PageUnits
    BY <1>1
  <2>3. y < a
    BY <1>1, <2>1, <2>2
  <2> HIDE DEF y
  <2>4. t < PageUnits
    BY <1>1, <1>2, <2>2, <2>3, DivBetween
  <2>5. t \in Int
    BY <1>1, <1>2, DivIs
  <2> QED BY <1>1, <2>4, <2>5
<1>8. ASSUME NEW m \in Nat, size <= m * PAGE_SIZE PROVE q <= m * PageUnits
  <2>1. PICK p \in Nat : p = m * PageUnits
    BY <1>1
  <2>2. m * PAGE_SIZE = U * p
    <3>1. m * (PageUnits * U) = U * (m * PageUnits)
      BY <1>1
    <3> QED BY <2>1, <3>1 DEF PAGE_SIZE, U
  <2>3. PICK a \in Int : a = U * p
    BY <1>1
  <2>4. U * (p + 1) = a + U
    BY <1>1, <2>3
  <2>5. x < U * (p + 1)
    BY <1>1, <1>8, <2>2, <2>3, <2>4
  <2> HIDE DEF x
  <2>6. q < p + 1
    BY <1>1, <1>2, <2>5, DivBetween
  <2> HIDE DEF q
  <2> QED BY <1>4, <2>1, <2>6
<1> HIDE DEF q, t
<1>9. q \in Nat \ {0}
  BY <1>4, <1>5
<1> QED BY <1>3, <1>6, <1>7, <1>8, <1>9

\* There are more sets of numbers up to k than numbers.
LEMMA Powers ==
  ASSUME NEW k \in Nat
  PROVE  2 ^ k \in Nat /\ k < 2 ^ k
<1> DEFINE S == 1 .. k
           T == 0 .. k
           f == [i \in T |-> {i} \cap S]
<1>1. IsFiniteSet(S) /\ Cardinality(S) = k
  <2>1. IsFiniteSet(1 .. k) /\ Cardinality(1 .. k) = IF 1 > k THEN 0 ELSE k - 1 + 1
    BY FS_Interval
  <2> QED BY <2>1
<1>2. IsFiniteSet(T) /\ Cardinality(T) = k + 1
  <2>1. IsFiniteSet(0 .. k) /\ Cardinality(0 .. k) = IF 0 > k THEN 0 ELSE k - 0 + 1
    BY FS_Interval
  <2> QED BY <2>1
<1>3. IsFiniteSet(SUBSET S) /\ Cardinality(SUBSET S) = 2 ^ k
  BY <1>1, FS_SUBSET
<1>4. Cardinality(SUBSET S) \in Nat
  BY <1>3, FS_CardinalityType
<1>5. f \in [T -> SUBSET S] /\ \A i, j \in T : f[i] = f[j] => i = j
  <2>1. f \in [T -> SUBSET S]
    OBVIOUS
  <2>2. \A i \in T : i = 0 \/ i \in S
    OBVIOUS
  <2>3. 0 \notin S
    OBVIOUS
  <2>4. \A i \in T : f[i] = IF i = 0 THEN {} ELSE {i}
    BY <2>2, <2>3
  <2> HIDE DEF f, S
  <2> QED BY <2>1, <2>4
<1>6. Cardinality(T) <= Cardinality(SUBSET S)
  <2>1. f \in Injection(T, SUBSET S)
    BY <1>5 DEF Injection, IsInjective
  <2> HIDE DEF f, T, S
  <2> QED BY <1>3, <2>1, FS_Injection
<1> HIDE DEF S, T
<1>7. PICK m \in Nat : m = Cardinality(SUBSET S)
  BY <1>4
<1>8. k < m
  BY <1>2, <1>6, <1>7
<1> QED BY <1>3, <1>7, <1>8

\* find_order ends.
LEMMA OrderIs ==
  ASSUME NEW size \in Nat
  PROVE  find_order(size) \in Nat
<1> DEFINE K == {k \in 0 .. size : size \div 2 ^ k <= PAGE_SIZE}
<1>1. PICK m \in Nat : m = 2 ^ size /\ size < m
  BY Powers
<1>2. size \div m <= PAGE_SIZE
  <2>1. size < m * 1 /\ m \in Nat \ {0}
    BY <1>1
  <2>2. size \div m < 1
    BY <2>1, DivBetween
  <2>3. size \div m \in Int
    BY <2>1, DivIs
  <2>4. PAGE_SIZE \in Nat
    BY HeapAssumption DEF PAGE_SIZE
  <2> QED BY <2>2, <2>3, <2>4
<1>3. size \in K
  BY <1>1, <1>2
<1>4. K \in SUBSET Nat /\ K # {}
  BY <1>3
<1> HIDE DEF K
<1>5. Min(K) \in K
  BY <1>4, LeastExists
<1> QED BY <1>4, <1>5 DEF find_order, K

-----------------------------------------------------------------------------
(* The answers of slob_alloc.                                              *)

Shape(h) == h = [circle |-> h.circle, units |-> h.units]

\* The heap that slob_alloc leaves has a circle and headers, and nothing else.
LEMMA TakenShape ==
  ASSUME NEW h, NEW n
  PROVE  Shape(Taken(h, n))
<1> DEFINE d == From(h.circle, Min(Fit(h, n)))
           c == <<d[1]>> \o Rest(h, d[2], n) \o SubSeq(d, 3, Len(d))
           u == [a \in DOMAIN h.units |-> IF a = d[2] THEN n
                                          ELSE IF a \in ToSet(Rest(h, d[2], n))
                                               THEN h.units[d[2]] - n
                                               ELSE h.units[a]]
<1>1. Taken(h, n) = [circle |-> c, units |-> u]
  BY DEF Taken
<1> HIDE DEF c, u
<1> QED BY <1>1 DEF Shape

\* The answer r of slob_alloc(n), of a heap with the pieces Q in use.
Allocates(h, g, Q, L, n, r) ==
  \/ r.block = {} /\ r.heap = h /\ r.grown = g
  \/ \E b \in Cell \ Q :
       /\ r.block = {b} /\ g \subseteq r.grown /\ r.grown \in SUBSET (0 .. NPAGE - 1)
       /\ \A p \in r.grown \ g : p \in FreeRuns(g, 0)
       /\ HeapHolds(r.heap, Cells(r.grown), Q \cup {b}, With(Q, L, b, n))
       /\ Shape(r.heap) /\ r.heap.units[b] = n /\ \A x \in Q : r.heap.units[x] = h.units[x]

\* Pages that alloc_pages answers with are not the heap's, nor of a record.
LEMMA FreePage ==
  ASSUME NEW g, NEW k \in Nat, NEW p \in FreeRuns(g, k)
  PROVE  /\ p \in (0 .. NPAGE - 1) \ g /\ p \in Run(p, 2 ^ k)
         /\ Run(p, 2 ^ k) \subseteq (0 .. NPAGE - 1) \ g
         /\ \A r \in bigblocks : Run(p, 2 ^ k) \cap Run(r.pages, 2 ^ r.order) = {}
<1>1. p \in 0 .. NPAGE - 1 /\ Run(p, 2 ^ k) \subseteq (0 .. NPAGE - 1) \ InUse(g)
  BY DEF FreeRuns
<1>2. p \in Run(p, 2 ^ k)
  <2>1. PICK m \in Nat : m = 2 ^ k /\ k < m
    BY Powers
  <2>2. p \in Run(p, m)
    BY <1>1, <2>1, HeapAssumption DEF Run
  <2> QED BY <2>1, <2>2
<1>3. g \subseteq InUse(g) /\ \A r \in bigblocks : Run(r.pages, 2 ^ r.order) \subseteq InUse(g)
  BY DEF InUse
<1> HIDE DEF InUse
<1> QED BY <1>1, <1>2, <1>3

\* The answers of slob_alloc: none, with nothing changed, or a piece.
LEMMA SlobAlloc ==
  ASSUME grown \in SUBSET (0 .. NPAGE - 1), NEW Q, NEW L, HeapHolds(heap, Cells(grown), Q, L),
         NEW n \in Nat, n >= 2, n <= PageUnits, NEW r \in slob_alloc(n)
  PROVE  Allocates(heap, grown, Q, L, n, r)
<1>1. CASE Fit(heap, n) # {}
  <2> DEFINE b == Found(heap, n)
  <2>1. r = Answer(Taken(heap, n), grown, b)
    BY <1>1 DEF slob_alloc
  <2>2. r.heap = Taken(heap, n) /\ r.grown = grown /\ r.block = {b}
    BY <2>1 DEF Answer
  <2>3. CutOff(heap, r.heap, Cells(grown), Q, L, n, b)
    BY <1>1, <2>2, GrownCells, TakenKeeps
  <2>5. Shape(r.heap)
    BY <2>2, TakenShape
  <2> HIDE DEF b
  <2>4. b \in Cell \ Q
    BY <2>3, FreeIs DEF CutOff, HeapHolds
  <2> QED BY <2>2, <2>3, <2>4, <2>5 DEF CutOff, Allocates
<1>2. CASE Fit(heap, n) = {}
  <2>1. r = Refusal \/ \E p \in FreeRuns(grown, 0) :
          LET h == Freed(heap, p * PageUnits, PageUnits)
          IN  r = Answer(Taken(h, n), grown \cup {p}, Found(h, n))
    BY <1>2 DEF slob_alloc
  <2>2. CASE r = Refusal
    BY <2>2 DEF Refusal, Allocates
  <2>3. ASSUME NEW p \in FreeRuns(grown, 0),
               r = Answer(Taken(Freed(heap, p * PageUnits, PageUnits), n), grown \cup {p},
                          Found(Freed(heap, p * PageUnits, PageUnits), n))
        PROVE  Allocates(heap, grown, Q, L, n, r)
    <3> DEFINE h == Freed(heap, p * PageUnits, PageUnits)
               g == grown \cup {p}
               b == Found(h, n)
    <3>1. p \in (0 .. NPAGE - 1) \ grown
      <4>1. 0 \in Nat
        OBVIOUS
      <4> QED BY <4>1, FreePage
    <3>2. PageFreed(heap, h, grown, p, Q, L)
      BY <3>1, PageAdded
    <3> HIDE DEF h
    <3>3. r.heap = Taken(h, n) /\ r.grown = g /\ r.block = {b}
      BY <2>3 DEF Answer, h
    <3>4. g \in SUBSET (0 .. NPAGE - 1)
      BY <3>1
    <3>5. HeapHolds(h, Cells(g), Q, L) /\ Fit(h, n) # {} /\ \A x \in Q : h.units[x] = heap.units[x]
      BY <3>2 DEF PageFreed
    <3>6. CutOff(h, r.heap, Cells(g), Q, L, n, b)
      BY <3>3, <3>4, <3>5, GrownCells, TakenKeeps
    <3>7. b \in Cell \ Q
      <4> HIDE DEF b, g
      <4> QED BY <3>5, <3>6, FreeIs DEF CutOff, HeapHolds
    <3>9. Shape(r.heap)
      BY <3>3, TakenShape
    <3>8. \A x \in r.grown \ grown : x \in FreeRuns(grown, 0)
      BY <3>3
    <3> HIDE DEF b
    <3> QED BY <3>3, <3>4, <3>5, <3>6, <3>7, <3>8, <3>9 DEF CutOff, Allocates
  <2> QED BY <2>1, <2>2, <2>3
<1> QED BY <1>1, <1>2

-----------------------------------------------------------------------------
(* The inductive invariant, of the heap h, the pages g it has taken, the   *)
(* records B and the objects A.                                            *)

Recs(B, b) == {r \in B : r.pages * PageUnits = b}
Smalls(A, B) == {b \in DOMAIN A : Recs(B, b) = {}}
Bases(B) == {r.bb : r \in B}
PageRun(r) == Run(r.pages, 2 ^ r.order)

\* The pieces in use: the small objects with their headers, and the records.
UsedBy(A, B) == {b - 1 : b \in Smalls(A, B)} \cup Bases(B)
LengthsOf(h, A, B) ==
  [x \in UsedBy(A, B) |-> IF x \in Bases(B) THEN RecordUnits ELSE h.units[x]]

AskedRight(A) == DOMAIN A \subseteq Cell /\ \A b \in DOMAIN A : A[b] \in Sizes

PagesApart(g, B) ==
  /\ g \in SUBSET (0 .. NPAGE - 1)
  /\ \A r \in B : PageRun(r) \subseteq (0 .. NPAGE - 1) \ g
  /\ \A r, s \in B : r # s => PageRun(r) \cap PageRun(s) = {}

RecordsRight(A, B) ==
  /\ \A r \in B : /\ r.order \in Nat /\ r.pages \in 0 .. NPAGE - 1 /\ r.bb \in Cell
                  /\ r.pages * PageUnits \in DOMAIN A
                  /\ r.order = find_order(A[r.pages * PageUnits])
  /\ \A r, s \in B : r.bb = s.bb => r = s

SmallsRight(h, A, B) ==
  \A b \in Smalls(A, B) : b - 1 \notin Bases(B) /\ h.units[b - 1] = SLOB_UNITS(A[b] + SLOB_UNIT)

Right(h, g, B, A) ==
  /\ AskedRight(A) /\ PagesApart(g, B) /\ RecordsRight(A, B) /\ SmallsRight(h, A, B)
  /\ HeapHolds(h, Cells(g), UsedBy(A, B), LengthsOf(h, A, B))

\* Places of records and pages are numbers.
LEMMA RecordPages ==
  ASSUME NEW g, NEW A, NEW B, PagesApart(g, B), RecordsRight(A, B), NEW r \in B
  PROVE  /\ r.pages \in PageRun(r) /\ r.pages \in 0 .. NPAGE - 1 /\ r.pages \notin g
         /\ r.pages \in Int
         /\ \A s \in B : r.pages * PageUnits = s.pages * PageUnits => r = s
<1>1. r.order \in Nat /\ r.pages \in 0 .. NPAGE - 1 /\ NPAGE \in Nat
  BY HeapAssumption DEF RecordsRight
<1>2. \A s \in B : s.pages \in PageRun(s) /\ s.pages \in 0 .. NPAGE - 1
  <2> SUFFICES ASSUME NEW s \in B PROVE s.pages \in PageRun(s) /\ s.pages \in 0 .. NPAGE - 1
    OBVIOUS
  <2>1. s.order \in Nat /\ s.pages \in 0 .. NPAGE - 1
    BY DEF RecordsRight
  <2>2. PICK m \in Nat : m = 2 ^ s.order /\ s.order < m
    BY <2>1, Powers
  <2>3. s.pages \in Run(s.pages, m)
    BY <1>1, <2>1, <2>2 DEF Run
  <2> QED BY <2>1, <2>2, <2>3 DEF PageRun
<1>3. r.pages \notin g
  BY <1>2 DEF PagesApart
<1>4. ASSUME NEW s \in B, r.pages * PageUnits = s.pages * PageUnits PROVE r = s
  <2>1. s.pages \in Int /\ r.pages \in Int
    BY <1>1, <1>2
  <2>2. r.pages * PageUnits \in Run(r.pages * PageUnits, PageUnits)
    BY <1>1, CellsOfPage
  <2>3. r.pages = s.pages
    BY <1>4, <2>1, <2>2, PageOfCell
  <2> QED BY <1>2, <2>3 DEF PagesApart
<1> QED BY <1>1, <1>2, <1>3, <1>4

\* No page of a record has cells of small objects.
LEMMA NoRecordHere ==
  ASSUME NEW g, NEW A, NEW B, PagesApart(g, B), RecordsRight(A, B), NEW a \in Cells(g)
  PROVE  Recs(B, a) = {}
<1> SUFFICES ASSUME NEW r \in B, r.pages * PageUnits = a PROVE FALSE
  BY DEF Recs
<1>1. PICK q \in g : a \in Run(q * PageUnits, PageUnits)
  BY DEF Cells
<1>2. q \in Int /\ r.pages \in Int /\ r.pages \in 0 .. NPAGE - 1 /\ r.pages \notin g
  <2>1. q \in Int
    BY HeapAssumption DEF PagesApart
  <2>2. r.pages \in Int /\ r.pages \in 0 .. NPAGE - 1 /\ r.pages \notin g
    BY RecordPages
  <2> QED BY <2>1, <2>2
<1>3. a \in Run(r.pages * PageUnits, PageUnits)
  BY <1>2, CellsOfPage
<1>4. q = r.pages
  BY <1>1, <1>2, <1>3, PageOfCell
<1> QED BY <1>2, <1>4

\* A piece in use lies in the heap's pages.
LEMMA PieceInPages ==
  ASSUME NEW h, NEW G, NEW Q, NEW L, HeapHolds(h, G, Q, L), NEW x \in Q
  PROVE  x \in Int /\ L[x] \in Nat \ {0} /\ Run(x, L[x]) \subseteq G
<1>1. L[x] \in Nat \ {0} /\ Lengths(h, Q, L)[x] = L[x]
  BY FreeIs
<1>2. x \in Q \cup Free(h) /\ Cut(Q \cup Free(h), Lengths(h, Q, L), G)
  BY DEF HeapHolds
<1>3. Run(x, Lengths(h, Q, L)[x]) \subseteq G /\ x \in Int
  BY <1>2 DEF Cut
<1> QED BY <1>1, <1>3

\* A small object lies behind its header in a piece of the heap.
LEMMA SmallUsed ==
  ASSUME NEW h, NEW g, NEW B, NEW A, Right(h, g, B, A), NEW b \in Smalls(A, B)
  PROVE  /\ b - 1 \in UsedBy(A, B) /\ LengthsOf(h, A, B)[b - 1] = SLOB_UNITS(A[b]) + 1
         /\ SLOB_UNITS(A[b]) \in Nat \ {0} /\ b \in Cell /\ b \in Int
         /\ h.units[b - 1] = SLOB_UNITS(A[b]) + 1 /\ Recs(B, b) = {}
         /\ Run(b - 1, SLOB_UNITS(A[b]) + 1) \subseteq Cells(g)
         /\ b \in Run(b - 1, SLOB_UNITS(A[b]) + 1)
<1>1. b - 1 \in UsedBy(A, B) /\ Recs(B, b) = {} /\ b \in DOMAIN A
  BY DEF UsedBy, Smalls
<1>2. b \in Cell /\ b \in Int /\ A[b] \in Nat \ {0}
  BY <1>1, Blocks, HeapAssumption DEF Right, AskedRight
<1>3. SLOB_UNITS(A[b]) \in Nat \ {0} /\ SLOB_UNITS(A[b] + SLOB_UNIT) = SLOB_UNITS(A[b]) + 1
  BY <1>2, UnitsAre
<1>4. b - 1 \notin Bases(B) /\ h.units[b - 1] = SLOB_UNITS(A[b]) + 1
  BY <1>3 DEF Right, SmallsRight
<1>5. LengthsOf(h, A, B)[b - 1] = SLOB_UNITS(A[b]) + 1
  BY <1>1, <1>4 DEF LengthsOf
<1>6. Run(b - 1, SLOB_UNITS(A[b]) + 1) \subseteq Cells(g)
  BY <1>1, <1>5, PieceInPages DEF Right
<1>7. b \in Run(b - 1, SLOB_UNITS(A[b]) + 1)
  <2> DEFINE m == SLOB_UNITS(A[b])
  <2>1. m \in Nat \ {0}
    BY <1>3
  <2> HIDE DEF m
  <2>2. b \in Run(b - 1, m + 1)
    BY <1>2, <2>1 DEF Run
  <2> QED BY <2>2 DEF m
<1> QED BY <1>1, <1>2, <1>3, <1>4, <1>5, <1>6, <1>7

-----------------------------------------------------------------------------
(* kmalloc.                                                                *)

\* slob_alloc has given the piece b, of n cells.
Given(h, g, Q, L, n, h2, g2, b) ==
  /\ b \in Cell \ Q /\ g \subseteq g2
  /\ HeapHolds(h2, Cells(g2), Q \cup {b}, With(Q, L, b, n))
  /\ Shape(h2) /\ h2.units[b] = n /\ \A x \in Q : h2.units[x] = h.units[x]

\* An object more, of so many bytes.
More(A, A2, o, size) ==
  /\ DOMAIN A2 = DOMAIN A \cup {o} /\ A2[o] = size
  /\ \A x \in DOMAIN A : x # o => A2[x] = A[x]

\* Only the objects matter, not how they are written down.
LEMMA SameAsked ==
  ASSUME NEW h, NEW g, NEW B, NEW A, Right(h, g, B, A), NEW A2,
         DOMAIN A2 = DOMAIN A, \A x \in DOMAIN A : A2[x] = A[x]
  PROVE  Right(h, g, B, A2)
<1>1. Smalls(A2, B) = Smalls(A, B)
  BY DEF Smalls
<1>2. UsedBy(A2, B) = UsedBy(A, B)
  BY <1>1 DEF UsedBy
<1>3. LengthsOf(h, A2, B) = LengthsOf(h, A, B)
  BY <1>2 DEF LengthsOf
<1>4. AskedRight(A2) /\ PagesApart(g, B)
  BY DEF Right, AskedRight
<1>5. RecordsRight(A2, B)
  BY DEF Right, RecordsRight
<1>6. SmallsRight(h, A2, B)
  <2>1. \A b \in Smalls(A, B) : A2[b] = A[b]
    BY DEF Smalls
  <2> QED BY <1>1, <2>1 DEF Right, SmallsRight
<1>7. HeapHolds(h, Cells(g), UsedBy(A2, B), LengthsOf(h, A2, B))
  BY <1>2, <1>3 DEF Right
<1> QED BY <1>4, <1>5, <1>6, <1>7 DEF Right

\* kmalloc of a small object.
LEMMA SmallGiven ==
  ASSUME NEW h, NEW g, NEW B, NEW A, Right(h, g, B, A), NEW size \in Sizes,
         NEW h2, NEW g2, NEW b, PagesApart(g2, B),
         Given(h, g, UsedBy(A, B), LengthsOf(h, A, B), SLOB_UNITS(size + SLOB_UNIT), h2, g2, b),
         NEW A2, More(A, A2, b + 1, size)
  PROVE  Right(h2, g2, B, A2)
<1> DEFINE Q == UsedBy(A, B)
           L == LengthsOf(h, A, B)
           n == SLOB_UNITS(size + SLOB_UNIT)
           o == b + 1
<1>1. /\ AskedRight(A) /\ RecordsRight(A, B) /\ SmallsRight(h, A, B)
      /\ HeapHolds(h, Cells(g), Q, L)
  BY DEF Right
<1>2. /\ b \in Cell /\ b \notin Q
      /\ HeapHolds(h2, Cells(g2), Q \cup {b}, With(Q, L, b, n))
      /\ h2.units[b] = n /\ \A x \in Q : h2.units[x] = h.units[x]
  BY DEF Given
<1>3. DOMAIN A2 = DOMAIN A \cup {o} /\ A2[o] = size /\ \A x \in DOMAIN A : x # o => A2[x] = A[x]
  BY DEF More
<1>4. b \in Int /\ o - 1 = b /\ \A x \in Int : x - 1 = b => x = o
  BY <1>2, Blocks
<1>5. n \in Nat /\ n >= 2
  <2>1. size \in Nat \ {0}
    BY HeapAssumption
  <2>2. SLOB_UNITS(size) \in Nat \ {0} /\ n = SLOB_UNITS(size) + 1
    BY <2>1, UnitsAre
  <2> HIDE DEF n
  <2> QED BY <2>2
<1> HIDE DEF n
<1>6. o \in Cells(g2)
  <2> DEFINE M == With(Q, L, b, n)
  <2>1. M[b] = n
    BY DEF With
  <2> HIDE DEF M
  <2>2. Run(b, M[b]) \subseteq Cells(g2)
    BY <1>2, PieceInPages DEF M
  <2>3. o \in Run(b, n)
    BY <1>4, <1>5 DEF Run
  <2> QED BY <2>1, <2>2, <2>3
<1>7. o \in Cell
  BY <1>6, GrownCells DEF PagesApart
<1>8. Recs(B, o) = {}
  BY <1>1, <1>6, NoRecordHere
<1>9. o \notin DOMAIN A
  <2> SUFFICES ASSUME o \in DOMAIN A PROVE FALSE
    OBVIOUS
  <2>1. o \in Smalls(A, B)
    BY <1>8 DEF Smalls
  <2>2. o - 1 \in Q
    BY <2>1 DEF UsedBy
  <2> HIDE DEF Q, o
  <2> QED BY <1>2, <1>4, <2>2
<1> HIDE DEF o, Q, L
<1>10. \A x \in DOMAIN A : A2[x] = A[x]
  BY <1>3, <1>9
<1>11. Smalls(A2, B) = Smalls(A, B) \cup {o} /\ o \notin Smalls(A, B)
  BY <1>3, <1>8, <1>9 DEF Smalls
<1>12. UsedBy(A2, B) = Q \cup {b}
  BY <1>4, <1>11 DEF UsedBy, Q
<1>13. b \notin Bases(B)
  BY <1>2 DEF Q, UsedBy
<1>14. AskedRight(A2)
  BY <1>1, <1>3, <1>7, <1>10 DEF AskedRight
<1>15. RecordsRight(A2, B)
  BY <1>1, <1>3, <1>10 DEF RecordsRight
<1>16. SmallsRight(h2, A2, B)
  <2> SUFFICES ASSUME NEW c \in Smalls(A2, B)
               PROVE  c - 1 \notin Bases(B) /\ h2.units[c - 1] = SLOB_UNITS(A2[c] + SLOB_UNIT)
    BY DEF SmallsRight
  <2>1. CASE c = o
    BY <1>2, <1>3, <1>4, <1>13, <2>1 DEF n
  <2>2. CASE c # o
    <3>1. c \in Smalls(A, B) /\ c \in DOMAIN A
      BY <1>11, <2>2 DEF Smalls
    <3>2. c - 1 \in Q
      BY <3>1 DEF Q, UsedBy
    <3> QED BY <1>1, <1>2, <1>10, <3>1, <3>2 DEF SmallsRight
  <2> QED BY <2>1, <2>2
<1>17. \A x \in Q \cup {b} : LengthsOf(h2, A2, B)[x] = With(Q, L, b, n)[x]
  <2> SUFFICES ASSUME NEW x \in Q \cup {b}
               PROVE  LengthsOf(h2, A2, B)[x] = With(Q, L, b, n)[x]
    OBVIOUS
  <2>1. LengthsOf(h2, A2, B)[x] = IF x \in Bases(B) THEN RecordUnits ELSE h2.units[x]
    BY <1>12 DEF LengthsOf
  <2>2. With(Q, L, b, n)[x] = IF x = b THEN n ELSE L[x]
    BY DEF With
  <2>3. x # b => L[x] = IF x \in Bases(B) THEN RecordUnits ELSE h.units[x]
    BY DEF L, LengthsOf, Q
  <2> QED BY <1>2, <1>13, <2>1, <2>2, <2>3
<1>18. HeapHolds(h2, Cells(g2), UsedBy(A2, B), LengthsOf(h2, A2, B))
  BY <1>2, <1>12, <1>17, SameLengths
<1> QED BY <1>14, <1>15, <1>16, <1>18 DEF Right

\* A record, for an object with pages of its own.
LEMMA BigGiven ==
  ASSUME NEW h, NEW g, NEW B, NEW A, Right(h, g, B, A), NEW size \in Sizes,
         NEW h1, NEW g2, NEW b, NEW p \in 0 .. NPAGE - 1, p \notin g2,
         \A r \in B : r.pages # p,
         Given(h, g, UsedBy(A, B), LengthsOf(h, A, B), RecordUnits, h1, g2, b),
         NEW h2, h2 = [h1 EXCEPT !.units[b] = find_order(size)],
         NEW B2, B2 = B \cup {[order |-> find_order(size), pages |-> p, bb |-> b]},
         PagesApart(g2, B2),
         NEW A2, More(A, A2, p * PageUnits, size)
  PROVE  Right(h2, g2, B2, A2)
<1> DEFINE Q == UsedBy(A, B)
           L == LengthsOf(h, A, B)
           k == find_order(size)
           s == [order |-> k, pages |-> p, bb |-> b]
           o == p * PageUnits
           M == With(Q, L, b, RecordUnits)
<1>1. /\ AskedRight(A) /\ RecordsRight(A, B) /\ SmallsRight(h, A, B)
      /\ HeapHolds(h, Cells(g), Q, L) /\ PagesApart(g, B)
  BY DEF Right
<1>2. /\ b \in Cell /\ b \notin Q /\ g \subseteq g2
      /\ HeapHolds(h1, Cells(g2), Q \cup {b}, M)
      /\ \A x \in Q : h1.units[x] = h.units[x]
  BY DEF Given
<1>3. DOMAIN A2 = DOMAIN A \cup {o} /\ A2[o] = size /\ \A x \in DOMAIN A : x # o => A2[x] = A[x]
  BY DEF More
<1>4. k \in Nat
  BY OrderIs, HeapAssumption
<1>5. s.order = k /\ s.pages = p /\ s.bb = b /\ B2 = B \cup {s}
  OBVIOUS
<1> HIDE DEF s, k, M
<1>6. p \in Int /\ o \in Cell /\ o \in Run(o, PageUnits) /\ \A r \in B : r.pages \in Int
  BY <1>1, CellsOfPage, RecordPages, HeapAssumption
<1>7. \A r \in B : r.pages * PageUnits # o
  <2> SUFFICES ASSUME NEW r \in B, r.pages * PageUnits = o PROVE FALSE
    OBVIOUS
  <2>1. r.pages \in Int
    BY <1>6
  <2>2. r.pages = p
    BY <1>6, <2>1, PageOfCell
  <2> QED BY <2>2
<1>8. o \notin DOMAIN A
  <2> SUFFICES ASSUME o \in DOMAIN A PROVE FALSE
    OBVIOUS
  <2>1. o \in Smalls(A, B)
    BY <1>7 DEF Smalls, Recs
  <2>2. o \in Cells(g)
    <3> HIDE DEF o
    <3> QED BY <2>1, SmallUsed
  <2>3. PICK q \in g : o \in Run(q * PageUnits, PageUnits)
    BY <2>2 DEF Cells
  <2>4. q \in Int
    BY <1>1, HeapAssumption DEF PagesApart
  <2>5. q = p
    BY <1>6, <2>3, <2>4, PageOfCell
  <2> QED BY <1>2, <2>5
<1> HIDE DEF o, Q, L
<1>9. \A x \in DOMAIN A : A2[x] = A[x]
  BY <1>3, <1>8
<1>10. s \notin B
  BY <1>5, <1>7 DEF o
<1>11. Recs(B2, o) = {s} /\ \A x : x # o => Recs(B2, x) = Recs(B, x)
  BY <1>5, <1>7 DEF Recs, o
<1>12. Smalls(A2, B2) = Smalls(A, B)
  BY <1>3, <1>8, <1>11 DEF Smalls
<1>13. Bases(B2) = Bases(B) \cup {b}
  BY <1>5 DEF Bases
<1>14. UsedBy(A2, B2) = Q \cup {b}
  BY <1>12, <1>13 DEF UsedBy, Q
<1>15. AskedRight(A2)
  BY <1>1, <1>3, <1>6, <1>9 DEF AskedRight
<1>16. RecordsRight(A2, B2)
  <2>1. ASSUME NEW r \in B2
        PROVE  /\ r.order \in Nat /\ r.pages \in 0 .. NPAGE - 1 /\ r.bb \in Cell
               /\ r.pages * PageUnits \in DOMAIN A2
               /\ r.order = find_order(A2[r.pages * PageUnits])
    <3>1. CASE r = s
      BY <1>2, <1>3, <1>4, <1>5, <3>1 DEF o, k
    <3>2. CASE r \in B
      BY <1>1, <1>3, <1>9, <3>2 DEF RecordsRight
    <3> QED BY <1>5, <3>1, <3>2
  <2>2. \A r \in B : r.bb # b
    BY <1>2 DEF Q, UsedBy, Bases
  <2>3. \A r, t \in B2 : r.bb = t.bb => r = t
    BY <1>1, <1>5, <2>2 DEF RecordsRight
  <2> QED BY <2>1, <2>3 DEF RecordsRight
<1>17. h2.circle = h1.circle /\ h2.units = [h1.units EXCEPT ![b] = k]
  <2> DEFINE c == h1.circle
             u == h1.units
  <2>1. h1 = [circle |-> c, units |-> u]
    BY DEF Given, Shape
  <2>2. h2 = [h1 EXCEPT !.units[b] = k]
    BY DEF k
  <2> HIDE DEF c, u
  <2>3. h1.circle = c /\ h1.units = u
    BY <2>1
  <2>4. h2.circle = c /\ h2.units = [u EXCEPT ![b] = k]
    BY <2>1, <2>2
  <2> QED BY <2>3, <2>4
<1>18. h1.units \in [Block -> Nat] /\ b \in Block
  BY <1>2, Blocks DEF HeapHolds, Heap
<1>19. h2.units \in [Block -> Nat] /\ \A x \in Block : x # b => h2.units[x] = h1.units[x]
  BY <1>4, <1>17, <1>18
<1>20. \A x \in Q : x \in Block /\ x # b /\ h2.units[x] = h.units[x]
  <2>1. \A x \in Q : x \in Block /\ x # b
    BY <1>1, <1>2, Blocks DEF HeapHolds
  <2> QED BY <1>2, <1>19, <2>1
<1>21. SmallsRight(h2, A2, B2)
  <2> SUFFICES ASSUME NEW c \in Smalls(A, B)
               PROVE  c - 1 \notin Bases(B2) /\ h2.units[c - 1] = SLOB_UNITS(A2[c] + SLOB_UNIT)
    BY <1>12 DEF SmallsRight
  <2>1. c - 1 \in Q /\ c \in DOMAIN A
    BY DEF Q, UsedBy, Smalls
  <2> QED BY <1>1, <1>9, <1>13, <1>20, <2>1 DEF SmallsRight
<1>22. HeapHolds(h2, Cells(g2), Q \cup {b}, M)
  <2> HIDE DEF M
  <2> QED BY <1>2, <1>17, <1>19, SameHeap
<1>23. \A x \in Q \cup {b} : LengthsOf(h2, A2, B2)[x] = M[x]
  <2> SUFFICES ASSUME NEW x \in Q \cup {b} PROVE LengthsOf(h2, A2, B2)[x] = M[x]
    OBVIOUS
  <2>1. LengthsOf(h2, A2, B2)[x] = IF x \in Bases(B2) THEN RecordUnits ELSE h2.units[x]
    BY <1>14 DEF LengthsOf
  <2>2. M[x] = IF x = b THEN RecordUnits ELSE L[x]
    BY DEF With, M
  <2>3. x # b => L[x] = IF x \in Bases(B) THEN RecordUnits ELSE h.units[x]
    BY DEF L, LengthsOf, Q
  <2> QED BY <1>13, <1>20, <2>1, <2>2, <2>3
<1>24. HeapHolds(h2, Cells(g2), UsedBy(A2, B2), LengthsOf(h2, A2, B2))
  BY <1>14, <1>22, <1>23, SameLengths
<1> QED BY <1>15, <1>16, <1>21, <1>24 DEF Right

\* The record goes back when there are no pages.
LEMMA RecordBack ==
  ASSUME NEW h, NEW g, NEW B, NEW A, Right(h, g, B, A), NEW h1, NEW g2, NEW b, PagesApart(g2, B),
         Given(h, g, UsedBy(A, B), LengthsOf(h, A, B), RecordUnits, h1, g2, b)
  PROVE  Right(Freed(h1, b, RecordUnits), g2, B, A)
<1> DEFINE Q == UsedBy(A, B)
           L == LengthsOf(h, A, B)
           M == With(Q, L, b, RecordUnits)
           h2 == Freed(h1, b, RecordUnits)
<1>1. /\ b \notin Q /\ HeapHolds(h1, Cells(g2), Q \cup {b}, M)
      /\ \A x \in Q : h1.units[x] = h.units[x]
  BY DEF Given
<1>2. M[b] = RecordUnits /\ RecordUnits # 0 /\ \A x \in Q : M[x] = L[x]
  BY <1>1 DEF With, RecordUnits
<1> HIDE DEF M
<1>3. Returned(h1, h2, Cells(g2), Q \cup {b}, M, b)
  <2>1. IF RecordUnits = 0 THEN h1.units[b] = M[b] ELSE RecordUnits = M[b]
    BY <1>2
  <2> HIDE DEF Q
  <2> QED BY <1>1, <2>1, FreedKeeps
<1> HIDE DEF h2, Q
<1>4. (Q \cup {b}) \ {b} = Q
  BY <1>1
<1>5. HeapHolds(h2, Cells(g2), Q, M) /\ \A x \in Q : h2.units[x] = h.units[x]
  BY <1>1, <1>3, <1>4 DEF Returned
<1>6. \A x \in Q : LengthsOf(h2, A, B)[x] = M[x]
  BY <1>2, <1>5 DEF LengthsOf, Q
<1>7. HeapHolds(h2, Cells(g2), Q, LengthsOf(h2, A, B))
  BY <1>5, <1>6, SameLengths
<1>8. SmallsRight(h2, A, B)
  <2>1. \A c \in Smalls(A, B) : c - 1 \in Q
    BY DEF Q, UsedBy
  <2> QED BY <1>5, <2>1 DEF Right, SmallsRight
<1> QED BY <1>7, <1>8 DEF Right, Q, h2

-----------------------------------------------------------------------------
(* kfree.                                                                  *)

\* An object less.
Less(A, b) == [a \in DOMAIN A \ {b} |-> A[a]]

\* kfree of a small object.
LEMMA SmallFreed ==
  ASSUME NEW h, NEW g, NEW B, NEW A, Right(h, g, B, A), NEW b \in Smalls(A, B)
  PROVE  Right(Freed(h, b - 1, 0), g, B, Less(A, b))
<1> DEFINE Q == UsedBy(A, B)
           L == LengthsOf(h, A, B)
           h2 == Freed(h, b - 1, 0)
           A2 == Less(A, b)
           x0 == b - 1
<1>1. /\ AskedRight(A) /\ PagesApart(g, B) /\ RecordsRight(A, B) /\ SmallsRight(h, A, B)
      /\ HeapHolds(h, Cells(g), Q, L)
  BY DEF Right
<1>2. x0 \in Q /\ h.units[x0] = L[x0] /\ b \in Int /\ b \in DOMAIN A
  <2>1. b \in DOMAIN A
    BY DEF Smalls
  <2> QED BY <2>1, SmallUsed
<1>3. Returned(h, h2, Cells(g), Q, L, x0)
  <2>1. IF 0 = 0 THEN h.units[x0] = L[x0] ELSE 0 = L[x0]
    BY <1>2
  <2> HIDE DEF Q, L, x0
  <2>2. Returned(h, Freed(h, x0, 0), Cells(g), Q, L, x0)
    BY <1>1, <1>2, <2>1, FreedKeeps
  <2> QED BY <2>2 DEF x0
<1> HIDE DEF h2, Q, L
<1>4. DOMAIN A2 = DOMAIN A \ {b} /\ \A a \in DOMAIN A \ {b} : A2[a] = A[a]
  BY DEF Less
<1> HIDE DEF A2
<1>5. Smalls(A2, B) = Smalls(A, B) \ {b}
  BY <1>4 DEF Smalls
<1>6. x0 \notin Bases(B)
  BY <1>1 DEF SmallsRight
<1>7. \A a \in Smalls(A, B) : a \in Int /\ a - 1 \in Q /\ a \in DOMAIN A
  <2>1. \A a \in Smalls(A, B) : a \in DOMAIN A
    BY DEF Smalls
  <2> QED BY <2>1, SmallUsed DEF Q
<1>8. \A a \in Smalls(A, B) : a - 1 = x0 => a = b
  BY <1>2, <1>7
<1>9. UsedBy(A2, B) = Q \ {x0}
  <2> HIDE DEF x0
  <2>1. \A a \in Smalls(A2, B) : a - 1 # x0
    BY <1>5, <1>8
  <2>2. Q = {a - 1 : a \in Smalls(A, B)} \cup Bases(B)
    BY DEF Q, UsedBy
  <2>3. {a - 1 : a \in Smalls(A, B)} \ {x0} = {a - 1 : a \in Smalls(A2, B)}
    BY <1>5, <2>1 DEF x0
  <2> QED BY <1>6, <2>2, <2>3 DEF UsedBy
<1>10. HeapHolds(h2, Cells(g), Q \ {x0}, L) /\ \A x \in Q \ {x0} : h2.units[x] = h.units[x]
  BY <1>3 DEF Returned
<1> HIDE DEF x0
<1>11. \A x \in Q \ {x0} : LengthsOf(h2, A2, B)[x] = L[x]
  BY <1>9, <1>10 DEF LengthsOf, L, Q
<1>12. HeapHolds(h2, Cells(g), UsedBy(A2, B), LengthsOf(h2, A2, B))
  BY <1>9, <1>10, <1>11, SameLengths
<1>13. AskedRight(A2)
  BY <1>1, <1>4 DEF AskedRight
<1>14. RecordsRight(A2, B)
  <2>1. \A r \in B : r.pages * PageUnits # b
    BY DEF Smalls, Recs
  <2> QED BY <1>1, <1>4, <2>1 DEF RecordsRight
<1>15. SmallsRight(h2, A2, B)
  <2> SUFFICES ASSUME NEW c \in Smalls(A2, B)
               PROVE  c - 1 \notin Bases(B) /\ h2.units[c - 1] = SLOB_UNITS(A2[c] + SLOB_UNIT)
    BY DEF SmallsRight
  <2>1. c \in Smalls(A, B) /\ c # b /\ c \in DOMAIN A
    BY <1>5, <1>7
  <2>2. c - 1 \in Q \ {x0}
    BY <1>7, <1>8, <2>1
  <2>3. h2.units[c - 1] = h.units[c - 1] /\ A2[c] = A[c]
    BY <1>4, <1>10, <2>1, <2>2
  <2> QED BY <1>1, <2>1, <2>3 DEF SmallsRight
<1> QED BY <1>1, <1>12, <1>13, <1>14, <1>15 DEF Right, h2, A2

\* kfree of an object with pages of its own.
LEMMA BigFreed ==
  ASSUME NEW h, NEW g, NEW B, NEW A, Right(h, g, B, A), NEW r \in B
  PROVE  Right(Freed(h, r.bb, RecordUnits), g, B \ {r}, Less(A, r.pages * PageUnits))
<1> DEFINE Q == UsedBy(A, B)
           L == LengthsOf(h, A, B)
           h2 == Freed(h, r.bb, RecordUnits)
           b == r.pages * PageUnits
           A2 == Less(A, b)
           B2 == B \ {r}
           x0 == r.bb
<1>1. /\ AskedRight(A) /\ PagesApart(g, B) /\ RecordsRight(A, B) /\ SmallsRight(h, A, B)
      /\ HeapHolds(h, Cells(g), Q, L)
  BY DEF Right
<1>2. x0 \in Bases(B) /\ x0 \in Q /\ L[x0] = RecordUnits /\ RecordUnits # 0
  BY DEF Bases, UsedBy, LengthsOf, RecordUnits
<1>3. Returned(h, h2, Cells(g), Q, L, x0)
  <2>1. IF RecordUnits = 0 THEN h.units[x0] = L[x0] ELSE RecordUnits = L[x0]
    BY <1>2
  <2> HIDE DEF Q, L
  <2> QED BY <1>1, <1>2, <2>1, FreedKeeps
<1> HIDE DEF h2, Q, L
<1>4. DOMAIN A2 = DOMAIN A \ {b} /\ \A a \in DOMAIN A \ {b} : A2[a] = A[a]
  BY DEF Less
<1> HIDE DEF A2
<1>5. \A s \in B2 : s.pages * PageUnits # b
  BY <1>1, RecordPages
<1>6. r \in Recs(B, b) /\ \A a : a # b => Recs(B2, a) = Recs(B, a)
  BY DEF Recs
<1>7. Smalls(A2, B2) = Smalls(A, B)
  <2> HIDE DEF b, B2
  <2> QED BY <1>4, <1>6 DEF Smalls
<1>8. \A s \in B2 : s.bb # x0
  BY <1>1 DEF RecordsRight
<1>9. Bases(B2) = Bases(B) \ {x0}
  BY <1>8 DEF Bases
<1> HIDE DEF x0, b, B2
<1>10. UsedBy(A2, B2) = Q \ {x0}
  <2>1. \A a \in Smalls(A, B) : a - 1 # x0
    BY <1>1, <1>2 DEF SmallsRight
  <2> QED BY <1>7, <1>9, <2>1 DEF UsedBy, Q
<1>11. HeapHolds(h2, Cells(g), Q \ {x0}, L) /\ \A x \in Q \ {x0} : h2.units[x] = h.units[x]
  BY <1>3 DEF Returned
<1>12. \A x \in Q \ {x0} : LengthsOf(h2, A2, B2)[x] = L[x]
  BY <1>9, <1>10, <1>11 DEF LengthsOf, L, Q
<1>13. HeapHolds(h2, Cells(g), UsedBy(A2, B2), LengthsOf(h2, A2, B2))
  BY <1>10, <1>11, <1>12, SameLengths
<1>14. AskedRight(A2)
  BY <1>1, <1>4 DEF AskedRight
<1>15. RecordsRight(A2, B2)
  BY <1>1, <1>4, <1>5 DEF RecordsRight, B2
<1>16. SmallsRight(h2, A2, B2)
  <2> SUFFICES ASSUME NEW c \in Smalls(A, B)
               PROVE  c - 1 \notin Bases(B2) /\ h2.units[c - 1] = SLOB_UNITS(A2[c] + SLOB_UNIT)
    BY <1>7 DEF SmallsRight
  <2>1. c - 1 \notin Bases(B) /\ c \in DOMAIN A /\ c # b
    <3>1. c \in DOMAIN A /\ Recs(B, c) = {}
      BY DEF Smalls
    <3> QED BY <1>1, <1>6, <3>1 DEF SmallsRight
  <2>2. c - 1 \in Q \ {x0}
    BY <1>2, <2>1 DEF Q, UsedBy
  <2>3. h2.units[c - 1] = h.units[c - 1] /\ A2[c] = A[c]
    BY <1>4, <1>11, <2>1, <2>2
  <2> QED BY <1>1, <1>9, <2>1, <2>3 DEF SmallsRight
<1>17. PagesApart(g, B2)
  BY <1>1 DEF PagesApart, B2
<1> QED BY <1>13, <1>14, <1>15, <1>16, <1>17 DEF Right, h2, A2, B2, b, x0

-----------------------------------------------------------------------------
(* The invariant is inductive.                                             *)

SlobInv == Right(heap, grown, bigblocks, asked) /\ panicked \in BOOLEAN

\* The heap begins with the arena alone.
LEMMA SlobInit == Init => SlobInv
<1> SUFFICES ASSUME Init PROVE SlobInv
  OBVIOUS
<1> DEFINE c == heap.circle
           u == heap.units
<1>1. c = <<arena>> /\ u = [a \in Cell \cup {arena} |-> IF a = arena THEN 1 ELSE 0]
  BY DEF Init
<1>2. grown = {} /\ bigblocks = {} /\ asked = <<>> /\ panicked = FALSE
  BY DEF Init
<1>3. DOMAIN asked = {}
  BY <1>2
<1>4. Smalls(asked, bigblocks) = {} /\ Bases(bigblocks) = {} /\ UsedBy(asked, bigblocks) = {}
  BY <1>2, <1>3 DEF Smalls, Bases, UsedBy
<1>5. /\ AskedRight(asked) /\ PagesApart(grown, bigblocks) /\ RecordsRight(asked, bigblocks)
      /\ SmallsRight(heap, asked, bigblocks)
  BY <1>2, <1>3, <1>4 DEF AskedRight, PagesApart, RecordsRight, SmallsRight
<1>6. /\ c \in Seq(Block) /\ Len(c) = 1 /\ c[1] = arena /\ DOMAIN c = {1}
      /\ u \in [Block -> Nat] /\ u[arena] = 1
  <2>1. arena \in Block
    BY Blocks
  <2> HIDE DEF c, u
  <2>2. \A a \in Block : u[a] = IF a = arena THEN 1 ELSE 0
    BY <1>1 DEF Block
  <2>3. u \in [Block -> Nat]
    BY <1>1 DEF Block
  <2> QED BY <1>1, <2>1, <2>2, <2>3
<1> HIDE DEF c, u
<1>7. ToSet(c) = {arena}
  BY <1>6 DEF ToSet
<1>8. \A i \in 1 .. Len(c) : i = 1 /\ NextOf(c, i) = arena
  <2> SUFFICES ASSUME NEW i \in 1 .. Len(c) PROVE i = 1 /\ NextOf(c, i) = arena
    OBVIOUS
  <2>1. i = 1 /\ i = Len(c)
    BY <1>6
  <2>2. NextOf(c, i) = c[1]
    BY <1>6, <2>1, NextIs
  <2> QED BY <1>6, <2>1, <2>2
<1>9. Ring(c, u)
  BY <1>6, <1>7, <1>8 DEF Ring
<1>10. Heap(heap) /\ Free(heap) = {}
  BY <1>6, <1>7, <1>9 DEF Heap, Free, c, u
<1>11. Cells(grown) = {}
  BY <1>2 DEF Cells
<1>12. HeapHolds(heap, Cells(grown), UsedBy(asked, bigblocks), LengthsOf(heap, asked, bigblocks))
  BY <1>4, <1>10, <1>11 DEF HeapHolds, Cut
<1> QED BY <1>2, <1>5, <1>12 DEF SlobInv, Right

\* The pages that slob_alloc takes are of no record.
LEMMA GrownApart ==
  ASSUME PagesApart(grown, bigblocks), NEW g2 \in SUBSET (0 .. NPAGE - 1), grown \subseteq g2,
         \A p \in g2 \ grown : p \in FreeRuns(grown, 0)
  PROVE  PagesApart(g2, bigblocks)
<1>1. \A r \in bigblocks, p \in g2 \ grown : p \notin PageRun(r)
  <2> SUFFICES ASSUME NEW r \in bigblocks, NEW p \in g2 \ grown PROVE p \notin PageRun(r)
    OBVIOUS
  <2>1. p \in FreeRuns(grown, 0) /\ 0 \in Nat
    OBVIOUS
  <2>2. p \in Run(p, 2 ^ 0) /\ Run(p, 2 ^ 0) \cap Run(r.pages, 2 ^ r.order) = {}
    BY <2>1, FreePage
  <2> QED BY <2>2 DEF PageRun
<1> QED BY <1>1 DEF PagesApart

\* What slob_alloc does between two calls.
LEMMA AllocStep ==
  ASSUME SlobInv, NEW n \in Nat, n >= 2, n <= PageUnits, NEW r \in slob_alloc(n)
  PROVE  \/ r.block = {} /\ r.heap = heap /\ r.grown = grown
         \/ \E b \in Cell :
              /\ r.block = {b} /\ PagesApart(r.grown, bigblocks)
              /\ Given(heap, grown, UsedBy(asked, bigblocks), LengthsOf(heap, asked, bigblocks),
                       n, r.heap, r.grown, b)
<1> DEFINE Q == UsedBy(asked, bigblocks)
           L == LengthsOf(heap, asked, bigblocks)
<1>1. HeapHolds(heap, Cells(grown), Q, L) /\ PagesApart(grown, bigblocks)
  BY DEF SlobInv, Right
<1>2. grown \in SUBSET (0 .. NPAGE - 1)
  BY <1>1 DEF PagesApart
<1> HIDE DEF Q, L
<1>3. Allocates(heap, grown, Q, L, n, r)
  BY <1>1, <1>2, SlobAlloc
<1>4. CASE r.block = {} /\ r.heap = heap /\ r.grown = grown
  BY <1>4
<1>5. ASSUME NEW b \in Cell \ Q,
             r.block = {b}, grown \subseteq r.grown, r.grown \in SUBSET (0 .. NPAGE - 1),
             \A p \in r.grown \ grown : p \in FreeRuns(grown, 0),
             HeapHolds(r.heap, Cells(r.grown), Q \cup {b}, With(Q, L, b, n)),
             Shape(r.heap), r.heap.units[b] = n, \A x \in Q : r.heap.units[x] = heap.units[x]
      PROVE  PagesApart(r.grown, bigblocks) /\ Given(heap, grown, Q, L, n, r.heap, r.grown, b)
  <2>1. PagesApart(r.grown, bigblocks)
    BY <1>1, <1>5, GrownApart
  <2> QED BY <1>5, <2>1 DEF Given
<1> QED BY <1>3, <1>4, <1>5 DEF Allocates, Q, L

\* kmalloc of a small object, when slob_alloc has an answer and when it has none.
LEMMA KmallocSmallKeeps ==
  ASSUME SlobInv, NEW size \in Sizes, KmallocSmall(size)
  PROVE  SlobInv'
<1> DEFINE n == SLOB_UNITS(size + SLOB_UNIT)
<1>1. n \in Nat /\ n >= 2 /\ n <= PageUnits
  <2>1. size \in Nat \ {0}
    BY HeapAssumption
  <2>2. ~TooLarge(size + SLOB_UNIT)
    BY DEF KmallocSmall
  <2>3. SLOB_UNITS(size) \in Nat \ {0} /\ n = SLOB_UNITS(size) + 1 /\ n <= PageUnits
    BY <2>1, <2>2, UnitsAre
  <2> HIDE DEF n
  <2> QED BY <2>3
<1>2. PICK r \in slob_alloc(n) : /\ heap' = r.heap /\ grown' = r.grown
                                 /\ asked' = Asked({a + 1 : a \in r.block}, size)
  BY DEF KmallocSmall
<1>3. bigblocks' = bigblocks /\ panicked' = panicked
  BY DEF KmallocSmall
<1>4. Right(heap, grown, bigblocks, asked) /\ panicked \in BOOLEAN
  BY DEF SlobInv
<1>5. Right(heap', grown', bigblocks, asked')
  <2>1. CASE r.block = {} /\ r.heap = heap /\ r.grown = grown
    <3>1. DOMAIN asked' = DOMAIN asked /\ \A b \in DOMAIN asked : asked'[b] = asked[b]
      BY <1>2, <2>1 DEF Asked
    <3> QED BY <1>2, <1>4, <2>1, <3>1, SameAsked
  <2>2. ASSUME NEW b \in Cell, r.block = {b}, PagesApart(r.grown, bigblocks),
               Given(heap, grown, UsedBy(asked, bigblocks), LengthsOf(heap, asked, bigblocks),
                     n, r.heap, r.grown, b)
        PROVE  Right(heap', grown', bigblocks, asked')
    <3>1. More(asked, asked', b + 1, size)
      <4>1. asked' = Asked({b + 1}, size)
        BY <1>2, <2>2
      <4> QED BY <4>1 DEF Asked, More
    <3> QED BY <1>2, <1>4, <2>2, <3>1, SmallGiven
  <2> HIDE DEF n
  <2> QED BY <1>1, <2>1, <2>2, AllocStep
<1> QED BY <1>3, <1>4, <1>5 DEF SlobInv

\* kmalloc of pages: without a record, with both, and with a record but no pages.
LEMMA KmallocBigKeeps ==
  ASSUME SlobInv, NEW size \in Sizes, KmallocBig(size)
  PROVE  SlobInv'
<1> DEFINE n == RecordUnits
           k == find_order(size)
<1>1. n \in Nat /\ n >= 2 /\ n <= PageUnits /\ k \in Nat
  BY HeapAssumption, OrderIs DEF RecordUnits
<1>2. PICK r \in slob_alloc(n) :
        /\ grown' = r.grown
        /\ \/ /\ r.block = {}
              /\ heap' = r.heap /\ UNCHANGED <<bigblocks, asked>>
           \/ \E b \in r.block, p \in FreeRuns(r.grown, k) :
                /\ heap' = [r.heap EXCEPT !.units[b] = k]
                /\ bigblocks' = bigblocks \cup {[order |-> k, pages |-> p, bb |-> b]}
                /\ asked' = Asked({p * PageUnits}, size)
           \/ \E b \in r.block :
                /\ heap' = RecordFreed(r.heap, b)
                /\ UNCHANGED <<bigblocks, asked>>
  BY DEF KmallocBig
<1>3. panicked' = panicked
  BY DEF KmallocBig
<1>4. Right(heap, grown, bigblocks, asked) /\ panicked \in BOOLEAN
  BY DEF SlobInv
<1>5. Right(heap', grown', bigblocks', asked')
  <2>1. CASE r.block = {} /\ r.heap = heap /\ r.grown = grown
    <3>1. heap' = heap /\ grown' = grown /\ bigblocks' = bigblocks /\ asked' = asked
      BY <1>2, <2>1
    <3> QED BY <1>4, <3>1
  <2>2. ASSUME NEW b \in Cell, r.block = {b}, PagesApart(r.grown, bigblocks),
               Given(heap, grown, UsedBy(asked, bigblocks), LengthsOf(heap, asked, bigblocks),
                     n, r.heap, r.grown, b)
        PROVE  Right(heap', grown', bigblocks', asked')
    <3>1. CASE heap' = RecordFreed(r.heap, b) /\ bigblocks' = bigblocks /\ asked' = asked
      <4>1. Right(Freed(r.heap, b, RecordUnits), r.grown, bigblocks, asked)
        BY <1>4, <2>2, RecordBack
      <4>2. heap' = Freed(r.heap, b, RecordUnits)
        BY <3>1 DEF RecordFreed
      <4> QED BY <1>2, <3>1, <4>1, <4>2
    <3>2. ASSUME NEW p \in FreeRuns(r.grown, k),
                 heap' = [r.heap EXCEPT !.units[b] = k],
                 bigblocks' = bigblocks \cup {[order |-> k, pages |-> p, bb |-> b]},
                 asked' = Asked({p * PageUnits}, size)
          PROVE  Right(heap', grown', bigblocks', asked')
      <4> DEFINE s == [order |-> k, pages |-> p, bb |-> b]
      <4>1. /\ p \in 0 .. NPAGE - 1 /\ p \notin r.grown /\ p \in Run(p, 2 ^ k)
            /\ Run(p, 2 ^ k) \subseteq (0 .. NPAGE - 1) \ r.grown
            /\ \A t \in bigblocks : Run(p, 2 ^ k) \cap PageRun(t) = {}
        BY <1>1, FreePage DEF PageRun
      <4>2. PageRun(s) = Run(p, 2 ^ k)
        BY DEF PageRun
      <4>3. \A t \in bigblocks : t.pages # p
        <5> SUFFICES ASSUME NEW t \in bigblocks PROVE t.pages # p
          OBVIOUS
        <5>1. t.pages \in PageRun(t)
          BY <1>4, RecordPages DEF Right
        <5> QED BY <4>1, <5>1
      <4> HIDE DEF s
      <4>4. bigblocks' = bigblocks \cup {s}
        BY <3>2 DEF s
      <4>5. PagesApart(r.grown, bigblocks')
        BY <2>2, <4>1, <4>2, <4>4 DEF PagesApart
      <4>6. More(asked, asked', p * PageUnits, size)
        BY <3>2 DEF Asked, More
      <4>7. Given(heap, grown, UsedBy(asked, bigblocks), LengthsOf(heap, asked, bigblocks),
                  RecordUnits, r.heap, r.grown, b)
        BY <2>2
      <4>8. /\ heap' = [r.heap EXCEPT !.units[b] = find_order(size)]
            /\ bigblocks' = bigblocks \cup {[order |-> find_order(size), pages |-> p, bb |-> b]}
        BY <3>2
      <4>9. Right(heap', r.grown, bigblocks', asked')
        BY <1>4, <4>1, <4>3, <4>5, <4>6, <4>7, <4>8, BigGiven
      <4> QED BY <1>2, <4>9
    <3>3. \A x \in r.block : x = b
      BY <2>2
    <3>4. \/ heap' = RecordFreed(r.heap, b) /\ bigblocks' = bigblocks /\ asked' = asked
          \/ \E p \in FreeRuns(r.grown, k) :
               /\ heap' = [r.heap EXCEPT !.units[b] = k]
               /\ bigblocks' = bigblocks \cup {[order |-> k, pages |-> p, bb |-> b]}
               /\ asked' = Asked({p * PageUnits}, size)
      <4>1. r.block # {}
        BY <2>2
      <4> HIDE DEF k
      <4> QED BY <1>2, <3>3, <4>1
    <3> HIDE DEF k
    <3> QED BY <3>1, <3>2, <3>4
  <2> HIDE DEF n
  <2> QED BY <1>1, <2>1, <2>2, AllocStep
<1> QED BY <1>3, <1>4, <1>5 DEF SlobInv

\* kfree, by whether the object has a record.
LEMMA KfreeKeeps ==
  ASSUME SlobInv, NEW b \in DOMAIN asked, Kfree(b)
  PROVE  SlobInv'
<1>1. /\ asked' = Less(asked, b) /\ grown' = grown /\ panicked' = panicked
      /\ \/ \E r \in Recs(bigblocks, b) :
              /\ bigblocks' = bigblocks \ {r}
              /\ heap' = Freed(heap, r.bb, RecordUnits)
         \/ /\ Recs(bigblocks, b) = {}
            /\ heap' = Freed(heap, b - 1, 0)
            /\ bigblocks' = bigblocks
  BY DEF Kfree, Records, Recs, Less
<1>2. Right(heap, grown, bigblocks, asked) /\ panicked \in BOOLEAN
  BY DEF SlobInv
<1>3. ASSUME NEW r \in Recs(bigblocks, b), bigblocks' = bigblocks \ {r},
             heap' = Freed(heap, r.bb, RecordUnits)
      PROVE  Right(heap', grown', bigblocks', asked')
  <2>1. r \in bigblocks /\ r.pages * PageUnits = b
    BY DEF Recs
  <2>2. Right(Freed(heap, r.bb, RecordUnits), grown, bigblocks \ {r},
              Less(asked, r.pages * PageUnits))
    BY <1>2, <2>1, BigFreed
  <2> QED BY <1>1, <1>3, <2>1, <2>2
<1>4. ASSUME Recs(bigblocks, b) = {}, heap' = Freed(heap, b - 1, 0), bigblocks' = bigblocks
      PROVE  Right(heap', grown', bigblocks', asked')
  <2>1. b \in Smalls(asked, bigblocks)
    BY <1>4 DEF Smalls
  <2>2. Right(Freed(heap, b - 1, 0), grown, bigblocks, Less(asked, b))
    BY <1>2, <2>1, SmallFreed
  <2> QED BY <1>1, <1>4, <2>2
<1>5. Right(heap', grown', bigblocks', asked')
  BY <1>1, <1>3, <1>4
<1> QED BY <1>1, <1>2, <1>5 DEF SlobInv

\* Every step keeps the invariant.
LEMMA SlobNext == SlobInv /\ [Next]_vars => SlobInv'
<1> SUFFICES ASSUME SlobInv, [Next]_vars PROVE SlobInv'
  OBVIOUS
<1>1. ASSUME NEW size \in Sizes, KmallocSmall(size) PROVE SlobInv'
  BY <1>1, KmallocSmallKeeps
<1>2. ASSUME NEW size \in Sizes, KmallocBig(size) PROVE SlobInv'
  BY <1>2, KmallocBigKeeps
<1>3. ASSUME NEW size \in Sizes, KmallocPanics(size) PROVE SlobInv'
  <2>1. /\ heap' = heap /\ grown' = grown /\ bigblocks' = bigblocks /\ asked' = asked
        /\ panicked' = TRUE
    BY <1>3 DEF KmallocPanics
  <2> QED BY <2>1 DEF SlobInv
<1>4. ASSUME NEW b \in DOMAIN asked, Kfree(b) PROVE SlobInv'
  BY <1>4, KfreeKeeps
<1>5. CASE UNCHANGED vars
  BY <1>5 DEF vars, SlobInv
<1> QED BY <1>1, <1>2, <1>3, <1>4, <1>5 DEF Next, Kmalloc, Stopped

-----------------------------------------------------------------------------
(* What the invariant says of the heap.                                    *)

\* The pieces of the heap, free ones and others, lie apart in the pages it has taken.
LEMMA PiecesApart ==
  ASSUME NEW h, NEW G, NEW Q, NEW L, HeapHolds(h, G, Q, L),
         NEW x \in Q \cup Free(h), NEW y \in Q \cup Free(h)
  PROVE  LET len == Lengths(h, Q, L)
         IN  /\ Run(x, len[x]) \subseteq G /\ x \in Run(x, len[x])
             /\ x # y => Run(x, len[x]) \cap Run(y, len[y]) = {}
<1> DEFINE len == Lengths(h, Q, L)
           X == Q \cup Free(h)
<1>1. Cut(X, len, G)
  BY DEF HeapHolds
<1> HIDE DEF len, X
<1>2. \A z \in X : z \in Int /\ len[z] \in Nat \ {0}
  BY <1>1 DEF Cut
<1>3. \A w, z \in X : w < z => Run(w, len[w]) \cap Run(z, len[z]) = {}
  <2> SUFFICES ASSUME NEW w \in X, NEW z \in X, w < z,
                      NEW a \in Run(w, len[w]), a \in Run(z, len[z])
               PROVE  FALSE
    OBVIOUS
  <2>1. w + len[w] <= z
    BY <1>1 DEF Cut
  <2>2. w \in Int /\ z \in Int /\ len[w] \in Nat /\ len[z] \in Nat
    BY <1>2
  <2>3. a \in Int /\ a < w + len[w] /\ z <= a
    BY <2>2 DEF Run
  <2> QED BY <2>1, <2>2, <2>3
<1>4. x \in X /\ y \in X
  BY DEF X
<1>5. Run(x, len[x]) \subseteq G
  BY <1>1, <1>4 DEF Cut
<1>6. x \in Run(x, len[x])
  BY <1>2, <1>4 DEF Run
<1>7. x # y => Run(x, len[x]) \cap Run(y, len[y]) = {}
  <2>1. x # y => x < y \/ y < x
    BY <1>2, <1>4
  <2> QED BY <1>3, <1>4, <2>1
<1> QED BY <1>5, <1>6, <1>7 DEF len

\* The circle in order, listed from the arena.
LEMMA InOrder == SlobInv => CircleInOrder
<1> SUFFICES ASSUME SlobInv PROVE CircleInOrder
  OBVIOUS
<1> DEFINE c == heap.circle
           u == heap.units
<1>1. Ring(c, u) /\ c \in Seq(Block)
  BY DEF SlobInv, Right, HeapHolds, Heap, Ring
<1> HIDE DEF c, u
<1>2. DOMAIN c = 1 .. Len(c)
  BY <1>1
<1>3. PICK k \in 1 .. Len(c) : c[k] = arena
  BY <1>1, <1>2 DEF Ring, ToSet
<1> DEFINE d == From(c, k)
           n == Len(d)
<1>4. Ring(d, u) /\ d[1] = arena
  BY <1>1, <1>3, Turned
<1> HIDE DEF d
<1>5. d \in Seq(Block) /\ n \in Nat
  BY <1>4 DEF Ring
<1>6. ASSUME NEW i \in 1 .. n - 1 PROVE d[i] + u[d[i]] < d[i + 1]
  <2> HIDE DEF n
  <2>1. i \in 1 .. n /\ i + 1 \in 1 .. n /\ 1 \in 1 .. n /\ i # n /\ i + 1 # 1
    BY <1>5
  <2>2. NextOf(d, i) = d[i + 1]
    BY <1>5, <2>1, NextIs DEF n
  <2>3. d[i + 1] # arena
    BY <1>4, <2>1 DEF Ring, n
  <2> QED BY <1>4, <2>1, <2>2, <2>3 DEF Ring, n
<1>7. k \in DOMAIN heap.circle
  BY <1>2 DEF c
<1> QED BY <1>4, <1>6, <1>7 DEF CircleInOrder, c, u, d

\* The free blocks and the pieces in use are what HeapTiled counts.
LEMMA Tiled == SlobInv => HeapTiled
<1> SUFFICES ASSUME SlobInv PROVE HeapTiled
  OBVIOUS
<1> DEFINE Q == UsedBy(asked, bigblocks)
           L == LengthsOf(heap, asked, bigblocks)
           F == Free(heap)
           len == Lengths(heap, Q, L)
           X == Q \cup F
           G == Cells(grown)
<1>1. HeapHolds(heap, G, Q, L) /\ SmallsRight(heap, asked, bigblocks)
  BY DEF SlobInv, Right
<1>2. \A x \in F : len[x] = heap.units[x]
  <2> HIDE DEF Q, L, G
  <2> QED BY <1>1, FreeIs
<1>3. \A b \in Smalls(asked, bigblocks) : b - 1 \in Q /\ len[b - 1] = heap.units[b - 1]
  <2> SUFFICES ASSUME NEW b \in Smalls(asked, bigblocks)
               PROVE  b - 1 \in Q /\ len[b - 1] = heap.units[b - 1]
    OBVIOUS
  <2>1. b - 1 \in Q /\ b - 1 \notin Bases(bigblocks)
    BY <1>1 DEF SmallsRight, UsedBy
  <2>2. L[b - 1] = heap.units[b - 1]
    BY <2>1 DEF LengthsOf
  <2> HIDE DEF Q, L
  <2> QED BY <2>1, <2>2 DEF Lengths
<1>4. \A r \in bigblocks : r.bb \in Q /\ len[r.bb] = RecordUnits
  <2> SUFFICES ASSUME NEW r \in bigblocks PROVE r.bb \in Q /\ len[r.bb] = RecordUnits
    OBVIOUS
  <2>1. r.bb \in Q /\ r.bb \in Bases(bigblocks)
    BY DEF UsedBy, Bases
  <2>2. L[r.bb] = RecordUnits
    BY <2>1 DEF LengthsOf
  <2> HIDE DEF Q, L
  <2> QED BY <2>1, <2>2 DEF Lengths
<1>5. Smalls(asked, bigblocks) = SmallObjects
  BY DEF Smalls, SmallObjects, Recs, Records
<1>6. Q = {b - 1 : b \in SmallObjects} \cup {r.bb : r \in bigblocks}
  BY <1>5 DEF UsedBy, Bases
<1> HIDE DEF Q, L, len
<1>7. Pieces = {<<x, len[x]>> : x \in X}
  <2>1. {<<a, heap.units[a]>> : a \in F} = {<<x, len[x]>> : x \in F}
    BY <1>2
  <2>2. {<<b - 1, heap.units[b - 1]>> : b \in SmallObjects}
          = {<<x, len[x]>> : x \in {b - 1 : b \in SmallObjects}}
    BY <1>3, <1>5
  <2>3. {<<r.bb, RecordUnits>> : r \in bigblocks}
          = {<<x, len[x]>> : x \in {r.bb : r \in bigblocks}}
    BY <1>4
  <2>4. Pieces = {<<a, heap.units[a]>> : a \in F}
                   \cup {<<b - 1, heap.units[b - 1]>> : b \in SmallObjects}
                   \cup {<<r.bb, RecordUnits>> : r \in bigblocks}
    BY DEF Pieces, Free
  <2> HIDE DEF F
  <2> QED BY <1>6, <2>1, <2>2, <2>3, <2>4
<1>8. \A x, y \in X : /\ Run(x, len[x]) \subseteq G
                      /\ x # y => Run(x, len[x]) \cap Run(y, len[y]) = {}
  <2> HIDE DEF F, G
  <2> QED BY <1>1, PiecesApart DEF len, F
<1>9. \A a \in G : \E x \in X : a \in Run(x, len[x])
  <2>1. Cut(X, len, G)
    BY <1>1 DEF HeapHolds, len
  <2> HIDE DEF X, G
  <2> QED BY <2>1 DEF Cut
<1> HIDE DEF X
<1>10. \A q \in Pieces : \E x \in X : q[1] = x /\ q[2] = len[x] /\ q = <<x, len[x]>>
  BY <1>7
<1>11. UNION {Run(q[1], q[2]) : q \in Pieces} = G
  <2> HIDE DEF G
  <2>1. ASSUME NEW q \in Pieces PROVE Run(q[1], q[2]) \subseteq G
    BY <1>8, <1>10
  <2>2. ASSUME NEW a \in G PROVE \E q \in Pieces : a \in Run(q[1], q[2])
    <3>1. PICK x \in X : a \in Run(x, len[x])
      BY <1>9
    <3>2. <<x, len[x]>> \in Pieces /\ <<x, len[x]>>[1] = x /\ <<x, len[x]>>[2] = len[x]
      BY <1>7
    <3> QED BY <3>1, <3>2
  <2> QED BY <2>1, <2>2
<1>12. \A q, r \in Pieces : q # r => Run(q[1], q[2]) \cap Run(r[1], r[2]) = {}
  <2> SUFFICES ASSUME NEW q \in Pieces, NEW r \in Pieces, q # r
               PROVE  Run(q[1], q[2]) \cap Run(r[1], r[2]) = {}
    OBVIOUS
  <2>1. PICK x \in X : q[1] = x /\ q[2] = len[x] /\ q = <<x, len[x]>>
    BY <1>10
  <2>2. PICK y \in X : r[1] = y /\ r[2] = len[y] /\ r = <<y, len[y]>>
    BY <1>10
  <2>3. x # y
    BY <2>1, <2>2
  <2> QED BY <1>8, <2>1, <2>2, <2>3
<1> QED BY <1>11, <1>12 DEF HeapTiled, Cells

\* The types follow.
LEMMA Types == SlobInv => TypeOK
<1> SUFFICES ASSUME SlobInv PROVE TypeOK
  OBVIOUS
<1>1. heap.circle \in Seq(Block) /\ heap.units \in [Block -> Nat]
  BY DEF SlobInv, Right, HeapHolds, Heap, Ring
<1>2. grown \subseteq 0 .. NPAGE - 1
  BY DEF SlobInv, Right, PagesApart
<1>3. \A r \in bigblocks : r.order \in Nat /\ r.pages \in 0 .. NPAGE - 1 /\ r.bb \in Cell
  BY DEF SlobInv, Right, RecordsRight
<1>4. DOMAIN asked \subseteq Cell /\ \A b \in DOMAIN asked : asked[b] \in Sizes
  BY DEF SlobInv, Right, AskedRight
<1> QED BY <1>1, <1>2, <1>3, <1>4 DEF SlobInv, TypeOK, Block

-----------------------------------------------------------------------------
(* What the invariant says of the objects.                                 *)

\* find_order has not rounded down.
SizesWhole == \A size \in Sizes : size <= 2 ^ find_order(size) * PAGE_SIZE

\* An object with pages of its own lies in them.
LEMMA BigObject ==
  ASSUME SizesWhole, NEW g, NEW B, NEW A, AskedRight(A), RecordsRight(A, B), NEW r \in B,
         NEW b, b = r.pages * PageUnits, NEW a \in Run(b, SLOB_UNITS(A[b]))
  PROVE  \E q \in PageRun(r) : a \in Run(q * PageUnits, PageUnits)
<1> DEFINE p == r.pages
           m == 2 ^ r.order
           s == SLOB_UNITS(A[b])
           q == a \div PageUnits
<1>1. PageUnits \in Nat \ {0} /\ p \in Int /\ b \in DOMAIN A /\ r.order = find_order(A[b])
  BY HeapAssumption DEF RecordsRight
<1>2. A[b] \in Sizes /\ A[b] \in Nat \ {0} /\ A[b] \in Nat
  BY <1>1, HeapAssumption DEF AskedRight
<1>3. m \in Nat /\ A[b] <= m * PAGE_SIZE
  BY <1>1, <1>2, OrderIs, Powers DEF SizesWhole
<1> HIDE DEF p, m, s
<1>4. s \in Nat \ {0} /\ s <= m * PageUnits
  BY <1>2, <1>3, UnitsAre DEF s
<1>5. PICK c \in Int, d \in Int : c = PageUnits * p /\ d = PageUnits * m
  BY <1>1, <1>3
<1>6. b = c /\ s <= d /\ PageUnits * (p + m) = c + d
  BY <1>1, <1>3, <1>4, <1>5 DEF p
<1>7. a \in Int /\ c <= a /\ a < c + d
  BY <1>4, <1>5, <1>6 DEF Run, s
<1>8. PICK t \in 0 .. PageUnits - 1 : a = PageUnits * q + t /\ q \in Int
  <2>1. \E i \in Int, j \in 0 .. PageUnits - 1 : a = PageUnits * i + j /\ a \div PageUnits = i
    BY <1>1, <1>7, DivIs
  <2> QED BY <2>1
<1>9. p <= q /\ q < p + m
  <2>1. PageUnits * p <= a /\ a < PageUnits * (p + m)
    BY <1>5, <1>6, <1>7
  <2>2. p \in Int /\ p + m \in Int
    BY <1>1, <1>3
  <2> QED BY <1>1, <1>7, <2>1, <2>2, DivBetween
<1> HIDE DEF q
<1>10. q \in PageRun(r)
  <2>1. q \in Run(p, m)
    BY <1>1, <1>3, <1>8, <1>9 DEF Run
  <2> QED BY <2>1 DEF PageRun, p, m
<1>11. a \in Run(q * PageUnits, PageUnits)
  <2>1. PICK e \in Int : e = PageUnits * q /\ e = q * PageUnits
    BY <1>1, <1>8
  <2>2. a \in Run(e, PageUnits)
    BY <1>1, <1>8, <2>1 DEF Run
  <2> QED BY <2>1, <2>2
<1> QED BY <1>10, <1>11

\* Objects apart: small ones lie in pieces of their own, others in pages of their own.
LEMMA Apart == SizesWhole /\ SlobInv => ObjectsApart
<1> SUFFICES ASSUME SizesWhole, SlobInv PROVE ObjectsApart
  OBVIOUS
<1> DEFINE Q == UsedBy(asked, bigblocks)
           L == LengthsOf(heap, asked, bigblocks)
           F == Free(heap)
           len == Lengths(heap, Q, L)
           X == Q \cup F
           G == Cells(grown)
           S == Smalls(asked, bigblocks)
           D == DOMAIN asked
<1>1. /\ Right(heap, grown, bigblocks, asked) /\ HeapHolds(heap, G, Q, L)
      /\ SmallsRight(heap, asked, bigblocks) /\ PagesApart(grown, bigblocks)
      /\ RecordsRight(asked, bigblocks) /\ AskedRight(asked)
  BY DEF SlobInv, Right
<1>2. S = SmallObjects /\ S \subseteq D
  BY DEF Smalls, SmallObjects, Recs, Records
<1>3. \A x, y \in X : /\ Run(x, len[x]) \subseteq G /\ x \in Run(x, len[x])
                      /\ x # y => Run(x, len[x]) \cap Run(y, len[y]) = {}
  <2> HIDE DEF G, Q, L
  <2> QED BY <1>1, PiecesApart
<1>4. /\ \A x \in F : len[x] = heap.units[x]
      /\ \A x \in Q : len[x] = L[x]
  <2> HIDE DEF G, Q, L
  <2> QED BY <1>1, FreeIs
<1>5. ASSUME NEW b \in S
      PROVE  /\ b - 1 \in Q /\ b \in Int /\ Object(b) \subseteq Run(b - 1, len[b - 1])
             /\ b - 1 \notin Object(b) /\ b - 1 \notin Bases(bigblocks)
  <2> DEFINE s == SLOB_UNITS(asked[b])
  <2>1. b - 1 \in Q /\ L[b - 1] = s + 1 /\ s \in Nat /\ b \in Int
    BY <1>1, SmallUsed
  <2>2. b - 1 \notin Bases(bigblocks)
    BY <1>1 DEF SmallsRight
  <2>3. len[b - 1] = s + 1
    <3> HIDE DEF Q, L, len, s
    <3> QED BY <1>4, <2>1
  <2> HIDE DEF s
  <2>4. Object(b) = Run(b, s)
    BY DEF Object, s
  <2>5. Run(b, s) \subseteq Run(b - 1, s + 1) /\ b - 1 \notin Run(b, s)
    BY <2>1 DEF Run
  <2> HIDE DEF Q, L, len
  <2> QED BY <2>1, <2>2, <2>3, <2>4, <2>5
<1>6. ASSUME NEW b \in D \ S
      PROVE  \E r \in bigblocks : r.pages * PageUnits = b /\
               \A a \in Object(b) : \E q \in PageRun(r) : a \in Run(q * PageUnits, PageUnits)
  <2>1. PICK r \in bigblocks : r.pages * PageUnits = b
    BY DEF Smalls, Recs
  <2>2. \A a \in Run(b, SLOB_UNITS(asked[b])) :
          \E q \in PageRun(r) : a \in Run(q * PageUnits, PageUnits)
    BY <1>1, <2>1, BigObject
  <2> QED BY <2>1, <2>2 DEF Object
<1>7. ASSUME NEW b \in D \ S PROVE Object(b) \cap G = {}
  <2> SUFFICES ASSUME NEW a \in Object(b), a \in G PROVE FALSE
    OBVIOUS
  <2>1. PICK r \in bigblocks : \E q \in PageRun(r) : a \in Run(q * PageUnits, PageUnits)
    BY <1>6
  <2>6. PICK q \in PageRun(r) : a \in Run(q * PageUnits, PageUnits)
    BY <2>1
  <2>2. PICK p \in grown : a \in Run(p * PageUnits, PageUnits)
    BY DEF Cells
  <2>3. q \in (0 .. NPAGE - 1) \ grown /\ p \in 0 .. NPAGE - 1
    BY <1>1, <2>2, <2>6 DEF PagesApart
  <2>4. q \in Int /\ p \in Int
    BY <2>3, HeapAssumption
  <2>5. q = p
    BY <2>2, <2>4, <2>6, PageOfCell
  <2> QED BY <2>2, <2>3, <2>5
<1>8. ASSUME NEW b \in D, NEW a \in Object(b) PROVE a \in Int /\ a >= 0
  <2>1. b \in Int /\ b >= 0
    BY <1>1, Blocks DEF AskedRight
  <2>2. asked[b] \in Nat \ {0}
    BY <1>1, HeapAssumption DEF AskedRight
  <2>3. SLOB_UNITS(asked[b]) \in Nat
    BY <2>2, UnitsAre
  <2> QED BY <2>1, <2>3 DEF Object, Run
<1> HIDE DEF Q, L, len, G, S, D
<1>9. ASSUME NEW a \in D, NEW b \in D, a # b PROVE Object(a) \cap Object(b) = {}
  <2>1. CASE a \in S /\ b \in S
    <3>1. a - 1 # b - 1
      <4>1. a \in Int /\ b \in Int
        BY <1>5, <2>1
      <4> QED BY <1>9, <4>1
    <3>2. a - 1 \in X /\ b - 1 \in X
      BY <1>5, <2>1
    <3>3. /\ Object(a) \subseteq Run(a - 1, len[a - 1])
          /\ Object(b) \subseteq Run(b - 1, len[b - 1])
      BY <1>5, <2>1
    <3> HIDE DEF X
    <3>4. Run(a - 1, len[a - 1]) \cap Run(b - 1, len[b - 1]) = {}
      BY <1>3, <3>1, <3>2
    <3> QED BY <3>3, <3>4
  <2>2. ASSUME NEW x \in S, NEW y \in D \ S PROVE Object(x) \cap Object(y) = {}
    BY <1>3, <1>5, <1>7
  <2>3. CASE a \notin S /\ b \notin S
    <3> SUFFICES ASSUME NEW z \in Object(a), z \in Object(b) PROVE FALSE
      OBVIOUS
    <3>1. PICK r \in bigblocks :
            /\ r.pages * PageUnits = a
            /\ \E q \in PageRun(r) : z \in Run(q * PageUnits, PageUnits)
      BY <1>6, <2>3
    <3>8. PICK q \in PageRun(r) : z \in Run(q * PageUnits, PageUnits)
      BY <3>1
    <3>2. PICK t \in bigblocks :
            /\ t.pages * PageUnits = b
            /\ \E p \in PageRun(t) : z \in Run(p * PageUnits, PageUnits)
      BY <1>6, <2>3
    <3>9. PICK p \in PageRun(t) : z \in Run(p * PageUnits, PageUnits)
      BY <3>2
    <3>3. q \in 0 .. NPAGE - 1 /\ p \in 0 .. NPAGE - 1
      BY <1>1, <3>8, <3>9 DEF PagesApart
    <3>4. q \in Int /\ p \in Int
      BY <3>3, HeapAssumption
    <3>5. q = p
      BY <3>4, <3>8, <3>9, PageOfCell
    <3>6. r # t
      BY <1>9, <3>1, <3>2
    <3>7. PageRun(r) \cap PageRun(t) = {}
      BY <1>1, <3>6 DEF PagesApart
    <3> QED BY <3>5, <3>7, <3>8, <3>9
  <2> QED BY <2>1, <2>2, <2>3
<1>10. ASSUME NEW b \in D, NEW x \in F PROVE Object(b) \cap Run(x, heap.units[x]) = {}
  <2>1. Run(x, heap.units[x]) = Run(x, len[x]) /\ x \in X
    BY <1>4
  <2>2. CASE b \in S
    <3>1. b - 1 # x /\ b - 1 \in X
      <4>1. Q \cap F = {}
        BY <1>1 DEF HeapHolds
      <4> QED BY <1>5, <2>2, <4>1
    <3> HIDE DEF X, F
    <3> QED BY <1>3, <1>5, <2>1, <2>2, <3>1
  <2>3. CASE b \notin S
    <3> HIDE DEF X, F
    <3> QED BY <1>3, <1>7, <2>1, <2>3
  <2> QED BY <2>2, <2>3
<1>11. ASSUME NEW b \in D PROVE Object(b) \cap Run(arena, heap.units[arena]) = {}
  <2>1. heap.units[arena] = 1 /\ arena = -2
    BY <1>1, Blocks DEF HeapHolds, Heap
  <2>2. \A a \in Run(-2, 1) : a < 0
    BY DEF Run
  <2> QED BY <1>8, <2>1, <2>2
<1>12. ASSUME NEW b \in D, NEW c \in S PROVE c - 1 \notin Object(b)
  <2>1. c - 1 \in Run(c - 1, len[c - 1]) /\ c - 1 \in X /\ Run(c - 1, len[c - 1]) \subseteq G
    BY <1>3, <1>5
  <2>2. CASE b \in S /\ b # c
    <3>1. b - 1 # c - 1 /\ b - 1 \in X
      BY <1>5, <2>2
    <3> HIDE DEF X
    <3> QED BY <1>3, <1>5, <2>1, <2>2, <3>1
  <2>3. CASE b = c
    BY <1>5, <2>3
  <2>4. CASE b \notin S
    BY <1>7, <2>1, <2>4
  <2> QED BY <2>2, <2>3, <2>4
<1>13. ASSUME NEW b \in D, NEW r \in bigblocks PROVE Object(b) \cap Run(r.bb, RecordUnits) = {}
  <2>1. r.bb \in Q /\ r.bb \in Bases(bigblocks)
    BY DEF Q, UsedBy, Bases
  <2>2. len[r.bb] = RecordUnits
    <3>1. L[r.bb] = RecordUnits
      BY <2>1 DEF L, LengthsOf, Q
    <3> QED BY <1>4, <2>1, <3>1
  <2>3. CASE b \in S
    <3>1. b - 1 # r.bb /\ b - 1 \in X /\ r.bb \in X
      BY <1>5, <2>1, <2>3
    <3> HIDE DEF X
    <3> QED BY <1>3, <1>5, <2>2, <2>3, <3>1
  <2>4. CASE b \notin S
    <3>1. r.bb \in X
      BY <2>1
    <3> HIDE DEF X
    <3> QED BY <1>3, <1>7, <2>2, <2>4, <3>1
  <2> QED BY <2>3, <2>4
<1>14. \A x \in ToSet(heap.circle) : x = arena \/ x \in F
  BY DEF Free
<1>15. \A b \in D, x \in ToSet(heap.circle) : Object(b) \cap Run(x, heap.units[x]) = {}
  <2> HIDE DEF F
  <2> QED BY <1>10, <1>11, <1>14
<1> QED BY <1>2, <1>9, <1>12, <1>13, <1>15 DEF ObjectsApart, D

-----------------------------------------------------------------------------
\* kmalloc and kfree keep the circle in order and merged, and no cell of a page that
\* slob_alloc has taken is lost or in two pieces, however the calls succeed or fail.
THEOREM HeapCorrect == Spec => []HeapOK
<1>1. SlobInv => HeapOK
  BY InOrder, Tiled, Types DEF HeapOK
<1> QED BY <1>1, SlobInit, SlobNext, PTL DEF Spec

\* An object that kmalloc has given has as many cells as its owner has asked for, and
\* shares none with another, a free block, a header or a record, where find_order does
\* not round the owner's size down.
THEOREM ObjectsCorrect ==
  ASSUME SizesWhole
  PROVE  Spec => []ObjectsApart
<1>1. SlobInv => ObjectsApart
  BY Apart
<1> QED BY <1>1, SlobInit, SlobNext, PTL DEF Spec
=============================================================================
