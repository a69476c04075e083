-------------------------- MODULE DefaultPmmProofs --------------------------
(***************************************************************************)
(* Proofs about DefaultPmm: for any number of pages and any calls, the     *)
(* list of free blocks and the count are exact until a lost prev pointer   *)
(* is followed; and while the last page has always been free, there is no  *)
(* such pointer and every request is served as PagePool promises.          *)
(*                                                                         *)
(* What the calls do to the blocks is stated of any sequence of intervals, *)
(* the i-th from a[i] to e[i] - 1, and any set H of pages held, with `gap' *)
(* the least number of pages between two blocks: 0 when blocks may touch,  *)
(* 1 when they have been merged.                                           *)
(***************************************************************************)
EXTENDS DefaultPmm, SequencesExt, SequenceTheorems, WellFoundedInduction,
        FiniteSetTheorems, TLAPS

-----------------------------------------------------------------------------
(* Positions in a list.                                                    *)

\* What list_del of the i-th entry does to positions.
LEMMA DeleteAt ==
  ASSUME NEW S, NEW s \in Seq(S), NEW i \in 1 .. Len(s)
  PROVE  LET t == RemoveAt(s, i)
         IN  /\ t \in Seq(S) /\ Len(t) = Len(s) - 1
             /\ \A k \in 1 .. i - 1 : t[k] = s[k]
             /\ \A k \in i .. Len(s) - 1 : t[k] = s[k + 1]
<1> DEFINE a == SubSeq(s, 1, i - 1)
           b == SubSeq(s, i + 1, Len(s))
<1>1. a \in Seq(S) /\ Len(a) = i - 1 /\ \A k \in 1 .. i - 1 : a[k] = s[k]
  OBVIOUS
<1>2. /\ b \in Seq(S) /\ Len(b) = Len(s) - i
      /\ \A k \in 1 .. Len(s) - i : b[k] = s[i + k]
  OBVIOUS
<1>3. RemoveAt(s, i) = a \o b
  BY DEF RemoveAt
<1> HIDE DEF a, b
<1>4. /\ a \o b \in Seq(S) /\ Len(a \o b) = Len(s) - 1
      /\ \A k \in 1 .. Len(s) - 1 :
           (a \o b)[k] = IF k <= i - 1 THEN a[k] ELSE b[k - (i - 1)]
  <2>1. a \o b \in Seq(S) /\ Len(a \o b) = Len(a) + Len(b)
    BY <1>1, <1>2, ConcatProperties
  <2>2. \A k \in 1 .. Len(a) + Len(b) :
          (a \o b)[k] = IF k <= Len(a) THEN a[k] ELSE b[k - Len(a)]
    BY <1>1, <1>2, ConcatProperties
  <2>3. Len(a) + Len(b) = Len(s) - 1
    BY <1>1, <1>2
  <2> HIDE DEF a, b
  <2> QED BY <1>1, <2>1, <2>2, <2>3
<1>5. \A k \in 1 .. i - 1 : (a \o b)[k] = s[k]
  BY <1>1, <1>4
<1>6. \A k \in i .. Len(s) - 1 : (a \o b)[k] = s[k + 1]
  BY <1>2, <1>4
<1> QED BY <1>3, <1>4, <1>5, <1>6

\* A search from the head of a list stops at the first entry that will do.
LEMMA LeastExists ==
  ASSUME NEW S \in SUBSET Nat, S # {}
  PROVE  \E i \in S : \A j \in S : i <= j
<1>1. PICK i \in S : \A j \in S : <<j, i>> \notin OpToRel(<, Nat)
  BY NatLessThanWellFounded, WFMin
<1>2. \A j \in S : ~(j < i)
  BY <1>1 DEF OpToRel
<1> QED BY <1>2

\* What list_add_before the i-th entry does to positions.
LEMMA InsertBefore ==
  ASSUME NEW S, NEW s \in Seq(S), NEW i \in 1 .. Len(s) + 1, NEW e \in S
  PROVE  LET t == InsertAt(s, i, e)
         IN  /\ t \in Seq(S) /\ Len(t) = Len(s) + 1 /\ t[i] = e
             /\ \A k \in 1 .. i - 1 : t[k] = s[k]
             /\ \A k \in i + 1 .. Len(s) + 1 : t[k] = s[k - 1]
<1> DEFINE a == SubSeq(s, 1, i - 1)
           b == SubSeq(s, i, Len(s))
           c == Append(a, e)
<1>1. a \in Seq(S) /\ Len(a) = i - 1 /\ \A k \in 1 .. i - 1 : a[k] = s[k]
  OBVIOUS
<1>2. /\ b \in Seq(S) /\ Len(b) = Len(s) - i + 1
      /\ \A k \in 1 .. Len(s) - i + 1 : b[k] = s[i + k - 1]
  OBVIOUS
<1>3. InsertAt(s, i, e) = c \o b
  <2>1. a \o <<e>> = c
    BY <1>1, AppendIsConcat
  <2> QED BY <2>1 DEF InsertAt
<1> HIDE DEF a, b
<1>4. /\ c \in Seq(S) /\ Len(c) = i /\ c[i] = e
      /\ \A k \in 1 .. i - 1 : c[k] = a[k]
  <2>1. Len(a) + 1 = i
    BY <1>1
  <2> QED BY <1>1, <2>1, AppendProperties
<1> HIDE DEF c
<1>5. /\ c \o b \in Seq(S) /\ Len(c \o b) = Len(s) + 1
      /\ \A k \in 1 .. Len(s) + 1 : (c \o b)[k] = IF k <= i THEN c[k] ELSE b[k - i]
  <2>1. c \o b \in Seq(S) /\ Len(c \o b) = Len(c) + Len(b)
    BY <1>2, <1>4, ConcatProperties
  <2>2. \A k \in 1 .. Len(c) + Len(b) :
          (c \o b)[k] = IF k <= Len(c) THEN c[k] ELSE b[k - Len(c)]
    BY <1>2, <1>4, ConcatProperties
  <2>3. Len(c) + Len(b) = Len(s) + 1
    BY <1>2, <1>4
  <2> QED BY <1>4, <2>1, <2>2, <2>3
<1>6. (c \o b)[i] = e
  BY <1>4, <1>5
<1>7. \A k \in 1 .. i - 1 : (c \o b)[k] = s[k]
  BY <1>1, <1>4, <1>5
<1>8. \A k \in i + 1 .. Len(s) + 1 : (c \o b)[k] = s[k - 1]
  <2> SUFFICES ASSUME NEW k \in i + 1 .. Len(s) + 1 PROVE (c \o b)[k] = s[k - 1]
    OBVIOUS
  <2>1. k - i \in 1 .. Len(s) - i + 1 /\ i + (k - i) - 1 = k - 1
    OBVIOUS
  <2>2. (c \o b)[k] = b[k - i]
    BY <1>5
  <2> QED BY <1>2, <2>1, <2>2
<1> QED BY <1>3, <1>5, <1>6, <1>7, <1>8

-----------------------------------------------------------------------------
(* The inductive invariant.                                                *)

\* The intervals are not empty, in memory and in order.
Extents(m, a, e, gap) ==
  /\ \A i \in 1 .. m : 0 <= a[i] /\ a[i] < e[i] /\ e[i] <= NPAGE
  /\ \A i, j \in 1 .. m : i < j => e[i] + gap <= a[j]

\* A page is held unless it is in one of them.
Covers(m, a, e, H) ==
  \A p \in Page : p \notin H <=> \E i \in 1 .. m : a[i] <= p /\ p < e[i]

\* The blocks of the list L, their sizes in pr, the marks F of their first pages.
Ends(L, pr) == [i \in 1 .. Len(L) |-> L[i] + pr[L[i]]]
Blocks(L, pr, H, gap) ==
  Extents(Len(L), L, Ends(L, pr), gap) /\ Covers(Len(L), L, Ends(L, pr), H)
Marked(L, F) == F = {L[i] : i \in 1 .. Len(L)}

\* L is a list of blocks with the sizes pr and the marks F, of all the pages that
\* are not in H.
Listed(L, pr, H, F, gap) ==
  /\ L \in Seq(Page) /\ pr \in [Page -> 0 .. NPAGE] /\ H \in SUBSET Page
  /\ gap \in {0, 1} /\ Blocks(L, pr, H, gap) /\ Marked(L, F)

\* So it is for the variables.
Sound(gap) == Listed(free_list, property, held, flagged, gap)

Exact == Sound(0) /\ CountExact
Merged == ownPrev = {} /\ ~broken /\ Sound(1) /\ NPAGE - 1 \notin held

IInv == TypeOK /\ (broken \/ Exact) /\ (~spent => Merged)

-----------------------------------------------------------------------------
(* Intervals.                                                              *)

\* The search for a block, or for the place of one, has an end.
LEMMA FirstIsLeast ==
  ASSUME NEW S \in SUBSET Nat, S # {}
  PROVE  First(S) \in S /\ \A j \in S : First(S) <= j
<1>1. \E i \in S : \A j \in S : i <= j
  BY LeastExists
<1> QED BY <1>1, Zenon DEF First

\* default_alloc_pages takes n pages from the front of a block that is larger.
LEMMA Shorter ==
  ASSUME NEW m \in Nat, NEW a \in [1 .. m -> Int], NEW e \in [1 .. m -> Int],
         NEW gap \in {0, 1}, Extents(m, a, e, gap),
         NEW H \in SUBSET Page, Covers(m, a, e, H),
         NEW i \in 1 .. m, NEW n \in 1 .. NPAGE, a[i] + n < e[i],
         NEW b, \A j \in 1 .. m : b[j] = IF j = i THEN a[i] + n ELSE a[j]
  PROVE  Extents(m, b, e, gap) /\ Covers(m, b, e, H \cup Run(a[i], n))
<1>n. NPAGE \in Nat
  BY PageAssumption
<1>1. Extents(m, b, e, gap)
  <2>1. /\ \A j \in 1 .. m : 0 <= a[j] /\ a[j] < e[j] /\ e[j] <= NPAGE
        /\ \A j, k \in 1 .. m : j < k => e[j] + gap <= a[k]
    BY DEF Extents
  <2>2. \A j \in 1 .. m : a[j] <= b[j] /\ b[j] < e[j] /\ b[j] \in Int
    BY <1>n, <2>1
  <2>3. \A j \in 1 .. m : 0 <= b[j]
    BY <2>1, <2>2
  <2>4. \A j, k \in 1 .. m : j < k => e[j] + gap <= b[k]
    <3> SUFFICES ASSUME NEW j \in 1 .. m, NEW k \in 1 .. m, j < k PROVE e[j] + gap <= b[k]
      OBVIOUS
    <3>1. e[j] + gap <= a[k] /\ a[k] <= b[k] /\ b[k] \in Int
      BY <2>1, <2>2
    <3> QED BY <3>1
  <2> QED BY <2>1, <2>2, <2>3, <2>4 DEF Extents
<1>2. Covers(m, b, e, H \cup Run(a[i], n))
  <2> SUFFICES ASSUME NEW p \in Page
               PROVE  p \notin H \cup Run(a[i], n) <=> \E j \in 1 .. m : b[j] <= p /\ p < e[j]
    BY DEF Covers
  <2>1. p \in Int
    BY <1>n DEF Page
  <2>2. p \notin H <=> \E j \in 1 .. m : a[j] <= p /\ p < e[j]
    BY DEF Covers
  <2>3. \A j \in 1 .. m : a[j] <= p /\ p < e[j] /\ p \in Run(a[i], n) => j = i
    <3>1. \A j \in 1 .. m : a[j] < e[j] /\ (j < i => e[j] <= a[i]) /\ (i < j => e[i] <= a[j])
      BY DEF Extents
    <3> QED BY <1>n, <2>1, <3>1 DEF Run
  <2>4. \A j \in 1 .. m :
          b[j] <= p /\ p < e[j] <=> a[j] <= p /\ p < e[j] /\ ~(j = i /\ p \in Run(a[i], n))
    BY <1>n, <2>1 DEF Extents, Run
  <2>5. p \in Run(a[i], n) => a[i] <= p /\ p < e[i]
    BY <1>n, <2>1 DEF Run
  <2> QED BY <2>2, <2>3, <2>4, <2>5
<1> QED BY <1>1, <1>2

\* default_alloc_pages takes a whole block.
LEMMA Removed ==
  ASSUME NEW m \in Nat, NEW a \in [1 .. m -> Int], NEW e \in [1 .. m -> Int],
         NEW gap \in {0, 1}, Extents(m, a, e, gap),
         NEW H \in SUBSET Page, Covers(m, a, e, H),
         NEW i \in 1 .. m, NEW b, NEW f,
         \A j \in 1 .. m - 1 : b[j] = IF j < i THEN a[j] ELSE a[j + 1],
         \A j \in 1 .. m - 1 : f[j] = IF j < i THEN e[j] ELSE e[j + 1]
  PROVE  Extents(m - 1, b, f, gap) /\ Covers(m - 1, b, f, H \cup (a[i] .. e[i] - 1))
<1>n. NPAGE \in Nat
  BY PageAssumption
<1>1. Extents(m - 1, b, f, gap)
  <2>1. /\ \A j \in 1 .. m : 0 <= a[j] /\ a[j] < e[j] /\ e[j] <= NPAGE
        /\ \A j, k \in 1 .. m : j < k => e[j] + gap <= a[k]
    BY DEF Extents
  <2>2. \A j \in 1 .. m - 1 : \E k \in 1 .. m : b[j] = a[k] /\ f[j] = e[k]
    OBVIOUS
  <2>3. \A j \in 1 .. m - 1 : 0 <= b[j] /\ b[j] < f[j] /\ f[j] <= NPAGE
    BY <2>1, <2>2
  <2>4. \A j, k \in 1 .. m - 1 : j < k => f[j] + gap <= b[k]
    <3> SUFFICES ASSUME NEW j \in 1 .. m - 1, NEW k \in 1 .. m - 1, j < k
                 PROVE  f[j] + gap <= b[k]
      OBVIOUS
    <3>1. \/ f[j] = e[j] /\ (j < k) /\ b[k] = a[k]
          \/ f[j] = e[j] /\ b[k] = a[k + 1]
          \/ f[j] = e[j + 1] /\ b[k] = a[k + 1]
      OBVIOUS
    <3>2. /\ j \in 1 .. m /\ k \in 1 .. m /\ j + 1 \in 1 .. m /\ k + 1 \in 1 .. m
          /\ j < k + 1 /\ j + 1 < k + 1
      OBVIOUS
    <3> QED BY <2>1, <3>1, <3>2
  <2> QED BY <2>3, <2>4 DEF Extents
<1>2. Covers(m - 1, b, f, H \cup (a[i] .. e[i] - 1))
  <2> SUFFICES ASSUME NEW p \in Page
               PROVE  p \notin H \cup (a[i] .. e[i] - 1)
                        <=> \E j \in 1 .. m - 1 : b[j] <= p /\ p < f[j]
    BY DEF Covers
  <2>1. p \in Int
    BY <1>n DEF Page
  <2>2. p \notin H <=> \E j \in 1 .. m : a[j] <= p /\ p < e[j]
    BY DEF Covers
  <2>3. \A j \in 1 .. m : a[j] <= p /\ p < e[j] /\ p \in a[i] .. e[i] - 1 => j = i
    BY <1>n, <2>1 DEF Extents
  <2>4. \A j \in 1 .. m : j # i /\ a[j] <= p /\ p < e[j]
          => \E k \in 1 .. m - 1 : b[k] <= p /\ p < f[k]
    <3> SUFFICES ASSUME NEW j \in 1 .. m, j # i, a[j] <= p, p < e[j]
                 PROVE  \E k \in 1 .. m - 1 : b[k] <= p /\ p < f[k]
      OBVIOUS
    <3>1. CASE j < i
      <4>1. j \in 1 .. m - 1
        BY <3>1
      <4>2. b[j] = a[j] /\ f[j] = e[j]
        BY <3>1, <4>1
      <4> QED BY <4>1, <4>2
    <3>2. CASE j > i
      <4>1. j - 1 \in 1 .. m - 1 /\ ~(j - 1 < i) /\ (j - 1) + 1 = j
        BY <3>2
      <4>2. b[j - 1] = a[j] /\ f[j - 1] = e[j]
        BY <4>1
      <4> QED BY <4>1, <4>2
    <3> QED BY <3>1, <3>2
  <2>5. \A k \in 1 .. m - 1 : b[k] <= p /\ p < f[k]
          => \E j \in 1 .. m : j # i /\ a[j] <= p /\ p < e[j]
    <3> SUFFICES ASSUME NEW k \in 1 .. m - 1, b[k] <= p, p < f[k]
                 PROVE  \E j \in 1 .. m : j # i /\ a[j] <= p /\ p < e[j]
      OBVIOUS
    <3>1. CASE k < i
      BY <3>1
    <3>2. CASE ~(k < i)
      <4>1. k + 1 \in 1 .. m /\ k + 1 # i
        BY <3>2
      <4> QED BY <3>2, <4>1
    <3> QED BY <3>1, <3>2
  <2>6. p \in a[i] .. e[i] - 1 <=> a[i] <= p /\ p < e[i]
    BY <2>1
  <2> QED BY <2>2, <2>3, <2>4, <2>5, <2>6
<1> QED BY <1>1, <1>2

\* From c to d - 1 there is room in front of the i-th interval; b is the sequence
\* a with x put in front of the i-th place.
RoomAt(m, a, e, gap, i, c, d) ==
  \A j \in 1 .. m : (j < i => e[j] + gap <= c) /\ (i <= j => d + gap <= a[j])
PutAt(m, a, i, x, b) ==
  \A j \in 1 .. m + 1 : b[j] = IF j < i THEN a[j] ELSE IF j = i THEN x ELSE a[j - 1]

\* default_free_pages puts a block between two others, or first, or last.
LEMMA Inserted ==
  ASSUME NEW m \in Nat, NEW a \in [1 .. m -> Int], NEW e \in [1 .. m -> Int],
         NEW gap \in {0, 1}, Extents(m, a, e, gap),
         NEW H \in SUBSET Page, Covers(m, a, e, H),
         NEW i \in 1 .. m + 1, NEW c \in Page, NEW n \in 1 .. NPAGE, c + n <= NPAGE,
         RoomAt(m, a, e, gap, i, c, c + n),
         NEW b, PutAt(m, a, i, c, b), NEW f, PutAt(m, e, i, c + n, f)
  PROVE  Extents(m + 1, b, f, gap) /\ Covers(m + 1, b, f, H \ Run(c, n))
<1>n. NPAGE \in Nat /\ c \in Nat
  BY PageAssumption DEF Page
<1>e. /\ \A j \in 1 .. m : 0 <= a[j] /\ a[j] < e[j] /\ e[j] <= NPAGE
      /\ \A j, k \in 1 .. m : j < k => e[j] + gap <= a[k]
  BY DEF Extents
<1>o. /\ \A j \in 1 .. m + 1 : j < i => j \in 1 .. m /\ b[j] = a[j] /\ f[j] = e[j]
      /\ \A j \in 1 .. m + 1 : i < j => j - 1 \in 1 .. m /\ i <= j - 1
                                         /\ b[j] = a[j - 1] /\ f[j] = e[j - 1]
      /\ b[i] = c /\ f[i] = c + n
  BY DEF PutAt
<1>r. \A j \in 1 .. m : (j < i => e[j] + gap <= c) /\ (i <= j => c + n + gap <= a[j])
  BY DEF RoomAt
<1>1. Extents(m + 1, b, f, gap)
  <2>1. \A j \in 1 .. m + 1 : 0 <= b[j] /\ b[j] < f[j] /\ f[j] <= NPAGE
    <3> SUFFICES ASSUME NEW j \in 1 .. m + 1
                 PROVE  0 <= b[j] /\ b[j] < f[j] /\ f[j] <= NPAGE
      OBVIOUS
    <3>1. CASE j < i
      BY <1>e, <1>o, <3>1
    <3>2. CASE j = i
      BY <1>n, <1>o, <3>2
    <3>3. CASE i < j
      BY <1>e, <1>o, <3>3
    <3> QED BY <3>1, <3>2, <3>3
  <2>2. \A j, k \in 1 .. m + 1 : j < k => f[j] + gap <= b[k]
    <3> SUFFICES ASSUME NEW j \in 1 .. m + 1, NEW k \in 1 .. m + 1, j < k
                 PROVE  f[j] + gap <= b[k]
      OBVIOUS
    <3>1. CASE k < i
      <4>1. j < i
        BY <3>1
      <4> QED BY <1>e, <1>o, <3>1, <4>1
    <3>2. CASE k = i
      <4>1. j < i
        BY <3>2
      <4> QED BY <1>o, <1>r, <3>2, <4>1
    <3>3. CASE i < k /\ j < i
      <4>1. j < k - 1
        BY <3>3
      <4> QED BY <1>e, <1>o, <3>3, <4>1
    <3>4. CASE i < k /\ j = i
      BY <1>o, <1>r, <3>4
    <3>5. CASE i < j
      <4>1. i < k /\ j - 1 < k - 1
        BY <3>5
      <4> QED BY <1>e, <1>o, <3>5, <4>1
    <3> QED BY <3>1, <3>2, <3>3, <3>4, <3>5
  <2> QED BY <2>1, <2>2 DEF Extents
<1>2. Covers(m + 1, b, f, H \ Run(c, n))
  <2> SUFFICES ASSUME NEW p \in Page
               PROVE  p \notin H \ Run(c, n) <=> \E j \in 1 .. m + 1 : b[j] <= p /\ p < f[j]
    BY DEF Covers
  <2>1. p \in Int
    BY <1>n DEF Page
  <2>2. p \notin H <=> \E j \in 1 .. m : a[j] <= p /\ p < e[j]
    BY DEF Covers
  <2>3. p \in Run(c, n) <=> c <= p /\ p < c + n
    BY <1>n, <2>1 DEF Run
  <2>4. \A j \in 1 .. m : a[j] <= p /\ p < e[j] => \E k \in 1 .. m + 1 : b[k] <= p /\ p < f[k]
    <3> SUFFICES ASSUME NEW j \in 1 .. m, a[j] <= p, p < e[j]
                 PROVE  \E k \in 1 .. m + 1 : b[k] <= p /\ p < f[k]
      OBVIOUS
    <3>1. CASE j < i
      <4>1. j \in 1 .. m + 1
        OBVIOUS
      <4>2. b[j] = a[j] /\ f[j] = e[j]
        BY <1>o, <3>1, <4>1
      <4> QED BY <4>1, <4>2
    <3>2. CASE ~(j < i)
      <4>1. j + 1 \in 1 .. m + 1 /\ i < j + 1 /\ (j + 1) - 1 = j
        BY <3>2
      <4>2. b[j + 1] = a[j] /\ f[j + 1] = e[j]
        BY <1>o, <4>1
      <4> QED BY <4>1, <4>2
    <3> QED BY <3>1, <3>2
  <2>5. \A k \in 1 .. m + 1 : k # i /\ b[k] <= p /\ p < f[k]
          => \E j \in 1 .. m : a[j] <= p /\ p < e[j]
    <3> SUFFICES ASSUME NEW k \in 1 .. m + 1, k # i, b[k] <= p, p < f[k]
                 PROVE  \E j \in 1 .. m : a[j] <= p /\ p < e[j]
      OBVIOUS
    <3>1. CASE k < i
      BY <1>o, <3>1
    <3>2. CASE i < k
      BY <1>o, <3>2
    <3> QED BY <3>1, <3>2
  <2> QED BY <1>o, <2>2, <2>3, <2>4, <2>5
<1> QED BY <1>1, <1>2
\* default_free_pages adds pages to the end of a block.
LEMMA GrownUp ==
  ASSUME NEW m \in Nat, NEW a \in [1 .. m -> Int], NEW e \in [1 .. m -> Int],
         NEW gap \in {0, 1}, Extents(m, a, e, gap),
         NEW H \in SUBSET Page, Covers(m, a, e, H),
         NEW i \in 1 .. m, NEW n \in 1 .. NPAGE, e[i] + n <= NPAGE,
         \A j \in 1 .. m : i < j => e[i] + n + gap <= a[j],
         NEW f, \A j \in 1 .. m : f[j] = IF j = i THEN e[i] + n ELSE e[j]
  PROVE  Extents(m, a, f, gap) /\ Covers(m, a, f, H \ Run(e[i], n))
<1>n. NPAGE \in Nat
  BY PageAssumption
<1>e. /\ \A j \in 1 .. m : 0 <= a[j] /\ a[j] < e[j] /\ e[j] <= NPAGE
      /\ \A j, k \in 1 .. m : j < k => e[j] + gap <= a[k]
  BY DEF Extents
<1>o. f[i] = e[i] + n /\ \A j \in 1 .. m : j # i => f[j] = e[j]
  OBVIOUS
<1>1. Extents(m, a, f, gap)
  <2>1. \A j \in 1 .. m : 0 <= a[j] /\ a[j] < f[j] /\ f[j] <= NPAGE
    <3> SUFFICES ASSUME NEW j \in 1 .. m PROVE 0 <= a[j] /\ a[j] < f[j] /\ f[j] <= NPAGE
      OBVIOUS
    <3>1. 0 <= a[j] /\ a[j] < e[j] /\ e[j] <= NPAGE /\ a[j] \in Int /\ e[j] \in Int
      BY <1>e
    <3> QED BY <1>n, <1>o, <3>1
  <2>2. \A j, k \in 1 .. m : j < k => f[j] + gap <= a[k]
    <3> SUFFICES ASSUME NEW j \in 1 .. m, NEW k \in 1 .. m, j < k PROVE f[j] + gap <= a[k]
      OBVIOUS
    <3>1. CASE j = i
      BY <1>o, <3>1
    <3>2. CASE j # i
      BY <1>e, <1>o, <3>2
    <3> QED BY <3>1, <3>2
  <2> QED BY <2>1, <2>2 DEF Extents
<1>2. Covers(m, a, f, H \ Run(e[i], n))
  <2> SUFFICES ASSUME NEW p \in Page
               PROVE  p \notin H \ Run(e[i], n) <=> \E j \in 1 .. m : a[j] <= p /\ p < f[j]
    BY DEF Covers
  <2>1. p \in Int
    BY <1>n DEF Page
  <2>2. p \notin H <=> \E j \in 1 .. m : a[j] <= p /\ p < e[j]
    BY DEF Covers
  <2>3. p \in Run(e[i], n) <=> e[i] <= p /\ p < e[i] + n
    BY <1>n, <2>1 DEF Run
  <2>4. a[i] <= p /\ p < f[i] <=> (a[i] <= p /\ p < e[i]) \/ p \in Run(e[i], n)
    <3>1. a[i] < e[i] /\ f[i] = e[i] + n /\ a[i] \in Int /\ e[i] \in Int
      BY <1>e, <1>o
    <3> QED BY <1>n, <2>1, <2>3, <3>1
  <2>5. \A j \in 1 .. m : j # i =>
          ((a[j] <= p /\ p < f[j]) <=> (a[j] <= p /\ p < e[j]))
    BY <1>o
  <2> QED BY <2>2, <2>4, <2>5
<1> QED BY <1>1, <1>2

\* The i-th interval may begin at c; b is the sequence a with x at the i-th place.
MayBegin(m, e, gap, i, c) == \A j \in 1 .. m : j < i => e[j] + gap <= c
SetAt(m, a, i, x, b) == \A j \in 1 .. m : b[j] = IF j = i THEN x ELSE a[j]

\* default_free_pages adds pages in front of a block.
LEMMA GrownDown ==
  ASSUME NEW m \in Nat, NEW a \in [1 .. m -> Int], NEW e \in [1 .. m -> Int],
         NEW gap \in {0, 1}, Extents(m, a, e, gap),
         NEW H \in SUBSET Page, Covers(m, a, e, H),
         NEW i \in 1 .. m, NEW c \in Page, NEW n \in 1 .. NPAGE, a[i] = c + n,
         MayBegin(m, e, gap, i, c), NEW b, SetAt(m, a, i, c, b)
  PROVE  Extents(m, b, e, gap) /\ Covers(m, b, e, H \ Run(c, n))
<1>n. NPAGE \in Nat /\ c \in Nat
  BY PageAssumption DEF Page
<1>e. /\ \A j \in 1 .. m : 0 <= a[j] /\ a[j] < e[j] /\ e[j] <= NPAGE
      /\ \A j, k \in 1 .. m : j < k => e[j] + gap <= a[k]
  BY DEF Extents
<1>o. b[i] = c /\ \A j \in 1 .. m : j # i => b[j] = a[j]
  BY DEF SetAt
<1>r. \A j \in 1 .. m : j < i => e[j] + gap <= c
  BY DEF MayBegin
<1>1. Extents(m, b, e, gap)
  <2>1. \A j \in 1 .. m : 0 <= b[j] /\ b[j] < e[j] /\ e[j] <= NPAGE
    <3> SUFFICES ASSUME NEW j \in 1 .. m PROVE 0 <= b[j] /\ b[j] < e[j] /\ e[j] <= NPAGE
      OBVIOUS
    <3>1. 0 <= a[j] /\ a[j] < e[j] /\ e[j] <= NPAGE /\ a[j] \in Int /\ e[j] \in Int
      BY <1>e
    <3> QED BY <1>n, <1>o, <3>1
  <2>2. \A j, k \in 1 .. m : j < k => e[j] + gap <= b[k]
    <3> SUFFICES ASSUME NEW j \in 1 .. m, NEW k \in 1 .. m, j < k PROVE e[j] + gap <= b[k]
      OBVIOUS
    <3>1. CASE k = i
      BY <1>o, <1>r, <3>1
    <3>2. CASE k # i
      BY <1>e, <1>o, <3>2
    <3> QED BY <3>1, <3>2
  <2> QED BY <2>1, <2>2 DEF Extents
<1>2. Covers(m, b, e, H \ Run(c, n))
  <2> SUFFICES ASSUME NEW p \in Page
               PROVE  p \notin H \ Run(c, n) <=> \E j \in 1 .. m : b[j] <= p /\ p < e[j]
    BY DEF Covers
  <2>1. p \in Int
    BY <1>n DEF Page
  <2>2. p \notin H <=> \E j \in 1 .. m : a[j] <= p /\ p < e[j]
    BY DEF Covers
  <2>3. p \in Run(c, n) <=> c <= p /\ p < c + n
    BY <1>n, <2>1 DEF Run
  <2>4. b[i] <= p /\ p < e[i] <=> (a[i] <= p /\ p < e[i]) \/ p \in Run(c, n)
    <3>1. a[i] < e[i] /\ b[i] = c /\ e[i] \in Int
      BY <1>e, <1>o
    <3> QED BY <1>n, <2>1, <2>3, <3>1
  <2>5. \A j \in 1 .. m : j # i =>
          ((b[j] <= p /\ p < e[j]) <=> (a[j] <= p /\ p < e[j]))
    BY <1>o
  <2> QED BY <2>2, <2>4, <2>5
<1> QED BY <1>1, <1>2

\* Pages that follow one another are the first n of them and the rest.
LEMMA RunSplits ==
  ASSUME NEW x \in Int, NEW y \in Int, NEW n \in Nat, x + n < y
  PROVE  Run(x, y - x) = Run(x, n) \cup (x + n .. y - 1)
<1>1. x + (y - x) - 1 = y - 1
  OBVIOUS
<1>2. x .. y - 1 = (x .. x + n - 1) \cup (x + n .. y - 1)
  OBVIOUS
<1> QED BY <1>1, <1>2 DEF Run

\* A block that ends in memory lies there.
LEMMA RunOnPages ==
  ASSUME NEW x \in Nat, NEW n \in Nat, x + n <= NPAGE
  PROVE  Run(x, n) \subseteq Page
BY PageAssumption DEF Run, Page

\* default_free_pages closes the gap between two blocks.
LEMMA Bridged ==
  ASSUME NEW m \in Nat, NEW a \in [1 .. m -> Int], NEW e \in [1 .. m -> Int],
         NEW gap \in {0, 1}, Extents(m, a, e, gap),
         NEW H \in SUBSET Page, Covers(m, a, e, H),
         NEW i \in 2 .. m, NEW n \in 1 .. NPAGE, a[i] = e[i - 1] + n,
         NEW b, NEW f,
         \A j \in 1 .. m - 1 : b[j] = IF j < i THEN a[j] ELSE a[j + 1],
         \A j \in 1 .. m - 1 : f[j] = IF j < i - 1 THEN e[j] ELSE e[j + 1]
  PROVE  Extents(m - 1, b, f, gap) /\ Covers(m - 1, b, f, H \ Run(e[i - 1], n))
<1>n. NPAGE \in Nat /\ m - 1 \in Nat /\ i - 1 \in 1 .. m - 1 /\ i - 1 \in 1 .. m /\ i \in 1 .. m
  BY PageAssumption
<1>e. /\ \A j \in 1 .. m : 0 <= a[j] /\ a[j] < e[j] /\ e[j] <= NPAGE
      /\ \A j, k \in 1 .. m : j < k => e[j] + gap <= a[k]
  BY DEF Extents
<1> DEFINE g == [j \in 1 .. m - 1 |-> IF j < i THEN e[j] ELSE e[j + 1]]
           c == [j \in 1 .. m - 1 |-> IF j < i THEN a[j] ELSE a[j + 1]]
           held2 == H \cup (a[i] .. e[i] - 1)
           size == e[i] - e[i - 1]
<1>1. Extents(m - 1, c, g, gap) /\ Covers(m - 1, c, g, held2)
  <2>1. \A j \in 1 .. m - 1 : c[j] = IF j < i THEN a[j] ELSE a[j + 1]
    OBVIOUS
  <2>2. \A j \in 1 .. m - 1 : g[j] = IF j < i THEN e[j] ELSE e[j + 1]
    OBVIOUS
  <2> HIDE DEF c, g
  <2> QED BY <1>n, <2>1, <2>2, Removed
<1>2. c \in [1 .. m - 1 -> Int] /\ g \in [1 .. m - 1 -> Int]
  <2>1. \A j \in 1 .. m - 1 : j \in 1 .. m /\ j + 1 \in 1 .. m
    OBVIOUS
  <2> QED BY <2>1
<1>3. g[i - 1] = e[i - 1] /\ g[i - 1] + size = e[i] /\ size \in 1 .. NPAGE /\ e[i] <= NPAGE
  <2>1. e[i - 1] \in Int /\ e[i] \in Int /\ a[i - 1] \in Int
    BY <1>n
  <2>2. 0 <= a[i - 1] /\ a[i - 1] < e[i - 1] /\ a[i] < e[i] /\ e[i] <= NPAGE
    BY <1>n, <1>e
  <2> QED BY <1>n, <2>1, <2>2
<1>4. \A j \in 1 .. m - 1 : i - 1 < j => g[i - 1] + size + gap <= c[j]
  <2> SUFFICES ASSUME NEW j \in 1 .. m - 1, i - 1 < j PROVE e[i] + gap <= c[j]
    BY <1>3
  <2>1. j + 1 \in 1 .. m /\ i < j + 1 /\ ~(j < i) /\ c[j] = a[j + 1]
    OBVIOUS
  <2> QED BY <1>n, <1>e, <2>1
<1>5. \A j \in 1 .. m - 1 : f[j] = IF j = i - 1 THEN g[i - 1] + size ELSE g[j]
  <2> SUFFICES ASSUME NEW j \in 1 .. m - 1
               PROVE  f[j] = IF j = i - 1 THEN g[i - 1] + size ELSE g[j]
    OBVIOUS
  <2>1. CASE j = i - 1
    <3>1. ~(j < i - 1) /\ j + 1 = i
      BY <2>1
    <3> QED BY <1>3, <2>1, <3>1
  <2>2. CASE j < i - 1
    BY <2>2
  <2>3. CASE i - 1 < j
    BY <2>3
  <2> QED BY <2>1, <2>2, <2>3
<1>6. held2 \in SUBSET Page
  <2>1. a[i] \in Int /\ e[i] \in Int /\ 0 <= a[i] /\ e[i] <= NPAGE
    BY <1>n, <1>e
  <2>2. a[i] .. e[i] - 1 \subseteq Page
    <3> HIDE DEF c, g, size, held2
    <3> QED BY <1>n, <2>1 DEF Page
  <2> QED BY <2>2
<1>7. held2 \ Run(e[i - 1], size) = H \ Run(e[i - 1], n)
  <2>1. /\ a[i] \in Int /\ e[i] \in Int /\ e[i - 1] \in Int
        /\ a[i] < e[i] /\ 0 <= a[i] /\ e[i] <= NPAGE
    BY <1>n, <1>e
  <2>2. ASSUME NEW p \in a[i] .. e[i] - 1 PROVE p \notin H
    <3>1. p \in Page /\ a[i] <= p /\ p < e[i]
      BY <1>n, <2>1 DEF Page
    <3> QED BY <1>n, <3>1 DEF Covers
  <2>3. Run(e[i - 1], size) = Run(e[i - 1], n) \cup (a[i] .. e[i] - 1)
    <3>1. e[i - 1] + n < e[i] /\ e[i - 1] + n = a[i]
      BY <2>1
    <3>2. n \in Nat
      BY <1>n
    <3>3. \A x \in Int, y \in Int : x + n < y =>
               Run(x, y - x) = Run(x, n) \cup (x + n .. y - 1)
      BY <3>2, RunSplits, Zenon
    <3>4. Run(e[i - 1], size) = Run(e[i - 1], n) \cup (e[i - 1] + n .. e[i] - 1)
      BY <2>1, <3>1, <3>3
    <3> QED BY <3>1, <3>4
  <2> QED BY <2>2, <2>3
<1>8. \A j \in 1 .. m - 1 : b[j] = c[j]
  OBVIOUS
<1> HIDE DEF c, g, held2, size
<1>9. Extents(m - 1, c, f, gap) /\ Covers(m - 1, c, f, held2 \ Run(g[i - 1], size))
  <2>1. \A k \in 1 .. m - 1, s \in 1 .. NPAGE :
          /\ g[k] + s <= NPAGE
          /\ \A j \in 1 .. m - 1 : k < j => g[k] + s + gap <= c[j]
          /\ \A j \in 1 .. m - 1 : f[j] = IF j = k THEN g[k] + s ELSE g[j]
          => Extents(m - 1, c, f, gap) /\ Covers(m - 1, c, f, held2 \ Run(g[k], s))
    BY <1>n, <1>1, <1>2, <1>6, GrownUp
  <2> QED BY <1>n, <1>3, <1>4, <1>5, <2>1
<1> QED BY <1>3, <1>7, <1>8, <1>9 DEF Extents, Covers
-----------------------------------------------------------------------------
(* Lists of blocks.                                                        *)

\* The list and its ends are functions on the positions.
LEMMA AsFunctions ==
  ASSUME NEW L \in Seq(Page), NEW pr \in [Page -> 0 .. NPAGE]
  PROVE  Len(L) \in Nat /\ L \in [1 .. Len(L) -> Int] /\ Ends(L, pr) \in [1 .. Len(L) -> Int]
<1>1. Len(L) \in Nat /\ \A i \in 1 .. Len(L) : L[i] \in Page /\ L[i] \in Int
  BY PageAssumption DEF Page
<1>2. L \in [1 .. Len(L) -> Int]
  BY <1>1
<1>3. \A i \in 1 .. Len(L) : L[i] + pr[L[i]] \in Int
  BY <1>1, PageAssumption
<1> QED BY <1>1, <1>2, <1>3 DEF Ends

\* What such a list says of an entry.
LEMMA Entry ==
  ASSUME NEW L, NEW pr, NEW H, NEW F, NEW gap, Listed(L, pr, H, F, gap), NEW i \in 1 .. Len(L)
  PROVE  /\ L[i] \in Page /\ L[i] \in Nat /\ L[i] \notin H
         /\ pr[L[i]] \in 1 .. NPAGE /\ Ends(L, pr)[i] = L[i] + pr[L[i]]
         /\ L[i] + pr[L[i]] <= NPAGE
<1>a. /\ L \in Seq(Page) /\ pr \in [Page -> 0 .. NPAGE] /\ H \in SUBSET Page
      /\ gap \in {0, 1} /\ Blocks(L, pr, H, gap) /\ Marked(L, F)
  BY DEF Listed
<1> USE <1>a
<1>n. NPAGE \in Nat /\ L[i] \in Page /\ L[i] \in Nat
  BY PageAssumption DEF Page
<1>1. Ends(L, pr)[i] = L[i] + pr[L[i]] /\ pr[L[i]] \in 0 .. NPAGE
  BY <1>n DEF Ends
<1>2. L[i] < Ends(L, pr)[i] /\ Ends(L, pr)[i] <= NPAGE
  BY DEF Blocks, Extents
<1>3. pr[L[i]] # 0
  BY <1>n, <1>1, <1>2
<1>4. L[i] \notin H
  <2>1. L[i] <= L[i]
    BY <1>n
  <2> QED BY <1>n, <1>2, <2>1 DEF Blocks, Covers
<1> QED BY <1>n, <1>1, <1>2, <1>3, <1>4

\* And of two.
LEMMA InOrder ==
  ASSUME NEW L, NEW pr, NEW H, NEW F, NEW gap, Listed(L, pr, H, F, gap),
         NEW i \in 1 .. Len(L), NEW j \in 1 .. Len(L)
  PROVE  /\ i < j => L[i] + pr[L[i]] + gap <= L[j]
         /\ i < j <=> L[i] < L[j]
         /\ i = j <=> L[i] = L[j]
<1>a. /\ L \in Seq(Page) /\ pr \in [Page -> 0 .. NPAGE] /\ H \in SUBSET Page
      /\ gap \in {0, 1} /\ Blocks(L, pr, H, gap) /\ Marked(L, F)
  BY DEF Listed
<1> USE <1>a
<1>1. /\ i < j => Ends(L, pr)[i] + gap <= L[j]
      /\ j < i => Ends(L, pr)[j] + gap <= L[i]
  BY DEF Blocks, Extents
<1>2. /\ L[i] \in Nat /\ pr[L[i]] \in 1 .. NPAGE /\ Ends(L, pr)[i] = L[i] + pr[L[i]]
      /\ L[j] \in Nat /\ pr[L[j]] \in 1 .. NPAGE /\ Ends(L, pr)[j] = L[j] + pr[L[j]]
  BY Entry
<1> HIDE <1>a
<1>3. /\ i < j => L[i] + pr[L[i]] + gap <= L[j]
      /\ j < i => L[j] + pr[L[j]] + gap <= L[i]
  BY <1>1, <1>2, Zenon
<1>4. /\ pr[L[i]] \in Nat \ {0} /\ pr[L[j]] \in Nat \ {0} /\ gap \in Nat
      /\ i \in Int /\ j \in Int
  BY <1>a, <1>2, PageAssumption
<1> DEFINE x == L[i]
           y == L[j]
           p == pr[x]
           q == pr[y]
<1>5. /\ x \in Nat /\ y \in Nat /\ p \in Nat \ {0} /\ q \in Nat \ {0}
      /\ (i < j => x + p + gap <= y) /\ (j < i => y + q + gap <= x) /\ (i = j => x = y)
  BY <1>2, <1>3, <1>4, Zenon
<1> HIDE DEF x, y, p, q
<1>6. (i < j <=> x < y) /\ (i = j <=> x = y)
  BY <1>4, <1>5
<1> QED BY <1>3, <1>6 DEF x, y

\* Entries have addresses and sizes, and are different.
Distinct(L, pr) ==
  \A i \in 1 .. Len(L) : /\ L[i] \in Page /\ L[i] \in Nat /\ pr[L[i]] \in 1 .. NPAGE
                        /\ Ends(L, pr)[i] = L[i] + pr[L[i]]
                        /\ \A j \in 1 .. Len(L) : j # i => L[j] # L[i]

\* So it is for a list of blocks.
LEMMA EntriesDistinct ==
  ASSUME NEW L, NEW pr, NEW H, NEW F, NEW gap, Listed(L, pr, H, F, gap)
  PROVE  Distinct(L, pr)
<1>a. /\ L \in Seq(Page) /\ pr \in [Page -> 0 .. NPAGE] /\ H \in SUBSET Page
      /\ gap \in {0, 1} /\ Blocks(L, pr, H, gap) /\ Marked(L, F)
  BY DEF Listed
<1> USE <1>a
<1>1. ASSUME NEW i \in 1 .. Len(L)
      PROVE  /\ L[i] \in Page /\ L[i] \in Nat /\ pr[L[i]] \in 1 .. NPAGE
             /\ Ends(L, pr)[i] = L[i] + pr[L[i]]
             /\ \A j \in 1 .. Len(L) : j # i => L[j] # L[i]
  <2>1. /\ L[i] \in Page /\ L[i] \in Nat /\ pr[L[i]] \in 1 .. NPAGE
        /\ Ends(L, pr)[i] = L[i] + pr[L[i]]
    BY Entry
  <2>2. ASSUME NEW j \in 1 .. Len(L), j # i PROVE L[j] # L[i]
    <3>1. /\ i < j => L[i] + pr[L[i]] + gap <= L[j]
          /\ i < j <=> L[i] < L[j]
          /\ i = j <=> L[i] = L[j]
      BY InOrder
    <3> QED BY <2>2, <3>1
  <2> QED BY <2>1, <2>2
<1> QED BY <1>1 DEF Distinct

\* A block that is held overlaps no free one.
Apart(L, pr, b, n) ==
  /\ b \in Nat /\ b + n <= NPAGE
  /\ \A i \in 1 .. Len(L) : /\ L[i] # b
                            /\ L[i] <= b => L[i] + pr[L[i]] <= b
                            /\ b < L[i] => b + n <= L[i]

LEMMA Disjoint ==
  ASSUME NEW L, NEW pr, NEW H, NEW F, NEW gap, Listed(L, pr, H, F, gap),
         NEW b \in Page, NEW n \in 1 .. NPAGE, Run(b, n) \subseteq H
  PROVE  Apart(L, pr, b, n)
<1>a. /\ L \in Seq(Page) /\ pr \in [Page -> 0 .. NPAGE] /\ H \in SUBSET Page
      /\ gap \in {0, 1} /\ Blocks(L, pr, H, gap) /\ Marked(L, F)
  BY DEF Listed
<1> USE <1>a
<1>n. NPAGE \in Nat /\ b \in Nat /\ \A p \in Page : p \in Nat /\ p < NPAGE
  BY PageAssumption DEF Page
<1>1. \A p \in Int : b <= p /\ p < b + n => p \in H
  BY <1>n DEF Run
<1>2. b + n <= NPAGE
  <2>1. b + n - 1 \in H
    BY <1>n, <1>1
  <2>2. b + n - 1 \in Page
    BY <2>1
  <2> QED BY <1>n, <2>2
<1>3. ASSUME NEW i \in 1 .. Len(L)
      PROVE  /\ L[i] # b
             /\ L[i] <= b => L[i] + pr[L[i]] <= b
             /\ b < L[i] => b + n <= L[i]
  <2>1. /\ L[i] \in Nat /\ L[i] \notin H /\ pr[L[i]] \in 1 .. NPAGE
        /\ Ends(L, pr)[i] = L[i] + pr[L[i]]
    BY Entry
  <2>2. b \in H
    BY <1>n, <1>1
  <2>3. L[i] <= b => ~(b < Ends(L, pr)[i])
    BY <2>2 DEF Blocks, Covers
  <2>4. L[i] <= b => L[i] + pr[L[i]] <= b
    BY <1>n, <2>1, <2>3
  <2>5. b < L[i] => b + n <= L[i]
    BY <1>n, <1>1, <2>1
  <2> QED BY <2>1, <2>2, <2>4, <2>5
<1> QED BY <1>n, <1>2, <1>3 DEF Apart

\* nr_free after pages are given out,
LEMMA CountTaken ==
  ASSUME NEW H \in SUBSET Page, NEW b \in Page, NEW n \in 1 .. NPAGE,
         Run(b, n) \subseteq Page \ H
  PROVE  /\ Cardinality(Page \ H) \in 0 .. NPAGE
         /\ Cardinality(Page \ (H \cup Run(b, n))) = Cardinality(Page \ H) - n
         /\ n <= Cardinality(Page \ H)
<1>n. NPAGE \in Nat /\ b \in Nat
  BY PageAssumption DEF Page
<1>1. IsFiniteSet(Page) /\ Cardinality(Page) = NPAGE
  <2>1. NPAGE - 1 \in Int /\ (0 > NPAGE - 1 => NPAGE = 0) /\ (NPAGE - 1) - 0 + 1 = NPAGE
    BY <1>n
  <2> QED BY <1>n, <2>1, FS_Interval, PageAssumption DEF Page
<1>2. IsFiniteSet(Run(b, n)) /\ Cardinality(Run(b, n)) = n
  <2>1. b + n - 1 \in Int /\ ~(b > b + n - 1) /\ (b + n - 1) - b + 1 = n
    BY <1>n
  <2> QED BY <1>n, <2>1, FS_Interval DEF Run
<1> DEFINE rest == Page \ (H \cup Run(b, n))
<1>3. IsFiniteSet(rest) /\ Cardinality(rest) \in Nat
  <2>1. rest \in SUBSET Page
    OBVIOUS
  <2> QED BY <1>1, <2>1, FS_Subset, FS_CardinalityType
<1>4. /\ IsFiniteSet(Page \ H) /\ Cardinality(Page \ H) \in Nat
      /\ Cardinality(Page \ H) <= NPAGE
  <2>1. Page \ H \in SUBSET Page
    OBVIOUS
  <2> QED BY <1>1, <2>1, FS_Subset, FS_CardinalityType
<1>5. rest \cup Run(b, n) = Page \ H /\ rest \cap Run(b, n) = {}
  OBVIOUS
<1> HIDE DEF rest
<1>6. Cardinality(rest \cup Run(b, n))
        = Cardinality(rest) + Cardinality(Run(b, n)) - Cardinality(rest \cap Run(b, n))
  BY <1>2, <1>3, FS_Union
<1>7. Cardinality(Page \ H) = Cardinality(rest) + n
  <2>1. Cardinality(rest \cap Run(b, n)) = 0
    BY <1>5, FS_EmptySet
  <2>2. Cardinality(Page \ H) = Cardinality(rest) + n - 0
    BY <1>2, <1>5, <1>6, <2>1
  <2> QED BY <1>3, <2>2
<1> QED BY <1>n, <1>3, <1>4, <1>7 DEF rest

\* and after they have come back.
LEMMA CountReturned ==
  ASSUME NEW H \in SUBSET Page, NEW b \in Page, NEW n \in 1 .. NPAGE, Run(b, n) \subseteq H
  PROVE  /\ Cardinality(Page \ (H \ Run(b, n))) = Cardinality(Page \ H) + n
         /\ Cardinality(Page \ (H \ Run(b, n))) \in 0 .. NPAGE
<1> DEFINE rest == H \ Run(b, n)
<1>1. rest \in SUBSET Page /\ Run(b, n) \subseteq Page \ rest /\ rest \cup Run(b, n) = H
  OBVIOUS
<1> HIDE DEF rest
<1>2. /\ Cardinality(Page \ rest) \in 0 .. NPAGE
      /\ Cardinality(Page \ (rest \cup Run(b, n))) = Cardinality(Page \ rest) - n
  BY <1>1, CountTaken
<1>3. Cardinality(Page \ H) = Cardinality(Page \ rest) - n
  BY <1>1, <1>2
<1>4. Cardinality(Page \ rest) = Cardinality(Page \ H) + n
  BY <1>2, <1>3, PageAssumption
<1> QED BY <1>2, <1>4 DEF rest
-----------------------------------------------------------------------------
(* What the calls do to the list of blocks.                                *)

\* The list and the sizes after the front of the i-th block has been taken, and
\* after all of it has.
ListRest(L, i, n) == [L EXCEPT ![i] = L[i] + n]
SizesRest(pr, b, n) ==
  [p \in Page |-> IF p = b + n THEN pr[b] - n ELSE IF p = b THEN 0 ELSE pr[p]]
SizesWithout(pr, b) == [p \in Page |-> IF p = b THEN 0 ELSE pr[p]]

\* A request for fewer pages than the i-th block has takes its front.
LEMMA FrontTaken ==
  ASSUME NEW L, NEW pr, NEW H, NEW F, NEW gap, Listed(L, pr, H, F, gap),
         NEW i \in 1 .. Len(L), NEW n \in 1 .. NPAGE, pr[L[i]] > n
  PROVE  Listed(ListRest(L, i, n), SizesRest(pr, L[i], n), H \cup Run(L[i], n),
                (F \cup {L[i] + n}) \ {L[i]}, gap)
<1>a. /\ L \in Seq(Page) /\ pr \in [Page -> 0 .. NPAGE] /\ H \in SUBSET Page
      /\ gap \in {0, 1} /\ Blocks(L, pr, H, gap) /\ Marked(L, F)
  BY DEF Listed
<1> USE <1>a
<1> DEFINE L2 == ListRest(L, i, n)
           pr2 == SizesRest(pr, L[i], n)
<1>n. NPAGE \in Nat /\ n \in Nat /\ n # 0
  BY PageAssumption
<1>1. /\ L[i] \in Nat /\ pr[L[i]] \in 1 .. NPAGE /\ L[i] + pr[L[i]] <= NPAGE
      /\ Ends(L, pr)[i] = L[i] + pr[L[i]]
  BY Entry
<1>2. L[i] + n \in Page /\ pr[L[i]] - n \in 0 .. NPAGE
  <2>1. PICK x \in Nat, y \in 1 .. NPAGE : x = L[i] /\ y = pr[L[i]] /\ x + y <= NPAGE /\ y > n
    BY <1>1
  <2>2. x + n \in 0 .. NPAGE - 1 /\ y - n \in 0 .. NPAGE
    BY <1>n, <2>1
  <2>3. x + n \in Page
    BY <2>2 DEF Page
  <2> QED BY <2>1, <2>2, <2>3
<1>3. L2 \in Seq(Page) /\ Len(L2) = Len(L) /\ L2[i] = L[i] + n
      /\ \A j \in 1 .. Len(L) : j # i => L2[j] = L[j]
  BY <1>2, ExceptSeq DEF ListRest
<1>4. /\ pr2 \in [Page -> 0 .. NPAGE] /\ pr2[L[i] + n] = pr[L[i]] - n
      /\ \A p \in Page : p # L[i] /\ p # L[i] + n => pr2[p] = pr[p]
  BY <1>n, <1>2 DEF SizesRest
<1> HIDE DEF L2, pr2
<1>5. \A j \in 1 .. Len(L) : L[j] \in Page /\ (j # i => L[j] # L[i] /\ L[j] # L[i] + n)
  <2> SUFFICES ASSUME NEW j \in 1 .. Len(L)
               PROVE  L[j] \in Page /\ (j # i => L[j] # L[i] /\ L[j] # L[i] + n)
    OBVIOUS
  <2>1. /\ i < j => L[i] + pr[L[i]] + gap <= L[j]
        /\ i < j <=> L[i] < L[j]
        /\ i = j <=> L[i] = L[j]
    BY InOrder
  <2>2. L[j] \in Page /\ L[j] \in Nat
    BY Entry
  <2> QED BY <1>n, <1>1, <2>1, <2>2
<1>6. \A j \in 1 .. Len(L) : Ends(L2, pr2)[j] = Ends(L, pr)[j]
  <2> SUFFICES ASSUME NEW j \in 1 .. Len(L) PROVE Ends(L2, pr2)[j] = Ends(L, pr)[j]
    OBVIOUS
  <2>1. Ends(L2, pr2)[j] = L2[j] + pr2[L2[j]] /\ Ends(L, pr)[j] = L[j] + pr[L[j]]
    BY <1>3 DEF Ends
  <2>2. CASE j = i
    <3>1. pr2[L[i] + n] = pr[L[i]] - n
      BY <1>4
    <3>2. (L[i] + n) + (pr[L[i]] - n) = L[i] + pr[L[i]]
      BY <1>n, <1>1
    <3> QED BY <1>3, <2>1, <2>2, <3>1, <3>2
  <2>3. CASE j # i
    <3>1. pr2[L[j]] = pr[L[j]]
      BY <1>4, <1>5, <2>3
    <3> QED BY <1>3, <2>1, <2>3, <3>1
  <2> QED BY <2>2, <2>3
<1>7. Marked(L2, (F \cup {L[i] + n}) \ {L[i]})
  <2>1. F = {L[j] : j \in 1 .. Len(L)}
    BY DEF Marked
  <2>2. L[i] + n # L[i]
    BY <1>n, <1>1
  <2>3. {L2[j] : j \in 1 .. Len(L2)} = (F \cup {L[i] + n}) \ {L[i]}
    BY <1>3, <1>5, <2>1, <2>2
  <2> QED BY <2>3 DEF Marked
<1>8. Blocks(L2, pr2, H \cup Run(L[i], n), gap)
  <2>1. L[i] + n < Ends(L, pr)[i]
    BY <1>n, <1>1
  <2>2. \A j \in 1 .. Len(L) : L2[j] = IF j = i THEN L[i] + n ELSE L[j]
    BY <1>3
  <2>3. Extents(Len(L), L, Ends(L, pr), gap) /\ Covers(Len(L), L, Ends(L, pr), H)
    BY DEF Blocks
  <2>4. /\ Extents(Len(L), L2, Ends(L, pr), gap)
        /\ Covers(Len(L), L2, Ends(L, pr), H \cup Run(L[i], n))
    <3>1. Len(L) \in Nat /\ L \in [1 .. Len(L) -> Int] /\ Ends(L, pr) \in [1 .. Len(L) -> Int]
      BY AsFunctions
    <3> QED BY <2>1, <2>2, <2>3, <3>1, Shorter
  <2> QED BY <1>3, <1>6, <2>4 DEF Blocks, Extents, Covers
<1>9. H \cup Run(L[i], n) \in SUBSET Page
  <2>1. PICK x \in Nat : x = L[i] /\ x + n \in Page
    BY <1>1, <1>2
  <2>2. x + n <= NPAGE
    BY <1>n, <2>1 DEF Page
  <2>3. Run(x, n) \subseteq Page
    BY <1>n, <2>2, RunOnPages
  <2> QED BY <2>1, <2>3
<1> QED BY <1>3, <1>4, <1>7, <1>8, <1>9 DEF L2, pr2, Listed

\* The entries of a list after list_del.
LEMMA EntriesWithout ==
  ASSUME NEW L \in Seq(Page), NEW F, Marked(L, F), NEW i \in 1 .. Len(L),
         \A j \in 1 .. Len(L) : j # i => L[j] # L[i],
         NEW L2, Len(L2) = Len(L) - 1,
         \A j \in 1 .. i - 1 : L2[j] = L[j], \A j \in i .. Len(L) - 1 : L2[j] = L[j + 1]
  PROVE  Marked(L2, F \ {L[i]})
<1>1. \A j \in 1 .. Len(L) : j # i => \E k \in 1 .. Len(L2) : L2[k] = L[j]
  <2> SUFFICES ASSUME NEW j \in 1 .. Len(L), j # i PROVE \E k \in 1 .. Len(L2) : L2[k] = L[j]
    OBVIOUS
  <2>1. CASE j < i
    <3>1. j \in 1 .. i - 1 /\ j \in 1 .. Len(L2)
      BY <2>1
    <3> QED BY <3>1
  <2>2. CASE i < j
    <3>1. j - 1 \in i .. Len(L) - 1 /\ j - 1 \in 1 .. Len(L2) /\ (j - 1) + 1 = j
      BY <2>2
    <3>2. L2[j - 1] = L[j]
      BY <3>1
    <3> QED BY <3>1, <3>2
  <2> QED BY <2>1, <2>2
<1>2. \A k \in 1 .. Len(L2) : \E j \in 1 .. Len(L) : j # i /\ L2[k] = L[j]
  <2> SUFFICES ASSUME NEW k \in 1 .. Len(L2) PROVE \E j \in 1 .. Len(L) : j # i /\ L2[k] = L[j]
    OBVIOUS
  <2>1. CASE k < i
    BY <2>1
  <2>2. CASE ~(k < i)
    <3>1. k + 1 \in 1 .. Len(L) /\ k + 1 # i /\ k \in i .. Len(L) - 1
      BY <2>2
    <3> QED BY <3>1
  <2> QED BY <2>1, <2>2
<1>3. \A x \in {L2[k] : k \in 1 .. Len(L2)} : x \in {L[j] : j \in 1 .. Len(L)} \ {L[i]}
  BY <1>2
<1>4. \A x \in {L[j] : j \in 1 .. Len(L)} \ {L[i]} : x \in {L2[k] : k \in 1 .. Len(L2)}
  BY <1>1
<1>5. {L2[k] : k \in 1 .. Len(L2)} = {L[j] : j \in 1 .. Len(L)} \ {L[i]}
  BY <1>3, <1>4
<1> QED BY <1>5 DEF Marked

\* A request for as many pages as the i-th block has takes it off the list.
LEMMA BlockTaken ==
  ASSUME NEW L, NEW pr, NEW H, NEW F, NEW gap, Listed(L, pr, H, F, gap),
         NEW i \in 1 .. Len(L)
  PROVE  Listed(RemoveAt(L, i), SizesWithout(pr, L[i]), H \cup Run(L[i], pr[L[i]]),
                F \ {L[i]}, gap)
<1>a. /\ L \in Seq(Page) /\ pr \in [Page -> 0 .. NPAGE] /\ H \in SUBSET Page
      /\ gap \in {0, 1} /\ Blocks(L, pr, H, gap) /\ Marked(L, F)
  BY DEF Listed
<1> USE <1>a
<1> DEFINE L2 == RemoveAt(L, i)
           pr2 == SizesWithout(pr, L[i])
<1>n. NPAGE \in Nat /\ Len(L) \in Nat
  BY PageAssumption
<1>1. /\ L[i] \in Nat /\ pr[L[i]] \in Nat /\ Ends(L, pr)[i] = L[i] + pr[L[i]]
  BY <1>n, Entry
<1>3. /\ L2 \in Seq(Page) /\ Len(L2) = Len(L) - 1
      /\ \A j \in 1 .. i - 1 : L2[j] = L[j]
      /\ \A j \in i .. Len(L) - 1 : L2[j] = L[j + 1]
  BY DeleteAt
<1>4. /\ pr2 \in [Page -> 0 .. NPAGE]
      /\ \A p \in Page : p # L[i] => pr2[p] = pr[p]
  BY <1>n DEF SizesWithout
<1> HIDE DEF L2, pr2
<1>5. \A j \in 1 .. Len(L) : L[j] \in Page /\ (j # i => L[j] # L[i] /\ pr2[L[j]] = pr[L[j]])
  <2> SUFFICES ASSUME NEW j \in 1 .. Len(L)
               PROVE  L[j] \in Page /\ (j # i => L[j] # L[i] /\ pr2[L[j]] = pr[L[j]])
    OBVIOUS
  <2>1. /\ i < j => L[i] + pr[L[i]] + gap <= L[j]
        /\ i < j <=> L[i] < L[j]
        /\ i = j <=> L[i] = L[j]
    BY InOrder
  <2>2. L[j] \in Page
    BY Entry
  <2> QED BY <1>4, <2>1, <2>2
<1>6. \A j \in 1 .. Len(L) - 1 :
        /\ L2[j] = IF j < i THEN L[j] ELSE L[j + 1]
        /\ Ends(L2, pr2)[j] = IF j < i THEN Ends(L, pr)[j] ELSE Ends(L, pr)[j + 1]
  <2> SUFFICES ASSUME NEW j \in 1 .. Len(L) - 1
               PROVE  /\ L2[j] = IF j < i THEN L[j] ELSE L[j + 1]
                      /\ Ends(L2, pr2)[j] = IF j < i THEN Ends(L, pr)[j] ELSE Ends(L, pr)[j + 1]
    OBVIOUS
  <2>1. Ends(L2, pr2)[j] = L2[j] + pr2[L2[j]]
    BY <1>3 DEF Ends
  <2>2. CASE j < i
    <3>1. j \in 1 .. Len(L) /\ j # i /\ j \in 1 .. i - 1
      BY <2>2
    <3>2. L2[j] = L[j] /\ pr2[L[j]] = pr[L[j]] /\ Ends(L, pr)[j] = L[j] + pr[L[j]]
      BY <1>3, <1>5, <3>1 DEF Ends
    <3> QED BY <2>1, <2>2, <3>2
  <2>3. CASE ~(j < i)
    <3>1. j + 1 \in 1 .. Len(L) /\ j + 1 # i /\ j \in i .. Len(L) - 1
      BY <2>3
    <3>2. /\ L2[j] = L[j + 1] /\ pr2[L[j + 1]] = pr[L[j + 1]]
          /\ Ends(L, pr)[j + 1] = L[j + 1] + pr[L[j + 1]]
      BY <1>3, <1>5, <3>1 DEF Ends
    <3> QED BY <2>1, <2>3, <3>2
  <2> QED BY <2>2, <2>3
<1>7. Marked(L2, F \ {L[i]})
  <2>1. \A j \in 1 .. Len(L) : j # i => L[j] # L[i]
    BY <1>5
  <2> QED BY <1>3, <2>1, EntriesWithout
<1>8. Blocks(L2, pr2, H \cup Run(L[i], pr[L[i]]), gap)
  <2>1. L[i] .. Ends(L, pr)[i] - 1 = Run(L[i], pr[L[i]])
    BY <1>1 DEF Run
  <2>2. Extents(Len(L), L, Ends(L, pr), gap) /\ Covers(Len(L), L, Ends(L, pr), H)
    BY DEF Blocks
  <2>3. /\ Extents(Len(L) - 1, L2, Ends(L2, pr2), gap)
        /\ Covers(Len(L) - 1, L2, Ends(L2, pr2), H \cup (L[i] .. Ends(L, pr)[i] - 1))
    BY <1>6, <2>2, AsFunctions, Removed
  <2> QED BY <1>3, <2>1, <2>3 DEF Blocks
<1>9. H \cup Run(L[i], pr[L[i]]) \in SUBSET Page
  <2>1. L[i] + pr[L[i]] <= NPAGE
    BY Entry
  <2>2. Run(L[i], pr[L[i]]) \subseteq Page
    BY <1>1, <2>1, RunOnPages
  <2> QED BY <2>2
<1> QED BY <1>3, <1>4, <1>7, <1>8, <1>9 DEF L2, pr2, Listed

\* All blocks before the i-th end below b, and the others begin above b + n, with
\* a gap between.
Before(L, pr, gap, i, b) == \A j \in 1 .. Len(L) : j < i => L[j] + pr[L[j]] + gap <= b
Behind(L, gap, i, b, n) == \A j \in 1 .. Len(L) : i <= j => b + n + gap <= L[j]

\* L2 is L with b as its i-th entry, put in or instead of another, or with its
\* i-th entry taken out.
PutIn(L, i, b, L2) ==
  /\ L2 \in Seq(Page) /\ Len(L2) = Len(L) + 1 /\ L2[i] = b
  /\ \A k \in 1 .. i - 1 : L2[k] = L[k]
  /\ \A k \in i + 1 .. Len(L) + 1 : L2[k] = L[k - 1]
Instead(L, i, b, L2) ==
  /\ L2 \in Seq(Page) /\ Len(L2) = Len(L) /\ L2[i] = b
  /\ \A j \in 1 .. Len(L) : j # i => L2[j] = L[j]
CutOut(L, i, L2) ==
  /\ L2 \in Seq(Page) /\ Len(L2) = Len(L) - 1
  /\ \A j \in 1 .. i - 1 : L2[j] = L[j]
  /\ \A j \in i .. Len(L) - 1 : L2[j] = L[j + 1]

\* A block of n pages from b on touches the i-th, which is below it, or above it.
LowFits(L, pr, i, b) == L[i] + pr[L[i]] = b
HighFits(L, i, b, n) == b + n = L[i]

\* The sizes after a block has come back: base has a new one, and those of the pages
\* in gone do not matter.
Resized(pr, base, size, gone, pr2) ==
  /\ pr2 \in [Page -> 0 .. NPAGE] /\ pr2[base] = size
  /\ \A p \in Page : p # base /\ p \notin gone => pr2[p] = pr[p]

\* A block that comes back and touches no other becomes the i-th.
LEMMA BlockPut ==
  ASSUME NEW L, NEW pr, NEW H, NEW F, NEW gap, Listed(L, pr, H, F, gap),
         NEW b \in Page, NEW n \in 1 .. NPAGE, Run(b, n) \subseteq H,
         NEW i \in 1 .. Len(L) + 1, Before(L, pr, gap, i, b), Behind(L, gap, i, b, n),
         NEW L2, PutIn(L, i, b, L2), NEW pr2, Resized(pr, b, n, {}, pr2)
  PROVE  Listed(L2, pr2, H \ Run(b, n), F \cup {b}, gap)
<1>a. /\ L \in Seq(Page) /\ pr \in [Page -> 0 .. NPAGE] /\ H \in SUBSET Page
      /\ gap \in {0, 1} /\ Blocks(L, pr, H, gap) /\ Marked(L, F)
  BY DEF Listed
<1> USE <1>a
<1>b. Len(L2) = Len(L) + 1 /\ L2[i] = b
  BY DEF PutIn
<1>c. /\ \A k \in 1 .. i - 1 : L2[k] = L[k]
      /\ \A k \in i + 1 .. Len(L) + 1 : L2[k] = L[k - 1]
  BY DEF PutIn
<1>d. pr2[b] = n /\ \A p \in Page : p # b => pr2[p] = pr[p]
  BY DEF Resized
<1>1. Len(L) \in Nat /\ L \in [1 .. Len(L) -> Int] /\ Ends(L, pr) \in [1 .. Len(L) -> Int]
  BY AsFunctions
<1>2. b + n <= NPAGE /\ \A j \in 1 .. Len(L) : L[j] # b
  <2>1. Apart(L, pr, b, n)
    BY Disjoint
  <2> QED BY <2>1 DEF Apart
<1>3. \A j \in 1 .. Len(L) :
        L[j] \in Page /\ pr2[L[j]] = pr[L[j]] /\ Ends(L, pr)[j] = L[j] + pr[L[j]]
  <2> SUFFICES ASSUME NEW j \in 1 .. Len(L)
               PROVE  L[j] \in Page /\ pr2[L[j]] = pr[L[j]] /\ Ends(L, pr)[j] = L[j] + pr[L[j]]
    OBVIOUS
  <2>1. L[j] \in Page /\ Ends(L, pr)[j] = L[j] + pr[L[j]]
    BY Entry
  <2> QED BY <1>2, <1>d, <2>1
<1>4. \A j \in 1 .. Len(L) + 1 :
        /\ L2[j] = IF j < i THEN L[j] ELSE IF j = i THEN b ELSE L[j - 1]
        /\ Ends(L2, pr2)[j] = IF j < i THEN Ends(L, pr)[j]
                             ELSE IF j = i THEN b + n ELSE Ends(L, pr)[j - 1]
  <2> SUFFICES ASSUME NEW j \in 1 .. Len(L) + 1
               PROVE  /\ L2[j] = IF j < i THEN L[j] ELSE IF j = i THEN b ELSE L[j - 1]
                      /\ Ends(L2, pr2)[j] = IF j < i THEN Ends(L, pr)[j]
                                           ELSE IF j = i THEN b + n ELSE Ends(L, pr)[j - 1]
    OBVIOUS
  <2>1. Ends(L2, pr2)[j] = L2[j] + pr2[L2[j]]
    BY <1>b DEF Ends
  <2>2. CASE j < i
    <3>1. j \in 1 .. i - 1 /\ j \in 1 .. Len(L)
      BY <1>1, <2>2
    <3>2. L2[j] = L[j] /\ pr2[L[j]] = pr[L[j]] /\ Ends(L, pr)[j] = L[j] + pr[L[j]]
      BY <1>c, <1>3, <3>1
    <3> QED BY <2>1, <2>2, <3>2
  <2>3. CASE j = i
    BY <1>b, <1>d, <2>1, <2>3
  <2>4. CASE i < j
    <3>1. j - 1 \in 1 .. Len(L) /\ j \in i + 1 .. Len(L) + 1
      BY <1>1, <2>4
    <3>2. /\ L2[j] = L[j - 1] /\ pr2[L[j - 1]] = pr[L[j - 1]]
          /\ Ends(L, pr)[j - 1] = L[j - 1] + pr[L[j - 1]]
      BY <1>c, <1>3, <3>1
    <3> QED BY <2>1, <2>4, <3>2
  <2> QED BY <2>2, <2>3, <2>4
<1>5. Blocks(L2, pr2, H \ Run(b, n), gap)
  <2>1. Extents(Len(L), L, Ends(L, pr), gap) /\ Covers(Len(L), L, Ends(L, pr), H)
    BY DEF Blocks
  <2>2. RoomAt(Len(L), L, Ends(L, pr), gap, i, b, b + n)
    BY <1>3 DEF RoomAt, Before, Behind
  <2>3. PutAt(Len(L), L, i, b, L2) /\ PutAt(Len(L), Ends(L, pr), i, b + n, Ends(L2, pr2))
    BY <1>4 DEF PutAt
  <2>4. /\ Extents(Len(L) + 1, L2, Ends(L2, pr2), gap)
        /\ Covers(Len(L) + 1, L2, Ends(L2, pr2), H \ Run(b, n))
    <3>1. b + n <= NPAGE
      BY <1>2
    <3> QED BY <1>1, <3>1, <2>1, <2>2, <2>3, Inserted, ZenonT(60)
  <2> QED BY <1>b, <2>4 DEF Blocks
<1>6. Marked(L2, F \cup {b})
  <2>1. F = {L[j] : j \in 1 .. Len(L)}
    BY DEF Marked
  <2>2. \A k \in 1 .. Len(L) + 1 : L2[k] = b \/ \E j \in 1 .. Len(L) : L2[k] = L[j]
    <3> SUFFICES ASSUME NEW k \in 1 .. Len(L) + 1
                 PROVE  L2[k] = b \/ \E j \in 1 .. Len(L) : L2[k] = L[j]
      OBVIOUS
    <3>1. CASE k < i
      <4>1. k \in 1 .. i - 1 /\ k \in 1 .. Len(L)
        BY <1>1, <3>1
      <4> QED BY <1>c, <4>1
    <3>2. CASE i < k
      <4>1. k - 1 \in 1 .. Len(L) /\ k \in i + 1 .. Len(L) + 1
        BY <1>1, <3>2
      <4> QED BY <1>c, <4>1
    <3>3. CASE k = i
      BY <1>b, <3>3
    <3> QED BY <3>1, <3>2, <3>3
  <2>3. \A j \in 1 .. Len(L) : \E k \in 1 .. Len(L) + 1 : L2[k] = L[j]
    <3> SUFFICES ASSUME NEW j \in 1 .. Len(L) PROVE \E k \in 1 .. Len(L) + 1 : L2[k] = L[j]
      OBVIOUS
    <3>1. CASE j < i
      <4>1. j \in 1 .. i - 1 /\ j \in 1 .. Len(L) + 1
        BY <1>1, <3>1
      <4> QED BY <1>c, <4>1
    <3>2. CASE ~(j < i)
      <4>1. j + 1 \in i + 1 .. Len(L) + 1 /\ j + 1 \in 1 .. Len(L) + 1 /\ (j + 1) - 1 = j
        BY <1>1, <3>2
      <4>2. L2[j + 1] = L[j]
        BY <1>c, <4>1
      <4> QED BY <4>1, <4>2
    <3> QED BY <3>1, <3>2
  <2>4. \A x \in {L2[k] : k \in 1 .. Len(L2)} : x \in F \cup {b}
    BY <1>b, <2>1, <2>2
  <2>5. \A x \in F \cup {b} : x \in {L2[k] : k \in 1 .. Len(L2)}
    <3>1. b \in {L2[k] : k \in 1 .. Len(L2)}
      BY <1>b, <1>1
    <3>2. \A x \in F : x \in {L2[k] : k \in 1 .. Len(L2)}
      BY <1>b, <2>1, <2>3
    <3> QED BY <3>1, <3>2
  <2>6. F \cup {b} = {L2[k] : k \in 1 .. Len(L2)}
    BY <2>4, <2>5
  <2> QED BY <2>6 DEF Marked
<1>h. H \ Run(b, n) \in SUBSET Page
  OBVIOUS
<1> QED BY <1>a, <1>5, <1>6, <1>h DEF Listed, PutIn, Resized

\* A block that comes back right behind the i-th, and in front of no other,
\* becomes part of it.
LEMMA JoinedLow ==
  ASSUME NEW L, NEW pr, NEW H, NEW F, NEW gap, Listed(L, pr, H, F, gap),
         NEW b \in Page, NEW n \in 1 .. NPAGE, Run(b, n) \subseteq H,
         NEW i \in 1 .. Len(L), LowFits(L, pr, i, b), Behind(L, gap, i + 1, b, n),
         NEW pr2, Resized(pr, L[i], pr[L[i]] + n, {b}, pr2)
  PROVE  Listed(L, pr2, H \ Run(b, n), F \cup {L[i]}, gap)
<1>a. /\ L \in Seq(Page) /\ pr \in [Page -> 0 .. NPAGE] /\ H \in SUBSET Page
      /\ gap \in {0, 1} /\ Blocks(L, pr, H, gap) /\ Marked(L, F)
  BY DEF Listed
<1>b. /\ \A j \in 1 .. Len(L) : i < j => b + n + gap <= L[j]
      /\ pr2 \in [Page -> 0 .. NPAGE]
  BY DEF Behind, Resized
<1> USE <1>a, <1>b
<1>n. NPAGE \in Nat
  BY PageAssumption
<1> USE <1>n
<1>1. Len(L) \in Nat /\ L \in [1 .. Len(L) -> Int] /\ Ends(L, pr) \in [1 .. Len(L) -> Int]
  BY AsFunctions
<1>m. Distinct(L, pr) /\ Apart(L, pr, b, n)
  BY EntriesDistinct, Disjoint
<1>2. b \in Nat /\ b + n <= NPAGE /\ \A j \in 1 .. Len(L) : L[j] # b
  BY <1>m DEF Apart
<1>3. \A j \in 1 .. Len(L) : /\ L[j] \in Page /\ L[j] \in Nat /\ pr[L[j]] \in 1 .. NPAGE
                             /\ Ends(L, pr)[j] = L[j] + pr[L[j]]
                             /\ j # i => L[j] # L[i]
  BY <1>m DEF Distinct
<1>4. \A j \in 1 .. Len(L) :
        Ends(L, pr2)[j] = IF j = i THEN Ends(L, pr)[i] + n ELSE Ends(L, pr)[j]
  <2> SUFFICES ASSUME NEW j \in 1 .. Len(L)
               PROVE  Ends(L, pr2)[j] = IF j = i THEN Ends(L, pr)[i] + n ELSE Ends(L, pr)[j]
    OBVIOUS
  <2>1. Ends(L, pr2)[j] = L[j] + pr2[L[j]]
    BY DEF Ends
  <2>2. CASE j = i
    <3>1. L[i] \in Nat /\ pr[L[i]] \in Int /\ Ends(L, pr)[i] = L[i] + pr[L[i]]
      <4> HIDE <1>a, <1>b
      <4>1. L[i] \in Nat /\ pr[L[i]] \in 1 .. NPAGE /\ Ends(L, pr)[i] = L[i] + pr[L[i]]
        BY <1>3, Zenon
      <4> QED BY <4>1
    <3>2. L[i] + (pr[L[i]] + n) = (L[i] + pr[L[i]]) + n
      <4> HIDE <1>a, <1>b, <1>n
      <4> QED BY <3>1
    <3>3. pr2[L[i]] = pr[L[i]] + n
      BY DEF Resized
    <3> QED BY <2>1, <2>2, <3>1, <3>2, <3>3
  <2>3. CASE j # i
    <3>1. pr2[L[j]] = pr[L[j]]
      BY <1>2, <1>3, <2>3 DEF Resized
    <3> QED BY <1>3, <2>1, <2>3, <3>1
  <2> QED BY <2>2, <2>3
<1>5. Ends(L, pr)[i] = b
  BY <1>3 DEF LowFits
<1>6. Blocks(L, pr2, H \ Run(b, n), gap)
  <2>1. Extents(Len(L), L, Ends(L, pr), gap) /\ Covers(Len(L), L, Ends(L, pr), H)
    BY DEF Blocks
  <2>2. /\ Ends(L, pr)[i] + n <= NPAGE
        /\ \A j \in 1 .. Len(L) : i < j => Ends(L, pr)[i] + n + gap <= L[j]
    BY <1>2, <1>5
  <2>3. /\ Extents(Len(L), L, Ends(L, pr2), gap)
        /\ Covers(Len(L), L, Ends(L, pr2), H \ Run(Ends(L, pr)[i], n))
    BY <1>1, <1>4, <2>1, <2>2, GrownUp, ZenonT(60)
  <2> QED BY <1>5, <2>3 DEF Blocks
<1>7. Marked(L, F \cup {L[i]})
  BY DEF Marked
<1>h. H \ Run(b, n) \in SUBSET Page
  OBVIOUS
<1> QED BY <1>6, <1>7, <1>h DEF Listed

\* A block that comes back right in front of the i-th, and behind no other, takes
\* its place.
LEMMA JoinedHigh ==
  ASSUME NEW L, NEW pr, NEW H, NEW F, NEW gap, Listed(L, pr, H, F, gap),
         NEW b \in Page, NEW n \in 1 .. NPAGE, Run(b, n) \subseteq H,
         NEW i \in 1 .. Len(L), HighFits(L, i, b, n), Before(L, pr, gap, i, b),
         NEW L2, Instead(L, i, b, L2), NEW pr2, Resized(pr, b, n + pr[L[i]], {L[i]}, pr2)
  PROVE  Listed(L2, pr2, H \ Run(b, n), (F \cup {b}) \ {L[i]}, gap)
<1>a. /\ L \in Seq(Page) /\ pr \in [Page -> 0 .. NPAGE] /\ H \in SUBSET Page
      /\ gap \in {0, 1} /\ Blocks(L, pr, H, gap) /\ Marked(L, F)
  BY DEF Listed
<1>b. /\ \A j \in 1 .. Len(L) : j < i => L[j] + pr[L[j]] + gap <= b
      /\ L2 \in Seq(Page) /\ Len(L2) = Len(L) /\ L2[i] = b
      /\ \A j \in 1 .. Len(L) : j # i => L2[j] = L[j]
      /\ pr2 \in [Page -> 0 .. NPAGE]
  BY DEF Before, Instead, Resized
<1> USE <1>a, <1>b
<1>n. NPAGE \in Nat
  BY PageAssumption
<1> USE <1>n
<1>1. Len(L) \in Nat /\ L \in [1 .. Len(L) -> Int] /\ Ends(L, pr) \in [1 .. Len(L) -> Int]
  BY AsFunctions
<1>m. Distinct(L, pr) /\ Apart(L, pr, b, n)
  BY EntriesDistinct, Disjoint
<1>2. b \in Nat /\ b + n <= NPAGE /\ \A j \in 1 .. Len(L) : L[j] # b
  BY <1>m DEF Apart
<1>3. \A j \in 1 .. Len(L) : /\ L[j] \in Page /\ L[j] \in Nat /\ pr[L[j]] \in 1 .. NPAGE
                             /\ Ends(L, pr)[j] = L[j] + pr[L[j]]
                             /\ j # i => L[j] # L[i]
  BY <1>m DEF Distinct
<1>4. \A j \in 1 .. Len(L) : Ends(L2, pr2)[j] = Ends(L, pr)[j]
  <2> SUFFICES ASSUME NEW j \in 1 .. Len(L) PROVE Ends(L2, pr2)[j] = Ends(L, pr)[j]
    OBVIOUS
  <2>1. Ends(L2, pr2)[j] = L2[j] + pr2[L2[j]]
    BY DEF Ends
  <2>2. CASE j = i
    <3>1. pr[L[i]] \in Int /\ Ends(L, pr)[i] = L[i] + pr[L[i]]
      BY <1>3
    <3>2. b + (n + pr[L[i]]) = (b + n) + pr[L[i]]
      BY <1>2, <3>1
    <3>3. pr2[b] = n + pr[L[i]] /\ b + n = L[i]
      BY DEF Resized, HighFits
    <3> QED BY <2>1, <2>2, <3>1, <3>2, <3>3
  <2>3. CASE j # i
    <3>1. pr2[L[j]] = pr[L[j]]
      BY <1>2, <1>3, <2>3 DEF Resized
    <3> QED BY <1>3, <2>1, <2>3, <3>1
  <2> QED BY <2>2, <2>3
<1>5. Blocks(L2, pr2, H \ Run(b, n), gap)
  <2>1. Extents(Len(L), L, Ends(L, pr), gap) /\ Covers(Len(L), L, Ends(L, pr), H)
    BY DEF Blocks
  <2>2. /\ \A j \in 1 .. Len(L) : j < i => Ends(L, pr)[j] + gap <= b
        /\ L[i] = b + n
    <3>1. \A j \in 1 .. Len(L) : j < i => Ends(L, pr)[j] + gap <= b
      BY <1>3
    <3>2. L[i] = b + n
      BY DEF HighFits
    <3> QED BY <3>1, <3>2
  <2>3. SetAt(Len(L), L, i, b, L2) /\ MayBegin(Len(L), Ends(L, pr), gap, i, b)
    BY <2>2 DEF SetAt, MayBegin
  <2>4. /\ Extents(Len(L), L2, Ends(L, pr), gap)
        /\ Covers(Len(L), L2, Ends(L, pr), H \ Run(b, n))
    BY <1>1, <2>1, <2>2, <2>3, GrownDown, ZenonT(60)
  <2> QED BY <1>4, <2>4 DEF Blocks, Extents, Covers
<1>6. Marked(L2, (F \cup {b}) \ {L[i]})
  <2>1. F = {L[j] : j \in 1 .. Len(L)}
    BY DEF Marked
  <2>2. b # L[i] /\ \A j \in 1 .. Len(L) : j # i => L[j] # L[i]
    BY <1>2, <1>3
  <2>3. {L2[j] : j \in 1 .. Len(L2)} = (F \cup {b}) \ {L[i]}
    BY <2>1, <2>2
  <2> QED BY <2>3 DEF Marked
<1>h. H \ Run(b, n) \in SUBSET Page
  OBVIOUS
<1> QED BY <1>5, <1>6, <1>h DEF Listed

\* The size of two blocks and what was between them.
LEMMA Regrouped ==
  ASSUME NEW u \in Int, NEW v \in Int, NEW k \in Int, NEW w \in Int
  PROVE  u + (v + k + w) = (u + v + k) + w
OBVIOUS

\* A block that comes back right between two others makes them one.
LEMMA JoinedBoth ==
  ASSUME NEW L, NEW pr, NEW H, NEW F, NEW gap, Listed(L, pr, H, F, gap),
         NEW b \in Page, NEW n \in 1 .. NPAGE, Run(b, n) \subseteq H,
         NEW i \in 2 .. Len(L), LowFits(L, pr, i - 1, b), HighFits(L, i, b, n),
         NEW L2, CutOut(L, i, L2),
         NEW pr2, Resized(pr, L[i - 1], pr[L[i - 1]] + n + pr[L[i]], {b, L[i]}, pr2)
  PROVE  Listed(L2, pr2, H \ Run(b, n), (F \cup {L[i - 1]}) \ {L[i]}, gap)
<1>a. /\ L \in Seq(Page) /\ pr \in [Page -> 0 .. NPAGE] /\ H \in SUBSET Page
      /\ gap \in {0, 1} /\ Blocks(L, pr, H, gap) /\ Marked(L, F)
  BY DEF Listed
<1> USE <1>a
<1>b. Len(L2) = Len(L) - 1
  BY DEF CutOut
<1>c. /\ \A j \in 1 .. i - 1 : L2[j] = L[j]
      /\ \A j \in i .. Len(L) - 1 : L2[j] = L[j + 1]
  BY DEF CutOut
<1>i. i \in 1 .. Len(L) /\ i - 1 \in 1 .. Len(L) /\ i - 1 # i /\ i - 1 \in 1 .. Len(L) - 1
  OBVIOUS
<1>n. NPAGE \in Nat
  BY PageAssumption
<1> USE <1>n
<1>1. Len(L) \in Nat /\ L \in [1 .. Len(L) -> Int] /\ Ends(L, pr) \in [1 .. Len(L) -> Int]
  BY AsFunctions
<1>m. Distinct(L, pr) /\ Apart(L, pr, b, n)
  BY EntriesDistinct, Disjoint
<1>2. b \in Nat /\ b + n <= NPAGE /\ \A j \in 1 .. Len(L) : L[j] # b
  BY <1>m DEF Apart
<1>3. \A j \in 1 .. Len(L) : /\ L[j] \in Page /\ L[j] \in Nat /\ pr[L[j]] \in 1 .. NPAGE
                             /\ Ends(L, pr)[j] = L[j] + pr[L[j]]
                             /\ j # i => L[j] # L[i]
                             /\ j # i - 1 => L[j] # L[i - 1]
  BY <1>i, <1>m DEF Distinct
<1>4. \A j \in 1 .. Len(L) - 1 :
        /\ L2[j] = IF j < i THEN L[j] ELSE L[j + 1]
        /\ Ends(L2, pr2)[j] = IF j < i - 1 THEN Ends(L, pr)[j] ELSE Ends(L, pr)[j + 1]
  <2> SUFFICES ASSUME NEW j \in 1 .. Len(L) - 1
               PROVE  /\ L2[j] = IF j < i THEN L[j] ELSE L[j + 1]
                      /\ Ends(L2, pr2)[j] = IF j < i - 1 THEN Ends(L, pr)[j]
                                           ELSE Ends(L, pr)[j + 1]
    OBVIOUS
  <2>1. Ends(L2, pr2)[j] = L2[j] + pr2[L2[j]]
    BY <1>b DEF Ends
  <2>2. CASE j < i - 1
    <3>1. j \in 1 .. Len(L) /\ j # i /\ j # i - 1 /\ j < i /\ j \in 1 .. i - 1
      BY <1>1, <2>2
    <3>2. L2[j] = L[j] /\ pr2[L[j]] = pr[L[j]] /\ Ends(L, pr)[j] = L[j] + pr[L[j]]
      BY <1>2, <1>3, <1>c, <3>1 DEF Resized
    <3> QED BY <2>1, <2>2, <3>1, <3>2
  <2>3. CASE j = i - 1
    <3>1. j < i /\ j \in 1 .. i - 1 /\ j + 1 = i /\ ~(j < i - 1)
      BY <1>1, <2>3
    <3>2. L2[j] = L[i - 1]
      BY <1>c, <2>3, <3>1
    <3>3. /\ L[i - 1] \in Int /\ pr[L[i - 1]] \in Int /\ pr[L[i]] \in Int
          /\ Ends(L, pr)[i] = L[i] + pr[L[i]]
      <4> HIDE <1>a, <1>n
      <4>1. \A e \in 1 .. Len(L) : /\ L[e] \in Nat /\ pr[L[e]] \in 1 .. NPAGE
                                   /\ Ends(L, pr)[e] = L[e] + pr[L[e]]
        BY <1>3, Zenon
      <4>2. /\ L[i] \in Nat /\ pr[L[i]] \in 1 .. NPAGE
            /\ Ends(L, pr)[i] = L[i] + pr[L[i]]
        BY <1>i, <4>1, Zenon
      <4>3. L[i - 1] \in Nat /\ pr[L[i - 1]] \in 1 .. NPAGE
        BY <1>i, <4>1, Zenon
      <4> QED BY <1>n, <4>2, <4>3
    <3>0. /\ L[i - 1] + pr[L[i - 1]] = b /\ b + n = L[i]
          /\ pr2[L[i - 1]] = pr[L[i - 1]] + n + pr[L[i]]
      BY DEF Resized, LowFits, HighFits
    <3>4. L[i - 1] + (pr[L[i - 1]] + n + pr[L[i]]) = L[i] + pr[L[i]]
      <4> DEFINE x == L[i - 1]
                 y == pr[L[i - 1]]
                 z == pr[L[i]]
      <4>1. x \in Int /\ y \in Int /\ z \in Int /\ x + y = b /\ b + n = L[i]
        BY <3>0, <3>3
      <4>2. n \in Int
        OBVIOUS
      <4> HIDE <1>a DEF x, y, z
      <4>3. x + (y + n + z) = (x + y + n) + z
        BY <4>1, <4>2, Regrouped
      <4>4. x + y + n = L[i]
        BY <4>1
      <4> QED BY <4>3, <4>4 DEF x, y, z
    <3> QED BY <2>1, <2>3, <3>0, <3>1, <3>2, <3>3, <3>4
  <2>4. CASE i - 1 < j
    <3>1. /\ j + 1 \in 1 .. Len(L) /\ j + 1 # i /\ j + 1 # i - 1
          /\ ~(j < i) /\ ~(j < i - 1) /\ j \in i .. Len(L) - 1
      BY <1>1, <2>4
    <3>2. /\ L2[j] = L[j + 1] /\ pr2[L[j + 1]] = pr[L[j + 1]]
          /\ Ends(L, pr)[j + 1] = L[j + 1] + pr[L[j + 1]]
      BY <1>2, <1>3, <1>c, <3>1 DEF Resized
    <3> QED BY <2>1, <3>1, <3>2
  <2> QED BY <2>2, <2>3, <2>4
<1>5. Ends(L, pr)[i - 1] = b
  BY <1>3, <1>i DEF LowFits
<1>6. Blocks(L2, pr2, H \ Run(b, n), gap)
  <2>1. Extents(Len(L), L, Ends(L, pr), gap) /\ Covers(Len(L), L, Ends(L, pr), H)
    BY DEF Blocks
  <2>2. L[i] = Ends(L, pr)[i - 1] + n
    BY <1>5 DEF HighFits
  <2>3. /\ \A j \in 1 .. Len(L) - 1 : L2[j] = IF j < i THEN L[j] ELSE L[j + 1]
        /\ \A j \in 1 .. Len(L) - 1 :
             Ends(L2, pr2)[j] = IF j < i - 1 THEN Ends(L, pr)[j] ELSE Ends(L, pr)[j + 1]
    BY <1>4
  <2>4. /\ Extents(Len(L) - 1, L2, Ends(L2, pr2), gap)
        /\ Covers(Len(L) - 1, L2, Ends(L2, pr2), H \ Run(Ends(L, pr)[i - 1], n))
    BY <1>1, <2>1, <2>2, <2>3, Bridged, ZenonT(60)
  <2> QED BY <1>b, <1>5, <2>4 DEF Blocks
<1>7. Marked(L2, (F \cup {L[i - 1]}) \ {L[i]})
  <2>1. \A j \in 1 .. Len(L) : j # i => L[j] # L[i]
    BY <1>3
  <2>2. Marked(L2, F \ {L[i]})
    BY <1>b, <1>c, <1>i, <2>1, EntriesWithout
  <2>3. L[i - 1] \in F
    BY <1>i DEF Marked
  <2>4. (F \cup {L[i - 1]}) \ {L[i]} = F \ {L[i]}
    BY <2>3
  <2> QED BY <2>2, <2>4
<1>h. H \ Run(b, n) \in SUBSET Page
  OBVIOUS
<1> QED BY <1>a, <1>6, <1>7, <1>h DEF Listed, CutOut, Resized
-----------------------------------------------------------------------------
(* The calls.                                                              *)

\* The entry that default_alloc_pages stops at.
LEMMA BlockFound ==
  ASSUME TypeOK, NEW n \in 1 .. NPAGE, Fit(n) # {}
  PROVE  /\ First(Fit(n)) \in 1 .. Len(free_list)
         /\ property[free_list[First(Fit(n))]] >= n
         /\ \A j \in 1 .. Len(free_list) : property[free_list[j]] >= n => First(Fit(n)) <= j
<1>1. DOMAIN free_list = 1 .. Len(free_list)
  BY DEF TypeOK
<1>2. Fit(n) \in SUBSET Nat
  BY <1>1 DEF Fit
<1>3. First(Fit(n)) \in Fit(n) /\ \A j \in Fit(n) : First(Fit(n)) <= j
  BY <1>2, FirstIsLeast
<1> QED BY <1>1, <1>3 DEF Fit

\* default_alloc_pages keeps the list, if it can unlink the block.
LEMMA AllocLists ==
  ASSUME TypeOK, NEW n \in 1 .. NPAGE, AllocBlock(n), ~broken', NEW gap, Sound(gap)
  PROVE  Sound(gap)'
<1>1. PICK i \in 1 .. Len(free_list) : i = First(Fit(n)) /\ property[free_list[i]] >= n
  BY BlockFound DEF AllocBlock
<1>2. PICK b \in Page : b = free_list[i]
  BY DEF TypeOK
<1>3. /\ held' = held \cup Run(b, n) /\ broken' = (b \in ownPrev)
      /\ free_list' = Rest(i, b, n) /\ flagged' = RestMarked(b, n)
      /\ property' = [p \in Page |->
           IF p = b + n /\ property[b] > n THEN property[b] - n
           ELSE IF p = b /\ b \notin ownPrev THEN 0 ELSE property[p]]
  BY <1>1, <1>2 DEF AllocBlock
<1>4. b \notin ownPrev
  BY <1>3
<1>5. property \in [Page -> 0 .. NPAGE]
  BY DEF TypeOK
<1>s. Listed(free_list, property, held, flagged, gap)
  BY DEF Sound
<1>6. CASE property[b] > n
  <2>1. /\ free_list' = ListRest(free_list, i, n)
        /\ flagged' = (flagged \cup {free_list[i] + n}) \ {free_list[i]}
        /\ held' = held \cup Run(free_list[i], n)
    BY <1>2, <1>3, <1>4, <1>6 DEF Rest, RestMarked, ListRest
  <2>2. property' = SizesRest(property, free_list[i], n)
    BY <1>2, <1>3, <1>4, <1>6 DEF SizesRest
  <2>3. property[free_list[i]] > n
    BY <1>2, <1>6
  <2>4. Listed(ListRest(free_list, i, n), SizesRest(property, free_list[i], n),
               held \cup Run(free_list[i], n), (flagged \cup {free_list[i] + n}) \ {free_list[i]},
               gap)
    BY <1>s, <2>3, FrontTaken
  <2>5. Listed(free_list', property', held', flagged', gap)
    BY <2>1, <2>2, <2>4, Zenon
  <2> QED BY <2>5 DEF Sound
<1>7. CASE ~(property[b] > n)
  <2>1. property[b] = n
    BY <1>1, <1>2, <1>5, <1>7, PageAssumption
  <2>2. /\ free_list' = RemoveAt(free_list, i) /\ flagged' = flagged \ {free_list[i]}
        /\ held' = held \cup Run(free_list[i], property[free_list[i]])
    BY <1>2, <1>3, <1>4, <1>7, <2>1 DEF Rest, RestMarked
  <2>3. property' = SizesWithout(property, free_list[i])
    BY <1>2, <1>3, <1>4, <1>7 DEF SizesWithout
  <2>4. Listed(RemoveAt(free_list, i), SizesWithout(property, free_list[i]),
               held \cup Run(free_list[i], property[free_list[i]]), flagged \ {free_list[i]}, gap)
    BY <1>s, BlockTaken
  <2>5. Listed(free_list', property', held', flagged', gap)
    BY <2>2, <2>3, <2>4, Zenon
  <2> QED BY <2>5 DEF Sound
<1> QED BY <1>6, <1>7

\* The pages it gives out were free, and the count has room for them.
LEMMA AllocCounts ==
  ASSUME TypeOK, NEW n \in 1 .. NPAGE, AllocBlock(n), Sound(0), CountExact
  PROVE  /\ page' \in Page /\ held' = held \cup Run(page', n)
         /\ Run(page', n) \subseteq Page \ held
         /\ nr_free' = nr_free - n /\ nr_free' \in 0 .. NPAGE
         /\ nr_free' = Cardinality(Page \ held')
<1>n. NPAGE \in Nat
  BY PageAssumption
<1>1. PICK i \in 1 .. Len(free_list) : i = First(Fit(n)) /\ property[free_list[i]] >= n
  BY BlockFound DEF AllocBlock
<1>2. PICK b \in Page : b = free_list[i]
  BY DEF TypeOK
<1>3. page' = b /\ held' = held \cup Run(b, n) /\ nr_free' = nr_free - n
  BY <1>1, <1>2 DEF AllocBlock, CountLess
<1>4. /\ free_list \in Seq(Page) /\ property \in [Page -> 0 .. NPAGE]
      /\ held \in SUBSET Page /\ Blocks(free_list, property, held, 0)
      /\ Listed(free_list, property, held, flagged, 0)
  BY DEF TypeOK, Sound, Listed
<1>5. /\ b \in Nat /\ property[b] \in 1 .. NPAGE /\ b + property[b] <= NPAGE
      /\ Ends(free_list, property)[i] = b + property[b]
  <2>1. Distinct(free_list, property)
    BY <1>4, EntriesDistinct
  <2>2. /\ b \in Nat /\ property[b] \in 1 .. NPAGE
        /\ Ends(free_list, property)[i] = b + property[b]
    BY <1>2, <2>1 DEF Distinct
  <2>3. Ends(free_list, property)[i] <= NPAGE
    BY <1>4 DEF Blocks, Extents
  <2> QED BY <2>2, <2>3
<1>6. Run(b, n) \subseteq Page \ held
  <2> SUFFICES ASSUME NEW p \in Run(b, n) PROVE p \in Page /\ p \notin held
    OBVIOUS
  <2>1. p \in Nat /\ b <= p /\ p < b + property[b] /\ p < NPAGE
    <3>1. n <= property[b] /\ property[b] \in Nat
      BY <1>1, <1>2, <1>5, <1>n
    <3> QED BY <1>5, <1>n, <3>1 DEF Run
  <2>2. p \in Page
    BY <1>n, <2>1 DEF Page
  <2> QED BY <1>2, <1>4, <1>5, <2>1, <2>2 DEF Blocks, Covers
<1>7. nr_free = Cardinality(Page \ held)
  BY DEF CountExact
<1>8. /\ Cardinality(Page \ held) \in 0 .. NPAGE /\ n <= Cardinality(Page \ held)
      /\ Cardinality(Page \ (held \cup Run(b, n))) = Cardinality(Page \ held) - n
  BY <1>4, <1>6, CountTaken
<1> QED BY <1>n, <1>3, <1>6, <1>7, <1>8
\* The place of a block that comes back: what it does not touch leaves a gap.
LEMMA PlaceFits ==
  ASSUME NEW L, NEW pr, NEW H, NEW F, NEW gap, Listed(L, pr, H, F, gap),
         NEW b \in Page, NEW n \in 1 .. NPAGE, Run(b, n) \subseteq H,
         NEW i \in 1 .. Len(L) + 1,
         i \in 1 .. Len(L) => b < L[i], \A j \in 1 .. Len(L) : b < L[j] => i <= j
  PROVE  /\ (i > 1 => ~LowFits(L, pr, i - 1, b)) \/ gap = 0 => Before(L, pr, gap, i, b)
         /\ i \in 1 .. Len(L) /\ ~HighFits(L, i, b, n) => Behind(L, gap, i, b, n)
         /\ i \in 1 .. Len(L) => Behind(L, gap, i + 1, b, n)
<1>a. L \in Seq(Page) /\ gap \in {0, 1}
  BY DEF Listed
<1>n. NPAGE \in Nat /\ n \in Nat /\ b \in Nat /\ Len(L) \in Nat /\ gap \in Nat
  BY <1>a, PageAssumption DEF Page
<1>1. Apart(L, pr, b, n) /\ Distinct(L, pr)
  BY Disjoint, EntriesDistinct
<1>2. ASSUME NEW j \in 1 .. Len(L)
      PROVE  /\ L[j] \in Nat /\ pr[L[j]] \in Nat /\ L[j] # b
             /\ L[j] <= b => L[j] + pr[L[j]] <= b
             /\ b < L[j] => b + n <= L[j]
  BY <1>n, <1>1 DEF Apart, Distinct
<1>3. ASSUME NEW j \in 1 .. Len(L), j < i PROVE L[j] < b
  <2>1. ~(b < L[j])
    BY <1>n, <1>3
  <2> QED BY <1>n, <1>2, <2>1
<1>4. ASSUME NEW j \in 1 .. Len(L), j + 1 < i PROVE L[j] + pr[L[j]] + gap <= b
  <2>1. i - 1 \in 1 .. Len(L) /\ j < i - 1 /\ i - 1 < i
    BY <1>n, <1>4
  <2>2. L[j] + pr[L[j]] + gap <= L[i - 1]
    BY <2>1, InOrder
  <2>3. L[i - 1] < b /\ L[i - 1] \in Nat
    BY <1>2, <1>3, <2>1
  <2>4. L[j] \in Nat /\ pr[L[j]] \in Nat
    BY <1>2
  <2> QED BY <1>n, <2>2, <2>3, <2>4
<1>5. ASSUME (i > 1 => ~LowFits(L, pr, i - 1, b)) \/ gap = 0, NEW j \in 1 .. Len(L), j < i
      PROVE  L[j] + pr[L[j]] + gap <= b
  <2>1. CASE j + 1 < i
    BY <1>4, <2>1
  <2>2. CASE ~(j + 1 < i)
    <3>1. j = i - 1 /\ i > 1
      BY <1>n, <1>5, <2>2
    <3>2. L[j] \in Nat /\ pr[L[j]] \in Nat /\ L[j] + pr[L[j]] <= b
      BY <1>n, <1>2, <1>3, <1>5
    <3>3. L[j] + pr[L[j]] # b \/ gap = 0
      BY <1>5, <3>1 DEF LowFits
    <3>4. PICK x \in Nat : x = L[j] + pr[L[j]]
      BY <3>2
    <3>5. x <= b /\ (x # b \/ gap = 0)
      BY <3>2, <3>3, <3>4
    <3>6. x + gap <= b
      BY <1>a, <1>n, <3>5
    <3> QED BY <3>4, <3>6
  <2> QED BY <2>1, <2>2
<1>6. ASSUME i \in 1 .. Len(L), NEW j \in 1 .. Len(L), i + 1 <= j PROVE b + n + gap <= L[j]
  <2>1. b + n <= L[i] /\ L[i] \in Nat /\ L[j] \in Nat
    BY <1>2, <1>6
  <2>2. L[i] < L[j]
    <3>1. i < j
      BY <1>n, <1>6
    <3> QED BY <1>6, <3>1, InOrder
  <2> QED BY <1>a, <1>n, <2>1, <2>2
<1>7. ASSUME i \in 1 .. Len(L), ~HighFits(L, i, b, n), NEW j \in 1 .. Len(L), i <= j
      PROVE  b + n + gap <= L[j]
  <2>1. CASE i = j
    <3>1. b + n <= L[i] /\ L[i] \in Nat /\ b + n # L[i]
      BY <1>2, <1>7 DEF HighFits
    <3> QED BY <1>a, <1>n, <2>1, <3>1
  <2>2. CASE i # j
    <3>1. i + 1 <= j
      BY <1>n, <1>7, <2>2
    <3> QED BY <1>6, <1>7, <3>1
  <2> QED BY <2>1, <2>2
<1>8. (i > 1 => ~LowFits(L, pr, i - 1, b)) \/ gap = 0 => Before(L, pr, gap, i, b)
  BY <1>5 DEF Before
<1>9. i \in 1 .. Len(L) /\ ~HighFits(L, i, b, n) => Behind(L, gap, i, b, n)
  BY <1>7 DEF Behind
<1>10. i \in 1 .. Len(L) => Behind(L, gap, i + 1, b, n)
  BY <1>6 DEF Behind
<1> QED BY <1>8, <1>9, <1>10

\* The entry that default_free_pages stops at.
LEMMA PlaceFound ==
  ASSUME TypeOK, NEW b \in Page, Above(b) # {}
  PROVE  /\ First(Above(b)) \in 1 .. Len(free_list) /\ b < free_list[First(Above(b))]
         /\ \A j \in 1 .. Len(free_list) : b < free_list[j] => First(Above(b)) <= j
<1>1. DOMAIN free_list = 1 .. Len(free_list)
  BY DEF TypeOK
<1>2. Above(b) \in SUBSET Nat
  BY <1>1 DEF Above
<1>3. First(Above(b)) \in Above(b) /\ \A j \in Above(b) : First(Above(b)) <= j
  BY <1>2, FirstIsLeast
<1> QED BY <1>1, <1>3 DEF Above

\* What is freed had been held.
LEMMA FreedHeld ==
  ASSUME NEW b \in Page, NEW n \in 1 .. NPAGE, FreePages(b, n)
  PROVE  Run(b, n) \subseteq held /\ held' = held \ Run(b, n) /\ nr_free' = nr_free + n
BY DEF FreePages, FreeFirst, FreeLast, FreeBefore, Freed

\* A block that becomes the only one in the list keeps it.
LEMMA FreeFirstLists ==
  ASSUME TypeOK, NEW b \in Page, NEW n \in 1 .. NPAGE, FreeFirst(b, n), NEW gap, Sound(gap)
  PROVE  Sound(gap)'
<1>s. Listed(free_list, property, held, flagged, gap)
  BY DEF Sound
<1>1. /\ Run(b, n) \subseteq held /\ held' = held \ Run(b, n)
      /\ free_list = <<>> /\ free_list' = <<b>>
      /\ property' = [property EXCEPT ![b] = n] /\ flagged' = flagged \cup {b}
  BY DEF FreeFirst, Freed
<1>2. Len(free_list) = 0 /\ 1 \in 1 .. Len(free_list) + 1
  BY <1>1
<1>3. PutIn(free_list, 1, b, free_list')
  BY <1>1, <1>2 DEF PutIn
<1>4. Resized(property, b, n, {}, property')
  BY <1>1 DEF TypeOK, Resized
<1>5. Before(free_list, property, gap, 1, b) /\ Behind(free_list, gap, 1, b, n)
  BY <1>2 DEF Before, Behind
<1>6. Listed(free_list', property', held \ Run(b, n), flagged \cup {b}, gap)
  BY <1>s, <1>1, <1>2, <1>3, <1>4, <1>5, BlockPut
<1>7. Listed(free_list', property', held', flagged', gap)
  BY <1>1, <1>6
<1> QED BY <1>7 DEF Sound

\* A block that comes last keeps it too, but does not merge.
LEMMA FreeLastLists ==
  ASSUME TypeOK, NEW b \in Page, NEW n \in 1 .. NPAGE, FreeLast(b, n), Sound(0)
  PROVE  Sound(0)'
<1>s. Listed(free_list, property, held, flagged, 0)
  BY DEF Sound
<1>1. /\ Run(b, n) \subseteq held /\ held' = held \ Run(b, n)
      /\ Above(b) = {} /\ free_list' = Append(free_list, b)
      /\ property' = [property EXCEPT ![b] = n] /\ flagged' = flagged \cup {b}
  BY DEF FreeLast, Freed
<1>2. PICK i \in 1 .. Len(free_list) + 1 : i = Len(free_list) + 1
  BY DEF TypeOK
<1>3. PutIn(free_list, i, b, free_list')
  <2>1. free_list \in Seq(Page) /\ Len(free_list) \in Nat
    BY DEF TypeOK
  <2>2. /\ free_list' \in Seq(Page) /\ Len(free_list') = Len(free_list) + 1
        /\ free_list'[Len(free_list) + 1] = b
        /\ \A k \in 1 .. Len(free_list) : free_list'[k] = free_list[k]
    BY <1>1, <2>1
  <2>3. i - 1 = Len(free_list) /\ i + 1 .. Len(free_list) + 1 = {}
    BY <1>2, <2>1
  <2> QED BY <1>2, <2>2, <2>3 DEF PutIn
<1>4. Resized(property, b, n, {}, property')
  BY <1>1 DEF TypeOK, Resized
<1>5. \A j \in 1 .. Len(free_list) : ~(b < free_list[j])
  BY <1>1 DEF Above, TypeOK
<1>6. i \notin 1 .. Len(free_list)
  BY <1>2
<1>7. Before(free_list, property, 0, i, b)
  BY <1>s, <1>1, <1>5, <1>6, PlaceFits
<1>8. Behind(free_list, 0, i, b, n)
  BY <1>2 DEF Behind
<1>9. Listed(free_list', property', held \ Run(b, n), flagged \cup {b}, 0)
  BY <1>s, <1>1, <1>3, <1>4, <1>7, <1>8, BlockPut
<1>10. Listed(free_list', property', held', flagged', 0)
  BY <1>1, <1>9
<1> QED BY <1>10 DEF Sound

\* list_add_before puts an entry in.
LEMMA ListPut ==
  ASSUME NEW L \in Seq(Page), NEW i \in 1 .. Len(L) + 1, NEW b \in Page
  PROVE  PutIn(L, i, b, InsertAt(L, i, b))
<1> DEFINE t == InsertAt(L, i, b)
<1>1. /\ t \in Seq(Page) /\ Len(t) = Len(L) + 1 /\ t[i] = b
      /\ \A k \in 1 .. i - 1 : t[k] = L[k]
      /\ \A k \in i + 1 .. Len(L) + 1 : t[k] = L[k - 1]
  BY InsertBefore
<1> QED BY <1>1 DEF PutIn

\* A block that comes before another one keeps the list, whichever it merges with,
\* if the entry it is put before has its prev pointer.
LEMMA FreeBeforeLists ==
  ASSUME TypeOK, NEW b \in Page, NEW n \in 1 .. NPAGE, FreeBefore(b, n), ~broken',
         NEW gap, Sound(gap)
  PROVE  Sound(gap)'
<1>s. Listed(free_list, property, held, flagged, gap)
  BY DEF Sound
<1>n. NPAGE \in Nat /\ n \in 0 .. NPAGE /\ n \in Nat
  BY PageAssumption
<1>t. free_list \in Seq(Page) /\ property \in [Page -> 0 .. NPAGE]
  BY DEF TypeOK
<1>1. PICK i \in 1 .. Len(free_list) :
        /\ i = First(Above(b)) /\ b < free_list[i]
        /\ \A j \in 1 .. Len(free_list) : b < free_list[j] => i <= j
  BY PlaceFound DEF FreeBefore
<1>2. Run(b, n) \subseteq held /\ held' = held \ Run(b, n)
  BY DEF FreeBefore, Freed
<1>i. i \in Nat /\ i \in 1 .. Len(free_list) + 1
  BY <1>t
<1>m. Distinct(free_list, property) /\ Apart(free_list, property, b, n)
  BY <1>s, <1>2, EntriesDistinct, Disjoint
<1>v. free_list[i] \in Page /\ b + n <= NPAGE /\ b \in Nat
  BY <1>m DEF Distinct, Apart
<1>p. /\ (i > 1 => ~LowFits(free_list, property, i - 1, b)) \/ gap = 0
           => Before(free_list, property, gap, i, b)
      /\ ~HighFits(free_list, i, b, n) => Behind(free_list, gap, i, b, n)
      /\ Behind(free_list, gap, i + 1, b, n)
  BY <1>s, <1>1, <1>2, <1>i, PlaceFits
<1> DEFINE low == JoinsLow(i, b)
           high == JoinsHigh(i, b, n)
           base == IF low THEN free_list[i - 1] ELSE b
           size == (IF low THEN property[base] ELSE 0) + n
                     + (IF high THEN property[free_list[i]] ELSE 0)
<1>3. /\ free_list' = IF high THEN IF low THEN RemoveAt(free_list, i)
                                          ELSE [free_list EXCEPT ![i] = b]
                      ELSE IF low THEN free_list ELSE InsertAt(free_list, i, b)
      /\ property' = [p \in Page |-> IF p = base THEN size
                                     ELSE IF p = b \/ (high /\ p = free_list[i]) THEN 0
                                     ELSE property[p]]
      /\ flagged' = (flagged \cup {base}) \ (IF high THEN {free_list[i]} ELSE {})
  BY <1>1 DEF FreeBefore
<1>4. /\ low <=> (i > 1 /\ LowFits(free_list, property, i - 1, b))
      /\ high <=> HighFits(free_list, i, b, n)
  BY DEF JoinsLow, JoinsHigh, LowFits, HighFits
<1> HIDE DEF low, high
<1>l. ASSUME low
      PROVE  /\ i - 1 \in 1 .. Len(free_list) /\ (i - 1) + 1 = i /\ i \in 2 .. Len(free_list)
             /\ free_list[i - 1] \in Page /\ free_list[i - 1] \in Nat
             /\ property[free_list[i - 1]] \in 1 .. NPAGE
             /\ free_list[i - 1] + property[free_list[i - 1]] = b
  <2>1. i > 1 /\ LowFits(free_list, property, i - 1, b)
    BY <1>4, <1>l
  <2>2. i - 1 \in 1 .. Len(free_list) /\ (i - 1) + 1 = i /\ i \in 2 .. Len(free_list)
    BY <1>i, <2>1
  <2> QED BY <1>m, <2>1, <2>2 DEF LowFits, Distinct
<1>h. ASSUME high
      PROVE  /\ b + n = free_list[i] /\ property[free_list[i]] \in 1 .. NPAGE
             /\ free_list[i] + property[free_list[i]] <= NPAGE
  <2>1. b + n = free_list[i]
    BY <1>4, <1>h DEF HighFits
  <2>2. /\ property[free_list[i]] \in 1 .. NPAGE
        /\ free_list[i] + property[free_list[i]] <= NPAGE
    BY <1>s, Entry
  <2> QED BY <2>1, <2>2
<1>5. CASE ~low /\ ~high
  <2>1. /\ free_list' = InsertAt(free_list, i, b) /\ flagged' = flagged \cup {b}
        /\ property' = [p \in Page |-> IF p = b THEN n ELSE property[p]]
    <3>1. base = b /\ size = n
      BY <1>n, <1>5
    <3> QED BY <1>3, <1>5, <3>1
  <2>2. PutIn(free_list, i, b, free_list')
    <3>1. PutIn(free_list, i, b, InsertAt(free_list, i, b))
      BY <1>i, <1>t, ListPut
    <3> QED BY <2>1, <3>1
  <2>3. Resized(property, b, n, {}, property')
    BY <1>n, <1>t, <2>1 DEF Resized
  <2>4. Before(free_list, property, gap, i, b) /\ Behind(free_list, gap, i, b, n)
    BY <1>p, <1>4, <1>5
  <2>5. Listed(free_list', property', held \ Run(b, n), flagged \cup {b}, gap)
    BY <1>s, <1>i, <1>2, <2>2, <2>3, <2>4, BlockPut
  <2>6. Listed(free_list', property', held', flagged', gap)
    BY <1>2, <2>1, <2>5
  <2> QED BY <2>6 DEF Sound
<1>6. CASE low /\ ~high
  <2>0. PICK k \in 1 .. Len(free_list) : k = i - 1 /\ k + 1 = i
    BY <1>l, <1>6
  <2>1. /\ free_list' = free_list /\ flagged' = flagged \cup {free_list[k]}
        /\ property' = [p \in Page |-> IF p = free_list[k] THEN property[free_list[k]] + n
                                       ELSE IF p = b THEN 0 ELSE property[p]]
    <3>1. base = free_list[k] /\ size = property[free_list[k]] + n
      BY <1>n, <1>l, <1>6, <2>0
    <3> QED BY <1>3, <1>6, <3>1
  <2>2. property[free_list[k]] + n \in 0 .. NPAGE
    <3>1. PICK x \in Nat, y \in 1 .. NPAGE :
            x = free_list[k] /\ y = property[free_list[k]] /\ x + y = b
      BY <1>l, <1>6, <2>0
    <3>2. y + n \in 0 .. NPAGE
      BY <1>n, <1>v, <3>1
    <3> QED BY <3>1, <3>2
  <2>3. Resized(property, free_list[k], property[free_list[k]] + n, {b}, property')
    <3>1. free_list[k] \in Page
      BY <1>l, <1>6, <2>0
    <3> QED BY <1>n, <1>t, <2>1, <2>2, <3>1 DEF Resized
  <2>4. LowFits(free_list, property, k, b) /\ Behind(free_list, gap, k + 1, b, n)
    BY <1>p, <1>4, <1>6, <2>0
  <2>5. Listed(free_list, property', held \ Run(b, n), flagged \cup {free_list[k]}, gap)
    BY <1>s, <1>2, <2>3, <2>4, JoinedLow
  <2>6. Listed(free_list', property', held', flagged', gap)
    BY <1>2, <2>1, <2>5
  <2> QED BY <2>6 DEF Sound
<1>7. CASE ~low /\ high
  <2>1. /\ free_list' = [free_list EXCEPT ![i] = b]
        /\ flagged' = (flagged \cup {b}) \ {free_list[i]}
        /\ property' = [p \in Page |-> IF p = b THEN n + property[free_list[i]]
                                       ELSE IF p = free_list[i] THEN 0 ELSE property[p]]
    <3>1. base = b /\ size = n + property[free_list[i]]
      BY <1>n, <1>h, <1>7
    <3> QED BY <1>3, <1>7, <3>1
  <2>2. n + property[free_list[i]] \in 0 .. NPAGE
    <3>1. PICK x \in Page, y \in 1 .. NPAGE :
            x = free_list[i] /\ y = property[free_list[i]] /\ b + n = x /\ x + y <= NPAGE
      BY <1>v, <1>h, <1>7
    <3>2. n + y \in 0 .. NPAGE
      BY <1>n, <1>v, <3>1
    <3> QED BY <3>1, <3>2
  <2>3. Resized(property, b, n + property[free_list[i]], {free_list[i]}, property')
    BY <1>n, <1>t, <2>1, <2>2 DEF Resized
  <2>4. HighFits(free_list, i, b, n) /\ Before(free_list, property, gap, i, b)
    BY <1>p, <1>4, <1>7
  <2>5. Instead(free_list, i, b, free_list')
    BY <1>t, <2>1, ExceptSeq DEF Instead
  <2>6. Listed(free_list', property', held \ Run(b, n), (flagged \cup {b}) \ {free_list[i]}, gap)
    BY <1>s, <1>2, <2>3, <2>4, <2>5, JoinedHigh
  <2>7. Listed(free_list', property', held', flagged', gap)
    BY <1>2, <2>1, <2>6
  <2> QED BY <2>7 DEF Sound
<1>8. CASE low /\ high
  <2>1. /\ free_list' = RemoveAt(free_list, i)
        /\ flagged' = (flagged \cup {free_list[i - 1]}) \ {free_list[i]}
        /\ property' = [p \in Page |->
             IF p = free_list[i - 1]
             THEN property[free_list[i - 1]] + n + property[free_list[i]]
             ELSE IF p = b \/ p = free_list[i] THEN 0 ELSE property[p]]
    <3>1. /\ base = free_list[i - 1]
          /\ size = property[free_list[i - 1]] + n + property[free_list[i]]
      BY <1>8
    <3> QED BY <1>3, <1>8, <3>1
  <2>2. property[free_list[i - 1]] + n + property[free_list[i]] \in 0 .. NPAGE
    <3>1. PICK x \in Nat, y \in 1 .. NPAGE :
            x = free_list[i - 1] /\ y = property[free_list[i - 1]] /\ x + y = b
      BY <1>l, <1>8
    <3>2. PICK u \in Page, w \in 1 .. NPAGE :
            u = free_list[i] /\ w = property[free_list[i]] /\ b + n = u /\ u + w <= NPAGE
      BY <1>v, <1>h, <1>8
    <3>3. x + (y + n + w) = (x + y + n) + w /\ x + y + n = u /\ u \in Nat
      <4>1. u \in Nat
        BY <1>n, <3>2 DEF Page
      <4>2. x + (y + n + w) = (x + y + n) + w
        BY <1>n, <3>1, <3>2
      <4> QED BY <3>1, <3>2, <4>1, <4>2
    <3>4. PICK z \in Nat : z = y + n + w
      BY <1>n, <3>1, <3>2
    <3>5. x + z = u + w
      BY <3>3, <3>4
    <3>6. z \in 0 .. NPAGE
      <4>1. x \in Nat /\ x + z <= NPAGE
        BY <3>1, <3>2, <3>5
      <4> QED BY <1>n, <3>4, <4>1
    <3> QED BY <3>1, <3>2, <3>4, <3>6
  <2>3. Resized(property, free_list[i - 1],
                property[free_list[i - 1]] + n + property[free_list[i]],
                {b, free_list[i]}, property')
    <3>1. free_list[i - 1] \in Page
      BY <1>l, <1>8
    <3> QED BY <1>n, <1>t, <2>1, <2>2, <3>1 DEF Resized
  <2>4. LowFits(free_list, property, i - 1, b) /\ HighFits(free_list, i, b, n)
    BY <1>4, <1>8
  <2>5. CutOut(free_list, i, free_list')
    BY <1>t, <2>1, DeleteAt DEF CutOut
  <2>6. Listed(free_list', property', held \ Run(b, n),
               (flagged \cup {free_list[i - 1]}) \ {free_list[i]}, gap)
    <3>1. i \in 2 .. Len(free_list)
      BY <1>l, <1>8
    <3> QED BY <1>s, <1>2, <2>3, <2>4, <2>5, <3>1, JoinedBoth
  <2>7. Listed(free_list', property', held', flagged', gap)
    BY <1>2, <2>1, <2>6
  <2> QED BY <2>7 DEF Sound
<1> QED BY <1>5, <1>6, <1>7, <1>8

\* What else it does: only a lost prev pointer stops it.
LEMMA FreeBeforeRest ==
  ASSUME TypeOK, NEW b \in Page, NEW n \in 1 .. NPAGE, FreeBefore(b, n)
  PROVE  /\ ownPrev' \subseteq ownPrev /\ broken' \in BOOLEAN
         /\ broken' => ownPrev # {} /\ UNCHANGED <<free_list, property, flagged>>
<1> DEFINE v == free_list[First(Above(b))]
<1>1. CASE v \in ownPrev
  BY <1>1 DEF FreeBefore
<1>2. CASE v \notin ownPrev
  <2>1. broken' = broken /\ ownPrev' \subseteq ownPrev
    BY <1>2 DEF FreeBefore
  <2>2. broken = FALSE
    BY DEF FreeBefore, Freed, TypeOK
  <2>3. broken' = FALSE
    BY <2>1, <2>2
  <2>4. broken' \in BOOLEAN /\ ~broken'
    BY <2>3
  <2> QED BY <2>1, <2>4
<1> QED BY <1>1, <1>2

-----------------------------------------------------------------------------
(* The invariant.                                                          *)

\* The marks of a list of blocks are on pages.
LEMMA MarksOnPages ==
  ASSUME NEW L, NEW pr, NEW H, NEW F, NEW gap, Listed(L, pr, H, F, gap)
  PROVE  F \subseteq Page
<1>1. L \in Seq(Page) /\ F = {L[i] : i \in 1 .. Len(L)}
  BY DEF Listed, Marked
<1>2. \A i \in 1 .. Len(L) : L[i] \in Page
  BY <1>1
<1> QED BY <1>1, <1>2

\* page_init hands over one block.
LEMMA InitInv == Init => IInv
<1> SUFFICES ASSUME Init PROVE IInv
  OBVIOUS
<1>n. NPAGE \in Nat \ {0} /\ 0 \in Page
  BY PageAssumption DEF Page
<1>1. /\ free_list = <<0>> /\ ownPrev = {} /\ property = [p \in Page |-> IF p = 0 THEN NPAGE ELSE 0]
      /\ flagged = {0} /\ nr_free = NPAGE /\ held = {} /\ page = NULL
      /\ broken = FALSE /\ spent = FALSE
  BY DEF Init
<1>2. TypeOK
  <2>1. free_list \in Seq(Page) /\ ownPrev \subseteq Page
    BY <1>n, <1>1
  <2>2. property \in [Page -> 0 .. NPAGE] /\ nr_free \in 0 .. NPAGE
    BY <1>n, <1>1
  <2>3. flagged \subseteq Page /\ held \subseteq Page /\ page \in Page \cup {NULL}
    BY <1>n, <1>1
  <2>4. broken \in BOOLEAN /\ spent \in BOOLEAN
    BY <1>1
  <2> QED BY <2>1, <2>2, <2>3, <2>4 DEF TypeOK
<1>3. Len(free_list) = 1 /\ free_list[1] = 0 /\ 1 .. Len(free_list) = {1}
  BY <1>1
<1>4. Ends(free_list, property)[1] = NPAGE
  <2>1. Ends(free_list, property)[1] = free_list[1] + property[free_list[1]]
    BY <1>3 DEF Ends
  <2>2. property[0] = NPAGE
    BY <1>n, <1>1
  <2> QED BY <1>n, <1>3, <2>1, <2>2
<1>5. Marked(free_list, flagged)
  BY <1>1, <1>3 DEF Marked
<1>6. ASSUME NEW gap \in {0, 1} PROVE Sound(gap)
  <2>1. Extents(Len(free_list), free_list, Ends(free_list, property), gap)
    BY <1>n, <1>3, <1>4 DEF Extents
  <2>2. Covers(Len(free_list), free_list, Ends(free_list, property), held)
    <3> SUFFICES ASSUME NEW p \in Page
                 PROVE  \E i \in 1 .. Len(free_list) :
                          free_list[i] <= p /\ p < Ends(free_list, property)[i]
      BY <1>1 DEF Covers
    <3>1. 0 <= p /\ p < NPAGE
      BY <1>n DEF Page
    <3> QED BY <1>3, <1>4, <3>1
  <2> QED BY <1>2, <1>5, <2>1, <2>2 DEF Sound, Listed, Blocks, TypeOK
<1>7. CountExact
  <2>1. Page = 0 .. NPAGE - 1 /\ Cardinality(0 .. NPAGE - 1) = NPAGE
    BY <1>n, FS_Interval DEF Page
  <2> QED BY <1>1, <2>1 DEF CountExact
<1>8. NPAGE - 1 \notin held
  BY <1>1
<1> QED BY <1>1, <1>2, <1>6, <1>7, <1>8 DEF IInv, Exact, Merged

\* alloc_pages keeps it when it gives pages out,
LEMMA AllocInv ==
  ASSUME IInv, NEW n \in 1 .. NPAGE, AllocBlock(n)
  PROVE  IInv'
<1>n. NPAGE \in Nat /\ n \in Nat
  BY PageAssumption
<1>1. TypeOK /\ ~broken /\ Sound(0) /\ CountExact /\ (~spent => Merged)
  BY DEF IInv, Exact, AllocBlock
<1>2. /\ page' \in Page /\ held' = held \cup Run(page', n)
      /\ Run(page', n) \subseteq Page \ held
      /\ nr_free' \in 0 .. NPAGE /\ nr_free' = Cardinality(Page \ held')
  BY <1>1, AllocCounts
<1>3. PICK i \in 1 .. Len(free_list) : i = First(Fit(n)) /\ property[free_list[i]] >= n
  BY <1>1, BlockFound DEF AllocBlock
<1>4. PICK b \in Page : b = free_list[i]
  BY <1>1 DEF TypeOK
<1>5. /\ page' = b /\ spent' = (spent \/ NPAGE - 1 \in Run(b, n))
      /\ broken' = (b \in ownPrev) /\ ownPrev' = ownPrev \ EntryAt(i + 1)
      /\ free_list' = Rest(i, b, n) /\ flagged' = RestMarked(b, n)
      /\ property' = [p \in Page |->
           IF p = b + n /\ property[b] > n THEN property[b] - n
           ELSE IF p = b /\ b \notin ownPrev THEN 0 ELSE property[p]]
  BY <1>3, <1>4 DEF AllocBlock
<1>6. /\ ownPrev' \subseteq Page /\ broken' \in BOOLEAN /\ spent' \in BOOLEAN
      /\ held' \subseteq Page
  BY <1>1, <1>2, <1>5 DEF TypeOK
<1>7. CASE broken'
  <2>1. b \in ownPrev
    BY <1>5, <1>7
  <2>2. property \in [Page -> 0 .. NPAGE] /\ free_list \in Seq(Page) /\ flagged \subseteq Page
    BY <1>1 DEF TypeOK
  <2>3. property[b] > n => b + n \in Page /\ property[b] - n \in 0 .. NPAGE
    <3>1. Listed(free_list, property, held, flagged, 0)
      BY <1>1 DEF Sound
    <3>2. b \in Nat /\ property[b] \in 1 .. NPAGE /\ b + property[b] <= NPAGE
      BY <1>4, <3>1, Entry
    <3>3. PICK y \in 1 .. NPAGE : y = property[b] /\ b + y <= NPAGE
      BY <3>2
    <3>4. y > n => b + n \in Page /\ y - n \in 0 .. NPAGE
      BY <1>n, <3>2, <3>3 DEF Page
    <3> QED BY <3>3, <3>4
  <2>4. property' \in [Page -> 0 .. NPAGE]
    <3>1. 0 \in 0 .. NPAGE
      BY <1>n
    <3>2. \A p \in Page : property[p] \in 0 .. NPAGE
      BY <2>2
    <3> QED BY <1>5, <2>3, <3>1, <3>2
  <2>5. flagged' \subseteq Page
    BY <1>5, <2>2, <2>3 DEF RestMarked
  <2>6. free_list' \in Seq(Page)
    <3>1. CASE property[b] > n
      <4>1. free_list' = InsertAt(free_list, i + 1, b + n)
        BY <1>5, <2>1, <3>1 DEF Rest
      <4>2. b + n \in Page /\ i + 1 \in 1 .. Len(free_list) + 1
        BY <2>2, <2>3, <3>1
      <4>3. PutIn(free_list, i + 1, b + n, InsertAt(free_list, i + 1, b + n))
        BY <2>2, <4>2, ListPut
      <4> QED BY <4>1, <4>3 DEF PutIn
    <3>2. CASE ~(property[b] > n)
      <4>1. free_list' = free_list
        BY <1>5, <2>1, <3>2 DEF Rest
      <4> QED BY <2>2, <4>1
    <3> QED BY <3>1, <3>2
  <2>7. TypeOK'
    BY <1>2, <1>6, <2>4, <2>5, <2>6 DEF TypeOK
  <2>8. spent
    BY <1>1, <2>1 DEF Merged
  <2> QED BY <1>5, <1>7, <2>7, <2>8 DEF IInv
<1>8. CASE ~broken'
  <2>1. Sound(0)'
    BY <1>1, <1>8, AllocLists
  <2>2. /\ free_list' \in Seq(Page) /\ property' \in [Page -> 0 .. NPAGE]
        /\ Listed(free_list', property', held', flagged', 0)
    BY <2>1 DEF Sound, Listed
  <2>3. flagged' \subseteq Page
    BY <2>2, MarksOnPages
  <2>4. TypeOK'
    BY <1>2, <1>6, <2>2, <2>3 DEF TypeOK
  <2>5. CountExact'
    BY <1>2 DEF CountExact
  <2>6. ASSUME ~spent' PROVE Merged'
    <3>1. ~spent /\ NPAGE - 1 \notin Run(b, n)
      BY <1>5, <2>6
    <3>2. Merged
      BY <1>1, <3>1
    <3>3. Sound(1)'
      BY <1>1, <1>8, <3>2, AllocLists DEF Merged
    <3>4. ownPrev' = {} /\ (NPAGE - 1 \notin held')
      BY <1>2, <1>5, <3>1, <3>2 DEF Merged
    <3> QED BY <1>8, <3>3, <3>4 DEF Merged
  <2> QED BY <2>1, <2>4, <2>5, <2>6 DEF IInv, Exact
<1> QED BY <1>7, <1>8

\* No block comes last while the last page has always been free.
LEMMA NeverLast ==
  ASSUME TypeOK, Sound(1), NPAGE - 1 \notin held, NEW b \in Page, NEW n \in 1 .. NPAGE,
         Run(b, n) \subseteq held
  PROVE  Above(b) # {}
<1> SUFFICES ASSUME Above(b) = {} PROVE FALSE
  OBVIOUS
<1>n. NPAGE \in Nat \ {0} /\ b \in Nat /\ b <= NPAGE - 1
  BY PageAssumption DEF Page
<1>1. Listed(free_list, property, held, flagged, 1)
  BY DEF Sound
<1>2. NPAGE - 1 \in Page
  BY <1>n DEF Page
<1>3. PICK i \in 1 .. Len(free_list) :
        free_list[i] <= NPAGE - 1 /\ NPAGE - 1 < Ends(free_list, property)[i]
  BY <1>1, <1>2 DEF Listed, Blocks, Covers
<1>4. /\ free_list[i] \in Nat /\ property[free_list[i]] \in 1 .. NPAGE
      /\ Ends(free_list, property)[i] = free_list[i] + property[free_list[i]]
  BY <1>1, Entry
<1>5. ~(b < free_list[i])
  BY DEF Above, TypeOK
<1>6. Apart(free_list, property, b, n)
  BY <1>1, Disjoint
<1>7. free_list[i] + property[free_list[i]] <= b
  BY <1>n, <1>4, <1>5, <1>6 DEF Apart
<1>8. PICK x \in Nat : x = free_list[i] + property[free_list[i]]
  BY <1>n, <1>4
<1> QED BY <1>n, <1>3, <1>4, <1>7, <1>8

\* and free_pages keeps it.
LEMMA FreeInv ==
  ASSUME IInv, NEW b \in Page, NEW n \in 1 .. NPAGE, FreePages(b, n)
  PROVE  IInv'
<1>1. TypeOK /\ ~broken /\ Sound(0) /\ CountExact /\ (~spent => Merged)
  BY DEF IInv, Exact, FreePages, FreeFirst, FreeLast, FreeBefore, Freed
<1>2. /\ Run(b, n) \subseteq held /\ held' = held \ Run(b, n) /\ nr_free' = nr_free + n
      /\ page' = page /\ spent' = spent
  BY DEF FreePages, FreeFirst, FreeLast, FreeBefore, Freed
<1>3. CountExact' /\ nr_free' \in 0 .. NPAGE
  <2>1. held \in SUBSET Page
    BY <1>1 DEF TypeOK
  <2>2. /\ Cardinality(Page \ (held \ Run(b, n))) = Cardinality(Page \ held) + n
        /\ Cardinality(Page \ (held \ Run(b, n))) \in 0 .. NPAGE
    BY <1>2, <2>1, CountReturned
  <2>3. nr_free' = Cardinality(Page \ held')
    BY <1>1, <1>2, <2>2 DEF CountExact
  <2> QED BY <1>2, <2>2, <2>3 DEF CountExact
<1>4. held' \subseteq Page /\ page' \in Page \cup {NULL} /\ spent' \in BOOLEAN
  BY <1>1, <1>2 DEF TypeOK
<1>5. ownPrev' \subseteq Page /\ broken' \in BOOLEAN
  <2>1. CASE FreeFirst(b, n)
    BY <1>1, <2>1 DEF FreeFirst, TypeOK
  <2>2. CASE FreeLast(b, n)
    BY <1>1, <2>2 DEF FreeLast, TypeOK
  <2>3. CASE FreeBefore(b, n)
    <3>1. ownPrev' \subseteq ownPrev /\ broken' \in BOOLEAN
      BY <1>1, <2>3, FreeBeforeRest
    <3> QED BY <1>1, <3>1 DEF TypeOK
  <2> QED BY <2>1, <2>2, <2>3 DEF FreePages
<1>6. CASE broken'
  <2>1. FreeBefore(b, n)
    BY <1>1, <1>6 DEF FreePages, FreeFirst, FreeLast
  <2>2. ownPrev # {} /\ UNCHANGED <<free_list, property, flagged>>
    BY <1>1, <1>6, <2>1, FreeBeforeRest
  <2>3. TypeOK'
    BY <1>1, <1>3, <1>4, <1>5, <2>2 DEF TypeOK
  <2>4. spent'
    BY <1>1, <1>2, <2>2 DEF Merged
  <2> QED BY <1>6, <2>3, <2>4 DEF IInv
<1>7. CASE ~broken'
  <2>1. Sound(0)'
    <3>1. CASE FreeFirst(b, n)
      BY <1>1, <3>1, FreeFirstLists
    <3>2. CASE FreeLast(b, n)
      BY <1>1, <3>2, FreeLastLists
    <3>3. CASE FreeBefore(b, n)
      BY <1>1, <1>7, <3>3, FreeBeforeLists
    <3> QED BY <3>1, <3>2, <3>3 DEF FreePages
  <2>2. /\ free_list' \in Seq(Page) /\ property' \in [Page -> 0 .. NPAGE]
        /\ Listed(free_list', property', held', flagged', 0)
    BY <2>1 DEF Sound, Listed
  <2>3. flagged' \subseteq Page
    BY <2>2, MarksOnPages
  <2>4. TypeOK'
    BY <1>3, <1>4, <1>5, <2>2, <2>3 DEF TypeOK
  <2>5. ASSUME ~spent' PROVE Merged'
    <3>1. Merged /\ Sound(1) /\ ownPrev = {} /\ (NPAGE - 1 \notin held)
      BY <1>1, <1>2, <2>5 DEF Merged
    <3>2. Above(b) # {}
      BY <1>1, <1>2, <3>1, NeverLast
    <3>3. CASE FreeFirst(b, n)
      <4>1. Sound(1)'
        BY <1>1, <3>1, <3>3, FreeFirstLists
      <4>2. ownPrev' = {}
        BY <3>1, <3>3 DEF FreeFirst
      <4> QED BY <1>2, <1>7, <3>1, <4>1, <4>2 DEF Merged
    <3>4. CASE FreeLast(b, n)
      BY <3>2, <3>4 DEF FreeLast
    <3>5. CASE FreeBefore(b, n)
      <4>1. Sound(1)'
        BY <1>1, <1>7, <3>1, <3>5, FreeBeforeLists
      <4>2. ownPrev' = {}
        BY <1>1, <3>1, <3>5, FreeBeforeRest
      <4> QED BY <1>2, <1>7, <3>1, <4>1, <4>2 DEF Merged
    <3> QED BY <3>3, <3>4, <3>5 DEF FreePages
  <2> QED BY <1>3, <2>1, <2>4, <2>5 DEF IInv, Exact
<1> QED BY <1>6, <1>7

\* A request that is refused changes only the answer.
LEMMA RefusedInv ==
  ASSUME IInv, NEW n \in 1 .. NPAGE, AllocFails(n)
  PROVE  IInv'
<1>1. /\ page' = NULL
      /\ UNCHANGED <<free_list, ownPrev, property, flagged, nr_free, held, broken, spent>>
  BY DEF AllocFails
<1>2. TypeOK'
  BY <1>1 DEF IInv, TypeOK
<1>3. Sound(0) => Sound(0)'
  BY <1>1 DEF Sound
<1>4. Sound(1) => Sound(1)'
  BY <1>1 DEF Sound
<1>5. CountExact => CountExact'
  BY <1>1 DEF CountExact
<1> QED BY <1>1, <1>2, <1>3, <1>4, <1>5 DEF IInv, Exact, Merged

\* The types, the list and the count, at every step: what the theorems below rest on.
THEOREM Invariant == Spec => []IInv
<1>1. IInv /\ [Next]_vars => IInv'
  <2> SUFFICES ASSUME IInv, [Next]_vars PROVE IInv'
    OBVIOUS
  <2>1. ASSUME NEW n \in 1 .. NPAGE, AllocBlock(n) PROVE IInv'
    BY <2>1, AllocInv
  <2>2. ASSUME NEW n \in 1 .. NPAGE, AllocFails(n) PROVE IInv'
    BY <2>2, RefusedInv
  <2>3. ASSUME NEW n \in 1 .. NPAGE, NEW b \in Page, FreePages(b, n) PROVE IInv'
    BY <2>3, FreeInv
  <2>4. CASE UNCHANGED vars
    <3>1. TypeOK' /\ (Sound(0) => Sound(0)') /\ (Sound(1) => Sound(1)')
      BY <2>4 DEF vars, IInv, TypeOK, Sound
    <3>2. CountExact => CountExact'
      BY <2>4 DEF vars, CountExact
    <3> QED BY <2>4, <3>1, <3>2 DEF vars, IInv, Exact, Merged
  <2> QED BY <2>1, <2>2, <2>3, <2>4 DEF Next, AllocPages, Stopped
<1> QED BY <1>1, InitInv, PTL DEF Spec

\* Until a lost prev pointer is followed, PG_property marks the entries, every page
\* is in one block or given out, and nr_free counts the free ones; and while the
\* last page has always been free, blocks that touch are merged.
THEOREM BlocksCorrect == Spec => []BlocksOK
<1>1. IInv => BlocksOK
  <2> SUFFICES ASSUME IInv PROVE BlocksOK
    OBVIOUS
  <2>n. NPAGE \in Nat
    BY PageAssumption
  <2>1. TypeOK /\ DOMAIN free_list = 1 .. Len(free_list)
    BY DEF IInv, TypeOK
  <2>2. ASSUME ~broken PROVE SoundUntilBroken
    <3>1. Listed(free_list, property, held, flagged, 0) /\ CountExact
      BY <2>2 DEF IInv, Exact, Sound
    <3>2. EntriesAreHeads
      BY <2>1, <3>1 DEF EntriesAreHeads, Listed, Marked
    <3>3. FreePagesListed
      <4>1. ASSUME NEW p \in Page \ held
            PROVE  \E i \in DOMAIN free_list : p \in Run(free_list[i], property[free_list[i]])
        <5>1. PICK i \in 1 .. Len(free_list) :
                free_list[i] <= p /\ p < Ends(free_list, property)[i]
          BY <3>1 DEF Listed, Blocks, Covers
        <5>2. /\ free_list[i] \in Nat /\ property[free_list[i]] \in 1 .. NPAGE
              /\ Ends(free_list, property)[i] = free_list[i] + property[free_list[i]]
          BY <3>1, Entry
        <5>3. p \in Run(free_list[i], property[free_list[i]])
          BY <2>n, <5>1, <5>2 DEF Page, Run
        <5> QED BY <2>1, <5>3
      <4>2. ASSUME NEW i \in DOMAIN free_list,
                   NEW p \in Run(free_list[i], property[free_list[i]])
            PROVE  p \in Page \ held
        <5>0. i \in 1 .. Len(free_list)
          BY <2>1
        <5>1. /\ free_list[i] \in Nat /\ property[free_list[i]] \in 1 .. NPAGE
              /\ Ends(free_list, property)[i] = free_list[i] + property[free_list[i]]
              /\ free_list[i] + property[free_list[i]] <= NPAGE
          BY <3>1, <5>0, Entry
        <5>2. p \in Page /\ free_list[i] <= p /\ p < Ends(free_list, property)[i]
          BY <2>n, <5>1 DEF Page, Run
        <5> QED BY <3>1, <5>0, <5>2 DEF Listed, Blocks, Covers
      <4> QED BY <4>1, <4>2 DEF FreePagesListed
    <3>4. ASSUME NEW i \in DOMAIN free_list, NEW j \in DOMAIN free_list, i < j
          PROVE  free_list[i] + property[free_list[i]] <= free_list[j]
      <4>1. free_list[i] + property[free_list[i]] + 0 <= free_list[j]
        BY <2>1, <3>1, <3>4, InOrder
      <4>2. free_list[i] \in Nat /\ property[free_list[i]] \in Nat
        BY <2>n, <2>1, <3>1, Entry
      <4> QED BY <4>1, <4>2
    <3> QED BY <3>1, <3>2, <3>3, <3>4 DEF SoundUntilBroken
  <2>3. ASSUME ~spent PROVE ownPrev = {} /\ ~broken /\ BlocksApart
    <3>1. Listed(free_list, property, held, flagged, 1) /\ ownPrev = {} /\ ~broken
      BY <2>3 DEF IInv, Merged, Sound
    <3>2. ASSUME NEW i \in DOMAIN free_list, NEW j \in DOMAIN free_list, i < j
          PROVE  free_list[i] + property[free_list[i]] < free_list[j]
      <4>1. free_list[i] + property[free_list[i]] + 1 <= free_list[j]
        BY <2>1, <3>1, <3>2, InOrder
      <4>2. /\ free_list[i] \in Nat /\ property[free_list[i]] \in Nat
            /\ free_list[j] \in Nat
        BY <2>n, <2>1, <3>1, Entry
      <4> QED BY <4>1, <4>2
    <3> QED BY <3>1, <3>2 DEF BlocksApart
  <2>4. SoundUntilBroken
    BY <2>2 DEF SoundUntilBroken
  <2> QED BY <2>1, <2>3, <2>4 DEF BlocksOK, MergedUntilSpent
<1> QED BY <1>1, Invariant, PTL

-----------------------------------------------------------------------------
(* First fit is lowest.                                                    *)

\* When blocks that touch are merged, pages that follow one another and are free lie
\* in one block.
LEMMA RunInBlock ==
  ASSUME TypeOK, Sound(1), NEW n \in 1 .. NPAGE, NEW c \in Page,
         Run(c, n) \subseteq Page \ held
  PROVE  \E k \in 1 .. Len(free_list) : free_list[k] <= c /\ property[free_list[k]] >= n
<1>n. NPAGE \in Nat /\ n \in Nat /\ c \in Nat
  BY PageAssumption DEF Page
<1>1. Listed(free_list, property, held, flagged, 1)
  BY DEF Sound
<1>2. c \in Page \ held
  BY <1>n DEF Run
<1>3. \A p \in Page \ held : \E k \in 1 .. Len(free_list) :
        free_list[k] <= p /\ p < Ends(free_list, property)[k]
  BY <1>1 DEF Listed, Blocks, Covers
<1>4. PICK k \in 1 .. Len(free_list) : free_list[k] <= c /\ c < Ends(free_list, property)[k]
  BY <1>2, <1>3
<1>5. \A j \in 1 .. Len(free_list) :
        /\ free_list[j] \in Nat /\ property[free_list[j]] \in 1 .. NPAGE
        /\ Ends(free_list, property)[j] = free_list[j] + property[free_list[j]]
  BY <1>1, EntriesDistinct DEF Distinct
<1>6. PICK x \in Nat, y \in 1 .. NPAGE :
        /\ x = free_list[k] /\ y = property[free_list[k]]
        /\ Ends(free_list, property)[k] = x + y /\ x <= c /\ c < x + y
  BY <1>4, <1>5
<1>7. c + n <= x + y
  <2> SUFFICES ASSUME x + y < c + n PROVE FALSE
    BY <1>n, <1>6
  <2>1. x + y \in Run(c, n)
    BY <1>n, <1>6 DEF Run
  <2>2. PICK m \in 1 .. Len(free_list) :
          free_list[m] <= x + y /\ x + y < Ends(free_list, property)[m]
    BY <1>3, <2>1
  <2>3. PICK u \in Nat, w \in 1 .. NPAGE :
          /\ u = free_list[m] /\ w = property[free_list[m]]
          /\ Ends(free_list, property)[m] = u + w /\ u <= x + y /\ x + y < u + w
    BY <1>5, <2>2
  <2>4. /\ k < m => x + y + 1 <= u
        /\ m < k => u + w + 1 <= x
        /\ k = m => x = u /\ y = w
    BY <1>1, <1>6, <2>3, InOrder
  <2>5. k < m \/ m < k \/ k = m
    OBVIOUS
  <2>6. y \in Nat /\ w \in Nat
    BY <1>n
  <2>8. u <= x + y /\ x + y < u + w
    BY <2>3, Zenon
  <2>7. x + y + 1 <= u \/ u + w + 1 <= x \/ (x = u /\ y = w)
    BY <2>4, <2>5
  <2> QED BY <2>6, <2>7, <2>8
<1>8. y >= n
  BY <1>n, <1>6, <1>7
<1> QED BY <1>6, <1>8

\* While the last page has always been free, alloc_pages gives the lowest pages that
\* fit and refuses a request only when there are none, and free_pages takes back
\* what was given: every step is one of PagePool.
THEOREM LowestServed == Spec => ServesLowest
<1>1. IInv /\ [Next]_vars => [~spent' => Pool!Next]_<<held, page>>
  <2> SUFFICES ASSUME IInv, [Next]_vars, ~spent', UNCHANGED vars \/ Next
               PROVE  Pool!Next \/ UNCHANGED <<held, page>>
    OBVIOUS
  <2>n. NPAGE \in Nat
    BY PageAssumption
  <2>d. /\ Page = Pool!Page /\ \A b, n : Run(b, n) = Pool!Run(b, n)
        /\ \A n : Pool!FreeRuns(n) = {b \in Page : Run(b, n) \subseteq Page \ held}
    BY DEF Page, Pool!Page, Run, Pool!Run, Pool!FreeRuns
  <2>1. ASSUME NEW n \in 1 .. NPAGE, AllocBlock(n) PROVE Pool!Alloc(n)
    <3>1. ~spent
      BY <2>1 DEF AllocBlock
    <3>2. TypeOK /\ Sound(0) /\ CountExact /\ Sound(1)
      BY <2>1, <3>1 DEF IInv, Exact, Merged, AllocBlock
    <3>3. /\ page' \in Page /\ held' = held \cup Run(page', n)
          /\ Run(page', n) \subseteq Page \ held
      BY <2>1, <3>2, AllocCounts
    <3>4. page' \in Pool!FreeRuns(n)
      BY <2>d, <3>3
    <3>5. ASSUME NEW c \in Pool!FreeRuns(n) PROVE page' <= c
      <4>1. c \in Page /\ Run(c, n) \subseteq Page \ held
        BY <2>d
      <4>2. PICK k \in 1 .. Len(free_list) :
              free_list[k] <= c /\ property[free_list[k]] >= n
        BY <3>2, <4>1, RunInBlock
      <4>3. PICK i \in 1 .. Len(free_list) : i = First(Fit(n)) /\ i <= k
        BY <2>1, <3>2, <4>2, BlockFound DEF AllocBlock
      <4>4. page' = free_list[i]
        BY <2>1, <4>3 DEF AllocBlock
      <4>5. Listed(free_list, property, held, flagged, 1)
        BY <3>2 DEF Sound
      <4>6. free_list[i] \in Nat /\ free_list[k] \in Nat /\ c \in Nat
        BY <2>n, <4>1, <4>5, Entry DEF Page
      <4>7. (i < k => free_list[i] < free_list[k]) /\ (i = k => free_list[i] = free_list[k])
        BY <4>5, InOrder
      <4> QED BY <4>2, <4>3, <4>4, <4>6, <4>7
    <3> QED BY <2>d, <3>3, <3>4, <3>5 DEF Pool!Alloc
  <2>2. ASSUME NEW n \in 1 .. NPAGE, AllocFails(n) PROVE Pool!Alloc(n)
    <3>1. ~spent /\ page' = NULL /\ held' = held /\ (n > nr_free \/ Fit(n) = {})
      BY <2>2 DEF AllocFails
    <3>2. TypeOK /\ Sound(1) /\ CountExact
      BY <3>1 DEF IInv, Exact, Merged
    <3>3. ASSUME NEW c \in Pool!FreeRuns(n) PROVE FALSE
      <4>1. c \in Page /\ Run(c, n) \subseteq Page \ held
        BY <2>d
      <4>2. n <= Cardinality(Page \ held) /\ nr_free = Cardinality(Page \ held)
        BY <3>2, <4>1, CountTaken DEF TypeOK, CountExact
      <4>3. PICK k \in 1 .. Len(free_list) :
              free_list[k] <= c /\ property[free_list[k]] >= n
        BY <3>2, <4>1, RunInBlock
      <4>4. k \in Fit(n)
        BY <3>2, <4>3 DEF Fit, TypeOK
      <4>5. nr_free \in Nat /\ n \in Nat
        BY <2>n, <3>2 DEF TypeOK
      <4> QED BY <3>1, <4>2, <4>4, <4>5
    <3>4. Pool!FreeRuns(n) = {}
      BY <3>3
    <3> QED BY <3>1, <3>4 DEF Pool!Alloc
  <2>3. ASSUME NEW n \in 1 .. NPAGE, NEW b \in Page, FreePages(b, n) PROVE Pool!Free(b, n)
    <3>1. Run(b, n) \subseteq held /\ held' = held \ Run(b, n) /\ page' = page
      BY <2>3 DEF FreePages, FreeFirst, FreeLast, FreeBefore, Freed
    <3> QED BY <2>d, <3>1 DEF Pool!Free
  <2>4. CASE UNCHANGED vars
    BY <2>4 DEF vars
  <2>5. CASE Next
    <3>1. CASE Stopped
      BY <3>1 DEF Stopped, vars
    <3>2. ASSUME NEW n \in 1 .. NPAGE, AllocPages(n) PROVE Pool!Next
      BY <2>1, <2>2, <3>2 DEF AllocPages, Pool!Next
    <3>3. ASSUME NEW n \in 1 .. NPAGE, NEW b \in Page, FreePages(b, n) PROVE Pool!Next
      BY <2>3, <2>d, <3>3 DEF Pool!Next
    <3> QED BY <2>5, <3>1, <3>2, <3>3 DEF Next
  <2> QED BY <2>4, <2>5
<1> QED BY <1>1, Invariant, PTL DEF Spec, ServesLowest
=============================================================================
