-------------------------------- MODULE Slob --------------------------------
(***************************************************************************)
(* The kernel heap of kern/mm/kmalloc.c: kmalloc and kfree, with the SLOB  *)
(* allocator for objects smaller than a page and whole pages for others.   *)
(* The kernel is not preempted, so each call is one step.                  *)
(*                                                                         *)
(* Memory is counted in cells of SLOB_UNIT bytes from the first page on.   *)
(* The free blocks form a circle; heap.circle lists it from slobfree on.   *)
(* heap.units is the first field of a block's header: its length, and the  *)
(* order where the block is the record of a big object (bigblock_t begins  *)
(* with it).  In a cell that begins no block the field is never read, and  *)
(* is 0 here.                                                              *)
(***************************************************************************)
EXTENDS Integers, Sequences, FiniteSetsExt, SequencesExt

CONSTANTS NPAGE,      \* the number of pages that alloc_pages may answer with
          SLOB_UNIT,  \* bytes in a cell: sizeof(slob_t)
          PageUnits,  \* cells in a page
          Sizes       \* the bytes that kmalloc is asked for

ASSUME HeapAssumption ==
  /\ NPAGE \in Nat /\ SLOB_UNIT \in Nat \ {0}
  /\ PageUnits \in Nat /\ PageUnits > 3 /\ Sizes \subseteq Nat \ {0}

VARIABLES
  heap,       \* the circle of free blocks, and the headers
  grown,      \* the pages that slob_alloc has taken, which it never gives back
  bigblocks,  \* the records of the objects that have whole pages
  asked,      \* the objects in use, with the bytes that were asked for
  panicked    \* the assertion of slob_alloc has failed

vars == <<heap, grown, bigblocks, asked, panicked>>

PAGE_SIZE == PageUnits * SLOB_UNIT
RecordUnits == 2  \* SLOB_UNITS(sizeof(bigblock_t)): 24 bytes in cells of 16

\* arena is a variable of the kernel: it lies below all pages, and touches none.
arena == -2
Cell == 0 .. NPAGE * PageUnits - 1
Run(b, n) == b .. b + n - 1
SLOB_UNITS(size) == (size + SLOB_UNIT - 1) \div SLOB_UNIT

-----------------------------------------------------------------------------
(* Pages, as alloc_pages gives them: whichever are consecutive and not in  *)
(* use here.  Others hold pages too, so it may also refuse.                *)

InUse(g) == g \cup UNION {Run(r.pages, 2 ^ r.order) : r \in bigblocks}
FreeRuns(g, order) ==
  {p \in 0 .. NPAGE - 1 : Run(p, 2 ^ order) \subseteq (0 .. NPAGE - 1) \ InUse(g)}

\* How often the size is halved until it is no more than a page: the bits that
\* are shifted out do not count.  Fault: no more than two pages.
find_lower_order(size) == Min({k \in 0 .. size : size \div 2 ^ k <= 2 * PAGE_SIZE})
find_order(size) == Min({k \in 0 .. size : size \div 2 ^ k <= PAGE_SIZE})

-----------------------------------------------------------------------------
(* The circle                                                              *)

\* The circle from its i-th block on.
From(circle, i) == SubSeq(circle, i, Len(circle)) \o SubSeq(circle, 1, i - 1)
NextOf(circle, i) == circle[(i % Len(circle)) + 1]

\* slob_free looks for the block after which b belongs: one below b with one
\* above b behind it, or the last of them where the circle wraps round.
Belongs(circle, i, b) ==
  \/ circle[i] < b /\ b < NextOf(circle, i)
  \/ circle[i] >= NextOf(circle, i) /\ (circle[i] < b \/ b < NextOf(circle, i))

\* Whether b ends where the next block begins.
Touches(b, n, next) == b + n = next

\* slob_free(b, n * SLOB_UNIT); with n = 0 the header has the length.
Freed(h, b, n) ==
  LET i == Min({j \in DOMAIN h.circle : Belongs(h.circle, j, b)})
      c == From(h.circle, i)
      cur == c[1]
      next == NextOf(c, 1)
      size == IF n = 0 THEN h.units[b] ELSE n
      high == Touches(b, size, next)
      low == cur + h.units[cur] = b
      total == size + (IF high THEN h.units[next] ELSE 0)
      others == IF high THEN SubSeq(c, 3, Len(c)) ELSE Tail(c)
  IN  [circle |-> (IF low THEN <<cur>> ELSE <<cur, b>>) \o others,
       units |-> [a \in DOMAIN h.units |->
                    IF a = cur /\ low THEN h.units[cur] + total
                    ELSE IF a = b THEN IF low THEN 0 ELSE total
                    ELSE IF a = next /\ high THEN 0
                    ELSE h.units[a]]]

\* The blocks that slob_alloc finds large enough, by the place of the one
\* before: the search begins behind slobfree and ends with it.
Fit(h, n) == {i \in DOMAIN h.circle : h.units[NextOf(h.circle, i)] >= n}

\* The block is cut off the low end of the one that fits.
Rest(h, b, n) == IF h.units[b] = n THEN <<>> ELSE <<b + n>>

Found(h, n) == NextOf(h.circle, Min(Fit(h, n)))
Taken(h, n) ==
  LET c == From(h.circle, Min(Fit(h, n)))
      b == c[2]
  IN  [circle |-> <<c[1]>> \o Rest(h, b, n) \o SubSeq(c, 3, Len(c)),
       units |-> [a \in DOMAIN h.units |-> IF a = b THEN n
                                           ELSE IF a \in ToSet(Rest(h, b, n)) THEN h.units[b] - n
                                           ELSE h.units[a]]]

\* slob_alloc of n cells: the answers it may give, with what it leaves behind.
\* Without a block that fits it frees a new page into the circle and searches
\* again; a page is always enough.
Answer(h, g, b) == [heap |-> h, grown |-> g, block |-> {b}]
Refusal == [heap |-> heap, grown |-> grown, block |-> {}]
slob_alloc(n) ==
  IF Fit(heap, n) # {} THEN {Answer(Taken(heap, n), grown, Found(heap, n))}
  ELSE {Refusal} \cup
       {LET h == Freed(heap, p * PageUnits, PageUnits)
        IN  Answer(Taken(h, n), grown \cup {p}, Found(h, n)) : p \in FreeRuns(grown, 0)}

-----------------------------------------------------------------------------
(* kmalloc and kfree                                                       *)

Small(size) == size < PAGE_SIZE - SLOB_UNIT
TooLarge(size) == size + SLOB_UNIT >= PAGE_SIZE

\* kmalloc answers with an object, if any.
Asked(given, size) ==
  [b \in DOMAIN asked \cup given |-> IF b \in given THEN size ELSE asked[b]]

\* The assertion of slob_alloc counts the header once more than __kmalloc does.
KmallocPanics(size) ==
  /\ Small(size) /\ TooLarge(size + SLOB_UNIT)
  /\ panicked' = TRUE
  /\ UNCHANGED <<heap, grown, bigblocks, asked>>

\* The object follows a header of one cell.
KmallocSmall(size) ==
  /\ Small(size) /\ ~TooLarge(size + SLOB_UNIT)
  /\ \E r \in slob_alloc(SLOB_UNITS(size + SLOB_UNIT)) :
       /\ heap' = r.heap /\ grown' = r.grown
       /\ asked' = Asked({a + 1 : a \in r.block}, size)
  /\ UNCHANGED <<bigblocks, panicked>>

\* Of the record when the pages are refused.  Fault: it is kept.
RecordKept(h, b) == h
RecordFreed(h, b) == Freed(h, b, RecordUnits)

KmallocBig(size) ==
  /\ ~Small(size)
  /\ \E r \in slob_alloc(RecordUnits) :
       /\ grown' = r.grown
       /\ \/ /\ r.block = {}
             /\ heap' = r.heap /\ UNCHANGED <<bigblocks, asked>>
          \/ \E b \in r.block, p \in FreeRuns(r.grown, find_order(size)) :
               /\ heap' = [r.heap EXCEPT !.units[b] = find_order(size)]
               /\ bigblocks' = bigblocks \cup
                    {[order |-> find_order(size), pages |-> p, bb |-> b]}
               /\ asked' = Asked({p * PageUnits}, size)
          \/ \E b \in r.block :
               /\ heap' = RecordFreed(r.heap, b)
               /\ UNCHANGED <<bigblocks, asked>>
  /\ UNCHANGED panicked

\* The records of an object that kfree is given: no small object has one, though
\* its address may be that of a page.
Records(b) == {r \in bigblocks : r.pages * PageUnits = b}

\* Callers free what they hold.
Kfree(b) ==
  /\ asked' = [a \in DOMAIN asked \ {b} |-> asked[a]]
  /\ \/ \E r \in Records(b) :
          /\ bigblocks' = bigblocks \ {r}
          /\ heap' = Freed(heap, r.bb, RecordUnits)
     \/ /\ Records(b) = {}
        /\ heap' = Freed(heap, b - 1, 0)
        /\ UNCHANGED bigblocks
  /\ UNCHANGED <<grown, panicked>>

-----------------------------------------------------------------------------
Init ==
  /\ heap = [circle |-> <<arena>>,
             units |-> [a \in Cell \cup {arena} |-> IF a = arena THEN 1 ELSE 0]]
  /\ grown = {} /\ bigblocks = {}
  /\ asked = <<>> /\ panicked = FALSE

Kmalloc(size) == KmallocSmall(size) \/ KmallocBig(size) \/ KmallocPanics(size)

Stopped == panicked /\ UNCHANGED vars

Next == \/ ~panicked /\ \/ \E size \in Sizes : Kmalloc(size)
                        \/ \E b \in DOMAIN asked : Kfree(b)
        \/ Stopped

Spec == Init /\ [][Next]_vars

-----------------------------------------------------------------------------
\* The types of the variables.
TypeOK ==
  /\ heap.circle \in Seq(Cell \cup {arena})
  /\ heap.units \in [Cell \cup {arena} -> Nat]
  /\ grown \subseteq 0 .. NPAGE - 1
  /\ \A r \in bigblocks : r.order \in Nat /\ r.pages \in 0 .. NPAGE - 1 /\ r.bb \in Cell
  /\ DOMAIN asked \subseteq Cell /\ \A b \in DOMAIN asked : asked[b] \in Sizes
  /\ panicked \in BOOLEAN

\* Once round, the circle goes up through all free blocks from the arena, so
\* that slob_free's search ends.  Blocks that touch have been merged.
CircleInOrder ==
  \E k \in DOMAIN heap.circle :
    LET c == From(heap.circle, k)
    IN  /\ c[1] = arena
        /\ \A i \in 1 .. Len(c) - 1 : c[i] + heap.units[c[i]] < c[i + 1]

\* What the heap's pages are cut into: free blocks, objects with their headers,
\* and the records of big objects.
SmallObjects == {b \in DOMAIN asked : Records(b) = {}}
Pieces ==
  {<<a, heap.units[a]>> : a \in ToSet(heap.circle) \ {arena}}
    \cup {<<b - 1, heap.units[b - 1]>> : b \in SmallObjects}
    \cup {<<r.bb, RecordUnits>> : r \in bigblocks}

\* The pages that slob_alloc has taken are cut into the pieces without gap or
\* overlap: no call loses memory, a kmalloc that fails half way included.
HeapTiled ==
  /\ UNION {Run(q[1], q[2]) : q \in Pieces} = UNION {Run(p * PageUnits, PageUnits) : p \in grown}
  /\ \A q, r \in Pieces : q # r => Run(q[1], q[2]) \cap Run(r[1], r[2]) = {}

\* The heap between two calls: in order, merged, and with no cell lost.
HeapOK == TypeOK /\ CircleInOrder /\ HeapTiled

\* For as many bytes as its owner has asked for, an object that kmalloc has given
\* shares no cell with another, a free block, a header or a record.  (False of
\* sizes that find_order rounds down.)
Object(b) == Run(b, SLOB_UNITS(asked[b]))
ObjectsApart ==
  /\ \A a, b \in DOMAIN asked : a # b => Object(a) \cap Object(b) = {}
  /\ \A b \in DOMAIN asked :
       /\ \A a \in ToSet(heap.circle) : Object(b) \cap Run(a, heap.units[a]) = {}
       /\ \A a \in SmallObjects : a - 1 \notin Object(b)
       /\ \A r \in bigblocks : Object(b) \cap Run(r.bb, RecordUnits) = {}
=============================================================================
