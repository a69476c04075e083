----------------------------- MODULE DefaultPmm -----------------------------
(***************************************************************************)
(* The first-fit allocator of physical pages, kern/mm/default_pmm.c, as    *)
(* alloc_pages and free_pages of kern/mm/pmm.c call it, with interrupts    *)
(* off: each call is one step.                                             *)
(*                                                                         *)
(* free_list is the list as the next pointers give it, a sequence of the   *)
(* first pages of free blocks.  The prev pointer of an entry is the entry  *)
(* before it, except for the entries in ownPrev, whose prev is the entry   *)
(* itself: the loop that looks for the place of a block goes on after it   *)
(* has put the block at the end, and puts it there again, after itself.    *)
(* Taken out by list_del, such an entry stays in the list; put before it   *)
(* by list_add_before, a block makes the list a circle that does not come  *)
(* back to its head.  The model stops after either (`broken').             *)
(*                                                                         *)
(* Pages are numbered from the first one that page_init hands over.  The   *)
(* property field of a page that is no entry is never read, and is 0 here. *)
(***************************************************************************)
EXTENDS Integers, Sequences, FiniteSets, SequencesExt

CONSTANTS NPAGE,  \* the number of pages that are managed
          NULL    \* the answer to a request that is refused

ASSUME PageAssumption ==
  NPAGE \in Nat \ {0} /\ NULL \notin 0 .. NPAGE - 1

VARIABLES
  free_list,  \* the first pages of the free blocks
  ownPrev,    \* the entries whose prev pointer is their own address
  property,   \* the number of pages of the block that begins with a page
  flagged,    \* the pages with PG_property
  nr_free,
  held,       \* the pages that have been given out and not come back
  page,       \* what alloc_pages last returned
  broken,     \* a prev pointer in ownPrev has been followed
  spent       \* the last page has once been given out

vars == <<free_list, ownPrev, property, flagged, nr_free, held, page, broken, spent>>

Page == 0 .. NPAGE - 1
Run(b, n) == b .. b + n - 1
First(S) == CHOOSE i \in S : \A j \in S : i <= j
EntryAt(i) == IF i \in DOMAIN free_list THEN {free_list[i]} ELSE {}

-----------------------------------------------------------------------------
(* default_alloc_pages                                                     *)

\* The entries the search may stop at.  Fault: a block must be larger than the
\* request.
FitLarger(n) == {i \in DOMAIN free_list : property[free_list[i]] > n}
Fit(n) == {i \in DOMAIN free_list : property[free_list[i]] >= n}

AllocFails(n) ==
  /\ ~broken
  /\ n > nr_free \/ Fit(n) = {}
  /\ page' = NULL
  /\ UNCHANGED <<free_list, ownPrev, property, flagged, nr_free, held, broken, spent>>

\* Of nr_free, and of PG_property, after the request.
CountLess(n) == nr_free - n
RestMarked(b, n) ==
  (IF property[b] > n THEN flagged \cup {b + n} ELSE flagged) \ {b}

\* The block of the i-th entry b is taken out, and what is left of it is put
\* after the entry that b's prev pointer gives.
Rest(i, b, n) ==
  IF property[b] > n
  THEN IF b \in ownPrev THEN InsertAt(free_list, i + 1, b + n)
                        ELSE [free_list EXCEPT ![i] = b + n]
  ELSE IF b \in ownPrev THEN free_list ELSE RemoveAt(free_list, i)

AllocBlock(n) ==
  /\ ~broken /\ n <= nr_free /\ Fit(n) # {}
  /\ LET i == First(Fit(n))
         b == free_list[i]
     IN  /\ page' = b /\ held' = held \cup Run(b, n)
         /\ spent' = (spent \/ NPAGE - 1 \in Run(b, n))
         /\ free_list' = Rest(i, b, n)
         /\ ownPrev' = ownPrev \ EntryAt(i + 1)
         /\ property' = [p \in Page |->
              IF p = b + n /\ property[b] > n THEN property[b] - n
              ELSE IF p = b /\ b \notin ownPrev THEN 0 ELSE property[p]]
         /\ flagged' = RestMarked(b, n)
         /\ nr_free' = CountLess(n)
         /\ broken' = (b \in ownPrev)

-----------------------------------------------------------------------------
(* default_free_pages                                                      *)

\* Callers free what they hold.
Freed(b, n) ==
  /\ ~broken
  /\ Run(b, n) \subseteq held
  /\ held' = held \ Run(b, n) /\ nr_free' = nr_free + n
  /\ UNCHANGED <<page, spent>>

Above(b) == {i \in DOMAIN free_list : b < free_list[i]}

\* The list was empty.
FreeFirst(b, n) ==
  /\ Freed(b, n) /\ free_list = <<>>
  /\ free_list' = <<b>>
  /\ property' = [property EXCEPT ![b] = n] /\ flagged' = flagged \cup {b}
  /\ UNCHANGED <<ownPrev, broken>>

\* The block comes last: it is put at the end twice, and merges with nothing,
\* as list_prev gives the block itself.
FreeLast(b, n) ==
  /\ Freed(b, n) /\ free_list # <<>> /\ Above(b) = {}
  /\ free_list' = Append(free_list, b)
  /\ ownPrev' = ownPrev \cup {b}
  /\ property' = [property EXCEPT ![b] = n] /\ flagged' = flagged \cup {b}
  /\ UNCHANGED broken

\* The block comes before the i-th entry, and merges with the block before it
\* and with that entry's.  Fault: never with the one before.
NeverJoins(i, b) == FALSE
JoinsLow(i, b) == i > 1 /\ free_list[i - 1] + property[free_list[i - 1]] = b
JoinsHigh(i, b, n) == b + n = free_list[i]

FreeBefore(b, n) ==
  /\ Freed(b, n) /\ Above(b) # {}
  /\ LET i == First(Above(b))
         v == free_list[i]
         low == JoinsLow(i, b)
         high == JoinsHigh(i, b, n)
         base == IF low THEN free_list[i - 1] ELSE b
         size == (IF low THEN property[base] ELSE 0) + n
                   + (IF high THEN property[v] ELSE 0)
     IN  IF v \in ownPrev
         THEN /\ broken' = TRUE
              /\ UNCHANGED <<free_list, ownPrev, property, flagged>>
         ELSE /\ free_list' = IF high THEN IF low THEN RemoveAt(free_list, i)
                                                ELSE [free_list EXCEPT ![i] = b]
                              ELSE IF low THEN free_list ELSE InsertAt(free_list, i, b)
              /\ property' = [p \in Page |-> IF p = base THEN size
                                             ELSE IF p = b \/ (high /\ p = v) THEN 0
                                             ELSE property[p]]
              /\ flagged' = (flagged \cup {base}) \ (IF high THEN {v} ELSE {})
              /\ ownPrev' = IF high THEN ownPrev \ EntryAt(i + 1) ELSE ownPrev
              /\ UNCHANGED broken

-----------------------------------------------------------------------------
\* page_init gives all pages to init_memmap as one block.
Init ==
  /\ free_list = <<0>> /\ ownPrev = {}
  /\ property = [p \in Page |-> IF p = 0 THEN NPAGE ELSE 0]
  /\ flagged = {0} /\ nr_free = NPAGE
  /\ held = {} /\ page = NULL /\ broken = FALSE /\ spent = FALSE

AllocPages(n) == AllocBlock(n) \/ AllocFails(n)
FreePages(b, n) == FreeFirst(b, n) \/ FreeLast(b, n) \/ FreeBefore(b, n)

Stopped == broken /\ UNCHANGED vars

Next == \/ \E n \in 1 .. NPAGE : AllocPages(n) \/ \E b \in Page : FreePages(b, n)
        \/ Stopped

Spec == Init /\ [][Next]_vars

-----------------------------------------------------------------------------
\* The types of the variables.
TypeOK ==
  /\ free_list \in Seq(Page) /\ ownPrev \subseteq Page
  /\ property \in [Page -> 0 .. NPAGE] /\ flagged \subseteq Page
  /\ nr_free \in 0 .. NPAGE /\ held \subseteq Page
  /\ page \in Page \cup {NULL} /\ broken \in BOOLEAN /\ spent \in BOOLEAN

\* The entries of the list are the pages with PG_property, as default_check
\* asserts: so free_pages asserts in vain.
EntriesAreHeads == flagged = {free_list[i] : i \in DOMAIN free_list}

\* The blocks are in order of address, do not overlap, and two that touch have
\* been merged.
BlocksApart ==
  \A i, j \in DOMAIN free_list :
    i < j => free_list[i] + property[free_list[i]] < free_list[j]

\* Every page is in a block of the list or given out, and none is both.
FreePagesListed ==
  Page \ held = UNION {Run(free_list[i], property[free_list[i]]) : i \in DOMAIN free_list}

\* nr_free counts the pages that are not given out.
CountExact == nr_free = Cardinality(Page \ held)

\* As long as no pointer in ownPrev is followed, the list and the count are
\* exact, and the blocks in order; when memory has been used up they may touch.
SoundUntilBroken ==
  broken \/ /\ EntriesAreHeads /\ FreePagesListed /\ CountExact
            /\ \A i, j \in DOMAIN free_list :
                 i < j => free_list[i] + property[free_list[i]] <= free_list[j]

\* While the last page has always been free, free_pages sets no such pointer, and
\* merges all that touch.
MergedUntilSpent == ~spent => ownPrev = {} /\ ~broken /\ BlocksApart

\* The allocator's lists: exact until a pointer is lost, merged until memory is spent.
BlocksOK == TypeOK /\ SoundUntilBroken /\ MergedUntilSpent

\* So long, first fit with merging serves every request that can be served, from
\* the lowest pages: each step is one of PagePool.
Pool == INSTANCE PagePool
ServesLowest == [][~spent' => Pool!Next]_<<held, page>>
=============================================================================
