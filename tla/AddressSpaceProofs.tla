------------------------ MODULE AddressSpaceProofs --------------------------
(***************************************************************************)
(* Proofs about AddressSpace: for any programs and pages, page tables of   *)
(* any size, and whichever allocations fail, no page of a process is       *)
(* lost, freed twice or freed while something leads to it, and the hart    *)
(* never uses a page directory that has been freed.                        *)
(*                                                                         *)
(* The inductive invariant MemInv says more than is promised: that the     *)
(* page directory, its directories and their tables are a tree, that every *)
(* page has one holder, and, for each place in do_fork, load_icode and     *)
(* exit_mmap, what is there and how far the loops have come.  The tree is  *)
(* described by what it holds in each direction, Dir, Tab and Ent; its     *)
(* calls are first shown to do what they do to these three, and then to    *)
(* keep the invariant.                                                     *)
(***************************************************************************)
EXTENDS AddressSpace, SequencesExt, SequenceTheorems, WellFoundedInduction,
        FiniteSetTheorems, TLAPS

-----------------------------------------------------------------------------
(* Lists and searches.                                                     *)

\* What list_add at the head of proc_list does to positions.
LEMMA AddAtHead ==
  ASSUME NEW S, NEW s \in Seq(S), NEW e \in S
  PROVE  LET t == <<e>> \o s
         IN  /\ t \in Seq(S) /\ Len(t) = Len(s) + 1 /\ t[1] = e
             /\ \A i \in 1 .. Len(s) : t[i + 1] = s[i]
OBVIOUS

\* A search from the head of a list stops at the first entry that will do.
LEMMA LeastExists ==
  ASSUME NEW S \in SUBSET Nat, S # {}
  PROVE  \E i \in S : \A j \in S : i <= j
<1>1. PICK i \in S : \A j \in S : <<j, i>> \notin OpToRel(<, Nat)
  BY NatLessThanWellFounded, WFMin
<1>2. \A j \in S : ~(j < i)
  BY <1>1 DEF OpToRel
<1> QED BY <1>2

-----------------------------------------------------------------------------
(* The page directory the hart uses.                                       *)

\* The places where the page directory is there, and where it is not.
Rooted == {"dup_mmap", "copy_range", "header", "load", "stack"}
Rootless == {"none", "setup_kstack", "mm_create", "setup_pgdir", "bad_fork_cleanup_kstack",
             "bad_fork_cleanup_proc", "zombie"}
Bare == Rootless \ {"setup_pgdir"}

SatpInv ==
  /\ satp \in {Boot, Others} \/ (pc = "running" /\ mm /\ root = {satp})
  /\ pc \in Rooted => mm /\ root # {} /\ \A r, s \in root : r = s
  /\ pc \in Bare => ~mm
  /\ pc = "setup_pgdir" => mm
  /\ pc \in {"none", "setup_kstack"} => procPgdir = Boot
  /\ pc \in {"set_links", "ready", "running"} => IF mm THEN root = {procPgdir} ELSE procPgdir = Boot

LEMMA SatpInitHolds == Init => SatpInv
BY DEF Init, SatpInv, Rooted, Rootless, Bare

LEMMA SatpStays ==
  ASSUME SatpInv, [Next]_vars
  PROVE  SatpInv'
<1> USE DEF SatpInv, Rooted, Rootless, Bare, Goto, setting, mine, loop, Clean
<1>1. CASE UNCHANGED vars
  BY <1>1 DEF vars
<1>2. CASE AllocProc
  BY <1>2 DEF AllocProc
<1>3. CASE SetupKstack
  BY <1>3 DEF SetupKstack
<1>4. CASE MmCreate
  BY <1>4 DEF MmCreate
<1>5. CASE SetupPgdir
  BY <1>5 DEF SetupPgdir, BadPgdirCleanupMm
<1>6. CASE DupArea
  BY <1>6 DEF DupArea
<1>7. CASE CopyRange
  BY <1>7 DEF CopyRange
<1>8. CASE CopyRangeEnds
  BY <1>8 DEF CopyRangeEnds
<1>9. CASE GoodMm
  BY <1>9 DEF GoodMm
<1>10. CASE SetLinks
  BY <1>10 DEF SetLinks
<1>11. CASE ProcRun
  BY <1>11 DEF ProcRun
<1>12. CASE SwitchedOut
  BY <1>12 DEF SwitchedOut
<1>13. CASE Pgfault
  BY <1>13 DEF Pgfault
<1>14. CASE Execve
  BY <1>14 DEF Execve, SatpBoot, CountLess
<1>15. CASE DoExit
  BY <1>15 DEF DoExit, SatpBoot, CountLess
<1>16. CASE Header
  BY <1>16 DEF Header
<1>17. CASE LoadText
  BY <1>17 DEF LoadText, LoadPage
<1>18. CASE LoadTail
  BY <1>18 DEF LoadTail
<1>19. CASE LoadBss
  BY <1>19 DEF LoadBss, LoadPage
<1>20. CASE HeaderEnds
  BY <1>20 DEF HeaderEnds
<1>21. CASE LoadStack
  BY <1>21 DEF LoadStack
<1>22. CASE StackPage
  BY <1>22 DEF StackPage
<1>23. CASE Loaded
  BY <1>23 DEF Loaded
<1>24. CASE ExitMmap
  BY <1>24 DEF ExitMmap
<1>25. CASE PutPgdir
  BY <1>25 DEF PutPgdir
<1>26. CASE MmDestroy
  BY <1>26 DEF MmDestroy
<1>27. CASE BadForkCleanupKstack
  BY <1>27 DEF BadForkCleanupKstack
<1>28. CASE BadForkCleanupProc
  BY <1>28 DEF BadForkCleanupProc
<1>29. CASE DoWait
  BY <1>29 DEF DoWait
<1> QED
  BY <1>1, <1>2, <1>3, <1>4, <1>5, <1>6, <1>7, <1>8, <1>9, <1>10, <1>11, <1>12, <1>13, <1>14,
     <1>15, <1>16, <1>17, <1>18, <1>19, <1>20, <1>21, <1>22, <1>23, <1>24, <1>25, <1>26,
     <1>27, <1>28, <1>29
  DEF Next, KernelStep, Fork, Load, Cleanup

-----------------------------------------------------------------------------
(* The invariant.                                                          *)

\* The page directory, the directories and the tables as a tree: what lies in
\* entry d; in entry e of that; and in entry x of that.
Dirs == 0 .. NPDEENTRY - 1
Dir(d) == pgdir[d]
Tab(d, e) == IF pgdir[d] = None THEN None ELSE table[pgdir[d]][e]
Ent(d, e, x) == IF Tab(d, e) = None THEN None ELSE table[Tab(d, e)][x]

TreeOK ==
  /\ \A d \in Dirs : Dir(d) \in tables \cup {None}
  /\ \A d \in Dirs, e \in Entry : Tab(d, e) \in tables \cup {None}
  /\ \A c, d \in Dirs : Dir(c) = Dir(d) /\ Dir(c) # None => c = d
  /\ \A c, d \in Dirs, e \in Entry : Tab(d, e) # None => Tab(d, e) # Dir(c)
  /\ \A c, d \in Dirs, e, f \in Entry :
       Tab(c, e) = Tab(d, f) /\ Tab(c, e) # None => c = d /\ e = f
  /\ \A v, w \in Page : PageAt(v) \cap PageAt(w) # {} => v = w
  /\ \A v \in Page : PageAt(v) \cap Shared \subseteq {ParentPage(v)}

\* Every page has one holder.
Own == Mapped \ Shared
Accounts ==
  /\ free \cup kstack \cup root \cup tables \cup Own \cup lost = given
  /\ free \cap kstack = {} /\ free \cap root = {} /\ free \cap tables = {}
  /\ free \cap Own = {} /\ free \cap lost = {}
  /\ kstack \cap root = {} /\ kstack \cap tables = {} /\ kstack \cap Own = {}
  /\ kstack \cap lost = {}
  /\ root \cap tables = {} /\ root \cap Own = {} /\ root \cap lost = {}
  /\ tables \cap Own = {} /\ tables \cap lost = {}
  /\ Own \cap lost = {}

\* Only areas have pages, and unmap_range leaves none.
InAreas ==
  /\ Mine \subseteq Page
  /\ \A v \in Page : PageAt(v) # {} => v \in Mine
  /\ \A i \in DOMAIN areas : i <= done => \A v \in Pages(areas[i]) : PageAt(v) = {}

\* Of a tidy address space exit_range leaves neither tables nor directories.
Kept(v) == Dir(PDX1(v)) # None
TidyOK ==
  Tidy =>
    /\ tables = ({Dir(d) : d \in Dirs} \cup {Tab(d, e) : d \in Dirs, e \in Entry}) \ {None}
    /\ \A d \in Dirs : Dir(d) # None => \E e \in Entry : Tab(d, e) # None
    /\ \A d \in Dirs, e \in Entry :
         Tab(d, e) # None => \E v \in Mine : PDX1(v) = d /\ PDX0(v) = e
    /\ \A i \in DOMAIN areas : i + Len(areas) <= done => \A v \in Pages(areas[i]) : ~Kept(v)

TreeInv ==
  TablesTypeOK /\ TreeOK /\ InAreas /\ TidyOK /\ areas \in Seq([start : Int, end : Int])

\* What is there at each place in the code.
KindsOK ==
  /\ pc \in Places /\ call \in {"none", "fork", "execve", "load", "exit"}
  /\ {from, program} \subseteq Programs \cup {NoProgram}
  /\ given \subseteq Frame /\ proc \in BOOLEAN /\ mm \in BOOLEAN
  /\ procPgdir \in Frame \cup {Boot} /\ satp \in Frame \cup {Boot, Others}
BareOK ==
  pc \in Rootless \/ (pc \in {"set_links", "ready", "running"} /\ ~mm) => NoTables
RootOK ==
  /\ pc \in Rootless \cup {"mm_destroy"} => root = {}
  /\ pc \in {"set_links", "ready", "running"} /\ ~mm => root = {}
CountOK == mm_count = IF pc \in {"set_links", "ready", "running"} /\ mm THEN 1 ELSE 0
DoneOK ==
  /\ pc \notin {"exit_mmap", "put_pgdir", "mm_destroy", "panic"} => done = 0
  /\ pc \in {"put_pgdir", "mm_destroy"} => done = 2 * Len(areas)
GoneOK ==
  /\ pc = "none" => ~proc
  /\ pc \in {"none", "setup_kstack", "bad_fork_cleanup_proc"} => kstack = {}
CallOK ==
  /\ pc \in {"setup_kstack", "dup_mmap", "copy_range"} => call = "fork"
  /\ pc \in {"mm_create", "setup_pgdir"} => call \in {"fork", "load"}
  /\ pc \in {"header", "load", "stack"} => call = "load"
  /\ pc \in {"mm_create", "setup_pgdir", "dup_mmap", "copy_range"} /\ call = "fork" =>
       from \in Programs
  /\ call \in {"execve", "load"} => program \in Programs

\* How far the loops of dup_mmap and copy_range, and of load_icode, have come.
ForkAt ==
  /\ pc = "dup_mmap" => at \in 0 .. Len(Areas(from))
  /\ pc = "copy_range" =>
       /\ at \in 1 .. Len(Areas(from)) /\ areas # <<>> /\ areas[1] = Areas(from)[at]
       /\ la \in Areas(from)[at].start .. Areas(from)[at].end
LoadAt ==
  /\ pc = "header" => at \in 1 .. Len(program.ph) + 1
  /\ pc = "load" =>
       /\ at \in 1 .. Len(program.ph) /\ ph.filesz <= ph.memsz
       /\ areas # <<>> /\ areas[Len(areas)] = Area(ph)
       /\ start \in Int /\ start <= la + PGSIZE
       /\ \E k \in Area(ph).start .. Area(ph).end : la = k * PGSIZE
       /\ start < FileEnd => la <= start
  /\ pc = "stack" =>
       /\ areas # <<>> /\ areas[Len(areas)] = STACK
       /\ la \in STACK.end - STACKPAGES .. STACK.end

PlaceOK == KindsOK /\ BareOK /\ RootOK /\ CountOK /\ DoneOK /\ GoneOK /\ CallOK
LoopOK == ForkAt /\ LoadAt
MemInv == SatpInv /\ TreeInv /\ Accounts /\ PlaceOK /\ LoopOK

\* What page_insert and exit_mmap leave alone.
rest == <<kstack, root, lost, given>>

-----------------------------------------------------------------------------
(* Numbers: the three indices of a page, and the page of three indices.    *)

LEMMA DivMod ==
  ASSUME NEW w \in Nat, NEW m \in Nat \ {0}
  PROVE  w \div m \in Nat /\ (w % m) \in 0 .. m - 1 /\ w = m * (w \div m) + (w % m)
<1>1. w \div m \in Int /\ (w % m) \in 0 .. m - 1
  OBVIOUS
<1>2. w \div m >= 0
  OBVIOUS
<1>3. w = m * (w \div m) + (w % m)
  OBVIOUS
<1>4. w \div m \in Nat
  <2> DEFINE q == w \div m
  <2>1. q \in Int /\ q >= 0
    BY <1>1, <1>2
  <2> HIDE DEF q
  <2>2. q \in Nat
    BY <2>1
  <2> QED BY <2>2 DEF q
<1> QED BY <1>1, <1>3, <1>4

LEMMA NextMultiple ==
  ASSUME NEW m \in Nat \ {0}, NEW a \in Int, NEW b \in Int, a < b
  PROVE  m * a + m <= m * b
OBVIOUS

LEMMA OneQuotient ==
  ASSUME NEW m \in Nat \ {0}, NEW p \in Int, NEW q \in Int, NEW r \in 0 .. m - 1,
         NEW s \in 0 .. m - 1, m * p + r = m * q + s
  PROVE  p = q /\ r = s
<1> DEFINE P == m * p
           Q == m * q
<1>1. P \in Int /\ Q \in Int /\ P + r = Q + s
  OBVIOUS
<1>2. p < q => P + m <= Q
  BY NextMultiple
<1>3. q < p => Q + m <= P
  BY NextMultiple
<1>4. p = q => P = Q
  OBVIOUS
<1> HIDE DEF P, Q
<1>5. ~(p < q) /\ ~(q < p)
  BY <1>1, <1>2, <1>3
<1>6. p = q
  BY <1>5
<1> QED BY <1>1, <1>4, <1>6

LEMMA DivIs ==
  ASSUME NEW m \in Nat \ {0}, NEW q \in Nat, NEW s \in 0 .. m - 1, NEW w \in Nat, w = m * q + s
  PROVE  w \div m = q
<1>1. w \div m \in Nat /\ (w % m) \in 0 .. m - 1 /\ w = m * (w \div m) + (w % m)
  BY DivMod
<1> DEFINE p == w \div m
           r == w % m
<1>2. p \in Int /\ q \in Int /\ r \in 0 .. m - 1 /\ m * p + r = m * q + s
  BY <1>1
<1> HIDE DEF p, r
<1>3. p = q
  BY <1>2, OneQuotient
<1> QED BY <1>3 DEF p

LEMMA DivBelow ==
  ASSUME NEW m \in Nat \ {0}, NEW d \in Nat, NEW w \in Nat, w < d * m
  PROVE  w \div m < d
OBVIOUS

LEMMA DivDiv ==
  ASSUME NEW n \in Nat \ {0}, NEW w \in Nat
  PROVE  (w \div n) \div n = w \div (n * n)
<1> DEFINE a == w \div n
           r == w % n
           b == a \div n
           e == a % n
<1>1. a \in Nat /\ r \in 0 .. n - 1 /\ w = n * a + r
  BY DivMod
<1> HIDE DEF a, r
<1>2. b \in Nat /\ e \in 0 .. n - 1 /\ a = n * b + e
  BY <1>1, DivMod
<1> HIDE DEF b, e
<1> DEFINE m == n * n
           t == n * e
           s == t + r
<1>3. m \in Nat \ {0} /\ t \in Int /\ t + n <= n * n
  <2>1. n * e + n <= n * n
    BY <1>2, NextMultiple
  <2>2. n * n \in Nat /\ n * n # 0
    OBVIOUS
  <2>3. n * e \in Int
    BY <1>2
  <2> QED BY <2>1, <2>2, <2>3
<1>4. t >= 0
  BY <1>2
<1>5. w = m * b + s
  <2>1. w = n * (n * b + e) + r
    BY <1>1, <1>2
  <2>2. n * (n * b + e) = (n * n) * b + n * e
    BY <1>2
  <2>3. r \in Int /\ (n * n) * b \in Int /\ n * e \in Int
    BY <1>1, <1>2
  <2> QED BY <2>1, <2>2, <2>3
<1>6. t + n <= m
  BY <1>3
<1> HIDE DEF m, t
<1>7. s \in 0 .. m - 1
  BY <1>1, <1>3, <1>4, <1>6
<1> HIDE DEF s
<1>8. w \div m = b
  BY <1>2, <1>3, <1>5, <1>7, DivIs
<1> QED BY <1>8 DEF m, a, b

\* Where get_pte looks.
LEMMA Coordinates ==
  ASSUME NEW v \in Page
  PROVE  PDX1(v) \in Dirs /\ PDX0(v) \in Entry /\ PTX(v) \in Entry
<1> DEFINE n == NPTEENTRY
           m == n * n
<1>1. n \in Nat \ {0} /\ NPDEENTRY \in Nat \ {0} /\ v \in Nat
  BY PageTableAssumption DEF Page
<1>2. m \in Nat \ {0} /\ v < NPDEENTRY * m
  <2>1. NPDEENTRY * n * n = NPDEENTRY * (n * n)
    BY <1>1
  <2>2. n * n \in Nat /\ n * n # 0 /\ NPDEENTRY * (n * n) \in Int
    BY <1>1
  <2>3. v <= NPDEENTRY * n * n - 1
    BY DEF Page
  <2> QED BY <1>1, <2>1, <2>2, <2>3
<1> HIDE DEF m
<1>3. v \div m \in Nat /\ v \div m < NPDEENTRY
  BY <1>1, <1>2, DivMod, DivBelow
<1>4. v \div n \in Nat /\ (v % n) \in 0 .. n - 1
  BY <1>1, DivMod
<1>5. ((v \div n) % n) \in 0 .. n - 1
  <2> DEFINE a == v \div n
  <2>1. a \in Nat
    BY <1>4
  <2> HIDE DEF a
  <2>2. (a % n) \in 0 .. n - 1
    BY <1>1, <2>1, DivMod
  <2> QED BY <2>2 DEF a
<1>6. PDX1(v) = v \div m
  BY DEF PDX1, m
<1>7. PDX1(v) \in Dirs
  BY <1>1, <1>3, <1>6 DEF Dirs
<1> QED BY <1>4, <1>5, <1>7 DEF PDX0, PTX, Entry

\* Pages are told apart by their indices.
LEMMA SamePlace ==
  ASSUME NEW v \in Page, NEW w \in Page, PDX1(v) = PDX1(w), PDX0(v) = PDX0(w), PTX(v) = PTX(w)
  PROVE  v = w
<1> DEFINE n == NPTEENTRY
<1>1. n \in Nat \ {0} /\ v \in Nat /\ w \in Nat
  BY PageTableAssumption DEF Page
<1>2. ASSUME NEW u \in Nat
      PROVE  u = n * (n * PDX1(u) + PDX0(u)) + PTX(u)
  <2>1. u \div n \in Nat /\ u = n * (u \div n) + (u % n)
    BY <1>1, DivMod
  <2> DEFINE a == u \div n
  <2>2. a \in Nat
    BY <2>1
  <2>3. u = n * a + (u % n)
    BY <2>1
  <2>4. a \div n = u \div (n * n)
    BY <1>1, DivDiv
  <2> HIDE DEF a
  <2>5. a = n * (a \div n) + (a % n)
    BY <1>1, <2>2, DivMod
  <2>6. a = n * PDX1(u) + PDX0(u)
    BY <2>4, <2>5 DEF PDX1, PDX0, a
  <2> QED BY <2>3, <2>6 DEF PTX
<1>3. v = n * (n * PDX1(v) + PDX0(v)) + PTX(v)
  BY <1>1, <1>2
<1>4. w = n * (n * PDX1(w) + PDX0(w)) + PTX(w)
  BY <1>1, <1>2
<1> QED BY <1>3, <1>4

\* Every entry is some page's.
LEMMA EveryPlace ==
  ASSUME NEW d \in Dirs, NEW e \in Entry, NEW x \in Entry
  PROVE  \E v \in Page : PDX1(v) = d /\ PDX0(v) = e /\ PTX(v) = x
<1> DEFINE n == NPTEENTRY
           a == n * d + e
           v == n * a + x
<1>1. /\ n \in Nat \ {0} /\ NPDEENTRY \in Nat \ {0}
      /\ d \in Nat /\ d < NPDEENTRY /\ e \in 0 .. n - 1 /\ x \in 0 .. n - 1
  BY PageTableAssumption DEF Dirs, Entry
<1>0. Page = 0 .. NPDEENTRY * n * n - 1 /\ \A w : PDX1(w) = w \div (n * n)
        /\ PDX0(w) = (w \div n) % n /\ PTX(w) = w % n
  BY DEF Page, PDX1, PDX0, PTX
<1> HIDE DEF n
<1>2. a \in Nat /\ a < n * NPDEENTRY
  <2>1. n * d + n <= n * NPDEENTRY
    BY <1>1, NextMultiple
  <2>2. n * d \in Nat /\ n * NPDEENTRY \in Nat
    BY <1>1
  <2> QED BY <1>1, <2>1, <2>2
<1>3. a \div n = d /\ (a % n) = e
  <2>1. a \div n \in Nat /\ (a % n) \in 0 .. n - 1 /\ a = n * (a \div n) + (a % n)
    BY <1>1, <1>2, DivMod
  <2> DEFINE p == a \div n
             r == a % n
  <2>2. p \in Int /\ d \in Int /\ r \in 0 .. n - 1 /\ n * p + r = n * d + e
    BY <1>1, <2>1
  <2> HIDE DEF p, r
  <2>3. p = d /\ r = e
    BY <1>1, <2>2, OneQuotient
  <2> QED BY <2>3 DEF p, r
<1> HIDE DEF a
<1>4. v \in Nat /\ v < NPDEENTRY * n * n
  <2> DEFINE N == n * NPDEENTRY
  <2>1. N \in Int /\ a < N
    BY <1>1, <1>2
  <2>2. n * N = NPDEENTRY * n * n
    BY <1>1
  <2> HIDE DEF N
  <2>3. n * a + n <= n * N
    BY <1>1, <1>2, <2>1, NextMultiple
  <2>4. n * a \in Nat /\ n * N \in Int
    BY <1>1, <1>2, <2>1
  <2>5. v \in Nat /\ v < n * N
    BY <1>1, <2>3, <2>4
  <2> QED BY <2>2, <2>5
<1>5. v \div n = a /\ (v % n) = x
  <2>1. v \div n \in Nat /\ (v % n) \in 0 .. n - 1 /\ v = n * (v \div n) + (v % n)
    BY <1>1, <1>4, DivMod
  <2> DEFINE p == v \div n
             r == v % n
  <2>2. p \in Int /\ a \in Int /\ r \in 0 .. n - 1 /\ n * p + r = n * a + x
    BY <1>2, <2>1
  <2> HIDE DEF p, r
  <2>3. p = a /\ r = x
    BY <1>1, <2>2, OneQuotient
  <2> QED BY <2>3 DEF p, r
<1>6. v \div (n * n) = d
  <2>1. (v \div n) \div n = v \div (n * n)
    BY <1>1, <1>4, DivDiv
  <2> QED BY <1>3, <1>5, <2>1
<1> HIDE DEF v
<1>7. v \in Page
  <2>1. NPDEENTRY * n * n \in Int
    BY <1>1
  <2> QED BY <1>0, <1>4, <2>1
<1> QED BY <1>0, <1>3, <1>5, <1>6, <1>7

-----------------------------------------------------------------------------
(* The way to a page.                                                      *)

LEMMA Kinds ==
  /\ None \notin Frame /\ None \notin Shared /\ Frame \cap Shared = {}
  /\ \A v \in Page : ParentPage(v) \in Shared
  /\ \A v, w \in Page : ParentPage(v) = ParentPage(w) => v = w
<1>1. NFRAME \in Nat /\ \A v \in Page : v \in Nat
  BY PageTableAssumption DEF Page
<1> QED BY <1>1 DEF None, Frame, Shared, ParentPage

LEMMA PageAtIs ==
  ASSUME NEW v \in Page
  PROVE  /\ TableOf(v) = {Tab(PDX1(v), PDX0(v))} \ {None}
         /\ PageAt(v) = {Ent(PDX1(v), PDX0(v), PTX(v))} \ {None}
<1>1. TableOf(v) = {Tab(PDX1(v), PDX0(v))} \ {None}
  BY DEF TableOf, Tab
<1>2. CASE Tab(PDX1(v), PDX0(v)) = None
  <2>1. TableOf(v) = {}
    BY <1>1, <1>2
  <2>2. PageAt(v) = {}
    BY <2>1 DEF PageAt
  <2> QED BY <1>1, <1>2, <2>2 DEF Ent
<1>3. CASE Tab(PDX1(v), PDX0(v)) # None
  <2>1. TableOf(v) = {Tab(PDX1(v), PDX0(v))}
    BY <1>1, <1>3
  <2>2. PageAt(v) = {table[Tab(PDX1(v), PDX0(v))][PTX(v)]} \ {None}
    BY <2>1 DEF PageAt
  <2> QED BY <1>1, <1>3, <2>2 DEF Ent
<1> QED BY <1>2, <1>3

LEMMA PageAtIsNext ==
  ASSUME NEW v \in Page
  PROVE  (PageAt(v) = {Ent(PDX1(v), PDX0(v), PTX(v))} \ {None})'
<1>1. PageAt(v) = {Ent(PDX1(v), PDX0(v), PTX(v))} \ {None}
  BY PageAtIs
<1> QED BY <1>1, PTL

\* alloc_page gives a page that is free.
LEMMA LowestIsIn ==
  ASSUME NEW S \in SUBSET Frame, S # {}
  PROVE  Lowest(S) \in S
<1>1. S \in SUBSET Nat
  BY PageTableAssumption DEF Frame
<1>2. \E i \in S : \A j \in S : i <= j
  BY <1>1, LeastExists
<1> QED BY <1>2 DEF Lowest, Min

LEMMA EnoughLeft ==
  ASSUME NEW S \in SUBSET Frame
  PROVE  /\ Cardinality(S) >= 1 => S # {}
         /\ Cardinality(S) >= 2 => \A f : S \ {f} # {}
<1>1. IsFiniteSet(S)
  <2>1. 1 \in Int /\ NFRAME \in Int
    BY PageTableAssumption
  <2>2. IsFiniteSet(Frame)
    BY <2>1, FS_Interval DEF Frame
  <2> QED BY <2>2, FS_Subset
<1>2. Cardinality({}) = 0
  BY FS_EmptySet
<1>3. Cardinality(S) >= 1 => S # {}
  BY <1>2
<1>4. ASSUME Cardinality(S) >= 2, NEW f
      PROVE  S \ {f} # {}
  <2>1. Cardinality({f}) = 1
    BY FS_Singleton
  <2>2. S # {f}
    BY <1>4, <2>1
  <2>3. S # {}
    BY <1>2, <1>4
  <2> QED BY <2>2, <2>3
<1> QED BY <1>3, <1>4

-----------------------------------------------------------------------------
(* page_insert.                                                            *)

\* What it does to the tree, when `left' is free for the directory pd and the
\* table pt that may be missing.
Inserted(v, page, left, pd, pt) ==
  /\ IF Dir(PDX1(v)) = None THEN pd \in left ELSE pd = Dir(PDX1(v))
  /\ IF Tab(PDX1(v), PDX0(v)) = None THEN pt \in left \ {pd} ELSE pt = Tab(PDX1(v), PDX0(v))
  /\ pd \in Frame /\ pt \in Frame /\ pd # pt
  /\ tables' = tables \cup {pd, pt}
  /\ free' = (left \ {pd, pt}) \cup (PageAt(v) \ Shared)
  /\ UNCHANGED short
  /\ pgdir' = [pgdir EXCEPT ![PDX1(v)] = pd]
  /\ \A d \in Dirs : Dir(d)' = IF d = PDX1(v) THEN pd ELSE Dir(d)
  /\ \A d \in Dirs, e \in Entry :
       Tab(d, e)' = IF d = PDX1(v) /\ e = PDX0(v) THEN pt ELSE Tab(d, e)
  /\ \A d \in Dirs, e \in Entry, x \in Entry :
       Ent(d, e, x)' = IF d = PDX1(v) /\ e = PDX0(v) /\ x = PTX(v) THEN page ELSE Ent(d, e, x)
  /\ table' \in [Frame -> [Entry -> Frame \cup Shared \cup {None}]]

LEMMA InsertDoes ==
  ASSUME TablesTypeOK, TreeOK, NEW v \in Page, NEW page \in Frame \cup Shared,
         NEW left \in SUBSET free, free \cap tables = {}, PageInsert(v, page, left)
  PROVE  \E pd, pt : Inserted(v, page, left, pd, pt)
<1>1. PICK D \in Dirs, E \in Entry, X \in Entry : D = PDX1(v) /\ E = PDX0(v) /\ X = PTX(v)
  BY Coordinates
<1>t. /\ pgdir \in [Dirs -> Frame \cup {None}]
      /\ table \in [Frame -> [Entry -> Frame \cup Shared \cup {None}]]
      /\ free \subseteq Frame /\ tables \subseteq Frame /\ left \subseteq Frame
  BY DEF TablesTypeOK, Dirs
<1>n. None \notin Frame
  BY Kinds
<1>2. PICK pd, pt :
        /\ pd = IF pgdir[D] # None THEN pgdir[D] ELSE Lowest(left)
        /\ pt = IF TableOf(v) # {} THEN table[pd][E] ELSE Lowest(left \ {pd})
        /\ Cardinality(left) >= Missing(v)
        /\ pgdir' = [pgdir EXCEPT ![D] = pd]
        /\ table' = [table EXCEPT
             ![pd] = [(IF pd \in tables THEN table[pd] ELSE Empty) EXCEPT ![E] = pt],
             ![pt] = [(IF pt \in tables THEN table[pt] ELSE Empty) EXCEPT ![X] = page]]
        /\ tables' = tables \cup {pd, pt}
        /\ free' = (left \ {pd, pt}) \cup (PageAt(v) \ Shared)
        /\ UNCHANGED short
  BY <1>1 DEF PageInsert
<1>3. TableOf(v) = {Tab(D, E)} \ {None}
  BY <1>1, PageAtIs
<1>4. Missing(v) = IF Dir(D) = None THEN 2 ELSE IF Tab(D, E) = None THEN 1 ELSE 0
  BY <1>1, <1>3 DEF Missing, Dir
<1>5. /\ \A d \in Dirs : Dir(d) \in tables \cup {None}
      /\ \A d \in Dirs, e \in Entry : Tab(d, e) \in tables \cup {None}
      /\ \A c, d \in Dirs : Dir(c) = Dir(d) /\ Dir(c) # None => c = d
      /\ \A c, d \in Dirs, e \in Entry : Tab(d, e) # None => Tab(d, e) # Dir(c)
      /\ \A c, d \in Dirs, e, f \in Entry :
           Tab(c, e) = Tab(d, f) /\ Tab(c, e) # None => c = d /\ e = f
  BY DEF TreeOK
<1>6. Dir(D) = None => Tab(D, E) = None
  BY DEF Dir, Tab
<1>7. IF Dir(D) = None THEN pd \in left ELSE pd = Dir(D)
  <2>1. CASE Dir(D) = None
    <3>1. Cardinality(left) >= 2
      BY <1>2, <1>4, <2>1
    <3>2. left # {} /\ left \in SUBSET Frame
      <4>1. left \in SUBSET Frame
        BY <1>t
      <4>2. left \ {0} # {}
        BY <3>1, <4>1, EnoughLeft
      <4> QED BY <4>1, <4>2
    <3>3. pd = Lowest(left)
      BY <1>2, <2>1 DEF Dir
    <3> QED BY <2>1, <3>2, <3>3, LowestIsIn
  <2>2. CASE Dir(D) # None
    BY <1>2, <2>2 DEF Dir
  <2> QED BY <2>1, <2>2
<1>8. IF Tab(D, E) = None THEN pt \in left \ {pd} ELSE pt = Tab(D, E)
  <2>1. CASE Tab(D, E) = None
    <3>1. pt = Lowest(left \ {pd})
      BY <1>2, <1>3, <2>1
    <3>2. left \in SUBSET Frame
      BY <1>t
    <3>3. left \ {pd} # {}
      <4>1. CASE Dir(D) = None
        <5>1. Cardinality(left) >= 2
          BY <1>2, <1>4, <4>1
        <5> QED BY <3>2, <5>1, EnoughLeft
      <4>2. CASE Dir(D) # None
        <5>1. Cardinality(left) >= 1
          BY <1>2, <1>4, <2>1, <4>2
        <5>2. left # {}
          BY <3>2, <5>1, EnoughLeft
        <5>3. pd \in tables
          BY <1>5, <1>7, <4>2
        <5>4. pd \notin left
          BY <5>3
        <5> QED BY <5>2, <5>4
      <4> QED BY <4>1, <4>2
    <3>4. left \ {pd} \in SUBSET Frame
      BY <3>2
    <3>5. Lowest(left \ {pd}) \in left \ {pd}
      BY <3>3, <3>4, LowestIsIn
    <3> QED BY <2>1, <3>1, <3>5
  <2>2. CASE Tab(D, E) # None
    <3>1. TableOf(v) # {} /\ Dir(D) # None
      BY <1>3, <1>6, <2>2
    <3>2. pt = table[pd][E] /\ pd = pgdir[D]
      BY <1>2, <3>1 DEF Dir
    <3>3. Tab(D, E) = table[pgdir[D]][E]
      BY <3>1 DEF Dir, Tab
    <3> QED BY <2>2, <3>2, <3>3
  <2> QED BY <2>1, <2>2
<1>9. pd \in Frame /\ pt \in Frame /\ pd # pt
  <2>1. pd \in Frame
    BY <1>5, <1>7, <1>t
  <2>2. pt \in Frame
    BY <1>5, <1>8, <1>t
  <2>3. pd # pt
    BY <1>5, <1>6, <1>7, <1>8
  <2> QED BY <2>1, <2>2, <2>3
<1>10. (pd \in tables <=> Dir(D) # None) /\ (pt \in tables <=> Tab(D, E) # None)
  BY <1>5, <1>7, <1>8
<1>11. /\ table'[pd] = [(IF pd \in tables THEN table[pd] ELSE Empty) EXCEPT ![E] = pt]
       /\ table'[pt] = [(IF pt \in tables THEN table[pt] ELSE Empty) EXCEPT ![X] = page]
       /\ \A f \in Frame \ {pd, pt} : table'[f] = table[f]
       /\ DOMAIN table' = Frame /\ table' = [f \in Frame |-> table'[f]]
  <2> DEFINE one == [(IF pd \in tables THEN table[pd] ELSE Empty) EXCEPT ![E] = pt]
             two == [(IF pt \in tables THEN table[pt] ELSE Empty) EXCEPT ![X] = page]
  <2>1. table' = [table EXCEPT ![pd] = one, ![pt] = two]
    BY <1>2
  <2> HIDE DEF one, two
  <2>2. /\ table'[pd] = one /\ table'[pt] = two
        /\ \A f \in Frame \ {pd, pt} : table'[f] = table[f]
        /\ DOMAIN table' = Frame /\ table' = [f \in Frame |-> table'[f]]
    BY <1>9, <1>t, <2>1
  <2> QED BY <2>2 DEF one, two
<1>12. /\ Empty \in [Entry -> {None}]
       /\ \A e \in Entry : Empty[e] = None
  BY DEF Empty
<1>13. /\ \A e \in Entry : table'[pd][e] = IF e = E THEN pt ELSE Tab(D, e)
       /\ table'[pd] \in [Entry -> Frame \cup Shared \cup {None}]
  <2>1. CASE Dir(D) = None
    <3>1. table'[pd] = [Empty EXCEPT ![E] = pt]
      BY <1>10, <1>11, <2>1
    <3>2. \A e \in Entry : Tab(D, e) = None
      BY <2>1 DEF Tab, Dir
    <3> QED BY <1>9, <1>12, <3>1, <3>2
  <2>2. CASE Dir(D) # None
    <3>1. table'[pd] = [table[pd] EXCEPT ![E] = pt] /\ pd = pgdir[D]
      BY <1>10, <1>11, <1>7, <2>2 DEF Dir
    <3>2. \A e \in Entry : Tab(D, e) = table[pd][e]
      BY <2>2, <3>1 DEF Tab, Dir
    <3>3. table[pd] \in [Entry -> Frame \cup Shared \cup {None}]
      BY <1>9, <1>t
    <3> QED BY <1>9, <3>1, <3>2, <3>3
  <2> QED BY <2>1, <2>2
<1>14. /\ \A x \in Entry : table'[pt][x] = IF x = X THEN page ELSE Ent(D, E, x)
       /\ table'[pt] \in [Entry -> Frame \cup Shared \cup {None}]
  <2>1. CASE Tab(D, E) = None
    <3>1. table'[pt] = [Empty EXCEPT ![X] = page]
      BY <1>10, <1>11, <2>1
    <3>2. \A x \in Entry : Ent(D, E, x) = None
      BY <2>1 DEF Ent
    <3> QED BY <1>12, <3>1, <3>2
  <2>2. CASE Tab(D, E) # None
    <3>1. table'[pt] = [table[pt] EXCEPT ![X] = page] /\ pt = Tab(D, E)
      BY <1>10, <1>11, <1>8, <2>2
    <3>2. \A x \in Entry : Ent(D, E, x) = table[pt][x]
      BY <2>2, <3>1 DEF Ent
    <3>3. table[pt] \in [Entry -> Frame \cup Shared \cup {None}]
      BY <1>9, <1>t
    <3> QED BY <3>1, <3>2, <3>3
  <2> QED BY <2>1, <2>2
<1>15. \A d \in Dirs : Dir(d)' = IF d = D THEN pd ELSE Dir(d)
  BY <1>2, <1>t DEF Dir
<1>16. \A d \in Dirs, e \in Entry : Tab(d, e)' = IF d = D /\ e = E THEN pt ELSE Tab(d, e)
  <2> SUFFICES ASSUME NEW d \in Dirs, NEW e \in Entry
               PROVE  Tab(d, e)' = IF d = D /\ e = E THEN pt ELSE Tab(d, e)
    OBVIOUS
  <2>1. CASE d = D
    <3>1. pgdir'[d] = pd /\ pd # None
      BY <1>9, <1>15, <1>n, <2>1 DEF Dir
    <3>2. Tab(d, e)' = table'[pd][e]
      BY <3>1 DEF Tab
    <3> QED BY <1>13, <2>1, <3>2
  <2>2. CASE d # D
    <3>1. pgdir'[d] = pgdir[d]
      BY <1>15, <2>2 DEF Dir
    <3>2. CASE Dir(d) = None
      BY <2>2, <3>1, <3>2 DEF Tab, Dir
    <3>3. CASE Dir(d) # None
      <4>1. Dir(d) \in tables /\ Dir(d) # pd
        BY <1>5, <1>7, <2>2, <3>3
      <4>2. Dir(d) # pt
        BY <1>5, <1>8, <4>1
      <4>3. table'[Dir(d)] = table[Dir(d)]
        BY <1>11, <1>t, <4>1, <4>2
      <4> QED BY <2>2, <3>1, <3>3, <4>3 DEF Tab, Dir
    <3> QED BY <3>2, <3>3
  <2> QED BY <2>1, <2>2
<1>17. \A d \in Dirs, e \in Entry, x \in Entry :
         Ent(d, e, x)' = IF d = D /\ e = E /\ x = X THEN page ELSE Ent(d, e, x)
  <2> SUFFICES ASSUME NEW d \in Dirs, NEW e \in Entry, NEW x \in Entry
               PROVE  Ent(d, e, x)' = IF d = D /\ e = E /\ x = X THEN page ELSE Ent(d, e, x)
    OBVIOUS
  <2>1. CASE d = D /\ e = E
    <3>1. Tab(d, e)' = pt /\ pt # None
      BY <1>9, <1>16, <1>n, <2>1
    <3>2. Ent(d, e, x)' = table'[pt][x]
      BY <3>1 DEF Ent
    <3> QED BY <1>14, <2>1, <3>2
  <2>2. CASE ~(d = D /\ e = E)
    <3>1. Tab(d, e)' = Tab(d, e)
      BY <1>16, <2>2
    <3>2. CASE Tab(d, e) = None
      BY <2>2, <3>1, <3>2 DEF Ent
    <3>3. CASE Tab(d, e) # None
      <4>1. Tab(d, e) \in tables
        BY <1>5, <3>3
      <4>2. Tab(d, e) # pt
        BY <1>5, <1>8, <2>2, <3>3, <4>1
      <4>3. Tab(d, e) # pd
        BY <1>5, <1>7, <3>3, <4>1
      <4>4. table'[Tab(d, e)] = table[Tab(d, e)]
        BY <1>11, <1>t, <4>1, <4>2, <4>3
      <4> QED BY <2>2, <3>1, <3>3, <4>4 DEF Ent
    <3> QED BY <3>2, <3>3
  <2> QED BY <2>1, <2>2
<1>18. table' \in [Frame -> [Entry -> Frame \cup Shared \cup {None}]]
  <2>1. \A f \in Frame : table'[f] \in [Entry -> Frame \cup Shared \cup {None}]
    BY <1>11, <1>13, <1>14, <1>t
  <2> QED BY <1>11, <2>1
<1>19. /\ pgdir' = [pgdir EXCEPT ![PDX1(v)] = pd]
       /\ IF Dir(PDX1(v)) = None THEN pd \in left ELSE pd = Dir(PDX1(v))
       /\ IF Tab(PDX1(v), PDX0(v)) = None THEN pt \in left \ {pd} ELSE pt = Tab(PDX1(v), PDX0(v))
  BY <1>1, <1>2, <1>7, <1>8
<1>20. /\ \A d \in Dirs : Dir(d)' = IF d = PDX1(v) THEN pd ELSE Dir(d)
       /\ \A d \in Dirs, e \in Entry :
            Tab(d, e)' = IF d = PDX1(v) /\ e = PDX0(v) THEN pt ELSE Tab(d, e)
       /\ \A d \in Dirs, e \in Entry, x \in Entry :
            Ent(d, e, x)' = IF d = PDX1(v) /\ e = PDX0(v) /\ x = PTX(v) THEN page ELSE Ent(d, e, x)
  BY <1>1, <1>15, <1>16, <1>17
<1>21. /\ tables' = tables \cup {pd, pt}
       /\ free' = (left \ {pd, pt}) \cup (PageAt(v) \ Shared)
       /\ UNCHANGED short
  BY <1>2
<1> WITNESS pd, pt
<1> QED
  BY <1>9, <1>18, <1>19, <1>20, <1>21 DEF Inserted

\* A page that page_insert is given: of the parent, or one just allocated.
Given(v, page, left) ==
  /\ v \in Page /\ page \in Frame \cup Shared /\ left \subseteq free /\ page \notin left
  /\ free = left \cup ({page} \ Shared)
  /\ page \in Shared => page = ParentPage(v)

LEMMA PagesAre ==
  ASSUME TablesTypeOK, TreeOK, NEW v \in Page
  PROVE  PageAt(v) \subseteq Frame \cup Shared
<1>1. PageAt(v) = {Ent(PDX1(v), PDX0(v), PTX(v))} \ {None}
  BY PageAtIs
<1>2. PICK D \in Dirs, E \in Entry, X \in Entry : D = PDX1(v) /\ E = PDX0(v) /\ X = PTX(v)
  BY Coordinates
<1>3. Tab(D, E) # None => Tab(D, E) \in Frame
  BY DEF TreeOK, TablesTypeOK
<1>4. \A f \in Frame : table[f][X] \in Frame \cup Shared \cup {None}
  BY DEF TablesTypeOK
<1> QED BY <1>1, <1>2, <1>3, <1>4 DEF Ent

LEMMA InsertTypes ==
  ASSUME TablesTypeOK, TreeOK, UNCHANGED <<areas, done>>,
         NEW v, NEW page, NEW left, NEW pd, NEW pt,
         Given(v, page, left), Inserted(v, page, left, pd, pt)
  PROVE  TablesTypeOK'
<1>1. /\ pgdir \in [Dirs -> Frame \cup {None}] /\ free \subseteq Frame /\ tables \subseteq Frame
      /\ short \in BOOLEAN /\ done \in 0 .. 2 * Len(areas)
  BY DEF TablesTypeOK, Dirs
<1>2. /\ v \in Page /\ left \subseteq free /\ pd \in Frame /\ pt \in Frame
      /\ tables' = tables \cup {pd, pt}
      /\ free' = (left \ {pd, pt}) \cup (PageAt(v) \ Shared)
      /\ UNCHANGED short
      /\ pgdir' = [pgdir EXCEPT ![PDX1(v)] = pd]
      /\ table' \in [Frame -> [Entry -> Frame \cup Shared \cup {None}]]
  BY DEF Given, Inserted
<1>3. pgdir' \in [Dirs -> Frame \cup {None}]
  BY <1>1, <1>2
<1>4. PageAt(v) \subseteq Frame \cup Shared
  BY <1>2, PagesAre
<1>5. free' \subseteq Frame
  BY <1>1, <1>2, <1>4
<1>6. tables' \subseteq Frame
  BY <1>1, <1>2
<1>7. short' \in BOOLEAN
  BY <1>1, <1>2
<1>8. done' \in 0 .. 2 * Len(areas')
  BY <1>1
<1> QED
  BY <1>2, <1>3, <1>5, <1>6, <1>7, <1>8 DEF TablesTypeOK, Dirs

LEMMA InsertMaps ==
  ASSUME NEW v, NEW page, NEW left, NEW pd, NEW pt, NEW w \in Page,
         Given(v, page, left), Inserted(v, page, left, pd, pt)
  PROVE  PageAt(w)' = IF w = v THEN {page} ELSE PageAt(w)
<1>1. v \in Page /\ page \in Frame \cup Shared
  BY DEF Given
<1>2. page # None
  BY <1>1, Kinds
<1>3. PageAt(w) = {Ent(PDX1(w), PDX0(w), PTX(w))} \ {None}
  BY PageAtIs
<1>4. (PageAt(w) = {Ent(PDX1(w), PDX0(w), PTX(w))} \ {None})'
  BY PageAtIsNext
<1>5. PICK D \in Dirs, E \in Entry, X \in Entry : D = PDX1(w) /\ E = PDX0(w) /\ X = PTX(w)
  BY Coordinates
<1>6. Ent(D, E, X)' = IF D = PDX1(v) /\ E = PDX0(v) /\ X = PTX(v) THEN page ELSE Ent(D, E, X)
  BY DEF Inserted
<1>7. w = v <=> D = PDX1(v) /\ E = PDX0(v) /\ X = PTX(v)
  BY <1>1, <1>5, SamePlace
<1>8. PageAt(w)' = {Ent(D, E, X)'} \ {None}
  BY <1>4, <1>5
<1>9. PageAt(w) = {Ent(D, E, X)} \ {None}
  BY <1>3, <1>5
<1>10. CASE w = v
  BY <1>2, <1>6, <1>7, <1>8, <1>10
<1>11. CASE w # v
  BY <1>6, <1>7, <1>8, <1>9, <1>11
<1> QED BY <1>10, <1>11

\* What page_insert makes or finds is nowhere else in the tree.
LEMMA InsertTree ==
  ASSUME TablesTypeOK, TreeOK, Accounts, NEW v, NEW page, NEW left, NEW pd, NEW pt,
         Given(v, page, left), Inserted(v, page, left, pd, pt)
  PROVE  TreeOK'
<1>1. /\ v \in Page /\ page \in Frame \cup Shared /\ left \subseteq free
      /\ free = left \cup ({page} \ Shared)
      /\ page \in Shared => page = ParentPage(v)
  BY DEF Given
<1>2. PICK D \in Dirs, E \in Entry : D = PDX1(v) /\ E = PDX0(v)
  BY <1>1, Coordinates
<1>3. /\ IF Dir(D) = None THEN pd \in left ELSE pd = Dir(D)
      /\ IF Tab(D, E) = None THEN pt \in left \ {pd} ELSE pt = Tab(D, E)
      /\ pd \in Frame /\ pt \in Frame /\ pd # pt
      /\ tables' = tables \cup {pd, pt}
      /\ \A d \in Dirs : Dir(d)' = IF d = D THEN pd ELSE Dir(d)
      /\ \A d \in Dirs, e \in Entry : Tab(d, e)' = IF d = D /\ e = E THEN pt ELSE Tab(d, e)
  BY <1>2 DEF Inserted
<1>4. /\ \A d \in Dirs : Dir(d) \in tables \cup {None}
      /\ \A d \in Dirs, e \in Entry : Tab(d, e) \in tables \cup {None}
      /\ \A c, d \in Dirs : Dir(c) = Dir(d) /\ Dir(c) # None => c = d
      /\ \A c, d \in Dirs, e \in Entry : Tab(d, e) # None => Tab(d, e) # Dir(c)
      /\ \A c, d \in Dirs, e, f \in Entry :
           Tab(c, e) = Tab(d, f) /\ Tab(c, e) # None => c = d /\ e = f
  BY DEF TreeOK
<1>5. /\ \A w, u \in Page : PageAt(w) \cap PageAt(u) # {} => w = u
      /\ \A w \in Page : PageAt(w) \cap Shared \subseteq {ParentPage(w)}
  BY DEF TreeOK
<1>6. left \cap tables = {} /\ None \notin left /\ None \notin Frame
  <2>1. free \cap tables = {} /\ free \subseteq Frame
    BY DEF Accounts, TablesTypeOK
  <2> QED BY <1>1, <2>1, Kinds
<1>7. \A d \in Dirs : d # D => Dir(d) # pd /\ Dir(d) # pt
  <2> SUFFICES ASSUME NEW d \in Dirs, d # D PROVE Dir(d) # pd /\ Dir(d) # pt
    OBVIOUS
  <2>1. Dir(d) # pd
    BY <1>3, <1>4, <1>6
  <2>2. Dir(d) # pt
    BY <1>3, <1>4, <1>6
  <2> QED BY <2>1, <2>2
<1>8. \A d \in Dirs, e \in Entry : Tab(d, e) # pd
  <2> SUFFICES ASSUME NEW d \in Dirs, NEW e \in Entry, Tab(d, e) = pd PROVE FALSE
    OBVIOUS
  <2>1. Tab(d, e) \in tables
    BY <1>3, <1>4, <1>6
  <2>2. pd = Dir(D)
    BY <1>3, <1>6, <2>1
  <2> QED BY <1>3, <1>4, <1>6, <2>2
<1>9. \A d \in Dirs, e \in Entry : ~(d = D /\ e = E) => Tab(d, e) # pt
  <2> SUFFICES ASSUME NEW d \in Dirs, NEW e \in Entry, ~(d = D /\ e = E), Tab(d, e) = pt
               PROVE  FALSE
    OBVIOUS
  <2>1. Tab(d, e) \in tables
    BY <1>3, <1>4, <1>6
  <2>2. pt = Tab(D, E) /\ pt # None
    BY <1>3, <1>6, <2>1
  <2> QED BY <1>4, <2>2
<1>10. \A w \in Page : page \in PageAt(w) => w = v
  <2> SUFFICES ASSUME NEW w \in Page, page \in PageAt(w) PROVE w = v
    OBVIOUS
  <2>1. CASE page \in Shared
    <3>1. ParentPage(w) = ParentPage(v)
      BY <1>1, <1>5, <2>1
    <3> QED BY <1>1, <3>1, Kinds
  <2>2. CASE page \notin Shared
    <3>1. page \in free
      BY <1>1, <2>2
    <3>2. page \in Own
      BY <2>2 DEF Own, Mapped
    <3> QED BY <3>1, <3>2 DEF Accounts
  <2> QED BY <2>1, <2>2
<1>11. \A w \in Page : PageAt(w)' = IF w = v THEN {page} ELSE PageAt(w)
  BY InsertMaps
<1>12. \A d \in Dirs : Dir(d)' \in tables' \cup {None}
  BY <1>3, <1>4
<1>13. \A d \in Dirs, e \in Entry : Tab(d, e)' \in tables' \cup {None}
  BY <1>3, <1>4
<1>14. \A c, d \in Dirs : Dir(c)' = Dir(d)' /\ Dir(c)' # None => c = d
  BY <1>3, <1>4, <1>7
<1>15. \A c, d \in Dirs, e \in Entry : Tab(d, e)' # None => Tab(d, e)' # Dir(c)'
  BY <1>3, <1>4, <1>7, <1>8
<1>16. \A c, d \in Dirs, e, f \in Entry :
         Tab(c, e)' = Tab(d, f)' /\ Tab(c, e)' # None => c = d /\ e = f
  BY <1>3, <1>4, <1>9
<1>17. \A w, u \in Page : PageAt(w)' \cap PageAt(u)' # {} => w = u
  BY <1>5, <1>10, <1>11
<1>18. \A w \in Page : PageAt(w)' \cap Shared \subseteq {ParentPage(w)}
  BY <1>1, <1>5, <1>11
<1> QED
  BY <1>12, <1>13, <1>14, <1>15, <1>16, <1>17, <1>18 DEF TreeOK

\* Where the pages are now.
LEMMA InsertAccounts ==
  ASSUME TablesTypeOK, TreeOK, Accounts, UNCHANGED rest,
         NEW v, NEW page, NEW left, NEW pd, NEW pt,
         Given(v, page, left), Inserted(v, page, left, pd, pt)
  PROVE  Accounts'
<1> DEFINE old == PageAt(v) \ Shared
           new == {page} \ Shared
<1>1. /\ v \in Page /\ left \subseteq free /\ page \notin left /\ free = left \cup new
  BY DEF Given
<1>2. /\ tables' = tables \cup {pd, pt} /\ free' = (left \ {pd, pt}) \cup old
      /\ pd \in tables \cup left /\ pt \in tables \cup left /\ pd # None /\ pt # None
  <2>1. PICK D \in Dirs, E \in Entry : D = PDX1(v) /\ E = PDX0(v)
    BY <1>1, Coordinates
  <2>2. /\ IF Dir(D) = None THEN pd \in left ELSE pd = Dir(D)
        /\ IF Tab(D, E) = None THEN pt \in left \ {pd} ELSE pt = Tab(D, E)
        /\ pd \in Frame /\ pt \in Frame
        /\ tables' = tables \cup {pd, pt} /\ free' = (left \ {pd, pt}) \cup old
    BY <2>1 DEF Inserted
  <2>3. Dir(D) \in tables \cup {None} /\ Tab(D, E) \in tables \cup {None}
    BY DEF TreeOK
  <2> QED BY <2>2, <2>3, Kinds
<1>3. Own' = (Own \ old) \cup new /\ old \subseteq Own
  <2>1. \A w \in Page : PageAt(w)' = IF w = v THEN {page} ELSE PageAt(w)
    BY InsertMaps
  <2>2. \A w \in Page : w # v => PageAt(w) \cap PageAt(v) = {}
    BY <1>1 DEF TreeOK
  <2>3. Mapped' = (Mapped \ PageAt(v)) \cup {page}
    <3>1. Mapped' = UNION {PageAt(w)' : w \in Page}
      BY DEF Mapped
    <3>2. Mapped = UNION {PageAt(w) : w \in Page}
      BY DEF Mapped
    <3> QED BY <1>1, <2>1, <2>2, <3>1, <3>2
  <2>4. PageAt(v) \subseteq Mapped
    BY <1>1 DEF Mapped
  <2>5. Own' = Mapped' \ Shared /\ Own = Mapped \ Shared
    BY DEF Own
  <2> QED BY <2>3, <2>4, <2>5
<1>4. new \cap left = {}
  BY <1>1
<1> HIDE DEF old, new
<1>5. kstack' = kstack /\ root' = root /\ lost' = lost /\ given' = given
  BY DEF rest
<1>6. /\ free \cup kstack \cup root \cup tables \cup Own \cup lost = given
      /\ free \cap kstack = {} /\ free \cap root = {} /\ free \cap tables = {}
      /\ free \cap Own = {} /\ free \cap lost = {}
      /\ kstack \cap root = {} /\ kstack \cap tables = {} /\ kstack \cap Own = {}
      /\ kstack \cap lost = {}
      /\ root \cap tables = {} /\ root \cap Own = {} /\ root \cap lost = {}
      /\ tables \cap Own = {} /\ tables \cap lost = {}
      /\ Own \cap lost = {}
  BY DEF Accounts
<1>7. free' \cup kstack \cup root \cup tables' \cup Own' \cup lost = given
  BY <1>1, <1>2, <1>3, <1>6
<1>8. /\ free' \cap kstack = {} /\ free' \cap root = {} /\ free' \cap tables' = {}
      /\ free' \cap lost = {}
  BY <1>1, <1>2, <1>3, <1>6
<1>9. free' \cap Own' = {}
  BY <1>1, <1>2, <1>3, <1>4, <1>6
<1>10. /\ kstack \cap tables' = {} /\ kstack \cap Own' = {}
       /\ root \cap tables' = {} /\ root \cap Own' = {}
       /\ tables' \cap lost = {} /\ Own' \cap lost = {}
  BY <1>1, <1>2, <1>3, <1>6
<1>11. tables' \cap Own' = {}
  BY <1>1, <1>2, <1>3, <1>4, <1>6
<1> QED
  BY <1>5, <1>6, <1>7, <1>8, <1>9, <1>10, <1>11 DEF Accounts

LEMMA InsertInAreas ==
  ASSUME InAreas, areas \in Seq([start : Int, end : Int]), done = 0, UNCHANGED <<areas, done>>,
         NEW v \in Mine, NEW page, NEW left, NEW pd, NEW pt,
         Given(v, page, left), Inserted(v, page, left, pd, pt)
  PROVE  InAreas'
<1>1. Mine' = Mine
  BY DEF Mine
<1>2. \A w \in Page : PageAt(w)' = IF w = v THEN {page} ELSE PageAt(w)
  BY InsertMaps
<1>3. Mine \subseteq Page /\ \A w \in Page : PageAt(w) # {} => w \in Mine
  BY DEF InAreas
<1>4. \A w \in Page : PageAt(w)' # {} => w \in Mine
  BY <1>2, <1>3
<1>5. \A i \in DOMAIN areas' : ~(i <= done')
  <2>1. areas' = areas /\ done' = 0
    OBVIOUS
  <2>2. \A i \in DOMAIN areas : i \in Nat /\ i > 0
    OBVIOUS
  <2> QED BY <2>1, <2>2
<1>6. \A i \in DOMAIN areas' : i <= done' => \A w \in Pages(areas'[i]) : PageAt(w)' = {}
  BY <1>5
<1> QED BY <1>1, <1>3, <1>4, <1>6 DEF InAreas

LEMMA InsertTidy ==
  ASSUME TablesTypeOK, TreeOK, InAreas, TidyOK, areas \in Seq([start : Int, end : Int]),
         done = 0, UNCHANGED <<areas, done>>,
         NEW v \in Mine, NEW page, NEW left, NEW pd, NEW pt,
         Given(v, page, left), Inserted(v, page, left, pd, pt)
  PROVE  TidyOK'
<1>1. Mine' = Mine
  BY DEF Mine
<1>2. v \in Page
  BY DEF InAreas
<1>3. PICK D \in Dirs, E \in Entry : D = PDX1(v) /\ E = PDX0(v)
  BY <1>2, Coordinates
<1>4. /\ IF Dir(D) = None THEN pd \in left ELSE pd = Dir(D)
      /\ IF Tab(D, E) = None THEN pt \in left \ {pd} ELSE pt = Tab(D, E)
      /\ pd \in Frame /\ pt \in Frame
      /\ tables' = tables \cup {pd, pt} /\ short' = short
      /\ \A d \in Dirs : Dir(d)' = IF d = D THEN pd ELSE Dir(d)
      /\ \A d \in Dirs, e \in Entry : Tab(d, e)' = IF d = D /\ e = E THEN pt ELSE Tab(d, e)
  BY <1>3 DEF Inserted
<1>5. None \notin Frame
  BY Kinds
<1>6. pd # None /\ pt # None
  BY <1>4, <1>5
<1>7. Tidy' => Tidy
  BY <1>1, <1>4 DEF Tidy
<1>8. \A i \in DOMAIN areas' : ~(i + Len(areas') <= done')
  <2>1. areas' = areas /\ done' = 0
    OBVIOUS
  <2>2. Len(areas) \in Nat /\ \A i \in DOMAIN areas : i \in Nat /\ i > 0
    OBVIOUS
  <2> QED BY <2>1, <2>2
<1>9. ASSUME Tidy
      PROVE  /\ tables' = ({Dir(d)' : d \in Dirs}
                             \cup {Tab(d, e)' : d \in Dirs, e \in Entry}) \ {None}
             /\ \A d \in Dirs : Dir(d)' # None => \E e \in Entry : Tab(d, e)' # None
             /\ \A d \in Dirs, e \in Entry :
                  Tab(d, e)' # None => \E w \in Mine : PDX1(w) = d /\ PDX0(w) = e
  <2>1. /\ tables = ({Dir(d) : d \in Dirs} \cup {Tab(d, e) : d \in Dirs, e \in Entry}) \ {None}
        /\ \A d \in Dirs : Dir(d) # None => \E e \in Entry : Tab(d, e) # None
        /\ \A d \in Dirs, e \in Entry :
             Tab(d, e) # None => \E w \in Mine : PDX1(w) = d /\ PDX0(w) = e
    BY <1>9 DEF TidyOK
  <2>2. \A f \in tables' : \/ \E d \in Dirs : f = Dir(d)'
                           \/ \E d \in Dirs, e \in Entry : f = Tab(d, e)'
    <3> SUFFICES ASSUME NEW f \in tables'
                 PROVE  \/ \E d \in Dirs : f = Dir(d)'
                        \/ \E d \in Dirs, e \in Entry : f = Tab(d, e)'
      OBVIOUS
    <3>1. CASE f = pd \/ f = pt
      BY <1>4, <3>1
    <3>2. CASE f \notin {pd, pt}
      <4>1. f \in tables
        BY <1>4, <3>2
      <4>2. CASE \E d \in Dirs : f = Dir(d)
        <5>1. PICK d \in Dirs : f = Dir(d)
          BY <4>2
        <5>2. d # D
          BY <1>4, <2>1, <3>2, <4>1, <5>1
        <5> QED BY <1>4, <5>1, <5>2
      <4>3. CASE \E d \in Dirs, e \in Entry : f = Tab(d, e)
        <5>1. PICK d \in Dirs, e \in Entry : f = Tab(d, e)
          BY <4>3
        <5>2. ~(d = D /\ e = E)
          BY <1>4, <2>1, <3>2, <4>1, <5>1
        <5>3. f = Tab(d, e)'
          BY <1>4, <5>1, <5>2
        <5> QED BY <5>3
      <4> QED BY <2>1, <4>1, <4>2, <4>3
    <3> QED BY <3>1, <3>2
  <2>3. None \notin tables'
    BY <1>4, <1>6, <2>1
  <2>4. \A d \in Dirs : Dir(d)' \in tables' \cup {None}
    BY <1>4, <2>1
  <2>5. \A d \in Dirs, e \in Entry : Tab(d, e)' \in tables' \cup {None}
    BY <1>4, <2>1
  <2>6. tables' = ({Dir(d)' : d \in Dirs} \cup {Tab(d, e)' : d \in Dirs, e \in Entry}) \ {None}
    BY <2>2, <2>3, <2>4, <2>5
  <2>7. \A d \in Dirs : Dir(d)' # None => \E e \in Entry : Tab(d, e)' # None
    <3> SUFFICES ASSUME NEW d \in Dirs, Dir(d)' # None PROVE \E e \in Entry : Tab(d, e)' # None
      OBVIOUS
    <3>1. CASE d = D
      BY <1>4, <1>6, <3>1
    <3>2. CASE d # D
      BY <1>4, <2>1, <3>2
    <3> QED BY <3>1, <3>2
  <2>8. \A d \in Dirs, e \in Entry :
          Tab(d, e)' # None => \E w \in Mine : PDX1(w) = d /\ PDX0(w) = e
    BY <1>3, <1>4, <2>1
  <2> QED BY <2>6, <2>7, <2>8
<1> QED BY <1>1, <1>7, <1>8, <1>9 DEF TidyOK

LEMMA InsertKeeps ==
  ASSUME TreeInv, Accounts, done = 0, UNCHANGED <<areas, done>>, UNCHANGED rest,
         NEW v \in Mine, NEW page, NEW left,
         Given(v, page, left), PageInsert(v, page, left)
  PROVE  TreeInv' /\ Accounts'
<1>1. /\ TablesTypeOK /\ TreeOK /\ InAreas /\ TidyOK
      /\ areas \in Seq([start : Int, end : Int])
  BY DEF TreeInv
<1>2. v \in Page /\ page \in Frame \cup Shared /\ left \in SUBSET free
  BY DEF Given
<1>3. free \cap tables = {}
  BY DEF Accounts
<1>4. PICK pd, pt : Inserted(v, page, left, pd, pt)
  BY <1>1, <1>2, <1>3, InsertDoes
<1>5. TablesTypeOK'
  BY <1>1, <1>4, InsertTypes
<1>6. TreeOK'
  BY <1>1, <1>4, InsertTree
<1>7. InAreas'
  BY <1>1, <1>4, InsertInAreas
<1>8. TidyOK'
  BY <1>1, <1>4, InsertTidy
<1>9. Accounts'
  BY <1>1, <1>4, InsertAccounts
<1>10. areas' \in Seq([start : Int, end : Int])
  BY <1>1
<1> QED BY <1>5, <1>6, <1>7, <1>8, <1>9, <1>10 DEF TreeInv

LEMMA SharedIsGiven ==
  ASSUME NEW v \in Page, free \subseteq Frame
  PROVE  Given(v, ParentPage(v), free)
<1>1. ParentPage(v) \in Shared /\ Frame \cap Shared = {}
  BY Kinds
<1> QED BY <1>1 DEF Given

LEMMA AllocIsGiven ==
  ASSUME NEW v \in Page, free \in SUBSET Frame, free # {}
  PROVE  Given(v, Lowest(free), free \ {Lowest(free)})
<1>1. Lowest(free) \in free
  BY LowestIsIn
<1>2. Frame \cap Shared = {}
  BY Kinds
<1> QED BY <1>1, <1>2 DEF Given

LEMMA AllocKeeps ==
  ASSUME TreeInv, Accounts, done = 0, UNCHANGED <<areas, done>>, UNCHANGED rest,
         NEW v \in Mine, AllocPage(v)
  PROVE  TreeInv' /\ Accounts'
<1>1. v \in Page /\ free \in SUBSET Frame
  BY DEF TreeInv, InAreas, TablesTypeOK
<1>2. free # {} /\ PageInsert(v, Lowest(free), free \ {Lowest(free)})
  BY DEF AllocPage
<1>3. Given(v, Lowest(free), free \ {Lowest(free)})
  BY <1>1, <1>2, AllocIsGiven
<1> QED BY <1>2, <1>3, InsertKeeps

\* Steps that leave the tree alone.
LEMMA TreeSame ==
  ASSUME UNCHANGED <<areas, pgdir, table, tables, short, done>>
  PROVE  /\ TreeInv /\ free' \subseteq Frame => TreeInv'
         /\ Own' = Own /\ Mine' = Mine
<1>1. Mine' = Mine
  BY DEF Mine
<1>2. \A w : PageAt(w)' = PageAt(w)
  BY DEF PageAt, TableOf
<1>3. Own' = Own
  BY <1>2 DEF Own, Mapped
<1>4. /\ \A d : Dir(d)' = Dir(d)
      /\ \A d, e : Tab(d, e)' = Tab(d, e)
  BY DEF Dir, Tab
<1>5. TablesTypeOK /\ free' \subseteq Frame => TablesTypeOK'
  BY DEF TablesTypeOK
<1>6. TreeOK => TreeOK'
  BY <1>2, <1>4 DEF TreeOK
<1>7. InAreas => InAreas'
  BY <1>1, <1>2 DEF InAreas
<1>8. TidyOK => TidyOK'
  <2>1. Tidy' = Tidy
    BY <1>1 DEF Tidy
  <2>2. \A w : Kept(w)' = Kept(w)
    BY <1>4 DEF Kept
  <2> QED BY <1>1, <1>4, <2>1, <2>2 DEF TidyOK
<1>9. areas' = areas
  OBVIOUS
<1>10. TreeInv /\ free' \subseteq Frame => TreeInv'
  BY <1>5, <1>6, <1>7, <1>8, <1>9 DEF TreeInv
<1> QED BY <1>1, <1>3, <1>10

\* A directory that page_insert has made and left behind is empty.
LEMMA FailKeeps ==
  ASSUME TreeInv, Accounts, done = 0, UNCHANGED <<areas, done>>, UNCHANGED rest,
         NEW v \in Page, NEW left \in SUBSET free, PageInsertFails(v, left)
  PROVE  TreeInv' /\ Accounts'
<1>1. CASE UNCHANGED <<pgdir, table, tables, free, short>>
  <2>1. UNCHANGED <<areas, pgdir, table, tables, short, done>> /\ free' \subseteq Frame
    BY <1>1 DEF TreeInv, TablesTypeOK
  <2>2. TreeInv' /\ Own' = Own
    BY <2>1, TreeSame
  <2>3. Accounts'
    BY <1>1, <2>2 DEF Accounts, rest
  <2> QED BY <2>2, <2>3
<1>2. CASE Cardinality(left) = 1 /\ Missing(v) = 2
  <2>1. PICK D \in Dirs : D = PDX1(v)
    BY Coordinates
  <2>2. PICK pd : /\ pd = Lowest(left)
                  /\ pgdir' = [pgdir EXCEPT ![D] = pd]
                  /\ table' = [table EXCEPT ![pd] = Empty]
                  /\ tables' = tables \cup {pd}
                  /\ free' = free \ {pd}
                  /\ short' = TRUE
    BY <1>2, <2>1 DEF PageInsertFails
  <2>3. /\ pgdir \in [Dirs -> Frame \cup {None}]
        /\ table \in [Frame -> [Entry -> Frame \cup Shared \cup {None}]]
        /\ free \subseteq Frame /\ tables \subseteq Frame /\ done \in 0 .. 2 * Len(areas)
    BY DEF TreeInv, TablesTypeOK, Dirs
  <2>4. pd \in left
    <3>1. left \in SUBSET Frame
      BY <2>3
    <3>2. Cardinality(left) >= 1
      BY <1>2
    <3>3. left # {}
      BY <3>1, <3>2, EnoughLeft
    <3> QED BY <2>2, <3>1, <3>3, LowestIsIn
  <2>5. pd \in free /\ pd \in Frame /\ pd \notin tables /\ pd # None /\ None \notin Frame
    <3>1. free \cap tables = {}
      BY DEF Accounts
    <3> QED BY <2>3, <2>4, <3>1, Kinds
  <2>6. pgdir[D] = None
    BY <1>2, <2>1 DEF Missing
  <2>7. /\ \A d \in Dirs : Dir(d) \in tables \cup {None}
        /\ \A d \in Dirs, e \in Entry : Tab(d, e) \in tables \cup {None}
        /\ \A c, d \in Dirs : Dir(c) = Dir(d) /\ Dir(c) # None => c = d
        /\ \A c, d \in Dirs, e \in Entry : Tab(d, e) # None => Tab(d, e) # Dir(c)
        /\ \A c, d \in Dirs, e, f \in Entry :
             Tab(c, e) = Tab(d, f) /\ Tab(c, e) # None => c = d /\ e = f
        /\ \A w, u \in Page : PageAt(w) \cap PageAt(u) # {} => w = u
        /\ \A w \in Page : PageAt(w) \cap Shared \subseteq {ParentPage(w)}
    BY DEF TreeInv, TreeOK
  <2>8. \A d \in Dirs : Dir(d)' = IF d = D THEN pd ELSE Dir(d)
    BY <2>2, <2>3 DEF Dir
  <2>9. \A d \in Dirs, e \in Entry : Tab(d, e)' = Tab(d, e)
    <3> SUFFICES ASSUME NEW d \in Dirs, NEW e \in Entry PROVE Tab(d, e)' = Tab(d, e)
      OBVIOUS
    <3>1. CASE d = D
      <4>1. Tab(d, e)' = table'[pd][e]
        BY <2>5, <2>8, <3>1 DEF Tab, Dir
      <4>2. table'[pd] = Empty
        BY <2>2, <2>3, <2>5
      <4> QED BY <2>6, <3>1, <4>1, <4>2 DEF Empty, Tab
    <3>2. CASE d # D
      <4>1. pgdir'[d] = pgdir[d] /\ pgdir[d] # pd
        BY <2>5, <2>7, <2>8, <3>2 DEF Dir
      <4>2. pgdir[d] # None => table'[pgdir[d]] = table[pgdir[d]]
        BY <2>2, <2>3, <4>1
      <4> QED BY <4>1, <4>2 DEF Tab
    <3> QED BY <3>1, <3>2
  <2>10. \A d \in Dirs, e \in Entry, x \in Entry : Ent(d, e, x)' = Ent(d, e, x)
    <3> SUFFICES ASSUME NEW d \in Dirs, NEW e \in Entry, NEW x \in Entry
                 PROVE  Ent(d, e, x)' = Ent(d, e, x)
      OBVIOUS
    <3>1. Tab(d, e)' = Tab(d, e) /\ Tab(d, e) \in tables \cup {None}
      BY <2>7, <2>9
    <3>2. Tab(d, e) # None => table'[Tab(d, e)] = table[Tab(d, e)]
      BY <2>2, <2>3, <2>5, <3>1
    <3> QED BY <3>1, <3>2 DEF Ent
  <2>11. \A w \in Page : PageAt(w)' = PageAt(w)
    <3> SUFFICES ASSUME NEW w \in Page PROVE PageAt(w)' = PageAt(w)
      OBVIOUS
    <3>1. PICK d \in Dirs, e \in Entry, x \in Entry : d = PDX1(w) /\ e = PDX0(w) /\ x = PTX(w)
      BY Coordinates
    <3>2. PageAt(w) = {Ent(PDX1(w), PDX0(w), PTX(w))} \ {None}
      BY PageAtIs
    <3>3. (PageAt(w) = {Ent(PDX1(w), PDX0(w), PTX(w))} \ {None})'
      BY PageAtIsNext
    <3> QED BY <2>10, <3>1, <3>2, <3>3
  <2>12. Own' = Own
    BY <2>11 DEF Own, Mapped
  <2>13. TablesTypeOK'
    <3>1. pgdir' \in [Dirs -> Frame \cup {None}]
      BY <2>2, <2>3, <2>5
    <3>2. Empty \in [Entry -> Frame \cup Shared \cup {None}]
      BY DEF Empty
    <3>3. table' \in [Frame -> [Entry -> Frame \cup Shared \cup {None}]]
      BY <2>2, <2>3, <2>5, <3>2
    <3>4. free' \subseteq Frame /\ tables' \subseteq Frame
      BY <2>2, <2>3, <2>5
    <3>5. short' \in BOOLEAN
      BY <2>2
    <3>6. done' \in 0 .. 2 * Len(areas')
      BY <2>3
    <3> QED BY <3>1, <3>3, <3>4, <3>5, <3>6 DEF TablesTypeOK, Dirs
  <2>14. TreeOK'
    <3>1. \A d \in Dirs : Dir(d)' \in tables' \cup {None}
      BY <2>2, <2>7, <2>8
    <3>2. \A d \in Dirs, e \in Entry : Tab(d, e)' \in tables' \cup {None}
      BY <2>2, <2>7, <2>9
    <3>3. \A c, d \in Dirs : Dir(c)' = Dir(d)' /\ Dir(c)' # None => c = d
      BY <2>5, <2>7, <2>8
    <3>4. \A c, d \in Dirs, e \in Entry : Tab(d, e)' # None => Tab(d, e)' # Dir(c)'
      BY <2>5, <2>7, <2>8, <2>9
    <3>5. \A c, d \in Dirs, e, f \in Entry :
            Tab(c, e)' = Tab(d, f)' /\ Tab(c, e)' # None => c = d /\ e = f
      BY <2>7, <2>9
    <3>6. \A w, u \in Page : PageAt(w)' \cap PageAt(u)' # {} => w = u
      BY <2>7, <2>11
    <3>7. \A w \in Page : PageAt(w)' \cap Shared \subseteq {ParentPage(w)}
      BY <2>7, <2>11
    <3> QED BY <3>1, <3>2, <3>3, <3>4, <3>5, <3>6, <3>7 DEF TreeOK
  <2>15. InAreas'
    <3>1. Mine' = Mine /\ areas' = areas /\ done' = done
      BY DEF Mine
    <3>2. /\ Mine \subseteq Page
          /\ \A w \in Page : PageAt(w) # {} => w \in Mine
      BY DEF TreeInv, InAreas
    <3>3. \A i \in DOMAIN areas : ~(i <= done)
      <4>1. \A i \in DOMAIN areas : i \in Nat /\ i > 0
        BY DEF TreeInv
      <4> QED BY <4>1
    <3> QED BY <2>11, <3>1, <3>2, <3>3 DEF InAreas
  <2>16. TidyOK'
    BY <2>2 DEF TidyOK, Tidy
  <2>17. Accounts'
    BY <2>2, <2>5, <2>12 DEF Accounts, rest
  <2>18. areas' \in Seq([start : Int, end : Int])
    BY DEF TreeInv
  <2> QED BY <2>13, <2>14, <2>15, <2>16, <2>17, <2>18 DEF TreeInv
<1> QED BY <1>1, <1>2 DEF PageInsertFails

LEMMA AllocFailKeeps ==
  ASSUME TreeInv, Accounts, done = 0, UNCHANGED <<areas, done>>, UNCHANGED rest,
         NEW v \in Page, AllocPageFails(v)
  PROVE  TreeInv' /\ Accounts'
<1>1. CASE free = {} /\ UNCHANGED <<pgdir, table, tables, free, short>>
  <2>1. UNCHANGED <<areas, pgdir, table, tables, short, done>> /\ free' \subseteq Frame
    BY <1>1 DEF TreeInv, TablesTypeOK
  <2>2. TreeInv' /\ Own' = Own
    BY <2>1, TreeSame
  <2>3. Accounts'
    BY <1>1, <2>2 DEF Accounts, rest
  <2> QED BY <2>2, <2>3
<1>2. CASE free # {} /\ PageInsertFails(v, free \ {Lowest(free)})
  <2>1. free \ {Lowest(free)} \in SUBSET free
    OBVIOUS
  <2> QED BY <1>2, <2>1, FailKeeps
<1> QED BY <1>1, <1>2 DEF AllocPageFails

-----------------------------------------------------------------------------
(* exit_mmap.                                                              *)

\* unmap_range takes the pages of an area out of their tables.
LEMMA UnmapKeeps ==
  ASSUME TreeInv, Accounts, UNCHANGED rest, done < Len(areas), done' = done + 1,
         UnmapRange(areas[done + 1])
  PROVE  TreeInv' /\ Accounts'
<1>1. /\ pgdir \in [Dirs -> Frame \cup {None}]
      /\ table \in [Frame -> [Entry -> Frame \cup Shared \cup {None}]]
      /\ free \subseteq Frame /\ tables \subseteq Frame /\ short \in BOOLEAN
      /\ done \in Nat /\ Len(areas) \in Nat
  <2>1. Len(areas) \in Nat
    BY DEF TreeInv
  <2> QED BY <2>1 DEF TreeInv, TablesTypeOK, Dirs
<1>2. done + 1 \in DOMAIN areas
  BY <1>1 DEF TreeInv
<1>3. PICK area : area = areas[done + 1]
  OBVIOUS
<1>4. Pages(area) \subseteq Mine /\ Mine \subseteq Page /\ Pages(area) \subseteq Page
  <2>1. Pages(area) \subseteq Mine
    BY <1>2, <1>3 DEF Mine
  <2> QED BY <2>1 DEF TreeInv, InAreas
<1>5. /\ table' = [f \in Frame |->
           IF f \in tables THEN [e \in Entry |->
             IF \E w \in Pages(area) : f \in TableOf(w) /\ e = PTX(w) THEN None
             ELSE table[f][e]]
           ELSE table[f]]
      /\ free' = free \cup (Unmapped(area) \ Shared)
      /\ UNCHANGED <<areas, pgdir, tables, short>>
  BY <1>3 DEF UnmapRange, ComesTo
<1>6. /\ \A d \in Dirs : Dir(d) \in tables \cup {None}
      /\ \A d \in Dirs, e \in Entry : Tab(d, e) \in tables \cup {None}
      /\ \A c, d \in Dirs : Dir(c) = Dir(d) /\ Dir(c) # None => c = d
      /\ \A c, d \in Dirs, e \in Entry : Tab(d, e) # None => Tab(d, e) # Dir(c)
      /\ \A c, d \in Dirs, e, f \in Entry :
           Tab(c, e) = Tab(d, f) /\ Tab(c, e) # None => c = d /\ e = f
      /\ \A w, u \in Page : PageAt(w) \cap PageAt(u) # {} => w = u
      /\ \A w \in Page : PageAt(w) \cap Shared \subseteq {ParentPage(w)}
  BY DEF TreeInv, TreeOK
<1>7. \A w \in Pages(area) : TableOf(w) = {Tab(PDX1(w), PDX0(w))} \ {None}
  BY <1>4, PageAtIs
<1>8. \A w \in Pages(area) : PDX1(w) \in Dirs /\ PDX0(w) \in Entry /\ PTX(w) \in Entry
  BY <1>4, Coordinates
<1>9. \A f \in Frame, e \in Entry :
        table'[f][e] = IF f \in tables /\ \E w \in Pages(area) : f \in TableOf(w) /\ e = PTX(w)
                       THEN None ELSE table[f][e]
  BY <1>5
<1>10. \A d \in Dirs : Dir(d)' = Dir(d)
  BY <1>5 DEF Dir
<1>11. \A d \in Dirs, e \in Entry : Tab(d, e)' = Tab(d, e)
  <2> SUFFICES ASSUME NEW d \in Dirs, NEW e \in Entry PROVE Tab(d, e)' = Tab(d, e)
    OBVIOUS
  <2>1. CASE Dir(d) = None
    BY <1>5, <2>1 DEF Tab, Dir
  <2>2. CASE Dir(d) # None
    <3>1. Dir(d) \in Frame
      BY <1>1, <1>6, <2>2
    <3>2. \A w \in Pages(area) : Dir(d) \notin TableOf(w)
      BY <1>6, <1>7, <1>8
    <3>3. table'[Dir(d)][e] = table[Dir(d)][e]
      BY <1>9, <3>1, <3>2
    <3> QED BY <1>5, <2>2, <3>3 DEF Tab, Dir
  <2> QED BY <2>1, <2>2
<1>12. \A w \in Page : PageAt(w)' = IF w \in Pages(area) THEN {} ELSE PageAt(w)
  <2> SUFFICES ASSUME NEW w \in Page
               PROVE  PageAt(w)' = IF w \in Pages(area) THEN {} ELSE PageAt(w)
    OBVIOUS
  <2>1. PICK d \in Dirs, e \in Entry, x \in Entry : d = PDX1(w) /\ e = PDX0(w) /\ x = PTX(w)
    BY Coordinates
  <2>2. PageAt(w) = {Ent(d, e, x)} \ {None}
    BY <2>1, PageAtIs
  <2>3. (PageAt(w) = {Ent(PDX1(w), PDX0(w), PTX(w))} \ {None})'
    BY PageAtIsNext
  <2>4. PageAt(w)' = {Ent(d, e, x)'} \ {None}
    BY <2>1, <2>3
  <2>5. CASE Tab(d, e) = None
    <3>1. Ent(d, e, x) = None /\ Ent(d, e, x)' = None
      BY <1>11, <2>5 DEF Ent
    <3> QED BY <2>2, <2>4, <3>1
  <2>6. CASE Tab(d, e) # None
    <3>1. Tab(d, e) \in tables /\ Tab(d, e) \in Frame
      BY <1>1, <1>6, <2>6
    <3>2. Ent(d, e, x)' = table'[Tab(d, e)][x] /\ Ent(d, e, x) = table[Tab(d, e)][x]
      BY <1>11, <2>6 DEF Ent
    <3>3. CASE w \in Pages(area)
      <4>1. Tab(d, e) \in TableOf(w) /\ x = PTX(w)
        BY <1>7, <2>1, <2>6, <3>3
      <4>2. table'[Tab(d, e)][x] = None
        BY <1>9, <3>1, <3>3, <4>1
      <4> QED BY <2>4, <3>2, <3>3, <4>2
    <3>4. CASE w \notin Pages(area)
      <4>1. \A u \in Pages(area) : ~(Tab(d, e) \in TableOf(u) /\ x = PTX(u))
        <5> SUFFICES ASSUME NEW u \in Pages(area), Tab(d, e) \in TableOf(u), x = PTX(u)
                     PROVE  FALSE
          OBVIOUS
        <5>1. Tab(d, e) = Tab(PDX1(u), PDX0(u)) /\ u \in Page
          BY <1>4, <1>7
        <5>2. d = PDX1(u) /\ e = PDX0(u)
          BY <1>6, <1>8, <2>6, <5>1
        <5>3. u = w
          BY <2>1, <5>1, <5>2, SamePlace
        <5> QED BY <3>4, <5>3
      <4>2. table'[Tab(d, e)][x] = table[Tab(d, e)][x]
        BY <1>9, <3>1, <4>1
      <4> QED BY <2>2, <2>4, <3>2, <3>4, <4>2
    <3> QED BY <3>3, <3>4
  <2> QED BY <2>5, <2>6
<1>13. Unmapped(area) = UNION {PageAt(w) : w \in Pages(area)}
  BY DEF Unmapped, ComesTo
<1>14. Mapped' = Mapped \ Unmapped(area) /\ Unmapped(area) \subseteq Mapped
  <2>1. Mapped' = UNION {PageAt(w)' : w \in Page}
    BY DEF Mapped
  <2>2. Mapped = UNION {PageAt(w) : w \in Page}
    BY DEF Mapped
  <2>3. Mapped' \subseteq Mapped \ Unmapped(area)
    <3> SUFFICES ASSUME NEW f, NEW w \in Page, f \in PageAt(w)'
                 PROVE  f \in Mapped /\ f \notin Unmapped(area)
      BY <2>1
    <3>1. w \notin Pages(area) /\ f \in PageAt(w)
      BY <1>12
    <3>2. \A u \in Pages(area) : f \notin PageAt(u)
      BY <1>4, <1>6, <3>1
    <3> QED BY <1>13, <2>2, <3>1, <3>2
  <2>4. Mapped \ Unmapped(area) \subseteq Mapped'
    <3> SUFFICES ASSUME NEW f, NEW w \in Page, f \in PageAt(w), f \notin Unmapped(area)
                 PROVE  f \in Mapped'
      BY <2>2
    <3>1. w \notin Pages(area)
      BY <1>13
    <3> QED BY <1>12, <2>1, <3>1
  <2>5. Unmapped(area) \subseteq Mapped
    BY <1>4, <1>13, <2>2
  <2> QED BY <2>3, <2>4, <2>5
<1>15. Own' = Own \ Unmapped(area) /\ Unmapped(area) \ Shared \subseteq Own
  BY <1>14 DEF Own
<1>16. Unmapped(area) \ Shared \subseteq Frame
  <2>1. \A w \in Pages(area) : PageAt(w) \subseteq Frame \cup Shared
    BY <1>4, PagesAre DEF TreeInv
  <2> QED BY <1>13, <2>1
<1>17. TablesTypeOK'
  <2>1. table' \in [Frame -> [Entry -> Frame \cup Shared \cup {None}]]
    <3> SUFFICES ASSUME NEW f \in Frame
                 PROVE  table'[f] \in [Entry -> Frame \cup Shared \cup {None}]
      BY <1>5
    <3>1. table[f] \in [Entry -> Frame \cup Shared \cup {None}]
      BY <1>1
    <3>2. CASE f \in tables
      <4>1. table'[f] = [e \in Entry |->
              IF \E w \in Pages(area) : f \in TableOf(w) /\ e = PTX(w) THEN None
              ELSE table[f][e]]
        BY <1>5, <3>2
      <4> QED BY <3>1, <4>1
    <3>3. CASE f \notin tables
      BY <1>5, <3>1, <3>3
    <3> QED BY <3>2, <3>3
  <2>2. free' \subseteq Frame
    BY <1>1, <1>5, <1>16
  <2>3. done' \in 0 .. 2 * Len(areas')
    BY <1>1, <1>5
  <2> QED BY <1>1, <1>5, <2>1, <2>2, <2>3 DEF TablesTypeOK, Dirs
<1>18. TreeOK'
  <2>1. tables' = tables
    BY <1>5
  <2>2. \A w, u \in Page : PageAt(w)' \cap PageAt(u)' # {} => w = u
    BY <1>6, <1>12
  <2>3. \A w \in Page : PageAt(w)' \cap Shared \subseteq {ParentPage(w)}
    BY <1>6, <1>12
  <2> QED BY <1>6, <1>10, <1>11, <2>1, <2>2, <2>3 DEF TreeOK
<1>19. Mine' = Mine /\ areas' = areas
  BY <1>5 DEF Mine
<1>20. InAreas'
  <2>1. \A w \in Page : PageAt(w)' # {} => w \in Mine
    BY <1>12 DEF TreeInv, InAreas
  <2>2. ASSUME NEW i \in DOMAIN areas, i <= done + 1, NEW w \in Pages(areas[i])
        PROVE  PageAt(w)' = {}
    <3>1. i \in Nat /\ w \in Mine /\ w \in Page
      <4>1. i \in Nat
        BY DEF TreeInv
      <4>2. w \in Mine
        BY DEF Mine
      <4> QED BY <1>4, <4>1, <4>2
    <3>2. CASE i = done + 1
      BY <1>3, <1>12, <2>2, <3>1, <3>2
    <3>3. CASE i # done + 1
      <4>1. i <= done
        BY <1>1, <2>2, <3>1, <3>3
      <4>2. PageAt(w) = {}
        BY <4>1 DEF TreeInv, InAreas
      <4> QED BY <1>12, <3>1, <4>2
    <3> QED BY <3>2, <3>3
  <2> QED BY <1>4, <1>19, <2>1, <2>2 DEF InAreas
<1>21. TidyOK'
  <2>1. Tidy' = Tidy
    BY <1>5, <1>19 DEF Tidy
  <2>2. \A i \in DOMAIN areas' : ~(i + Len(areas') <= done')
    <3>1. \A i \in DOMAIN areas : i \in Nat /\ i > 0
      BY DEF TreeInv
    <3> QED BY <1>1, <1>19, <3>1
  <2>3. tables' = tables
    BY <1>5
  <2>4. Tidy =>
          /\ tables = ({Dir(d) : d \in Dirs} \cup {Tab(d, e) : d \in Dirs, e \in Entry}) \ {None}
          /\ \A d \in Dirs : Dir(d) # None => \E e \in Entry : Tab(d, e) # None
          /\ \A d \in Dirs, e \in Entry :
               Tab(d, e) # None => \E v \in Mine : PDX1(v) = d /\ PDX0(v) = e
    BY DEF TreeInv, TidyOK
  <2>5. {Dir(d)' : d \in Dirs} = {Dir(d) : d \in Dirs}
    BY <1>10
  <2>6. {Tab(d, e)' : d \in Dirs, e \in Entry} = {Tab(d, e) : d \in Dirs, e \in Entry}
    BY <1>11
  <2> QED BY <1>10, <1>11, <1>19, <2>1, <2>2, <2>3, <2>4, <2>5, <2>6 DEF TidyOK
<1>22. Accounts'
  <2> DEFINE U == Unmapped(area) \ Shared
  <2>1. Own' = Own \ U /\ U \subseteq Own /\ free' = free \cup U /\ tables' = tables
    BY <1>5, <1>15 DEF Own
  <2> HIDE DEF U
  <2>2. kstack' = kstack /\ root' = root /\ lost' = lost /\ given' = given
    BY DEF rest
  <2> QED BY <2>1, <2>2 DEF Accounts
<1>23. areas' \in Seq([start : Int, end : Int])
  BY <1>5 DEF TreeInv
<1> QED BY <1>17, <1>18, <1>20, <1>21, <1>22, <1>23 DEF TreeInv

\* After that nothing is mapped, and the tables are empty.
LEMMA NothingMapped ==
  ASSUME TreeInv, done >= Len(areas)
  PROVE  /\ \A v \in Page : PageAt(v) = {}
         /\ Own = {}
         /\ \A d \in Dirs, e \in Entry : Tab(d, e) # None => table[Tab(d, e)] = Empty
<1>1. \A v \in Page : PageAt(v) = {}
  <2> SUFFICES ASSUME NEW v \in Page, PageAt(v) # {} PROVE FALSE
    OBVIOUS
  <2>1. v \in Mine
    BY DEF TreeInv, InAreas
  <2>2. PICK i \in DOMAIN areas : v \in Pages(areas[i])
    BY <2>1 DEF Mine
  <2>3. i <= done
    <3>1. i \in Nat /\ Len(areas) \in Nat /\ i <= Len(areas) /\ done \in Nat
      <4>1. Len(areas) \in Nat /\ i \in Nat /\ i <= Len(areas)
        BY DEF TreeInv
      <4> QED BY <4>1 DEF TreeInv, TablesTypeOK
    <3> QED BY <3>1
  <2> QED BY <2>2, <2>3 DEF TreeInv, InAreas
<1>2. Own = {}
  BY <1>1 DEF Own, Mapped
<1>3. ASSUME NEW d \in Dirs, NEW e \in Entry, Tab(d, e) # None
      PROVE  table[Tab(d, e)] = Empty
  <2>1. Tab(d, e) \in Frame
    BY <1>3 DEF TreeInv, TreeOK, TablesTypeOK
  <2>2. table[Tab(d, e)] \in [Entry -> Frame \cup Shared \cup {None}]
    BY <2>1 DEF TreeInv, TablesTypeOK
  <2>3. \A x \in Entry : table[Tab(d, e)][x] = None
    <3> SUFFICES ASSUME NEW x \in Entry PROVE table[Tab(d, e)][x] = None
      OBVIOUS
    <3>1. PICK v \in Page : PDX1(v) = d /\ PDX0(v) = e /\ PTX(v) = x
      BY EveryPlace
    <3>2. {Ent(d, e, x)} \ {None} = {}
      <4>1. PageAt(v) = {Ent(PDX1(v), PDX0(v), PTX(v))} \ {None}
        BY PageAtIs
      <4> QED BY <1>1, <3>1, <4>1
    <3>3. Ent(d, e, x) = table[Tab(d, e)][x]
      BY <1>3 DEF Ent
    <3> QED BY <3>2, <3>3
  <2> QED BY <2>2, <2>3 DEF Empty
<1> QED BY <1>1, <1>2, <1>3

\* The tables that exit_range finds for an area, and the directories it frees.
Emptied(area) == {f \in tables : \E v \in Pages(area) : f = Tab(PDX1(v), PDX0(v))}
Goes(d, area) ==
  /\ Dir(d) # None /\ \E v \in Pages(area) : PDX1(v) = d
  /\ \A v \in Pages(area) : PDX1(v) = d => Tab(d, PDX0(v)) # None

\* What it does to the tree.
Exited(area) ==
  /\ UNCHANGED <<areas, short>>
  /\ tables' = tables \ (Emptied(area) \cup {Dir(d) : d \in {c \in Dirs : Goes(c, area)}})
  /\ free' = free \cup Emptied(area) \cup {Dir(d) : d \in {c \in Dirs : Goes(c, area)}}
  /\ \A d \in Dirs : Dir(d)' = IF Goes(d, area) THEN None ELSE Dir(d)
  /\ \A d \in Dirs, e \in Entry :
       Tab(d, e)' = IF Goes(d, area) \/ Tab(d, e) \in Emptied(area) THEN None ELSE Tab(d, e)
  /\ \A v \in Page : PageAt(v)' = {}
  /\ pgdir' \in [0 .. NPDEENTRY - 1 -> Frame \cup {None}]
  /\ table' \in [Frame -> [Entry -> Frame \cup Shared \cup {None}]]

LEMMA ExitDoes ==
  ASSUME TreeInv, Accounts, done >= Len(areas), NEW area, Pages(area) \subseteq Page,
         ExitRange(area)
  PROVE  Exited(area)
<1>1. /\ pgdir \in [Dirs -> Frame \cup {None}] /\ DOMAIN pgdir = Dirs
      /\ table \in [Frame -> [Entry -> Frame \cup Shared \cup {None}]]
      /\ tables \subseteq Frame /\ None \notin Frame
  BY Kinds DEF TreeInv, TablesTypeOK, Dirs
<1>2. /\ \A d \in Dirs : Dir(d) \in tables \cup {None}
      /\ \A d \in Dirs, e \in Entry : Tab(d, e) \in tables \cup {None}
      /\ \A c, d \in Dirs : Dir(c) = Dir(d) /\ Dir(c) # None => c = d
      /\ \A c, d \in Dirs, e \in Entry : Tab(d, e) # None => Tab(d, e) # Dir(c)
      /\ \A c, d \in Dirs, e, f \in Entry :
           Tab(c, e) = Tab(d, f) /\ Tab(c, e) # None => c = d /\ e = f
  BY DEF TreeInv, TreeOK
<1>3. \A d \in Dirs, e \in Entry : Tab(d, e) # None => table[Tab(d, e)] = Empty
  BY NothingMapped
<1>4. \A v \in Pages(area) : PDX1(v) \in Dirs /\ PDX0(v) \in Entry
  BY Coordinates
<1>5. \A d \in Dirs : \A e : e \in Looked(area, d) <=>
                                    \E v \in Pages(area) : PDX1(v) = d /\ PDX0(v) = e
  BY DEF Looked
<1>6. ASSUME NEW d \in Dirs, Dir(d) # None
      PROVE  /\ EmptyTables(area, d) = {Tab(d, e) : e \in Looked(area, d)} \ {None}
             /\ FreesDirectory(area, d) <=> \A e \in Looked(area, d) : Tab(d, e) # None
  <2>1. \A e : table[pgdir[d]][e] = Tab(d, e)
    BY <1>6 DEF Tab, Dir
  <2>2. Looked(area, d) \subseteq Entry
    BY <1>4, <1>5
  <2>3. \A e \in Looked(area, d) :
          /\ Tab(d, e) # None => Tab(d, e) \in tables /\ table[Tab(d, e)] = Empty
          /\ Tab(d, e) \in tables => Tab(d, e) # None
    BY <1>1, <1>2, <1>3, <2>2
  <2>4. EmptyTables(area, d) =
          {Tab(d, e) : e \in Looked(area, d)} \cap {f \in tables : table[f] = Empty}
    BY <2>1 DEF EmptyTables
  <2>5. EmptyTables(area, d) = {Tab(d, e) : e \in Looked(area, d)} \ {None}
    BY <2>3, <2>4
  <2>6. FreesDirectory(area, d) <=> \A e \in Looked(area, d) : Tab(d, e) # None
    BY <2>1 DEF FreesDirectory
  <2> QED BY <2>5, <2>6
<1> DEFINE emptied == Emptied(area)
<1>7. UNION {EmptyTables(area, d1) : d1 \in {e \in DOMAIN pgdir : pgdir[e] # None}} = emptied
  <2> DEFINE there == UNION {EmptyTables(area, d1) : d1 \in {e \in DOMAIN pgdir : pgdir[e] # None}}
  <2>1. ASSUME NEW f \in there PROVE f \in emptied
    <3>1. PICK d \in Dirs : Dir(d) # None /\ f \in EmptyTables(area, d)
      BY <1>1, <2>1 DEF Dir
    <3>2. PICK e \in Looked(area, d) : f = Tab(d, e) /\ f # None
      BY <1>6, <3>1
    <3>3. PICK v \in Pages(area) : PDX1(v) = d /\ PDX0(v) = e
      BY <1>5, <3>2
    <3>4. e \in Entry /\ f \in tables /\ f = Tab(PDX1(v), PDX0(v))
      BY <1>2, <1>4, <3>2, <3>3
    <3> QED BY <3>4 DEF Emptied
  <2>2. ASSUME NEW f \in emptied PROVE f \in there
    <3>1. PICK v \in Pages(area) : f = Tab(PDX1(v), PDX0(v)) /\ f \in tables
      BY <2>2 DEF Emptied
    <3>2. PICK d \in Dirs, e \in Entry : d = PDX1(v) /\ e = PDX0(v)
      BY <1>4
    <3>3. f # None /\ f = Tab(d, e)
      BY <1>1, <3>1, <3>2
    <3>4. Dir(d) # None
      BY <3>3 DEF Tab, Dir
    <3>5. e \in Looked(area, d)
      BY <1>5, <3>2
    <3>6. f \in EmptyTables(area, d)
      BY <1>6, <3>3, <3>4, <3>5
    <3> QED BY <1>1, <3>4, <3>6 DEF Dir
  <2> QED BY <2>1, <2>2
<1>8. \A d \in Dirs : d \in FreedDirectories(area) <=> Goes(d, area)
  <2> SUFFICES ASSUME NEW d \in Dirs PROVE d \in FreedDirectories(area) <=> Goes(d, area)
    OBVIOUS
  <2>1. d \in FreedDirectories(area) <=>
          Looked(area, d) # {} /\ Dir(d) # None /\ FreesDirectory(area, d)
    BY <1>1 DEF FreedDirectories, Dir
  <2>2. Looked(area, d) # {} <=> \E v \in Pages(area) : PDX1(v) = d
    BY <1>5
  <2>3. Dir(d) # None => (FreesDirectory(area, d) <=>
          \A v \in Pages(area) : PDX1(v) = d => Tab(d, PDX0(v)) # None)
    <3>1. (\A e \in Looked(area, d) : Tab(d, e) # None) <=>
            \A v \in Pages(area) : PDX1(v) = d => Tab(d, PDX0(v)) # None
      BY <1>5
    <3> QED BY <1>6, <3>1
  <2> QED BY <2>1, <2>2, <2>3 DEF Goes
<1>9. {pgdir[d1] : d1 \in FreedDirectories(area)}
        = {Dir(d) : d \in {c \in Dirs : Goes(c, area)}}
  <2>1. FreedDirectories(area) = {c \in Dirs : Goes(c, area)}
    <3>1. FreedDirectories(area) \subseteq Dirs
      BY <1>1 DEF FreedDirectories
    <3> QED BY <1>8, <3>1
  <2> QED BY <2>1 DEF Dir
<1> DEFINE freed == {Dir(d) : d \in {c \in Dirs : Goes(c, area)}}
<1>10. /\ pgdir' = [d1 \in Dirs |-> EntryAfter(d1, area)]
       /\ table' = [f \in Frame |->
            IF \E d1 \in Dirs : f = pgdir[d1] /\ f # None
            THEN [e \in Entry |-> IF table[f][e] \in emptied THEN None ELSE table[f][e]]
            ELSE table[f]]
       /\ free' = free \cup (emptied \cup freed) /\ tables' = tables \ (emptied \cup freed)
       /\ UNCHANGED <<areas, short>>
  <2> HIDE DEF emptied, freed
  <2> QED BY <1>1, <1>7, <1>9 DEF ExitRange, freed
<1>11. \A d \in Dirs : Dir(d)' = IF Goes(d, area) THEN None ELSE Dir(d)
  BY <1>8, <1>10 DEF Dir, EntryAfter
<1>12. emptied \subseteq tables
  BY DEF Emptied
<1> HIDE DEF emptied, freed
<1>13. \A d \in Dirs, e \in Entry :
         Tab(d, e)' = IF Goes(d, area) \/ Tab(d, e) \in emptied THEN None ELSE Tab(d, e)
  <2> SUFFICES ASSUME NEW d \in Dirs, NEW e \in Entry
               PROVE  Tab(d, e)' =
                        IF Goes(d, area) \/ Tab(d, e) \in emptied THEN None ELSE Tab(d, e)
    OBVIOUS
  <2>1. CASE Goes(d, area)
    <3>1. pgdir'[d] = None
      BY <1>11, <2>1 DEF Dir
    <3> QED BY <2>1, <3>1 DEF Tab
  <2>2. CASE ~Goes(d, area)
    <3>1. pgdir'[d] = pgdir[d]
      BY <1>11, <2>2 DEF Dir
    <3>2. CASE pgdir[d] = None
      BY <3>1, <3>2, <2>2 DEF Tab
    <3>3. CASE pgdir[d] # None
      <4>1. pgdir[d] \in Frame
        BY <1>1, <3>3
      <4>2. table'[pgdir[d]] =
              [x \in Entry |-> IF table[pgdir[d]][x] \in emptied THEN None ELSE table[pgdir[d]][x]]
        BY <1>10, <3>3, <4>1
      <4>3. Tab(d, e) = table[pgdir[d]][e] /\ Tab(d, e)' = table'[pgdir[d]][e]
        BY <3>1, <3>3 DEF Tab
      <4> QED BY <2>2, <4>2, <4>3
    <3> QED BY <3>2, <3>3
  <2> QED BY <2>1, <2>2
<1>14. \A v \in Page : PageAt(v)' = {}
  <2> SUFFICES ASSUME NEW v \in Page PROVE PageAt(v)' = {}
    OBVIOUS
  <2>1. PICK d \in Dirs, e \in Entry, x \in Entry : d = PDX1(v) /\ e = PDX0(v) /\ x = PTX(v)
    BY Coordinates
  <2>2. (PageAt(v) = {Ent(PDX1(v), PDX0(v), PTX(v))} \ {None})'
    BY PageAtIsNext
  <2>3. PageAt(v)' = {Ent(d, e, x)'} \ {None}
    BY <2>1, <2>2
  <2>4. CASE Tab(d, e)' = None
    <3>1. Ent(d, e, x)' = None
      BY <2>4 DEF Ent
    <3> QED BY <2>3, <3>1
  <2>5. CASE Tab(d, e)' # None
    <3>1. Tab(d, e)' = Tab(d, e) /\ Tab(d, e) # None
      BY <1>13, <2>5
    <3>2. Tab(d, e) \in Frame /\ \A c \in Dirs : Tab(d, e) # pgdir[c]
      BY <1>1, <1>2, <3>1 DEF Dir
    <3>3. table'[Tab(d, e)] = Empty
      BY <1>3, <1>10, <3>1, <3>2
    <3>4. Ent(d, e, x)' = table'[Tab(d, e)][x]
      BY <2>5, <3>1 DEF Ent
    <3>5. Ent(d, e, x)' = None
      BY <3>3, <3>4 DEF Empty
    <3> QED BY <2>3, <3>5
  <2> QED BY <2>4, <2>5
<1>15. pgdir' \in [Dirs -> Frame \cup {None}]
  <2>1. \A d \in Dirs : EntryAfter(d, area) \in Frame \cup {None}
    BY <1>1 DEF EntryAfter
  <2> QED BY <1>10, <2>1
<1>16. table' \in [Frame -> [Entry -> Frame \cup Shared \cup {None}]]
  <2> SUFFICES ASSUME NEW f \in Frame
               PROVE  table'[f] \in [Entry -> Frame \cup Shared \cup {None}]
    BY <1>10
  <2>1. table[f] \in [Entry -> Frame \cup Shared \cup {None}]
    BY <1>1
  <2>2. \/ table'[f] = [e \in Entry |-> IF table[f][e] \in emptied THEN None ELSE table[f][e]]
        \/ table'[f] = table[f]
    BY <1>10
  <2>3. [e \in Entry |-> IF table[f][e] \in emptied THEN None ELSE table[f][e]]
          \in [Entry -> Frame \cup Shared \cup {None}]
    BY <2>1
  <2> QED BY <2>1, <2>2, <2>3
<1>17. /\ UNCHANGED <<areas, short>>
       /\ tables' = tables \ (emptied \cup freed) /\ free' = free \cup emptied \cup freed
  BY <1>10
<1> QED
  BY <1>11, <1>13, <1>14, <1>15, <1>16, <1>17 DEF Exited, emptied, freed, Dirs

LEMMA ExitKeeps ==
  ASSUME TreeInv, Accounts, UNCHANGED rest, done >= Len(areas), done < 2 * Len(areas),
         done' = done + 1, ExitRange(areas[done - Len(areas) + 1])
  PROVE  TreeInv' /\ Accounts'
<1>1. /\ free \subseteq Frame /\ tables \subseteq Frame /\ short \in BOOLEAN
      /\ done \in Nat /\ Len(areas) \in Nat /\ None \notin Frame
      /\ areas \in Seq([start : Int, end : Int]) /\ TidyOK
  <2>1. Len(areas) \in Nat
    BY DEF TreeInv
  <2> QED BY <2>1, Kinds DEF TreeInv, TablesTypeOK
<1>2. PICK k \in DOMAIN areas : k = done - Len(areas) + 1
  <2>1. done - Len(areas) + 1 \in 1 .. Len(areas)
    BY <1>1
  <2> QED BY <1>1, <2>1
<1>3. PICK area : area = areas[k]
  OBVIOUS
<1>4. Pages(area) \subseteq Mine /\ Mine \subseteq Page /\ Pages(area) \subseteq Page
  <2>1. Pages(area) \subseteq Mine
    BY <1>3 DEF Mine
  <2> QED BY <2>1 DEF TreeInv, InAreas
<1>5. Exited(area)
  BY <1>2, <1>3, <1>4, ExitDoes
<1> DEFINE freed == {Dir(d) : d \in {c \in Dirs : Goes(c, area)}}
<1>6. /\ areas' = areas /\ short' = short
      /\ tables' = tables \ (Emptied(area) \cup freed)
      /\ free' = free \cup Emptied(area) \cup freed
      /\ \A d \in Dirs : Dir(d)' = IF Goes(d, area) THEN None ELSE Dir(d)
      /\ \A d \in Dirs, e \in Entry :
           Tab(d, e)' = IF Goes(d, area) \/ Tab(d, e) \in Emptied(area) THEN None ELSE Tab(d, e)
      /\ \A v \in Page : PageAt(v)' = {}
      /\ pgdir' \in [0 .. NPDEENTRY - 1 -> Frame \cup {None}]
      /\ table' \in [Frame -> [Entry -> Frame \cup Shared \cup {None}]]
  BY <1>5 DEF Exited
<1>7. /\ \A d \in Dirs : Dir(d) \in tables \cup {None}
      /\ \A d \in Dirs, e \in Entry : Tab(d, e) \in tables \cup {None}
      /\ \A c, d \in Dirs : Dir(c) = Dir(d) /\ Dir(c) # None => c = d
      /\ \A c, d \in Dirs, e \in Entry : Tab(d, e) # None => Tab(d, e) # Dir(c)
      /\ \A c, d \in Dirs, e, f \in Entry :
           Tab(c, e) = Tab(d, f) /\ Tab(c, e) # None => c = d /\ e = f
  BY DEF TreeInv, TreeOK
<1>8. None \notin tables
  BY <1>1
<1>9. Emptied(area) \subseteq tables /\ freed \subseteq tables
  <2>1. Emptied(area) \subseteq tables
    BY DEF Emptied
  <2>2. freed \subseteq tables
    BY <1>7 DEF Goes
  <2> QED BY <2>1, <2>2
<1>10. \A d \in Dirs : Dir(d) \notin Emptied(area)
  <2> SUFFICES ASSUME NEW d \in Dirs, Dir(d) \in Emptied(area) PROVE FALSE
    OBVIOUS
  <2>1. PICK c \in Dirs, e \in Entry : Dir(d) = Tab(c, e)
    BY <1>4, Coordinates DEF Emptied
  <2>2. Tab(c, e) # None
    BY <1>8, <1>9, <2>1
  <2> QED BY <1>7, <2>1, <2>2
<1>11. \A d \in Dirs : Dir(d) # None /\ ~Goes(d, area) => Dir(d) \notin freed
  BY <1>7
<1>12. \A d \in Dirs, e \in Entry : Tab(d, e) \notin freed
  <2> SUFFICES ASSUME NEW d \in Dirs, NEW e \in Entry, NEW c \in Dirs, Goes(c, area),
                      Tab(d, e) = Dir(c)
               PROVE  FALSE
    OBVIOUS
  <2>1. Dir(c) # None
    BY DEF Goes
  <2> QED BY <1>7, <2>1
<1> HIDE DEF freed
<1>13. Own = {} /\ Own' = {}
  <2>1. Own = {}
    BY NothingMapped
  <2>2. Own' = {}
    BY <1>6 DEF Own, Mapped
  <2> QED BY <2>1, <2>2
<1>14. Mine' = Mine
  BY <1>6 DEF Mine
<1>15. TablesTypeOK'
  <2>1. free' \subseteq Frame /\ tables' \subseteq Frame
    BY <1>1, <1>6, <1>9
  <2>2. done' \in 0 .. 2 * Len(areas')
    BY <1>1, <1>6
  <2> QED BY <1>1, <1>6, <2>1, <2>2 DEF TablesTypeOK
<1>16. TreeOK'
  <2>1. \A d \in Dirs : Dir(d)' \in tables' \cup {None}
    BY <1>6, <1>7, <1>10, <1>11
  <2>2. \A d \in Dirs, e \in Entry : Tab(d, e)' \in tables' \cup {None}
    BY <1>6, <1>7, <1>12
  <2>3. \A c, d \in Dirs : Dir(c)' = Dir(d)' /\ Dir(c)' # None => c = d
    BY <1>6, <1>7
  <2>4. \A c, d \in Dirs, e \in Entry : Tab(d, e)' # None => Tab(d, e)' # Dir(c)'
    BY <1>6, <1>7
  <2>5. \A c, d \in Dirs, e, f \in Entry :
          Tab(c, e)' = Tab(d, f)' /\ Tab(c, e)' # None => c = d /\ e = f
    BY <1>6, <1>7
  <2>6. /\ \A v, w \in Page : PageAt(v)' \cap PageAt(w)' # {} => v = w
        /\ \A v \in Page : PageAt(v)' \cap Shared \subseteq {ParentPage(v)}
    BY <1>6
  <2> QED BY <2>1, <2>2, <2>3, <2>4, <2>5, <2>6 DEF TreeOK
<1>17. InAreas'
  <2>1. \A i \in DOMAIN areas' : Pages(areas'[i]) \subseteq Page
    <3>1. \A i \in DOMAIN areas : Pages(areas[i]) \subseteq Mine
      BY DEF Mine
    <3> QED BY <1>4, <1>6, <3>1
  <2> QED BY <1>4, <1>6, <1>14, <2>1 DEF InAreas
<1>18. Accounts'
  <2>1. kstack' = kstack /\ root' = root /\ lost' = lost /\ given' = given
    BY DEF rest
  <2> QED BY <1>6, <1>9, <1>13, <2>1 DEF Accounts
<1>19. Tidy' = Tidy
  BY <1>6, <1>14 DEF Tidy
<1>20. ASSUME Tidy
       PROVE  /\ tables' = ({Dir(d)' : d \in Dirs}
                             \cup {Tab(d, e)' : d \in Dirs, e \in Entry}) \ {None}
              /\ \A d \in Dirs : Dir(d)' # None => \E e \in Entry : Tab(d, e)' # None
              /\ \A d \in Dirs, e \in Entry :
                   Tab(d, e)' # None => \E v \in Mine : PDX1(v) = d /\ PDX0(v) = e
              /\ \A i \in DOMAIN areas : i + Len(areas) <= done + 1 =>
                   \A v \in Pages(areas[i]) : Dir(PDX1(v))' = None
  <2>1. /\ tables = ({Dir(d) : d \in Dirs} \cup {Tab(d, e) : d \in Dirs, e \in Entry}) \ {None}
        /\ \A d \in Dirs : Dir(d) # None => \E e \in Entry : Tab(d, e) # None
        /\ \A d \in Dirs, e \in Entry :
             Tab(d, e) # None => \E v \in Mine : PDX1(v) = d /\ PDX0(v) = e
        /\ \A i \in DOMAIN areas : i + Len(areas) <= done => \A v \in Pages(areas[i]) : ~Kept(v)
    BY <1>20 DEF TreeInv, TidyOK
  <2>2. \A v, w \in Mine : PDX1(v) = PDX1(w) => PDX0(v) = PDX0(w)
    BY <1>20 DEF Tidy
  <2>3. ASSUME NEW d \in Dirs, NEW e \in Entry, Tab(d, e) # None
        PROVE  Tab(d, e) \in Emptied(area) <=> Goes(d, area)
    <3>1. Dir(d) # None
      BY <2>3 DEF Tab, Dir
    <3>2. PICK u \in Mine : PDX1(u) = d /\ PDX0(u) = e
      BY <2>1, <2>3
    <3>3. \A v \in Pages(area) : PDX1(v) = d => PDX0(v) = e
      BY <1>4, <2>2, <3>2
    <3>4. ASSUME Tab(d, e) \in Emptied(area) PROVE Goes(d, area)
      <4>1. PICK v \in Pages(area) : Tab(d, e) = Tab(PDX1(v), PDX0(v))
        BY <3>4 DEF Emptied
      <4>2. PDX1(v) \in Dirs /\ PDX0(v) \in Entry
        BY <1>4, Coordinates
      <4>3. PDX1(v) = d
        BY <1>7, <2>3, <4>1, <4>2
      <4> QED BY <2>3, <3>1, <3>3, <4>3 DEF Goes
    <3>5. ASSUME Goes(d, area) PROVE Tab(d, e) \in Emptied(area)
      <4>1. PICK v \in Pages(area) : PDX1(v) = d
        BY <3>5 DEF Goes
      <4>2. PDX0(v) = e
        BY <3>3, <4>1
      <4>3. Tab(d, e) \in tables
        BY <1>7, <2>3
      <4> QED BY <4>1, <4>2, <4>3 DEF Emptied
    <3> QED BY <3>4, <3>5
  <2>4. \A d \in Dirs : Dir(d)' \in tables' \cup {None}
    BY <1>6, <1>7, <1>10, <1>11
  <2>5. \A d \in Dirs, e \in Entry : Tab(d, e)' \in tables' \cup {None}
    BY <1>6, <1>7, <1>12
  <2>6. \A f \in tables' : \/ \E d \in Dirs : f = Dir(d)'
                           \/ \E d \in Dirs, e \in Entry : f = Tab(d, e)'
    <3> SUFFICES ASSUME NEW f \in tables'
                 PROVE  \/ \E d \in Dirs : f = Dir(d)'
                        \/ \E d \in Dirs, e \in Entry : f = Tab(d, e)'
      OBVIOUS
    <3>1. f \in tables /\ f \notin Emptied(area) /\ f \notin freed /\ f # None
      BY <1>6, <1>8
    <3>2. CASE \E d \in Dirs : f = Dir(d)
      <4>1. PICK d \in Dirs : f = Dir(d)
        BY <3>2
      <4>2. ~Goes(d, area)
        BY <3>1, <4>1 DEF freed
      <4>3. f = Dir(d)'
        BY <1>6, <4>1, <4>2
      <4> QED BY <4>3
    <3>3. CASE \E d \in Dirs, e \in Entry : f = Tab(d, e)
      <4>1. PICK d \in Dirs, e \in Entry : f = Tab(d, e)
        BY <3>3
      <4>2. ~Goes(d, area)
        BY <2>3, <3>1, <4>1
      <4>3. f = Tab(d, e)'
        BY <1>6, <3>1, <4>1, <4>2
      <4> QED BY <4>3
    <3> QED BY <2>1, <3>1, <3>2, <3>3
  <2>7. None \notin tables'
    BY <1>6, <1>8
  <2>8. tables' = ({Dir(d)' : d \in Dirs} \cup {Tab(d, e)' : d \in Dirs, e \in Entry}) \ {None}
    BY <2>4, <2>5, <2>6, <2>7
  <2>9. \A d \in Dirs : Dir(d)' # None => \E e \in Entry : Tab(d, e)' # None
    <3> SUFFICES ASSUME NEW d \in Dirs, Dir(d)' # None PROVE \E e \in Entry : Tab(d, e)' # None
      OBVIOUS
    <3>1. ~Goes(d, area) /\ Dir(d) # None
      BY <1>6
    <3>2. PICK e \in Entry : Tab(d, e) # None
      BY <2>1, <3>1
    <3>3. Tab(d, e) \notin Emptied(area)
      BY <2>3, <3>1, <3>2
    <3>4. Tab(d, e)' = Tab(d, e)
      BY <1>6, <3>1, <3>3
    <3> QED BY <3>2, <3>4
  <2>10. \A d \in Dirs, e \in Entry :
           Tab(d, e)' # None => \E v \in Mine : PDX1(v) = d /\ PDX0(v) = e
    BY <1>6, <2>1
  <2>11. ASSUME NEW i \in DOMAIN areas, i + Len(areas) <= done + 1, NEW v \in Pages(areas[i])
         PROVE  Dir(PDX1(v))' = None
    <3>1. v \in Mine /\ v \in Page
      <4>1. v \in Mine
        BY DEF Mine
      <4> QED BY <1>4, <4>1
    <3>2. PICK d \in Dirs : d = PDX1(v)
      BY <3>1, Coordinates
    <3>3. i \in Nat
      BY <1>1
    <3>4. CASE i + Len(areas) <= done
      <4>1. Dir(d) = None
        BY <2>1, <3>2, <3>4 DEF Kept
      <4> QED BY <1>6, <3>2, <4>1
    <3>5. CASE ~(i + Len(areas) <= done)
      <4>1. i = k
        BY <1>1, <1>2, <2>11, <3>3, <3>5
      <4>2. v \in Pages(area)
        BY <1>3, <4>1
      <4>3. CASE Dir(d) = None
        BY <1>6, <3>2, <4>3
      <4>4. CASE Dir(d) # None
        <5>1. PICK e \in Entry : Tab(d, e) # None
          BY <2>1, <4>4
        <5>2. PICK u \in Mine : PDX1(u) = d /\ PDX0(u) = e
          BY <2>1, <5>1
        <5>3. \A w \in Pages(area) : PDX1(w) = d => PDX0(w) = e
          BY <1>4, <2>2, <5>2
        <5>4. Goes(d, area)
          BY <3>2, <4>2, <4>4, <5>1, <5>3 DEF Goes
        <5> QED BY <1>6, <3>2, <5>4
      <4> QED BY <4>3, <4>4
    <3> QED BY <3>4, <3>5
  <2> QED BY <2>8, <2>9, <2>10, <2>11
<1>21. TidyOK'
  <2>1. areas' = areas /\ done' = done + 1
    BY <1>6
  <2> QED BY <1>14, <1>19, <1>20, <2>1 DEF TidyOK, Kept
<1>22. areas' \in Seq([start : Int, end : Int])
  BY <1>1, <1>6
<1> QED BY <1>15, <1>16, <1>17, <1>18, <1>21, <1>22 DEF TreeInv

-----------------------------------------------------------------------------
(* The list of areas.                                                      *)

\* A new area, before the others as in dup_mmap or behind them as in load_icode.
LEMMA AreaKeeps ==
  ASSUME TreeInv, done = 0, UNCHANGED <<pgdir, table, free, tables, short, done>>,
         NEW area \in [start : Int, end : Int], Pages(area) \subseteq Page,
         areas' = <<area>> \o areas \/ areas' = Append(areas, area)
  PROVE  TreeInv' /\ Own' = Own
<1> DEFINE S == [start : Int, end : Int]
           n == Len(areas)
<1>1. areas \in Seq(S) /\ n \in Nat /\ DOMAIN areas = 1 .. n /\ area \in S
  BY DEF TreeInv
<1> HIDE DEF S
<1>2. /\ areas' \in Seq(S) /\ Len(areas') = n + 1 /\ DOMAIN areas' = 1 .. n + 1
      /\ \A i \in DOMAIN areas : \E j \in DOMAIN areas' : areas'[j] = areas[i]
      /\ \E j \in DOMAIN areas' : areas'[j] = area
      /\ \A j \in DOMAIN areas' : areas'[j] = area \/ \E i \in DOMAIN areas : areas'[j] = areas[i]
  <2>1. CASE areas' = <<area>> \o areas
    <3>1. /\ areas' \in Seq(S) /\ Len(areas') = n + 1 /\ areas'[1] = area
          /\ \A i \in 1 .. n : areas'[i + 1] = areas[i]
      BY <1>1, <2>1, AddAtHead
    <3>2. DOMAIN areas' = 1 .. Len(areas')
      BY <3>1
    <3> HIDE DEF n
    <3>3. DOMAIN areas' = 1 .. n + 1
      BY <3>1, <3>2
    <3>4. \A i \in 1 .. n : i + 1 \in 1 .. n + 1
      BY <1>1
    <3>5. 1 \in 1 .. n + 1
      BY <1>1
    <3>6. \A j \in 1 .. n + 1 : j = 1 \/ (j - 1 \in 1 .. n /\ (j - 1) + 1 = j)
      BY <1>1
    <3>7. \A j \in 1 .. n + 1 : areas'[j] = area \/ \E i \in 1 .. n : areas'[j] = areas[i]
      <4> SUFFICES ASSUME NEW j \in 1 .. n + 1, j # 1
                   PROVE  \E i \in 1 .. n : areas'[j] = areas[i]
        BY <3>1
      <4>1. j - 1 \in 1 .. n /\ (j - 1) + 1 = j
        BY <3>6
      <4>2. areas'[(j - 1) + 1] = areas[j - 1]
        BY <3>1, <4>1
      <4> QED BY <4>1, <4>2
    <3> QED BY <1>1, <3>1, <3>3, <3>4, <3>5, <3>7
  <2>2. CASE areas' = Append(areas, area)
    <3>1. /\ areas' \in Seq(S) /\ Len(areas') = n + 1 /\ areas'[n + 1] = area
          /\ \A i \in 1 .. n : areas'[i] = areas[i]
      BY <1>1, <2>2, AppendProperties
    <3>2. DOMAIN areas' = 1 .. Len(areas')
      BY <3>1
    <3> HIDE DEF n
    <3>3. DOMAIN areas' = 1 .. n + 1
      BY <3>1, <3>2
    <3>4. \A i \in 1 .. n : i \in 1 .. n + 1
      BY <1>1
    <3>5. n + 1 \in 1 .. n + 1
      BY <1>1
    <3>6. \A j \in 1 .. n + 1 : j = n + 1 \/ j \in 1 .. n
      BY <1>1
    <3> QED BY <1>1, <3>1, <3>3, <3>4, <3>5, <3>6
  <2> QED BY <2>1, <2>2
<1>3. Mine' = Mine \cup Pages(area)
  <2>1. Mine' = UNION {Pages(areas'[j]) : j \in DOMAIN areas'}
    BY DEF Mine
  <2>2. Mine = UNION {Pages(areas[i]) : i \in DOMAIN areas}
    BY DEF Mine
  <2>3. \A w : w \in Mine' <=> \E j \in DOMAIN areas' : w \in Pages(areas'[j])
    BY <2>1
  <2>4. \A w : w \in Mine <=> \E i \in DOMAIN areas : w \in Pages(areas[i])
    BY <2>2
  <2>5. \A w : w \in Mine' <=> w \in Mine \/ w \in Pages(area)
    BY <1>2, <2>3, <2>4
  <2> QED BY <2>5
<1>4. \A w : PageAt(w)' = PageAt(w)
  BY DEF PageAt, TableOf
<1>5. /\ \A d : Dir(d)' = Dir(d)
      /\ \A d, e : Tab(d, e)' = Tab(d, e)
  BY DEF Dir, Tab
<1>6. Own' = Own
  BY <1>4 DEF Own, Mapped
<1>7. TablesTypeOK'
  <2>1. done' \in 0 .. 2 * Len(areas')
    <3> HIDE DEF n
    <3> QED BY <1>1, <1>2
  <2> QED BY <2>1 DEF TreeInv, TablesTypeOK
<1>8. TreeOK'
  BY <1>4, <1>5 DEF TreeInv, TreeOK
<1>9. \A j \in DOMAIN areas' : j \in Nat /\ j > 0
  BY <1>1, <1>2
<1>10. InAreas'
  <2>1. Mine \subseteq Page /\ \A w \in Page : PageAt(w) # {} => w \in Mine
    BY DEF TreeInv, InAreas
  <2>2. \A j \in DOMAIN areas' : ~(j <= done')
    BY <1>9
  <2> QED BY <1>3, <1>4, <2>1, <2>2 DEF InAreas
<1>11. TidyOK'
  <2>1. Tidy' => Tidy
    BY <1>3 DEF Tidy
  <2>2. \A j \in DOMAIN areas' : ~(j + Len(areas') <= done')
    <3> HIDE DEF n
    <3> QED BY <1>1, <1>2, <1>9
  <2>3. Tidy =>
          /\ tables = ({Dir(d) : d \in Dirs} \cup {Tab(d, e) : d \in Dirs, e \in Entry}) \ {None}
          /\ \A d \in Dirs : Dir(d) # None => \E e \in Entry : Tab(d, e) # None
          /\ \A d \in Dirs, e \in Entry :
               Tab(d, e) # None => \E v \in Mine : PDX1(v) = d /\ PDX0(v) = e
    BY DEF TreeInv, TidyOK
  <2>4. Tidy =>
          /\ tables' = ({Dir(d)' : d \in Dirs} \cup {Tab(d, e)' : d \in Dirs, e \in Entry}) \ {None}
          /\ \A d \in Dirs : Dir(d)' # None => \E e \in Entry : Tab(d, e)' # None
          /\ \A d \in Dirs, e \in Entry :
               Tab(d, e)' # None => \E v \in Mine' : PDX1(v) = d /\ PDX0(v) = e
    BY <1>3, <1>5, <2>3
  <2> QED BY <2>1, <2>2, <2>4 DEF TidyOK
<1>12. areas' \in Seq([start : Int, end : Int])
  BY <1>2 DEF S
<1> QED BY <1>6, <1>7, <1>8, <1>10, <1>11, <1>12 DEF TreeInv

\* What mm_create and setup_pgdir begin with.
LEMMA NoTablesTree ==
  NoTables /\ free \subseteq Frame => TreeInv /\ Own = {} /\ Mine = {}
<1> SUFFICES ASSUME NoTables, free \subseteq Frame PROVE TreeInv /\ Own = {} /\ Mine = {}
  OBVIOUS
<1>1. /\ areas = <<>> /\ pgdir = [d1 \in Dirs |-> None] /\ table = [f \in Frame |-> Empty]
      /\ tables = {} /\ short = FALSE /\ done = 0
  BY DEF NoTables, Dirs
<1>2. Mine = {} /\ DOMAIN areas = {} /\ Len(areas) = 0
  BY <1>1 DEF Mine
<1>3. /\ \A d \in Dirs : Dir(d) = None
      /\ \A d \in Dirs, e \in Entry : Tab(d, e) = None
  BY <1>1 DEF Dir, Tab
<1>4. \A v \in Page : PageAt(v) = {}
  <2> SUFFICES ASSUME NEW v \in Page PROVE PageAt(v) = {}
    OBVIOUS
  <2>1. Tab(PDX1(v), PDX0(v)) = None
    BY <1>3, Coordinates
  <2>2. TableOf(v) = {Tab(PDX1(v), PDX0(v))} \ {None}
    BY PageAtIs
  <2> QED BY <2>1, <2>2 DEF PageAt
<1>5. Own = {}
  BY <1>4 DEF Own, Mapped
<1>6. TablesTypeOK
  <2>1. Empty \in [Entry -> Frame \cup Shared \cup {None}]
    BY DEF Empty
  <2>2. pgdir \in [Dirs -> Frame \cup {None}]
    BY <1>1
  <2>3. table \in [Frame -> [Entry -> Frame \cup Shared \cup {None}]]
    BY <1>1, <2>1
  <2>4. tables \subseteq Frame /\ short \in BOOLEAN
    BY <1>1
  <2>5. done \in 0 .. 2 * Len(areas)
    BY <1>1, <1>2
  <2> QED BY <2>2, <2>3, <2>4, <2>5 DEF TablesTypeOK, Dirs
<1>7. TreeOK
  BY <1>3, <1>4 DEF TreeOK
<1>8. InAreas
  BY <1>2, <1>4 DEF InAreas
<1>9. TidyOK
  <2>1. tables = ({Dir(d) : d \in Dirs} \cup {Tab(d, e) : d \in Dirs, e \in Entry}) \ {None}
    BY <1>1, <1>3
  <2> QED BY <1>2, <1>3, <2>1 DEF TidyOK
<1>10. areas \in Seq([start : Int, end : Int])
  <2> DEFINE S == [start : Int, end : Int]
  <2>1. <<>> \in Seq(S)
    OBVIOUS
  <2> QED BY <1>1, <2>1
<1> QED BY <1>2, <1>5, <1>6, <1>7, <1>8, <1>9, <1>10 DEF TreeInv

LEMMA NoTablesTreeNext ==
  (NoTables /\ free \subseteq Frame => TreeInv /\ Own = {} /\ Mine = {})'
BY NoTablesTree, PTL

\* When exit_mmap has come to its end, a tidy address space has no tables.
LEMMA TidyGone ==
  ASSUME TreeInv, Tidy, done = 2 * Len(areas)
  PROVE  tables = {}
<1>1. /\ tables = ({Dir(d) : d \in Dirs} \cup {Tab(d, e) : d \in Dirs, e \in Entry}) \ {None}
      /\ \A d \in Dirs : Dir(d) # None => \E e \in Entry : Tab(d, e) # None
      /\ \A d \in Dirs, e \in Entry :
           Tab(d, e) # None => \E v \in Mine : PDX1(v) = d /\ PDX0(v) = e
      /\ \A i \in DOMAIN areas : i + Len(areas) <= done => \A v \in Pages(areas[i]) : ~Kept(v)
  BY DEF TreeInv, TidyOK
<1>2. \A v \in Mine : ~Kept(v)
  <2> SUFFICES ASSUME NEW v \in Mine PROVE ~Kept(v)
    OBVIOUS
  <2>1. PICK i \in DOMAIN areas : v \in Pages(areas[i])
    BY DEF Mine
  <2>2. i + Len(areas) <= done
    <3> DEFINE n == Len(areas)
    <3>1. n \in Nat /\ i \in Nat /\ i <= n /\ done = 2 * n
      BY DEF TreeInv
    <3> HIDE DEF n
    <3>2. i + n <= done
      BY <3>1
    <3> QED BY <3>2 DEF n
  <2> QED BY <1>1, <2>1, <2>2
<1>3. \A d \in Dirs, e \in Entry : Tab(d, e) = None
  <2> SUFFICES ASSUME NEW d \in Dirs, NEW e \in Entry, Tab(d, e) # None PROVE FALSE
    OBVIOUS
  <2>1. PICK v \in Mine : PDX1(v) = d
    BY <1>1
  <2>2. Dir(d) = None
    BY <1>2, <2>1 DEF Kept
  <2> QED BY <2>2 DEF Tab, Dir
<1>4. \A d \in Dirs : Dir(d) = None
  BY <1>1, <1>3
<1> QED BY <1>1, <1>3, <1>4

-----------------------------------------------------------------------------
(* What is there at each place in the code.                                *)

LEMMA KindsStay ==
  ASSUME MemInv, [Next]_vars
  PROVE  KindsOK'
<1>a. SatpInv /\ KindsOK /\ root \subseteq Frame
  BY DEF MemInv, PlaceOK, KindsOK, Accounts
<1> USE <1>a DEF SatpInv, Rooted, Rootless, Bare, KindsOK, Places, Goto, setting, mine, loop, Clean
<1>1. CASE UNCHANGED vars
  BY <1>1 DEF vars
<1>2. CASE AllocProc
  BY <1>2 DEF AllocProc
<1>3. CASE SetupKstack
  BY <1>3 DEF SetupKstack
<1>4. CASE MmCreate
  BY <1>4 DEF MmCreate
<1>5. CASE SetupPgdir
  BY <1>5 DEF SetupPgdir, BadPgdirCleanupMm
<1>6. CASE DupArea
  BY <1>6 DEF DupArea
<1>7. CASE CopyRange
  BY <1>7 DEF CopyRange
<1>8. CASE CopyRangeEnds
  BY <1>8 DEF CopyRangeEnds
<1>9. CASE GoodMm
  BY <1>9 DEF GoodMm
<1>10. CASE SetLinks
  BY <1>10 DEF SetLinks
<1>11. CASE ProcRun
  BY <1>11 DEF ProcRun
<1>12. CASE SwitchedOut
  BY <1>12 DEF SwitchedOut
<1>13. CASE Pgfault
  BY <1>13 DEF Pgfault
<1>14. CASE Execve
  BY <1>14 DEF Execve, SatpBoot, CountLess
<1>15. CASE DoExit
  BY <1>15 DEF DoExit, SatpBoot, CountLess
<1>16. CASE Header
  BY <1>16 DEF Header
<1>17. CASE LoadText
  BY <1>17 DEF LoadText, LoadPage
<1>18. CASE LoadTail
  BY <1>18 DEF LoadTail
<1>19. CASE LoadBss
  BY <1>19 DEF LoadBss, LoadPage
<1>20. CASE HeaderEnds
  BY <1>20 DEF HeaderEnds
<1>21. CASE LoadStack
  BY <1>21 DEF LoadStack
<1>22. CASE StackPage
  BY <1>22 DEF StackPage
<1>23. CASE Loaded
  BY <1>23 DEF Loaded
<1>24. CASE ExitMmap
  BY <1>24 DEF ExitMmap
<1>25. CASE PutPgdir
  BY <1>25 DEF PutPgdir
<1>26. CASE MmDestroy
  BY <1>26 DEF MmDestroy
<1>27. CASE BadForkCleanupKstack
  BY <1>27 DEF BadForkCleanupKstack
<1>28. CASE BadForkCleanupProc
  BY <1>28 DEF BadForkCleanupProc
<1>29. CASE DoWait
  BY <1>29 DEF DoWait
<1> QED
  BY <1>1, <1>2, <1>3, <1>4, <1>5, <1>6, <1>7, <1>8, <1>9, <1>10, <1>11, <1>12, <1>13, <1>14,
     <1>15, <1>16, <1>17, <1>18, <1>19, <1>20, <1>21, <1>22, <1>23, <1>24, <1>25, <1>26,
     <1>27, <1>28, <1>29
  DEF Next, KernelStep, Fork, Load, Cleanup

LEMMA CallsStay ==
  ASSUME MemInv, [Next]_vars
  PROVE  (RootOK /\ CountOK /\ GoneOK /\ CallOK)'
<1>a. /\ SatpInv /\ RootOK /\ CountOK /\ GoneOK /\ CallOK
      /\ {from, program} \subseteq Programs \cup {NoProgram}
  BY DEF MemInv, PlaceOK, KindsOK
<1> USE <1>a DEF SatpInv, Rooted, Rootless, Bare, RootOK, CountOK, GoneOK, CallOK, Goto, setting,
                 mine, loop, Clean
<1>1. CASE UNCHANGED vars
  BY <1>1 DEF vars
<1>2. CASE AllocProc
  BY <1>2 DEF AllocProc
<1>3. CASE SetupKstack
  BY <1>3 DEF SetupKstack
<1>4. CASE MmCreate
  BY <1>4 DEF MmCreate
<1>5. CASE SetupPgdir
  BY <1>5 DEF SetupPgdir, BadPgdirCleanupMm
<1>6. CASE DupArea
  BY <1>6 DEF DupArea
<1>7. CASE CopyRange
  BY <1>7 DEF CopyRange
<1>8. CASE CopyRangeEnds
  BY <1>8 DEF CopyRangeEnds
<1>9. CASE GoodMm
  BY <1>9 DEF GoodMm
<1>10. CASE SetLinks
  BY <1>10 DEF SetLinks
<1>11. CASE ProcRun
  BY <1>11 DEF ProcRun
<1>12. CASE SwitchedOut
  BY <1>12 DEF SwitchedOut
<1>13. CASE Pgfault
  BY <1>13 DEF Pgfault
<1>14. CASE Execve
  BY <1>14 DEF Execve, SatpBoot, CountLess
<1>15. CASE DoExit
  BY <1>15 DEF DoExit, SatpBoot, CountLess
<1>16. CASE Header
  BY <1>16 DEF Header
<1>17. CASE LoadText
  BY <1>17 DEF LoadText, LoadPage
<1>18. CASE LoadTail
  BY <1>18 DEF LoadTail
<1>19. CASE LoadBss
  BY <1>19 DEF LoadBss, LoadPage
<1>20. CASE HeaderEnds
  BY <1>20 DEF HeaderEnds
<1>21. CASE LoadStack
  BY <1>21 DEF LoadStack
<1>22. CASE StackPage
  BY <1>22 DEF StackPage
<1>23. CASE Loaded
  BY <1>23 DEF Loaded
<1>24. CASE ExitMmap
  BY <1>24 DEF ExitMmap
<1>25. CASE PutPgdir
  BY <1>25 DEF PutPgdir
<1>26. CASE MmDestroy
  BY <1>26 DEF MmDestroy
<1>27. CASE BadForkCleanupKstack
  BY <1>27 DEF BadForkCleanupKstack
<1>28. CASE BadForkCleanupProc
  BY <1>28 DEF BadForkCleanupProc
<1>29. CASE DoWait
  BY <1>29 DEF DoWait
<1> QED
  BY <1>1, <1>2, <1>3, <1>4, <1>5, <1>6, <1>7, <1>8, <1>9, <1>10, <1>11, <1>12, <1>13, <1>14,
     <1>15, <1>16, <1>17, <1>18, <1>19, <1>20, <1>21, <1>22, <1>23, <1>24, <1>25, <1>26,
     <1>27, <1>28, <1>29
  DEF Next, KernelStep, Fork, Load, Cleanup

LEMMA BareStays ==
  ASSUME MemInv, [Next]_vars
  PROVE  (BareOK /\ DoneOK)'
<1>a. SatpInv /\ BareOK /\ DoneOK
  BY DEF MemInv, PlaceOK
<1>b. /\ UNCHANGED <<areas, pgdir, table, tables, short, done>> => (NoTables' <=> NoTables)
      /\ ForgetTables => NoTables'
      /\ NoTables => areas = <<>> /\ Len(areas) = 0 /\ done = 0 /\ Mine = {}
      /\ NoTables' => done' = 0
  <2>1. UNCHANGED <<areas, pgdir, table, tables, short, done>> => (NoTables' <=> NoTables)
    BY DEF NoTables
  <2>2. ForgetTables => NoTables'
    BY DEF NoTables, ForgetTables
  <2>3. NoTables => areas = <<>> /\ Len(areas) = 0 /\ done = 0 /\ Mine = {}
    BY DEF NoTables, Mine
  <2>4. NoTables' => done' = 0
    BY DEF NoTables
  <2> QED BY <2>1, <2>2, <2>3, <2>4
<1> USE <1>a, <1>b DEF SatpInv, Rooted, Rootless, Bare, BareOK, DoneOK, Goto, setting, mine, loop,
                       Clean, treeVars
<1>1. CASE UNCHANGED vars
  BY <1>1 DEF vars
<1>2. CASE AllocProc
  BY <1>2 DEF AllocProc
<1>3. CASE SetupKstack
  BY <1>3 DEF SetupKstack
<1>4. CASE MmCreate
  BY <1>4 DEF MmCreate
<1>5. CASE SetupPgdir
  BY <1>5 DEF SetupPgdir, BadPgdirCleanupMm
<1>6. CASE DupArea
  BY <1>6 DEF DupArea
<1>7. CASE CopyRange
  BY <1>7 DEF CopyRange
<1>8. CASE CopyRangeEnds
  BY <1>8 DEF CopyRangeEnds
<1>9. CASE GoodMm
  BY <1>9 DEF GoodMm
<1>10. CASE SetLinks
  BY <1>10 DEF SetLinks
<1>11. CASE ProcRun
  BY <1>11 DEF ProcRun
<1>12. CASE SwitchedOut
  BY <1>12 DEF SwitchedOut
<1>13. CASE Pgfault
  BY <1>13 DEF Pgfault
<1>14. CASE Execve
  BY <1>14 DEF Execve, SatpBoot, CountLess
<1>15. CASE DoExit
  BY <1>15 DEF DoExit, SatpBoot, CountLess
<1>16. CASE Header
  BY <1>16 DEF Header
<1>17. CASE LoadText
  BY <1>17 DEF LoadText, LoadPage
<1>18. CASE LoadTail
  BY <1>18 DEF LoadTail
<1>19. CASE LoadBss
  BY <1>19 DEF LoadBss, LoadPage
<1>20. CASE HeaderEnds
  BY <1>20 DEF HeaderEnds
<1>21. CASE LoadStack
  BY <1>21 DEF LoadStack
<1>22. CASE StackPage
  BY <1>22 DEF StackPage
<1>23. CASE Loaded
  BY <1>23 DEF Loaded
<1>24. CASE ExitMmap
  BY <1>24 DEF ExitMmap, ExitMmapStep, ExitMmapDone
<1>25. CASE PutPgdir
  BY <1>25 DEF PutPgdir
<1>26. CASE MmDestroy
  BY <1>26 DEF MmDestroy
<1>27. CASE BadForkCleanupKstack
  BY <1>27 DEF BadForkCleanupKstack
<1>28. CASE BadForkCleanupProc
  BY <1>28 DEF BadForkCleanupProc
<1>29. CASE DoWait
  BY <1>29 DEF DoWait
<1> QED
  BY <1>1, <1>2, <1>3, <1>4, <1>5, <1>6, <1>7, <1>8, <1>9, <1>10, <1>11, <1>12, <1>13, <1>14,
     <1>15, <1>16, <1>17, <1>18, <1>19, <1>20, <1>21, <1>22, <1>23, <1>24, <1>25, <1>26,
     <1>27, <1>28, <1>29
  DEF Next, KernelStep, Fork, Load, Cleanup

LEMMA PlaceStays ==
  ASSUME MemInv, [Next]_vars
  PROVE  PlaceOK'
BY KindsStay, CallsStay, BareStays DEF PlaceOK

-----------------------------------------------------------------------------
(* How far the loops have come.                                            *)

\* The pages of a program header hold its bytes.
LEMMA AreaIs ==
  ASSUME NEW h \in [va : Nat, filesz : Nat, memsz : Nat]
  PROVE  /\ Area(h) \in [start : Nat, end : Nat]
         /\ Area(h).start * PGSIZE <= h.va /\ h.va < Area(h).start * PGSIZE + PGSIZE
         /\ h.va + h.memsz <= Area(h).end * PGSIZE
<1> DEFINE m == PGSIZE
           w == h.va + h.memsz + m - 1
           p == h.va \div m
           q == w \div m
<1>1. m \in Nat \ {0} /\ h.va \in Nat /\ h.memsz \in Nat /\ w \in Nat
  BY AddressSpaceAssumption
<1>2. Area(h) = [start |-> p, end |-> q]
  BY DEF Area
<1>3. p \in Nat /\ (h.va % m) \in 0 .. m - 1 /\ h.va = m * p + (h.va % m)
  BY <1>1, DivMod
<1>4. q \in Nat /\ (w % m) \in 0 .. m - 1 /\ w = m * q + (w % m)
  <2> HIDE DEF w
  <2> QED BY <1>1, DivMod
<1> DEFINE P == m * p
           Q == m * q
           r == h.va % m
           s == w % m
<1>5. P \in Int /\ Q \in Int /\ p * m = P /\ q * m = Q
  <2>1. p \in Nat /\ q \in Nat /\ m \in Nat
    BY <1>1, <1>3, <1>4
  <2> HIDE DEF p, q, m
  <2> QED BY <2>1
<1>6. r \in 0 .. m - 1 /\ s \in 0 .. m - 1 /\ h.va = P + r /\ w = Q + s
  BY <1>3, <1>4
<1> HIDE DEF P, Q, r, s
<1>7. P <= h.va /\ h.va < P + m /\ h.va + h.memsz <= Q
  BY <1>1, <1>5, <1>6
<1> HIDE DEF p, q, w
<1> QED BY <1>2, <1>3, <1>4, <1>5, <1>7

LEMMA AreasAre ==
  ASSUME NEW prog \in Programs
  PROVE  /\ prog.ph \in Seq([va : Nat, filesz : Nat, memsz : Nat])
         /\ Areas(prog) \in Seq([start : Nat, end : Nat])
         /\ Len(Areas(prog)) = Len(prog.ph) + 1
         /\ \A i \in 1 .. Len(prog.ph) + 1 :
              Areas(prog)[i].start < Areas(prog)[i].end /\ Pages(Areas(prog)[i]) \subseteq Page
         /\ \A i \in 1 .. Len(prog.ph) : Areas(prog)[i] = Area(prog.ph[i])
         /\ Areas(prog)[Len(prog.ph) + 1] = STACK
<1> DEFINE R == [va : Nat, filesz : Nat, memsz : Nat]
           T == [start : Nat, end : Nat]
           s == [i \in DOMAIN prog.ph |-> Area(prog.ph[i])]
           n == Len(prog.ph)
<1>1. prog.ph \in Seq(R) /\ STACK \in T
  <2>1. prog \in [elf : BOOLEAN, ph : Seq(R)]
    BY ProgramsAssumption
  <2> HIDE DEF R
  <2> QED BY <2>1, ProgramsAssumption
<1>2. n \in Nat /\ DOMAIN prog.ph = 1 .. n
  <2> HIDE DEF R
  <2> QED BY <1>1
<1>3. \A i \in 1 .. n : prog.ph[i] \in R
  <2> HIDE DEF R
  <2> QED BY <1>1, <1>2, ElementOfSeq
<1>4. \A i \in 1 .. n : Area(prog.ph[i]) \in T
  BY <1>3, AreaIs
<1> HIDE DEF R, T, n
<1>5. s \in Seq(T) /\ Len(s) = n /\ \A i \in 1 .. n : s[i] = Area(prog.ph[i])
  BY <1>2, <1>4
<1>6. Areas(prog) = Append(s, STACK)
  <2>1. Areas(prog) = s \o <<STACK>>
    BY DEF Areas
  <2> HIDE DEF s
  <2> QED BY <1>1, <1>5, <2>1, AppendIsConcat
<1> HIDE DEF s
<1>7. /\ Append(s, STACK) \in Seq(T) /\ Len(Append(s, STACK)) = n + 1
      /\ Append(s, STACK)[n + 1] = STACK
      /\ \A i \in 1 .. n : Append(s, STACK)[i] = s[i]
  BY <1>1, <1>5, AppendProperties
<1>8. /\ Areas(prog) \in Seq(T) /\ Len(Areas(prog)) = n + 1 /\ Areas(prog)[n + 1] = STACK
      /\ \A i \in 1 .. n : Areas(prog)[i] = Area(prog.ph[i])
  BY <1>5, <1>6, <1>7
<1>9. DOMAIN Areas(prog) = 1 .. n + 1
  BY <1>8
<1>10. \A i \in 1 .. n + 1 :
         Areas(prog)[i].start < Areas(prog)[i].end /\ Pages(Areas(prog)[i]) \subseteq Page
  BY <1>9, ProgramsAssumption
<1> QED BY <1>1, <1>8, <1>10 DEF R, T, n

LEMMA ForkLoops ==
  ASSUME MemInv, [Next]_vars
  PROVE  ForkAt'
<1>a. /\ ForkAt /\ CallOK
  BY DEF MemInv, LoopOK, PlaceOK
<1>b. from \in Programs =>
        /\ Len(Areas(from)) \in Nat
        /\ \A i \in 1 .. Len(Areas(from)) :
             /\ Areas(from)[i].start \in Int /\ Areas(from)[i].end \in Int
             /\ Areas(from)[i].start < Areas(from)[i].end
  <2> SUFFICES ASSUME from \in Programs
               PROVE  /\ Len(Areas(from)) \in Nat
                      /\ \A i \in 1 .. Len(Areas(from)) :
                           /\ Areas(from)[i].start \in Int /\ Areas(from)[i].end \in Int
                           /\ Areas(from)[i].start < Areas(from)[i].end
    OBVIOUS
  <2> DEFINE T == [start : Nat, end : Nat]
             s == Areas(from)
  <2>1. s \in Seq(T) /\ Len(s) = Len(from.ph) + 1
        /\ \A i \in 1 .. Len(from.ph) + 1 : s[i].start < s[i].end
    BY AreasAre
  <2> HIDE DEF T, s
  <2>2. Len(s) \in Nat
    BY <2>1
  <2>3. \A i \in 1 .. Len(s) : s[i] \in T
    BY <2>1, ElementOfSeq
  <2>4. \A i \in 1 .. Len(s) : s[i].start \in Int /\ s[i].end \in Int
    BY <2>3 DEF T
  <2> QED BY <2>1, <2>2, <2>4 DEF s
<1> USE DEF ForkAt, Goto, setting, mine, loop, Clean, treeVars
<1>1. CASE UNCHANGED vars
  BY <1>a, <1>1 DEF vars
<1>2. CASE AllocProc
  BY <1>2 DEF AllocProc
<1>3. CASE SetupKstack
  BY <1>3 DEF SetupKstack
<1>4. CASE MmCreate
  BY <1>4 DEF MmCreate
<1>5. CASE SetupPgdir
  <2>1. CASE pc' = "dup_mmap"
    <3>1. call = "fork" /\ at' = Len(Areas(from)) /\ from' = from /\ from \in Programs
      BY <1>a, <1>5, <2>1 DEF SetupPgdir, BadPgdirCleanupMm, CallOK
    <3>2. Len(Areas(from)) \in 0 .. Len(Areas(from))
      BY <1>b, <3>1
    <3> QED BY <2>1, <3>1, <3>2
  <2>2. CASE pc' # "dup_mmap"
    BY <1>5, <2>2 DEF SetupPgdir, BadPgdirCleanupMm
  <2> QED BY <2>1, <2>2
<1>6. CASE DupArea
  <2>1. CASE pc' = "copy_range"
    <3>1. /\ at > 0 /\ areas' = <<Areas(from)[at]>> \o areas /\ la' = Areas(from)[at].start
          /\ at' = at /\ from' = from /\ from \in Programs /\ at \in 0 .. Len(Areas(from))
      BY <1>a, <1>6, <2>1 DEF DupArea, CallOK
    <3>2. at \in 1 .. Len(Areas(from))
      BY <1>b, <3>1
    <3>3. Areas(from)[at].start \in Areas(from)[at].start .. Areas(from)[at].end
      BY <1>b, <3>1, <3>2
    <3>4. areas' # <<>> /\ areas'[1] = Areas(from)[at]
      <4> DEFINE S == [start : Int, end : Int]
      <4>1. areas \in Seq(S) /\ Areas(from)[at] \in S
        <5>1. areas \in Seq(S)
          BY DEF MemInv, TreeInv
        <5>2. Areas(from) \in Seq([start : Nat, end : Nat])
          BY <3>1, AreasAre
        <5>3. Areas(from)[at] \in [start : Nat, end : Nat]
          BY <3>2, <5>2, ElementOfSeq
        <5> QED BY <5>1, <5>3
      <4> HIDE DEF S
      <4>2. Len(areas') = Len(areas) + 1 /\ areas'[1] = Areas(from)[at]
        BY <3>1, <4>1, AddAtHead
      <4>3. Len(areas) \in Nat /\ Len(<<>>) = 0
        BY <4>1
      <4> QED BY <4>2, <4>3
    <3> QED BY <2>1, <3>1, <3>2, <3>3, <3>4
  <2>2. CASE pc' # "copy_range"
    BY <1>6, <2>2 DEF DupArea
  <2> QED BY <2>1, <2>2
<1>7. CASE CopyRange
  <2>1. CASE pc' = "copy_range"
    <3>1. /\ pc = "copy_range" /\ la < Areas(from)[at].end /\ la' = la + 1
          /\ areas' = areas /\ at' = at /\ from' = from /\ from \in Programs
      BY <1>a, <1>7, <2>1 DEF CopyRange, NextPage, CallOK
    <3>2. /\ at \in 1 .. Len(Areas(from)) /\ areas # <<>> /\ areas[1] = Areas(from)[at]
          /\ la \in Areas(from)[at].start .. Areas(from)[at].end
      BY <1>a, <3>1
    <3>3. la' \in Areas(from)[at].start .. Areas(from)[at].end
      BY <1>b, <3>1, <3>2
    <3> QED BY <2>1, <3>1, <3>2, <3>3
  <2>2. CASE pc' # "copy_range"
    <3>1. pc' = "exit_mmap"
      BY <1>7, <2>2 DEF CopyRange
    <3> QED BY <3>1
  <2> QED BY <2>1, <2>2
<1>8. CASE CopyRangeEnds
  <2>1. /\ pc = "copy_range" /\ at' = at - 1 /\ pc' = "dup_mmap" /\ from' = from
        /\ from \in Programs
    BY <1>a, <1>8 DEF CopyRangeEnds, CallOK
  <2>2. at \in 1 .. Len(Areas(from))
    BY <1>a, <2>1
  <2>3. at' \in 0 .. Len(Areas(from))
    BY <1>b, <2>1, <2>2
  <2> QED BY <2>1, <2>3
<1>9. CASE GoodMm
  BY <1>9 DEF GoodMm
<1>10. CASE SetLinks
  BY <1>10 DEF SetLinks
<1>11. CASE ProcRun
  BY <1>11 DEF ProcRun
<1>12. CASE SwitchedOut
  BY <1>12 DEF SwitchedOut
<1>13. CASE Pgfault
  BY <1>13 DEF Pgfault
<1>14. CASE Execve
  BY <1>14 DEF Execve, SatpBoot, CountLess
<1>15. CASE DoExit
  BY <1>15 DEF DoExit, SatpBoot, CountLess
<1>16. CASE Header
  BY <1>16 DEF Header
<1>17. CASE LoadText
  BY <1>17 DEF LoadText, LoadPage
<1>18. CASE LoadTail
  BY <1>18 DEF LoadTail
<1>19. CASE LoadBss
  BY <1>19 DEF LoadBss, LoadPage
<1>20. CASE HeaderEnds
  BY <1>20 DEF HeaderEnds
<1>21. CASE LoadStack
  BY <1>21 DEF LoadStack
<1>22. CASE StackPage
  BY <1>22 DEF StackPage
<1>23. CASE Loaded
  BY <1>23 DEF Loaded
<1>24. CASE ExitMmap
  BY <1>24 DEF ExitMmap
<1>25. CASE PutPgdir
  BY <1>25 DEF PutPgdir
<1>26. CASE MmDestroy
  BY <1>26 DEF MmDestroy
<1>27. CASE BadForkCleanupKstack
  BY <1>27 DEF BadForkCleanupKstack
<1>28. CASE BadForkCleanupProc
  BY <1>28 DEF BadForkCleanupProc
<1>29. CASE DoWait
  BY <1>29 DEF DoWait
<1> QED
  BY <1>1, <1>2, <1>3, <1>4, <1>5, <1>6, <1>7, <1>8, <1>9, <1>10, <1>11, <1>12, <1>13, <1>14,
     <1>15, <1>16, <1>17, <1>18, <1>19, <1>20, <1>21, <1>22, <1>23, <1>24, <1>25, <1>26,
     <1>27, <1>28, <1>29
  DEF Next, KernelStep, Fork, Load, Cleanup

\* The program header that load_icode has come to.
LEMMA HeaderIs ==
  ASSUME MemInv, pc \in {"header", "load"}, at \in 1 .. Len(program.ph)
  PROVE  /\ program \in Programs /\ ph \in [va : Nat, filesz : Nat, memsz : Nat]
         /\ Area(ph) \in [start : Int, end : Int] /\ Pages(Area(ph)) \subseteq Page
         /\ Area(ph).start \in Nat /\ Area(ph).end \in Nat /\ Area(ph).start < Area(ph).end
         /\ Area(ph).start * PGSIZE <= ph.va /\ ph.va < Area(ph).start * PGSIZE + PGSIZE
         /\ MemEnd <= Area(ph).end * PGSIZE
<1>1. program \in Programs
  BY DEF MemInv, PlaceOK, CallOK
<1>2. /\ program.ph \in Seq([va : Nat, filesz : Nat, memsz : Nat])
      /\ \A i \in 1 .. Len(program.ph) + 1 :
           /\ Areas(program)[i].start < Areas(program)[i].end
           /\ Pages(Areas(program)[i]) \subseteq Page
      /\ \A i \in 1 .. Len(program.ph) : Areas(program)[i] = Area(program.ph[i])
  BY <1>1, AreasAre
<1>3. ph \in [va : Nat, filesz : Nat, memsz : Nat]
  BY <1>2, ElementOfSeq DEF ph
<1>4. /\ Area(ph) \in [start : Nat, end : Nat]
      /\ Area(ph).start * PGSIZE <= ph.va /\ ph.va < Area(ph).start * PGSIZE + PGSIZE
      /\ ph.va + ph.memsz <= Area(ph).end * PGSIZE
  BY <1>3, AreaIs
<1>5. Area(ph).start < Area(ph).end /\ Pages(Area(ph)) \subseteq Page
  <2>1. at \in 1 .. Len(program.ph) + 1
    <3> DEFINE n == Len(program.ph)
    <3>1. n \in Nat
      BY <1>2
    <3> HIDE DEF n
    <3>2. at \in 1 .. n => at \in 1 .. n + 1
      BY <3>1
    <3> QED BY <3>2 DEF n
  <2> QED BY <1>2, <2>1 DEF ph
<1>6. Area(ph).start \in Nat /\ Area(ph).end \in Nat /\ Area(ph) \in [start : Int, end : Int]
  BY <1>4
<1> QED BY <1>1, <1>3, <1>4, <1>5, <1>6 DEF MemEnd

LEMMA PageOfAddress ==
  ASSUME NEW k \in Nat, NEW w, w = k * PGSIZE
  PROVE  w \in Nat /\ w \div PGSIZE = k
<1> DEFINE m == PGSIZE
<1>1. m \in Nat \ {0}
  BY AddressSpaceAssumption
<1> HIDE DEF m
<1>2. k * m \in Nat /\ k * m = m * k + 0 /\ 0 \in 0 .. m - 1
  BY <1>1
<1>3. (k * m) \div m = k
  BY <1>1, <1>2, DivIs
<1> QED BY <1>2, <1>3 DEF m

\* How far a page takes load_icode.
LEMMA PartIs ==
  ASSUME la \in Int, start \in Int, la <= start, start <= la + PGSIZE, NEW end \in Int,
         start < end
  PROVE  LET size == Part(start - la, end)
         IN  /\ start + size \in Int /\ start <= start + size /\ start + size <= la + PGSIZE
             /\ start + size < end => la + PGSIZE <= start + size
BY AddressSpaceAssumption DEF Part

AtPage(k) ==
  /\ k \in Area(ph).start .. Area(ph).end /\ la = k * PGSIZE /\ k \in Nat /\ la \in Int
  /\ start \in Int

LEMMA PageIsThere ==
  ASSUME MemInv, pc = "load", start < MemEnd, la <= start
  PROVE  \E k \in Pages(Area(ph)) : AtPage(k) /\ la \div PGSIZE = k /\ k + 1 <= Area(ph).end
<1>1. /\ at \in 1 .. Len(program.ph) /\ start \in Int
      /\ \E k \in Area(ph).start .. Area(ph).end : la = k * PGSIZE
  BY DEF MemInv, LoopOK, LoadAt
<1>2. /\ Area(ph).start \in Nat /\ Area(ph).end \in Nat /\ MemEnd <= Area(ph).end * PGSIZE
      /\ ph \in [va : Nat, filesz : Nat, memsz : Nat]
  BY <1>1, HeaderIs
<1>3. PICK k \in Area(ph).start .. Area(ph).end : la = k * PGSIZE
  BY <1>1
<1>4. k \in Nat /\ la \in Nat /\ la \div PGSIZE = k
  <2>1. k \in Nat
    BY <1>2
  <2> QED BY <1>3, <2>1, PageOfAddress
<1>5. k # Area(ph).end
  <2> SUFFICES ASSUME k = Area(ph).end PROVE FALSE
    OBVIOUS
  <2>1. MemEnd <= la
    BY <1>2, <1>3
  <2>2. MemEnd \in Int
    BY <1>2 DEF MemEnd
  <2> QED BY <1>1, <1>4, <2>1, <2>2
<1>6. k + 1 <= Area(ph).end /\ k \in Pages(Area(ph))
  BY <1>2, <1>4, <1>5 DEF Pages
<1> QED BY <1>1, <1>3, <1>4, <1>6 DEF AtPage

LEMMA SameHeader ==
  ASSUME UNCHANGED <<program, at>>
  PROVE  ph' = ph /\ MemEnd' = MemEnd /\ FileEnd' = FileEnd
BY DEF ph, MemEnd, FileEnd

\* A page of bytes of the file, or of zeros.
LEMMA PageLoads ==
  ASSUME MemInv, pc = "load", pc' = "load", la <= start, UNCHANGED <<areas, program, at>>,
         NEW end \in Int, start < end, end <= MemEnd, start' = start + Part(start - la, end),
         la' = la + PGSIZE, start' < FileEnd => start' < end
  PROVE  LoadAt'
<1>1. /\ at \in 1 .. Len(program.ph) /\ ph.filesz <= ph.memsz
      /\ areas # <<>> /\ areas[Len(areas)] = Area(ph)
      /\ start \in Int /\ start <= la + PGSIZE
  BY DEF MemInv, LoopOK, LoadAt
<1>2. /\ Area(ph).start \in Nat /\ Area(ph).end \in Nat
      /\ ph \in [va : Nat, filesz : Nat, memsz : Nat]
  BY <1>1, HeaderIs
<1>3. ph' = ph /\ MemEnd' = MemEnd /\ FileEnd' = FileEnd
  BY SameHeader
<1>4. start < MemEnd
  BY <1>1, <1>2 DEF MemEnd
<1>5. PICK k \in Pages(Area(ph)) : AtPage(k) /\ k + 1 <= Area(ph).end
  BY <1>4, PageIsThere
<1>6. /\ k \in Nat /\ la = k * PGSIZE /\ la \in Int /\ k + 1 <= Area(ph).end
      /\ Area(ph).start <= k
  BY <1>2, <1>5 DEF AtPage
<1>7. /\ start' \in Int /\ start' <= la + PGSIZE
      /\ start' < end => la + PGSIZE <= start'
  BY <1>1, <1>6, PartIs
<1>8. PGSIZE \in Nat
  BY AddressSpaceAssumption
<1>9. la' = (k + 1) * PGSIZE /\ k + 1 \in Area(ph).start .. Area(ph).end
  BY <1>2, <1>6, <1>8
<1>10. start' <= la' + PGSIZE
  BY <1>6, <1>7, <1>8
<1>11. start' < FileEnd' => la' <= start'
  BY <1>3, <1>7
<1>12. \E j \in Area(ph').start .. Area(ph').end : la' = j * PGSIZE
  BY <1>3, <1>9
<1> QED
  BY <1>1, <1>3, <1>7, <1>10, <1>11, <1>12 DEF LoadAt

LEMMA LoadLoops ==
  ASSUME MemInv, [Next]_vars
  PROVE  LoadAt'
<1>a. LoadAt /\ CallOK
  BY DEF MemInv, LoopOK, PlaceOK
<1>b. PGSIZE \in Nat \ {0} /\ STACKPAGES \in Nat /\ STACK.end \in Int /\ STACK.start \in Int
  BY AddressSpaceAssumption, ProgramsAssumption
<1>c. areas \in Seq([start : Int, end : Int])
  BY DEF MemInv, TreeInv
<1>d. \A S : \A s \in Seq(S) : \A b \in S :
        Append(s, b) # <<>> /\ Append(s, b)[Len(Append(s, b))] = b
  <2> SUFFICES ASSUME NEW S, NEW s \in Seq(S), NEW b \in S
               PROVE  Append(s, b) # <<>> /\ Append(s, b)[Len(Append(s, b))] = b
    OBVIOUS
  <2>1. Len(Append(s, b)) = Len(s) + 1 /\ Append(s, b)[Len(s) + 1] = b /\ Len(s) \in Nat
    BY AppendProperties
  <2>2. Len(<<>>) = 0
    OBVIOUS
  <2> QED BY <2>1, <2>2
<1>e. pc' \notin {"header", "load", "stack"} => LoadAt'
  BY DEF LoadAt
<1>f. pc' = pc /\ UNCHANGED <<areas, program, at, start, la>> => LoadAt'
  <2> SUFFICES ASSUME pc' = pc, UNCHANGED <<areas, program, at, start, la>> PROVE LoadAt'
    OBVIOUS
  <2>1. ph' = ph /\ MemEnd' = MemEnd /\ FileEnd' = FileEnd
    BY SameHeader
  <2> QED BY <1>a, <2>1 DEF LoadAt
<1>1. CASE UNCHANGED vars
  BY <1>f, <1>1 DEF vars, treeVars
<1>2. CASE AllocProc
  BY <1>e, <1>2 DEF AllocProc, Goto
<1>3. CASE SetupKstack
  BY <1>e, <1>3 DEF SetupKstack, Goto
<1>4. CASE MmCreate
  BY <1>e, <1>4 DEF MmCreate, Goto
<1>5. CASE SetupPgdir
  <2>1. CASE pc' = "header"
    <3>1. pc = "setup_pgdir" /\ call = "load" /\ at' = 1 /\ program' = program
      BY <1>5, <2>1 DEF SetupPgdir, BadPgdirCleanupMm, Goto, setting
    <3>2. program \in Programs
      BY <1>a, <3>1 DEF CallOK
    <3>3. Len(program.ph) \in Nat
      <4> DEFINE R == [va : Nat, filesz : Nat, memsz : Nat]
      <4>1. program.ph \in Seq(R)
        BY <3>2, AreasAre
      <4> HIDE DEF R
      <4> QED BY <4>1
    <3>4. at' \in 1 .. Len(program'.ph) + 1
      BY <3>1, <3>3
    <3> QED BY <2>1, <3>4 DEF LoadAt
  <2>2. CASE pc' # "header"
    <3>1. pc' \notin {"header", "load", "stack"}
      BY <1>5, <2>2 DEF SetupPgdir, BadPgdirCleanupMm, Goto
    <3> QED BY <1>e, <3>1
  <2> QED BY <2>1, <2>2
<1>6. CASE DupArea
  BY <1>e, <1>6 DEF DupArea, Goto
<1>7. CASE CopyRange
  BY <1>e, <1>7 DEF CopyRange, Goto
<1>8. CASE CopyRangeEnds
  BY <1>e, <1>8 DEF CopyRangeEnds, Goto
<1>9. CASE GoodMm
  BY <1>e, <1>9 DEF GoodMm, Goto
<1>10. CASE SetLinks
  BY <1>e, <1>10 DEF SetLinks, Goto
<1>11. CASE ProcRun
  BY <1>e, <1>11 DEF ProcRun, Goto
<1>12. CASE SwitchedOut
  BY <1>e, <1>12 DEF SwitchedOut, Goto
<1>13. CASE Pgfault
  BY <1>e, <1>13 DEF Pgfault, Goto
<1>14. CASE Execve
  BY <1>e, <1>14 DEF Execve, SatpBoot, CountLess, Goto
<1>15. CASE DoExit
  BY <1>e, <1>15 DEF DoExit, SatpBoot, CountLess, Goto
<1>16. CASE Header
  <2>1. CASE pc' = "load"
    <3>1. /\ pc = "header" /\ at <= Len(program.ph) /\ ph.filesz <= ph.memsz
          /\ areas' = Append(areas, Area(ph)) /\ start' = ph.va /\ la' = Area(ph).start * PGSIZE
          /\ UNCHANGED <<program, at>>
      BY <1>16, <2>1 DEF Header, Goto, setting
    <3>2. at \in 1 .. Len(program.ph) + 1
      BY <1>a, <3>1 DEF LoadAt
    <3>3. at \in 1 .. Len(program.ph)
      BY <3>1, <3>2
    <3>4. /\ ph \in [va : Nat, filesz : Nat, memsz : Nat] /\ Area(ph) \in [start : Int, end : Int]
          /\ Area(ph).start \in Nat /\ Area(ph).end \in Nat /\ Area(ph).start < Area(ph).end
          /\ Area(ph).start * PGSIZE <= ph.va /\ ph.va < Area(ph).start * PGSIZE + PGSIZE
      BY <3>1, <3>3, HeaderIs
    <3>5. ph' = ph /\ MemEnd' = MemEnd /\ FileEnd' = FileEnd
      BY <3>1, SameHeader
    <3>6. areas' # <<>> /\ areas'[Len(areas')] = Area(ph)
      BY <1>c, <1>d, <3>1, <3>4
    <3>7. ph.va \in Int /\ Area(ph).start \in Area(ph).start .. Area(ph).end
      BY <3>4
    <3>8. start' <= la' + PGSIZE /\ la' <= start'
      <4> DEFINE P == Area(ph).start * PGSIZE
      <4>1. P \in Int /\ P <= ph.va /\ ph.va < P + PGSIZE /\ start' = ph.va /\ la' = P
        BY <1>b, <3>1, <3>4
      <4> HIDE DEF P
      <4> QED BY <1>b, <3>7, <4>1
    <3> QED BY <2>1, <3>1, <3>3, <3>5, <3>6, <3>7, <3>8 DEF LoadAt
  <2>2. CASE pc' # "load"
    <3>1. pc' = "exit_mmap"
      BY <1>16, <2>2 DEF Header, Goto
    <3> QED BY <1>e, <3>1
  <2> QED BY <2>1, <2>2
<1>17. CASE LoadText
  <2>1. CASE pc' = "load"
    <3>1. /\ pc = "load" /\ start < FileEnd /\ UNCHANGED <<areas, program, at>>
          /\ start' = start + Part(start - la, FileEnd) /\ la' = la + PGSIZE
      BY <1>17, <2>1 DEF LoadText, LoadPage, Goto, setting
    <3>2. /\ at \in 1 .. Len(program.ph) /\ ph.filesz <= ph.memsz /\ start \in Int
          /\ start <= la + PGSIZE /\ (start < FileEnd => la <= start)
      BY <1>a, <3>1 DEF LoadAt
    <3>3. ph.va \in Nat /\ ph.filesz \in Nat /\ ph.memsz \in Nat
      BY <3>1, <3>2, HeaderIs
    <3>4. la <= start /\ FileEnd \in Int /\ FileEnd <= MemEnd /\ FileEnd <= FileEnd
      BY <3>1, <3>2, <3>3 DEF FileEnd, MemEnd
    <3>5. start < MemEnd
      BY <3>1, <3>2, <3>3, <3>4 DEF FileEnd, MemEnd
    <3>6. la \in Int
      <4>1. PICK k \in Pages(Area(ph)) : AtPage(k)
        BY <3>1, <3>4, <3>5, PageIsThere
      <4> QED BY <4>1 DEF AtPage
    <3>7. start' \in Int
      BY <3>1, <3>2, <3>4, <3>6, PartIs
    <3>8. start' < FileEnd => start' < FileEnd
      BY <3>3, <3>4, <3>7 DEF FileEnd, MemEnd
    <3> QED BY <2>1, <3>1, <3>4, <3>8, PageLoads
  <2>2. CASE pc' # "load"
    <3>1. pc' = "exit_mmap"
      BY <1>17, <2>2 DEF LoadText, LoadPage, Goto
    <3> QED BY <1>e, <3>1
  <2> QED BY <2>1, <2>2
<1>18. CASE LoadTail
  <2>1. CASE pc' = "load"
    <3>1. /\ pc = "load" /\ start >= FileEnd /\ start < la /\ start < MemEnd
          /\ UNCHANGED <<areas, program, at, la>>
          /\ start' = start + (PGSIZE - (start + PGSIZE - la)
                                 - (IF MemEnd < la THEN la - MemEnd ELSE 0))
      BY <1>18, <2>1 DEF LoadTail, setting, treeVars
    <3>2. /\ at \in 1 .. Len(program.ph) /\ ph.filesz <= ph.memsz
          /\ areas # <<>> /\ areas[Len(areas)] = Area(ph)
          /\ start \in Int /\ start <= la + PGSIZE
          /\ \E k \in Area(ph).start .. Area(ph).end : la = k * PGSIZE
      BY <1>a, <3>1 DEF LoadAt
    <3>3. /\ ph.va \in Nat /\ ph.filesz \in Nat /\ ph.memsz \in Nat
          /\ Area(ph).start \in Nat /\ Area(ph).end \in Nat
      BY <3>1, <3>2, HeaderIs
    <3>4. la \in Int
      BY <1>b, <3>2, <3>3
    <3>5. start' \in Int /\ start' <= la /\ start <= start'
      <4>1. MemEnd \in Int
        BY <3>3 DEF MemEnd
      <4> QED BY <1>b, <3>1, <3>2, <3>4, <4>1
    <3>6. ph' = ph /\ MemEnd' = MemEnd /\ FileEnd' = FileEnd
      BY <3>1, SameHeader
    <3>7. ~(start' < FileEnd)
      <4>1. FileEnd \in Int
        BY <3>3 DEF FileEnd
      <4> QED BY <3>1, <3>2, <3>5, <4>1
    <3>8. start' <= la' + PGSIZE
      BY <1>b, <3>1, <3>4, <3>5
    <3> QED BY <2>1, <3>1, <3>2, <3>5, <3>6, <3>7, <3>8 DEF LoadAt
  <2>2. CASE pc' # "load"
    <3>1. pc' = "panic"
      BY <1>18, <2>2 DEF LoadTail, Goto
    <3> QED BY <1>e, <3>1
  <2> QED BY <2>1, <2>2
<1>19. CASE LoadBss
  <2>1. CASE pc' = "load"
    <3>1. /\ pc = "load" /\ start < MemEnd /\ UNCHANGED <<areas, program, at>>
          /\ start' = start + Part(start - la, MemEnd) /\ la' = la + PGSIZE /\ start >= la
      BY <1>19, <2>1 DEF LoadBss, LoadPage, Goto, setting
    <3>2. /\ at \in 1 .. Len(program.ph) /\ ph.filesz <= ph.memsz /\ start \in Int
          /\ start <= la + PGSIZE /\ (start < FileEnd => la <= start)
      BY <1>a, <3>1 DEF LoadAt
    <3>3. ph.va \in Nat /\ ph.filesz \in Nat /\ ph.memsz \in Nat
      BY <3>1, <3>2, HeaderIs
    <3>4. la <= start /\ MemEnd \in Int /\ MemEnd <= MemEnd /\ FileEnd <= MemEnd
      BY <3>1, <3>2, <3>3 DEF FileEnd, MemEnd
    <3>5. start < MemEnd
      BY <3>1, <3>2, <3>3, <3>4 DEF FileEnd, MemEnd
    <3>6. la \in Int
      <4>1. PICK k \in Pages(Area(ph)) : AtPage(k)
        BY <3>1, <3>4, <3>5, PageIsThere
      <4> QED BY <4>1 DEF AtPage
    <3>7. start' \in Int
      BY <3>1, <3>2, <3>4, <3>6, PartIs
    <3>8. start' < FileEnd => start' < MemEnd
      BY <3>3, <3>4, <3>7 DEF FileEnd, MemEnd
    <3> QED BY <2>1, <3>1, <3>4, <3>8, PageLoads
  <2>2. CASE pc' # "load"
    <3>1. pc' = "exit_mmap"
      BY <1>19, <2>2 DEF LoadBss, LoadPage, Goto
    <3> QED BY <1>e, <3>1
  <2> QED BY <2>1, <2>2
<1>20. CASE HeaderEnds
  <2>1. pc = "load" /\ at' = at + 1 /\ pc' = "header" /\ program' = program
    BY <1>20 DEF HeaderEnds, Goto, setting
  <2>2. at \in 1 .. Len(program.ph)
    BY <1>a, <2>1 DEF LoadAt
  <2>3. at' \in 1 .. Len(program'.ph) + 1
    <3> DEFINE n == Len(program.ph)
    <3>1. n \in Nat
      <4> DEFINE R == [va : Nat, filesz : Nat, memsz : Nat]
      <4>1. program.ph \in Seq(R)
        BY <1>a, <2>1, AreasAre DEF CallOK
      <4> HIDE DEF R
      <4> QED BY <4>1
    <3>2. at \in 1 .. n
      BY <2>2
    <3> HIDE DEF n
    <3>3. at + 1 \in 1 .. n + 1
      BY <3>1, <3>2
    <3> QED BY <2>1, <3>3 DEF n
  <2> QED BY <2>1, <2>3 DEF LoadAt
<1>21. CASE LoadStack
  <2>1. CASE pc' = "stack"
    <3>1. areas' = Append(areas, STACK) /\ la' = STACK.end
      BY <1>21, <2>1 DEF LoadStack, Goto
    <3>2. STACK \in [start : Int, end : Int]
      BY ProgramsAssumption
    <3>3. areas' # <<>> /\ areas'[Len(areas')] = STACK
      BY <1>c, <1>d, <3>1, <3>2
    <3>4. la' \in STACK.end - STACKPAGES .. STACK.end
      BY <1>b, <3>1
    <3> QED BY <2>1, <3>3, <3>4 DEF LoadAt
  <2>2. CASE pc' # "stack"
    <3>1. pc' = "exit_mmap"
      BY <1>21, <2>2 DEF LoadStack, Goto
    <3> QED BY <1>e, <3>1
  <2> QED BY <2>1, <2>2
<1>22. CASE StackPage
  <2>1. CASE pc' = "stack"
    <3>1. pc = "stack" /\ la > STACK.end - STACKPAGES /\ la' = la - 1 /\ areas' = areas
      BY <1>22, <2>1 DEF StackPage, Goto
    <3>2. /\ areas # <<>> /\ areas[Len(areas)] = STACK
          /\ la \in STACK.end - STACKPAGES .. STACK.end
      BY <1>a, <3>1 DEF LoadAt
    <3>3. la' \in STACK.end - STACKPAGES .. STACK.end
      BY <1>b, <3>1, <3>2
    <3> QED BY <2>1, <3>1, <3>2, <3>3 DEF LoadAt
  <2>2. CASE pc' # "stack"
    <3>1. pc' = "panic"
      BY <1>22, <2>2 DEF StackPage, Goto
    <3> QED BY <1>e, <3>1
  <2> QED BY <2>1, <2>2
<1>23. CASE Loaded
  BY <1>e, <1>23 DEF Loaded, Goto
<1>24. CASE ExitMmap
  BY <1>e, <1>24 DEF ExitMmap, Goto
<1>25. CASE PutPgdir
  BY <1>e, <1>25 DEF PutPgdir, Goto
<1>26. CASE MmDestroy
  BY <1>e, <1>26 DEF MmDestroy, Goto
<1>27. CASE BadForkCleanupKstack
  BY <1>e, <1>27 DEF BadForkCleanupKstack, Goto
<1>28. CASE BadForkCleanupProc
  BY <1>e, <1>28 DEF BadForkCleanupProc, Clean, Goto
<1>29. CASE DoWait
  BY <1>e, <1>29 DEF DoWait, Clean, Goto
<1> QED
  BY <1>1, <1>2, <1>3, <1>4, <1>5, <1>6, <1>7, <1>8, <1>9, <1>10, <1>11, <1>12, <1>13, <1>14,
     <1>15, <1>16, <1>17, <1>18, <1>19, <1>20, <1>21, <1>22, <1>23, <1>24, <1>25, <1>26,
     <1>27, <1>28, <1>29
  DEF Next, KernelStep, Fork, Load, Cleanup

-----------------------------------------------------------------------------
(* The tree and the accounts of pages.                                     *)

LEMMA TreeStays ==
  ASSUME MemInv, [Next]_vars
  PROVE  TreeInv' /\ Accounts'
<1>a. TreeInv /\ Accounts
  BY DEF MemInv
<1>b. /\ free \in SUBSET Frame /\ kstack \subseteq Frame /\ root \subseteq Frame
      /\ areas \in Seq([start : Int, end : Int]) /\ Mine \subseteq Page
  <2>1. given \subseteq Frame
    BY DEF MemInv, PlaceOK, KindsOK
  <2>2. kstack \subseteq Frame /\ root \subseteq Frame
    BY <1>a, <2>1 DEF Accounts
  <2> QED BY <1>a, <2>2 DEF TreeInv, TablesTypeOK, InAreas
<1>c. pc \notin {"exit_mmap", "put_pgdir", "mm_destroy", "panic"} => done = 0
  BY DEF MemInv, PlaceOK, DoneOK
<1>d. STACK \in [start : Int, end : Int] /\ STACK.start \in Int /\ STACK.end \in Int
        /\ STACKPAGES \in Nat /\ STACK.end - STACK.start >= STACKPAGES
  BY ProgramsAssumption, AddressSpaceAssumption
<1>e. UNCHANGED <<areas, pgdir, table, tables, short, done>> =>
        (free' \subseteq Frame => TreeInv') /\ Own' = Own
  BY <1>a, TreeSame
<1>f. UNCHANGED treeVars /\ UNCHANGED rest => TreeInv' /\ Accounts'
  <2> SUFFICES ASSUME UNCHANGED treeVars, UNCHANGED rest PROVE TreeInv' /\ Accounts'
    OBVIOUS
  <2>1. UNCHANGED <<areas, pgdir, table, tables, short, done>> /\ free' = free
    BY DEF treeVars
  <2>2. TreeInv' /\ Own' = Own
    BY <1>b, <1>e, <2>1
  <2>3. Accounts'
    BY <1>a, <2>1, <2>2 DEF Accounts, rest
  <2> QED BY <2>2, <2>3
<1>g. areas # <<>> => \A v \in Pages(areas[Len(areas)]) \cup Pages(areas[1]) : v \in Mine
  <2> SUFFICES ASSUME areas # <<>> PROVE Len(areas) \in DOMAIN areas /\ 1 \in DOMAIN areas
    BY DEF Mine
  <2> DEFINE S == [start : Int, end : Int]
  <2>1. areas \in Seq(S)
    BY <1>b
  <2> HIDE DEF S
  <2> QED BY <2>1
<1>h. ASSUME NEW v \in Mine, done = 0, UNCHANGED <<areas, done>>, UNCHANGED rest,
             AllocPage(v) \/ AllocPageFails(v)
      PROVE  TreeInv' /\ Accounts'
  <2>1. v \in Page
    BY <1>b
  <2> QED BY <1>a, <1>h, <2>1, AllocKeeps, AllocFailKeeps
<1>i. ASSUME NEW area \in [start : Int, end : Int], Pages(area) \subseteq Page, done = 0,
             UNCHANGED <<pgdir, table, free, tables, short, done>>, UNCHANGED rest,
             areas' = <<area>> \o areas \/ areas' = Append(areas, area)
      PROVE  TreeInv' /\ Accounts'
  <2>1. TreeInv' /\ Own' = Own
    BY <1>a, <1>i, AreaKeeps
  <2>2. Accounts'
    BY <1>a, <1>i, <2>1 DEF Accounts, rest
  <2> QED BY <2>1, <2>2
<1>1. CASE UNCHANGED vars
  BY <1>f, <1>1 DEF vars, rest
<1>2. CASE AllocProc
  BY <1>f, <1>2 DEF AllocProc, rest, setting, mine
<1>3. CASE SetupKstack
  <2>1. CASE UNCHANGED <<kstack, free>>
    <3>1. UNCHANGED treeVars /\ UNCHANGED rest
      BY <1>3, <2>1 DEF SetupKstack, treeVars, rest, setting
    <3> QED BY <1>f, <3>1
  <2>2. CASE Rows # {} /\ kstack' = Lowest(Rows) .. Lowest(Rows) + KSTACKPAGE - 1
               /\ free' = free \ kstack'
    <3>1. UNCHANGED <<areas, pgdir, table, tables, short, done>> /\ UNCHANGED <<root, lost, given>>
          /\ pc = "setup_kstack"
      BY <1>3 DEF SetupKstack, setting
    <3>2. Rows \in SUBSET Frame
      BY <1>b DEF Rows
    <3>3. Lowest(Rows) \in Rows
      BY <2>2, <3>2, LowestIsIn
    <3>4. kstack' \subseteq free
      BY <2>2, <3>3 DEF Rows
    <3>5. kstack = {}
      BY <3>1 DEF MemInv, PlaceOK, GoneOK
    <3>6. TreeInv' /\ Own' = Own
      BY <1>b, <1>e, <2>2, <3>1
    <3> DEFINE new == kstack'
    <3>7. kstack' = new /\ new \subseteq free /\ free' = free \ new /\ tables' = tables
      BY <2>2, <3>1, <3>4
    <3> HIDE DEF new
    <3>8. Accounts'
      BY <1>a, <3>1, <3>5, <3>6, <3>7 DEF Accounts
    <3> QED BY <3>6, <3>8
  <2> QED BY <1>3, <2>1, <2>2 DEF SetupKstack
<1>4. CASE MmCreate
  BY <1>f, <1>4 DEF MmCreate, rest, setting, mine
<1>5. CASE SetupPgdir
  <2>1. CASE UNCHANGED <<root, free>>
    <3>1. UNCHANGED treeVars /\ UNCHANGED rest
      BY <1>5, <2>1 DEF SetupPgdir, treeVars, rest, setting, mine
    <3> QED BY <1>f, <3>1
  <2>2. CASE free # {} /\ root' = {Lowest(free)} /\ free' = free \ root'
    <3>1. /\ UNCHANGED <<areas, pgdir, table, tables, short, done>>
          /\ UNCHANGED <<kstack, lost, given>>
          /\ pc = "setup_pgdir"
      BY <1>5 DEF SetupPgdir, setting
    <3>2. root' \subseteq free
      BY <1>b, <2>2, LowestIsIn
    <3>3. root = {}
      BY <3>1 DEF MemInv, PlaceOK, RootOK, Rootless
    <3>4. TreeInv' /\ Own' = Own
      BY <1>b, <1>e, <2>2, <3>1
    <3> DEFINE new == root'
    <3>5. root' = new /\ new \subseteq free /\ free' = free \ new /\ tables' = tables
      BY <2>2, <3>1, <3>2
    <3> HIDE DEF new
    <3>6. Accounts'
      BY <1>a, <3>1, <3>3, <3>4, <3>5 DEF Accounts
    <3> QED BY <3>4, <3>6
  <2> QED BY <1>5, <2>1, <2>2 DEF SetupPgdir
<1>6. CASE DupArea
  <2>1. CASE UNCHANGED areas
    <3>1. UNCHANGED treeVars /\ UNCHANGED rest
      BY <1>6, <2>1 DEF DupArea, treeVars, rest, setting, mine
    <3> QED BY <1>f, <3>1
  <2>2. CASE areas' = <<Areas(from)[at]>> \o areas
    <3>1. /\ pc = "dup_mmap" /\ at > 0 /\ UNCHANGED rest
          /\ UNCHANGED <<pgdir, table, free, tables, short, done>>
      BY <1>6 DEF DupArea, rest, setting, mine
    <3>2. from \in Programs /\ at \in 0 .. Len(Areas(from))
      BY <3>1 DEF MemInv, PlaceOK, CallOK, LoopOK, ForkAt
    <3>3. /\ Areas(from) \in Seq([start : Nat, end : Nat])
          /\ Len(Areas(from)) = Len(from.ph) + 1
          /\ \A i \in 1 .. Len(from.ph) + 1 : Pages(Areas(from)[i]) \subseteq Page
      BY <3>2, AreasAre
    <3>4. at \in 1 .. Len(Areas(from))
      BY <3>1, <3>2
    <3>5. Areas(from)[at] \in [start : Nat, end : Nat]
      BY <3>3, <3>4, ElementOfSeq
    <3>6. Areas(from)[at] \in [start : Int, end : Int] /\ Pages(Areas(from)[at]) \subseteq Page
      BY <3>3, <3>4, <3>5
    <3> QED BY <1>c, <1>i, <2>2, <3>1, <3>6
  <2> QED BY <1>6, <2>1, <2>2 DEF DupArea
<1>7. CASE CopyRange
  <2>1. /\ pc = "copy_range" /\ la < Areas(from)[at].end /\ UNCHANGED <<areas, done>>
        /\ UNCHANGED rest
    BY <1>7 DEF CopyRange, rest, setting, mine
  <2>2. CASE UNCHANGED <<pgdir, table, tables, free, short>>
    BY <1>f, <2>1, <2>2 DEF treeVars
  <2>3. /\ from \in Programs /\ at \in 1 .. Len(Areas(from)) /\ areas # <<>>
        /\ areas[1] = Areas(from)[at] /\ la \in Areas(from)[at].start .. Areas(from)[at].end
    BY <2>1 DEF MemInv, PlaceOK, CallOK, LoopOK, ForkAt
  <2>4. la \in Mine
    <3>1. Areas(from) \in Seq([start : Nat, end : Nat])
      BY <2>3, AreasAre
    <3>2. Areas(from)[at] \in [start : Nat, end : Nat]
      BY <2>3, <3>1, ElementOfSeq
    <3>3. la \in Pages(areas[1])
      BY <2>1, <2>3, <3>2 DEF Pages
    <3> QED BY <1>g, <2>3, <3>3
  <2>5. la \in Page /\ done = 0 /\ free \subseteq Frame
    BY <1>b, <1>c, <2>1, <2>4
  <2>6. CASE PageInsert(la, ParentPage(la), free)
    <3>1. Given(la, ParentPage(la), free)
      BY <2>5, SharedIsGiven
    <3> QED BY <1>a, <2>1, <2>4, <2>5, <2>6, <3>1, InsertKeeps
  <2>7. CASE PageInsertFails(la, free)
    <3>1. free \in SUBSET free
      OBVIOUS
    <3> QED BY <1>a, <2>1, <2>5, <2>7, <3>1, FailKeeps
  <2> QED BY <1>7, <2>2, <2>6, <2>7 DEF CopyRange
<1>8. CASE CopyRangeEnds
  BY <1>f, <1>8 DEF CopyRangeEnds, rest, setting, mine
<1>9. CASE GoodMm
  BY <1>f, <1>9 DEF GoodMm, rest, setting, mine
<1>10. CASE SetLinks
  BY <1>f, <1>10 DEF SetLinks, rest, setting, mine
<1>11. CASE ProcRun
  BY <1>f, <1>11 DEF ProcRun, rest, setting, mine
<1>12. CASE SwitchedOut
  BY <1>f, <1>12 DEF SwitchedOut, rest, setting, mine
<1>13. CASE Pgfault
  <2>1. pc = "running" /\ UNCHANGED <<areas, done>> /\ UNCHANGED rest
    BY <1>13 DEF Pgfault, rest, setting, mine
  <2>2. PICK v \in Mine : AllocPage(v)
    BY <1>13 DEF Pgfault
  <2> QED BY <1>c, <1>h, <2>1, <2>2
<1>14. CASE Execve
  BY <1>f, <1>14 DEF Execve, SatpBoot, CountLess, rest, setting, mine
<1>15. CASE DoExit
  BY <1>f, <1>15 DEF DoExit, SatpBoot, CountLess, rest, setting, mine
<1>16. CASE Header
  <2>1. CASE UNCHANGED areas
    <3>1. UNCHANGED treeVars /\ UNCHANGED rest
      BY <1>16, <2>1 DEF Header, treeVars, rest, setting, mine
    <3> QED BY <1>f, <3>1
  <2>2. CASE areas' = Append(areas, Area(ph))
    <3>1. /\ pc = "header" /\ at <= Len(program.ph) /\ UNCHANGED rest
          /\ UNCHANGED <<pgdir, table, free, tables, short, done>>
      BY <1>16 DEF Header, rest, setting, mine
    <3>2. at \in 1 .. Len(program.ph) + 1
      BY <3>1 DEF MemInv, LoopOK, LoadAt
    <3>3. at \in 1 .. Len(program.ph)
      BY <3>1, <3>2
    <3>4. Area(ph) \in [start : Int, end : Int] /\ Pages(Area(ph)) \subseteq Page
      BY <3>1, <3>3, HeaderIs
    <3> QED BY <1>c, <1>i, <2>2, <3>1, <3>4
  <2> QED BY <1>16, <2>1, <2>2 DEF Header
<1>17. CASE LoadText
  <2>1. /\ pc = "load" /\ start < FileEnd /\ UNCHANGED <<areas, done>> /\ UNCHANGED rest
        /\ AllocPage(la \div PGSIZE) \/ AllocPageFails(la \div PGSIZE)
    BY <1>17 DEF LoadText, LoadPage, rest, setting, mine
  <2>2. /\ at \in 1 .. Len(program.ph) /\ ph.filesz <= ph.memsz /\ start \in Int
        /\ (start < FileEnd => la <= start) /\ areas # <<>> /\ areas[Len(areas)] = Area(ph)
    BY <2>1 DEF MemInv, LoopOK, LoadAt
  <2>3. ph.va \in Nat /\ ph.filesz \in Nat /\ ph.memsz \in Nat
    BY <2>1, <2>2, HeaderIs
  <2>4. start < MemEnd /\ la <= start
    BY <1>17, <2>1, <2>2, <2>3 DEF LoadText, FileEnd, MemEnd
  <2>5. la \div PGSIZE \in Pages(Area(ph))
    BY <2>1, <2>4, PageIsThere
  <2>6. la \div PGSIZE \in Mine
    BY <1>g, <2>2, <2>5
  <2> QED BY <1>c, <1>h, <2>1, <2>6
<1>18. CASE LoadTail
  BY <1>f, <1>18 DEF LoadTail, rest, setting, mine
<1>19. CASE LoadBss
  <2>1. /\ pc = "load" /\ start < MemEnd /\ UNCHANGED <<areas, done>> /\ UNCHANGED rest
        /\ AllocPage(la \div PGSIZE) \/ AllocPageFails(la \div PGSIZE)
    BY <1>19 DEF LoadBss, LoadPage, rest, setting, mine
  <2>2. /\ at \in 1 .. Len(program.ph) /\ ph.filesz <= ph.memsz /\ start \in Int
        /\ (start < FileEnd => la <= start) /\ areas # <<>> /\ areas[Len(areas)] = Area(ph)
    BY <2>1 DEF MemInv, LoopOK, LoadAt
  <2>3. ph.va \in Nat /\ ph.filesz \in Nat /\ ph.memsz \in Nat
    BY <2>1, <2>2, HeaderIs
  <2>4. start < MemEnd /\ la <= start
    BY <1>19, <2>1, <2>2, <2>3 DEF LoadBss, FileEnd, MemEnd
  <2>5. la \div PGSIZE \in Pages(Area(ph))
    BY <2>1, <2>4, PageIsThere
  <2>6. la \div PGSIZE \in Mine
    BY <1>g, <2>2, <2>5
  <2> QED BY <1>c, <1>h, <2>1, <2>6
<1>20. CASE HeaderEnds
  BY <1>f, <1>20 DEF HeaderEnds, rest, setting, mine
<1>21. CASE LoadStack
  <2>1. CASE UNCHANGED areas
    <3>1. UNCHANGED treeVars /\ UNCHANGED rest
      BY <1>21, <2>1 DEF LoadStack, treeVars, rest, setting, mine
    <3> QED BY <1>f, <3>1
  <2>2. CASE areas' = Append(areas, STACK)
    <3>1. /\ pc = "header" /\ UNCHANGED rest
          /\ UNCHANGED <<pgdir, table, free, tables, short, done>>
      BY <1>21 DEF LoadStack, rest, setting, mine
    <3>2. program \in Programs
      BY <3>1 DEF MemInv, PlaceOK, CallOK
    <3>3. /\ \A i \in 1 .. Len(program.ph) + 1 : Pages(Areas(program)[i]) \subseteq Page
          /\ Areas(program)[Len(program.ph) + 1] = STACK
          /\ Len(program.ph) \in Nat
      <4> DEFINE R == [va : Nat, filesz : Nat, memsz : Nat]
      <4>1. /\ program.ph \in Seq(R)
            /\ \A i \in 1 .. Len(program.ph) + 1 : Pages(Areas(program)[i]) \subseteq Page
            /\ Areas(program)[Len(program.ph) + 1] = STACK
        BY <3>2, AreasAre
      <4> HIDE DEF R
      <4>2. Len(program.ph) \in Nat
        BY <4>1
      <4> QED BY <4>1, <4>2
    <3>4. Pages(STACK) \subseteq Page
      <4>1. Len(program.ph) + 1 \in 1 .. Len(program.ph) + 1
        BY <3>3
      <4> QED BY <3>3, <4>1
    <3> QED BY <1>c, <1>d, <1>i, <2>2, <3>1, <3>4
  <2> QED BY <1>21, <2>1, <2>2 DEF LoadStack
<1>22. CASE StackPage
  <2>1. /\ pc = "stack" /\ la > STACK.end - STACKPAGES /\ UNCHANGED <<areas, done>>
        /\ UNCHANGED rest
        /\ AllocPage(la - 1) \/ AllocPageFails(la - 1)
    BY <1>22 DEF StackPage, rest, setting, mine
  <2>2. /\ areas # <<>> /\ areas[Len(areas)] = STACK
        /\ la \in STACK.end - STACKPAGES .. STACK.end
    BY <2>1 DEF MemInv, LoopOK, LoadAt
  <2>3. la - 1 \in Pages(STACK)
    BY <1>d, <2>1, <2>2 DEF Pages
  <2>4. la - 1 \in Mine
    BY <1>g, <2>2, <2>3
  <2> QED BY <1>c, <1>h, <2>1, <2>4
<1>23. CASE Loaded
  BY <1>f, <1>23 DEF Loaded, rest, setting, mine
<1>24. CASE ExitMmap
  <2>1. CASE UNCHANGED treeVars
    <3>1. UNCHANGED rest
      BY <1>24 DEF ExitMmap, rest, setting, mine
    <3> QED BY <1>f, <2>1, <3>1
  <2>2. CASE ExitMmapStep
    <3>1. UNCHANGED rest
      BY <1>24 DEF ExitMmap, rest, setting, mine
    <3>2. done < 2 * Len(areas) /\ done' = done + 1
      BY <2>2 DEF ExitMmapStep
    <3>3. CASE done < Len(areas)
      <4>1. UnmapRange(areas[done + 1])
        BY <2>2, <3>3 DEF ExitMmapStep
      <4> QED BY <1>a, <3>1, <3>2, <3>3, <4>1, UnmapKeeps
    <3>4. CASE ~(done < Len(areas))
      <4>1. ExitRange(areas[done - Len(areas) + 1])
        BY <2>2, <3>4 DEF ExitMmapStep
      <4>2. done >= Len(areas)
        <5> DEFINE n == Len(areas)
        <5>1. n \in Nat
          BY <1>b
        <5>2. done \in Int
          BY <1>a DEF TreeInv, TablesTypeOK
        <5> HIDE DEF n
        <5>3. ~(done < n) => done >= n
          BY <5>1, <5>2
        <5> QED BY <3>4, <5>3 DEF n
      <4> QED BY <1>a, <3>1, <3>2, <4>1, <4>2, ExitKeeps
    <3> QED BY <3>3, <3>4
  <2> QED BY <1>24, <2>1, <2>2 DEF ExitMmap
<1>25. CASE PutPgdir
  <2>1. /\ UNCHANGED <<areas, pgdir, table, tables, short, done>>
        /\ UNCHANGED <<kstack, lost, given>> /\ free' = free \cup root /\ root' = {}
    BY <1>25 DEF PutPgdir, setting
  <2>2. TreeInv' /\ Own' = Own
    BY <1>b, <1>e, <2>1
  <2>3. Accounts'
    BY <1>a, <2>1, <2>2 DEF Accounts
  <2> QED BY <2>2, <2>3
<1>26. CASE MmDestroy
  <2>1. /\ pc = "mm_destroy" /\ ForgetTables /\ lost' = lost \cup tables
        /\ UNCHANGED <<free, given, kstack, root>>
    BY <1>26 DEF MmDestroy
  <2>2. done >= Len(areas)
    <3> DEFINE n == Len(areas)
    <3>1. n \in Nat /\ done = 2 * n
      BY <1>b, <2>1 DEF MemInv, PlaceOK, DoneOK
    <3> HIDE DEF n
    <3>2. done >= n
      BY <3>1
    <3> QED BY <3>2 DEF n
  <2>3. Own = {}
    BY <1>a, <2>2, NothingMapped
  <2>4. NoTables' /\ free' \subseteq Frame
    BY <1>b, <2>1 DEF ForgetTables, NoTables
  <2>5. TreeInv' /\ Own' = {}
    BY <2>4, NoTablesTreeNext
  <2>6. tables' = {}
    BY <2>1 DEF ForgetTables
  <2>7. Accounts'
    BY <1>a, <2>1, <2>3, <2>5, <2>6 DEF Accounts
  <2> QED BY <2>5, <2>7
<1>27. CASE BadForkCleanupKstack
  <2>1. /\ UNCHANGED <<areas, pgdir, table, tables, short, done>>
        /\ UNCHANGED <<root, lost, given>> /\ free' = free \cup kstack /\ kstack' = {}
    BY <1>27 DEF BadForkCleanupKstack, CleanupKstack, setting
  <2>2. TreeInv' /\ Own' = Own
    BY <1>b, <1>e, <2>1
  <2>3. Accounts'
    BY <1>a, <2>1, <2>2 DEF Accounts
  <2> QED BY <2>2, <2>3
<1>28. CASE BadForkCleanupProc
  BY <1>f, <1>28 DEF BadForkCleanupProc, rest, setting, mine
<1>29. CASE DoWait
  <2>1. /\ UNCHANGED <<areas, pgdir, table, tables, short, done>>
        /\ UNCHANGED <<root, lost, given>> /\ free' = free \cup kstack /\ kstack' = {}
    BY <1>29 DEF DoWait
  <2>2. TreeInv' /\ Own' = Own
    BY <1>b, <1>e, <2>1
  <2>3. Accounts'
    BY <1>a, <2>1, <2>2 DEF Accounts
  <2> QED BY <2>2, <2>3
<1> QED
  BY <1>1, <1>2, <1>3, <1>4, <1>5, <1>6, <1>7, <1>8, <1>9, <1>10, <1>11, <1>12, <1>13, <1>14,
     <1>15, <1>16, <1>17, <1>18, <1>19, <1>20, <1>21, <1>22, <1>23, <1>24, <1>25, <1>26,
     <1>27, <1>28, <1>29
  DEF Next, KernelStep, Fork, Load, Cleanup

-----------------------------------------------------------------------------
(* The theorems.                                                           *)

LEMMA MemInitHolds == Init => MemInv
<1> SUFFICES ASSUME Init PROVE MemInv
  OBVIOUS
<1>1. SatpInv
  BY SatpInitHolds
<1>2. /\ free = given /\ lost = {} /\ NoTables /\ kstack = {} /\ root = {} /\ pc = "none"
  BY DEF Init
<1>3. given \subseteq Frame
  <2>1. PICK n \in 0 .. NFRAME : given = 1 .. n
    BY DEF Init
  <2> QED BY <2>1, PageTableAssumption DEF Frame
<1>4. TreeInv /\ Own = {}
  BY <1>2, <1>3, NoTablesTree
<1>5. Accounts
  BY <1>2, <1>4 DEF Accounts, NoTables
<1>6. PlaceOK
  <2>1. KindsOK
    BY <1>3 DEF Init, KindsOK, Places
  <2>2. BareOK /\ RootOK /\ CountOK /\ GoneOK /\ CallOK
    BY DEF Init, BareOK, RootOK, CountOK, GoneOK, CallOK
  <2>3. DoneOK
    BY <1>2 DEF DoneOK, NoTables
  <2> QED BY <2>1, <2>2, <2>3 DEF PlaceOK
<1>7. LoopOK
  BY <1>2 DEF LoopOK, ForkAt, LoadAt
<1> QED BY <1>1, <1>4, <1>5, <1>6, <1>7 DEF MemInv

LEMMA MemInvStays ==
  ASSUME MemInv, [Next]_vars
  PROVE  MemInv'
<1>1. SatpInv'
  BY SatpStays DEF MemInv
<1> QED
  BY <1>1, PlaceStays, ForkLoops, LoadLoops, TreeStays DEF MemInv, LoopOK

LEMMA MemInvSuffices ==
  ASSUME MemInv
  PROVE  MemoryOK /\ SatpIsHeld
<1>a. SatpInv /\ TreeInv /\ Accounts /\ PlaceOK
  BY DEF MemInv
<1>1. TypeOK
  <2>1. TablesTypeOK
    BY <1>a DEF TreeInv
  <2>2. lost \subseteq given /\ kstack \subseteq given /\ root \subseteq given
    BY <1>a DEF Accounts
  <2>3. mm_count \in 0 .. 1
    BY <1>a DEF PlaceOK, CountOK
  <2> QED BY <1>a, <2>1, <2>2, <2>3 DEF TypeOK, PlaceOK, KindsOK
<1>2. TablesApart
  <2>1. DOMAIN pgdir = Dirs
    BY <1>a DEF TreeInv, TablesTypeOK, Dirs
  <2>2. /\ \A d \in Dirs : Dir(d) \in tables \cup {None}
        /\ \A d \in Dirs, e \in Entry : Tab(d, e) \in tables \cup {None}
        /\ \A c, d \in Dirs : Dir(c) = Dir(d) /\ Dir(c) # None => c = d
        /\ \A w, u \in Page : PageAt(w) \cap PageAt(u) # {} => w = u
    BY <1>a DEF TreeInv, TreeOK
  <2>3. \A d, e \in DOMAIN pgdir : d # e => pgdir[d] = None \/ pgdir[d] # pgdir[e]
    BY <2>1, <2>2 DEF Dir
  <2>4. Directories \subseteq tables
    BY <2>1, <2>2 DEF Directories, Dir
  <2>5. \A v \in Page : TableOf(v) \subseteq tables
    <3> SUFFICES ASSUME NEW v \in Page PROVE TableOf(v) \subseteq tables
      OBVIOUS
    <3>1. TableOf(v) = {Tab(PDX1(v), PDX0(v))} \ {None}
      BY PageAtIs
    <3>2. Tab(PDX1(v), PDX0(v)) \in tables \cup {None}
      BY <2>2, Coordinates
    <3> QED BY <3>1, <3>2
  <2>6. tables \cap free = {}
    BY <1>a DEF Accounts
  <2>7. \A v \in Page : PageAt(v) \cap (free \cup tables) = {}
    <3> SUFFICES ASSUME NEW v \in Page, NEW f \in PageAt(v), f \in free \cup tables PROVE FALSE
      OBVIOUS
    <3>1. f \in Frame /\ f \notin Shared
      BY <1>a, Kinds DEF TreeInv, TablesTypeOK
    <3>2. f \in Own
      BY <3>1 DEF Own, Mapped
    <3> QED BY <1>a, <3>2 DEF Accounts
  <2>8. \A v, w \in Page : v # w => PageAt(v) \cap PageAt(w) = {}
    BY <2>2
  <2> QED BY <2>3, <2>4, <2>5, <2>6, <2>7, <2>8 DEF TablesApart
<1>3. PagesAccounted
  <2>1. /\ DOMAIN Holders = 1 .. 6
        /\ Holders[1] = free /\ Holders[2] = kstack /\ Holders[3] = root
        /\ Holders[4] = tables /\ Holders[5] = Own /\ Holders[6] = lost
    BY DEF Holders, Own
  <2>2. \A k : k \in 1 .. 6 <=> k = 1 \/ k = 2 \/ k = 3 \/ k = 4 \/ k = 5 \/ k = 6
    OBVIOUS
  <2>3. UNION {Holders[k] : k \in DOMAIN Holders}
          = free \cup kstack \cup root \cup tables \cup Own \cup lost
    BY <2>1, <2>2
  <2>4. \A j, k \in DOMAIN Holders : j # k => Holders[j] \cap Holders[k] = {}
    BY <1>a, <2>1, <2>2 DEF Accounts
  <2> QED BY <1>a, <2>3, <2>4 DEF PagesAccounted, Accounts
<1>4. TidyLosesNothing
  <2> SUFFICES ASSUME pc = "mm_destroy", Tidy PROVE tables = {}
    BY DEF TidyLosesNothing
  <2>1. done = 2 * Len(areas)
    BY <1>a DEF PlaceOK, DoneOK
  <2> QED BY <1>a, <2>1, TidyGone
<1>5. NothingLeft
  <2> SUFFICES ASSUME pc = "none"
               PROVE  /\ ~proc /\ ~mm /\ mm_count = 0 /\ areas = <<>>
                      /\ kstack = {} /\ root = {} /\ free = given \ lost
    BY DEF NothingLeft
  <2>1. ~proc /\ kstack = {} /\ root = {} /\ mm_count = 0 /\ NoTables
    BY <1>a DEF PlaceOK, GoneOK, RootOK, CountOK, BareOK, Rootless
  <2>2. ~mm
    BY <1>a DEF SatpInv, Bare, Rootless
  <2>3. areas = <<>> /\ tables = {}
    BY <2>1 DEF NoTables
  <2>4. Own = {}
    <3>1. free \subseteq Frame
      BY <1>a DEF TreeInv, TablesTypeOK
    <3> QED BY <2>1, <3>1, NoTablesTree
  <2>5. free = given \ lost
    BY <1>a, <2>1, <2>3, <2>4 DEF Accounts
  <2> QED BY <2>1, <2>2, <2>3, <2>5
<1>6. SatpIsHeld
  <2>1. satp \in {Boot, Others} \cup root
    BY <1>a DEF SatpInv
  <2>2. pc \in {"ready", "running"} => IF mm THEN root = {procPgdir} ELSE procPgdir = Boot
    BY <1>a DEF SatpInv
  <2> QED BY <2>1, <2>2 DEF SatpIsHeld
<1> QED BY <1>1, <1>2, <1>3, <1>4, <1>5, <1>6 DEF MemoryOK

\* For any program and any number of pages, and whichever allocation fails, do_fork,
\* do_execve, do_exit and do_wait free what they have built, each page once.
THEOREM MemoryCorrect == Spec => []MemoryOK
<1>1. Init => MemInv
  BY MemInitHolds
<1>2. MemInv /\ [Next]_vars => MemInv'
  BY MemInvStays
<1>3. MemInv => MemoryOK
  BY MemInvSuffices
<1> QED BY <1>1, <1>2, <1>3, PTL DEF Spec

\* The kernel leaves a page directory before it frees it, and proc->pgdir of a
\* process that can run is the one it has.
THEOREM SatpCorrect == Spec => []SatpIsHeld
<1>1. Init => MemInv
  BY MemInitHolds
<1>2. MemInv /\ [Next]_vars => MemInv'
  BY MemInvStays
<1>3. MemInv => SatpIsHeld
  BY MemInvSuffices
<1> QED BY <1>1, <1>2, <1>3, PTL DEF Spec
-----------------------------------------------------------------------------
(* What load_icode leaves in memory.                                       *)

HasPage == {v \in Page : PageAt(v) # {}}
Bytes == DOMAIN NoImage

\* What the k-th byte of a part is to be, and that n bytes of it are.
ByteOf(header, k) == IF k < header.filesz THEN FileByte(k) ELSE 0
Written(header, n) == \A k \in 0 .. n - 1 : image[header.va + k] = ByteOf(header, k)

\* The parts before the i-th are valid and in place; the pages they have; and the
\* first n areas.
PartsBefore(i) ==
  \A j \in 1 .. i - 1 : LET header == program.ph[j]
                        IN  header.filesz <= header.memsz /\ Written(header, header.memsz)
PagesBefore(i) == UNION {PagesLoaded(program.ph[j]) : j \in 1 .. i - 1}
AreasTo(n) == Len(areas) = n /\ \A j \in 1 .. n : areas[j] = Areas(program)[j]

\* Inside a part, when the next page is the k-th.
PartAt(k) ==
  /\ la = k * PGSIZE /\ HasPage = PagesBefore(at) \cup (Area(ph).start .. k - 1)
  /\ \/ k = Area(ph).start /\ start = ph.va
     \/ Area(ph).start < k /\ ph.va < start /\ start <= la

HeaderImage ==
  pc = "header" =>
    /\ program.elf /\ PartsBefore(at) /\ AreasTo(at - 1) /\ HasPage = PagesBefore(at)
PartImage ==
  pc = "load" =>
    /\ program.elf /\ PartsBefore(at) /\ AreasTo(at)
    /\ ph.va <= start /\ start <= MemEnd /\ Written(ph, start - ph.va)
    /\ \E k \in Area(ph).start .. Area(ph).end : PartAt(k)
StackImage ==
  pc = "stack" =>
    LET n == Len(program.ph) + 1
    IN  /\ program.elf /\ PartsBefore(n) /\ AreasTo(n)
        /\ HasPage = PagesBefore(n) \cup (la .. STACK.end - 1)
RunImage ==
  pc \in {"ready", "running"} /\ mm /\ program # NoProgram =>
    LET n == Len(program.ph) + 1
    IN  /\ program.elf /\ PartsBefore(n) /\ AreasTo(n)
        /\ HasPage = PagesBefore(n) \cup StackLoaded
NoneYet == pc \in {"none", "set_links"} \/ call = "fork" => program = NoProgram

ImageAt == HeaderImage /\ PartImage /\ StackImage /\ RunImage
ImageInv == DOMAIN image = Bytes /\ NoneYet /\ ImageAt

LEMMA BytesStay ==
  ASSUME DOMAIN image = Bytes, [Next]_vars
  PROVE  DOMAIN image' = Bytes
<1>1. CASE UNCHANGED vars
  BY <1>1 DEF vars
<1>2. CASE AllocProc
  BY <1>2 DEF AllocProc, loop
<1>3. CASE SetupKstack
  BY <1>3 DEF SetupKstack, loop
<1>4. CASE MmCreate
  BY <1>4 DEF MmCreate, loop
<1>5. CASE SetupPgdir
  BY <1>5 DEF SetupPgdir, BadPgdirCleanupMm, loop
<1>6. CASE DupArea
  BY <1>6 DEF DupArea, loop
<1>7. CASE CopyRange
  BY <1>7 DEF CopyRange, loop
<1>8. CASE CopyRangeEnds
  BY <1>8 DEF CopyRangeEnds, loop
<1>9. CASE GoodMm
  BY <1>9 DEF GoodMm, loop
<1>10. CASE SetLinks
  BY <1>10 DEF SetLinks, loop
<1>11. CASE ProcRun
  BY <1>11 DEF ProcRun, loop
<1>12. CASE SwitchedOut
  BY <1>12 DEF SwitchedOut, loop
<1>13. CASE Pgfault
  BY <1>13 DEF Pgfault, loop
<1>14. CASE Execve
  BY <1>14 DEF Execve, SatpBoot, CountLess, Bytes
<1>15. CASE DoExit
  BY <1>15 DEF DoExit, SatpBoot, CountLess, loop
<1>16. CASE Header
  BY <1>16 DEF Header, loop
<1>17. CASE LoadText
  BY <1>17 DEF LoadText, LoadPage, Filled
<1>18. CASE LoadTail
  BY <1>18 DEF LoadTail, Filled
<1>19. CASE LoadBss
  BY <1>19 DEF LoadBss, LoadPage, Filled
<1>20. CASE HeaderEnds
  BY <1>20 DEF HeaderEnds, loop
<1>21. CASE LoadStack
  BY <1>21 DEF LoadStack, loop
<1>22. CASE StackPage
  BY <1>22 DEF StackPage, loop
<1>23. CASE Loaded
  BY <1>23 DEF Loaded, loop
<1>24. CASE ExitMmap
  BY <1>24 DEF ExitMmap, loop
<1>25. CASE PutPgdir
  BY <1>25 DEF PutPgdir, loop
<1>26. CASE MmDestroy
  BY <1>26 DEF MmDestroy, loop
<1>27. CASE BadForkCleanupKstack
  BY <1>27 DEF BadForkCleanupKstack, loop
<1>28. CASE BadForkCleanupProc
  BY <1>28 DEF BadForkCleanupProc, Clean, Bytes
<1>29. CASE DoWait
  BY <1>29 DEF DoWait, Clean, Bytes
<1> QED
  BY <1>1, <1>2, <1>3, <1>4, <1>5, <1>6, <1>7, <1>8, <1>9, <1>10, <1>11, <1>12, <1>13, <1>14,
     <1>15, <1>16, <1>17, <1>18, <1>19, <1>20, <1>21, <1>22, <1>23, <1>24, <1>25, <1>26,
     <1>27, <1>28, <1>29
  DEF Next, KernelStep, Fork, Load, Cleanup

LEMMA NoneYetStays ==
  ASSUME NoneYet, CallOK, [Next]_vars
  PROVE  NoneYet'
<1>1. CASE UNCHANGED vars
  BY <1>1 DEF vars, NoneYet
<1>2. CASE AllocProc
  BY <1>2 DEF AllocProc, NoneYet, CallOK, Goto, setting
<1>3. CASE SetupKstack
  BY <1>3 DEF SetupKstack, NoneYet, CallOK, Goto, setting
<1>4. CASE MmCreate
  BY <1>4 DEF MmCreate, NoneYet, CallOK, Goto, setting
<1>5. CASE SetupPgdir
  BY <1>5 DEF SetupPgdir, BadPgdirCleanupMm, NoneYet, CallOK, Goto, setting
<1>6. CASE DupArea
  BY <1>6 DEF DupArea, NoneYet, CallOK, Goto, setting
<1>7. CASE CopyRange
  BY <1>7 DEF CopyRange, NoneYet, CallOK, Goto, setting
<1>8. CASE CopyRangeEnds
  BY <1>8 DEF CopyRangeEnds, NoneYet, CallOK, Goto, setting
<1>9. CASE GoodMm
  BY <1>9 DEF GoodMm, NoneYet, CallOK, Goto, setting
<1>10. CASE SetLinks
  BY <1>10 DEF SetLinks, NoneYet, CallOK, Goto, setting
<1>11. CASE ProcRun
  BY <1>11 DEF ProcRun, NoneYet, CallOK, Goto, setting
<1>12. CASE SwitchedOut
  BY <1>12 DEF SwitchedOut, NoneYet, CallOK, Goto, setting
<1>13. CASE Pgfault
  BY <1>13 DEF Pgfault, NoneYet, CallOK, Goto, setting
<1>14. CASE Execve
  BY <1>14 DEF Execve, SatpBoot, CountLess, NoneYet, CallOK, Goto, setting
<1>15. CASE DoExit
  BY <1>15 DEF DoExit, SatpBoot, CountLess, NoneYet, CallOK, Goto, setting
<1>16. CASE Header
  BY <1>16 DEF Header, NoneYet, CallOK, Goto, setting
<1>17. CASE LoadText
  BY <1>17 DEF LoadText, LoadPage, NoneYet, CallOK, Goto, setting
<1>18. CASE LoadTail
  BY <1>18 DEF LoadTail, NoneYet, CallOK, Goto, setting
<1>19. CASE LoadBss
  BY <1>19 DEF LoadBss, LoadPage, NoneYet, CallOK, Goto, setting
<1>20. CASE HeaderEnds
  BY <1>20 DEF HeaderEnds, NoneYet, CallOK, Goto, setting
<1>21. CASE LoadStack
  BY <1>21 DEF LoadStack, NoneYet, CallOK, Goto, setting
<1>22. CASE StackPage
  BY <1>22 DEF StackPage, NoneYet, CallOK, Goto, setting
<1>23. CASE Loaded
  BY <1>23 DEF Loaded, NoneYet, CallOK, Goto, setting
<1>24. CASE ExitMmap
  BY <1>24 DEF ExitMmap, NoneYet, CallOK, Goto, setting
<1>25. CASE PutPgdir
  BY <1>25 DEF PutPgdir, NoneYet, CallOK, Goto, setting
<1>26. CASE MmDestroy
  BY <1>26 DEF MmDestroy, NoneYet, CallOK, Goto, setting
<1>27. CASE BadForkCleanupKstack
  BY <1>27 DEF BadForkCleanupKstack, NoneYet, CallOK, Goto, setting
<1>28. CASE BadForkCleanupProc
  BY <1>28 DEF BadForkCleanupProc, NoneYet, CallOK, Goto, setting, Clean
<1>29. CASE DoWait
  BY <1>29 DEF DoWait, NoneYet, CallOK, Goto, setting, Clean
<1> QED
  BY <1>1, <1>2, <1>3, <1>4, <1>5, <1>6, <1>7, <1>8, <1>9, <1>10, <1>11, <1>12, <1>13, <1>14,
     <1>15, <1>16, <1>17, <1>18, <1>19, <1>20, <1>21, <1>22, <1>23, <1>24, <1>25, <1>26,
     <1>27, <1>28, <1>29
  DEF Next, KernelStep, Fork, Load, Cleanup

LEMMA HasPageSame ==
  ASSUME UNCHANGED <<pgdir, table>>
  PROVE  HasPage' = HasPage
BY DEF HasPage, PageAt, TableOf

\* pgdir_alloc_page.
LEMMA AllocMaps ==
  ASSUME TreeInv, Accounts, NEW v \in Page, AllocPage(v)
  PROVE  HasPage' = HasPage \cup {v}
<1>1. /\ TablesTypeOK /\ TreeOK /\ free \in SUBSET Frame /\ free \cap tables = {}
      /\ free # {}
  BY DEF TreeInv, TablesTypeOK, Accounts, AllocPage
<1> DEFINE page == Lowest(free)
           left == free \ {page}
<1>2. page \in Frame /\ left \in SUBSET free /\ PageInsert(v, page, left)
  BY <1>1, LowestIsIn DEF AllocPage
<1>3. Given(v, page, left)
  BY <1>1, AllocIsGiven
<1> HIDE DEF page, left
<1>4. PICK pd, pt : Inserted(v, page, left, pd, pt)
  BY <1>1, <1>2, InsertDoes
<1>5. \A w \in Page : PageAt(w)' = IF w = v THEN {page} ELSE PageAt(w)
  BY <1>3, <1>4, InsertMaps
<1> QED BY <1>5 DEF HasPage

\* Where the end of a part lies in its last page.
LEMMA AreaEnd ==
  ASSUME NEW header \in [va : Nat, filesz : Nat, memsz : Nat]
  PROVE  Area(header).end * PGSIZE < header.va + header.memsz + PGSIZE
<1> DEFINE m == PGSIZE
           w == header.va + header.memsz + m - 1
           q == w \div m
<1>1. m \in Nat \ {0} /\ w \in Nat /\ Area(header).end = q
  BY AddressSpaceAssumption DEF Area
<1>2. q \in Nat /\ (w % m) \in 0 .. m - 1 /\ w = m * q + (w % m)
  <2> HIDE DEF w
  <2> QED BY <1>1, DivMod
<1> DEFINE r == w % m
           Q == m * q
<1>3. Q \in Int /\ q * m = Q
  <2>1. m \in Int /\ q \in Int
    BY <1>1, <1>2
  <2> HIDE DEF m, q
  <2> QED BY <2>1
<1>4. r \in 0 .. m - 1 /\ w = Q + r
  BY <1>2
<1> HIDE DEF r, Q
<1>5. Q <= w
  BY <1>1, <1>3, <1>4
<1> HIDE DEF q
<1> QED BY <1>1, <1>3, <1>5

LEMMA Multiples ==
  ASSUME NEW m \in Nat \ {0}, NEW a \in Int, NEW b \in Int
  PROVE  /\ a * m \in Int /\ b * m \in Int
         /\ a <= b => a * m <= b * m
         /\ a * m < b * m => a < b
         /\ (a + 1) * m = a * m + m
<1>1. a * m \in Int /\ b * m \in Int /\ a * m = m * a /\ b * m = m * b /\ (a + 1) * m = a * m + m
  OBVIOUS
<1>2. ASSUME NEW c \in Int, NEW d \in Int, c <= d
      PROVE  m * c <= m * d
  <2>1. c < d => m * c + m <= m * d
    BY <1>2, NextMultiple
  <2>2. m * c \in Int /\ m * d \in Int
    OBVIOUS
  <2> DEFINE C == m * c
             D == m * d
  <2>3. c = d => C = D
    OBVIOUS
  <2> HIDE DEF C, D
  <2>4. C <= D
    BY <1>2, <2>1, <2>2, <2>3 DEF C, D
  <2> QED BY <2>4 DEF C, D
<1>3. a <= b => a * m <= b * m
  BY <1>1, <1>2
<1>4. ASSUME a * m < b * m
      PROVE  a < b
  <2>1. b <= a => b * m <= a * m
    BY <1>1, <1>2
  <2> QED BY <1>1, <1>4, <2>1
<1> QED BY <1>1, <1>3, <1>4

\* The parts of a program lie in memory, one behind the other.
LEMMA PartsAre ==
  ASSUME NEW prog \in Programs, NEW j \in 1 .. Len(prog.ph)
  PROVE  /\ Len(prog.ph) \in Nat /\ prog.ph[j] \in [va : Nat, filesz : Nat, memsz : Nat]
         /\ \A k \in 0 .. prog.ph[j].memsz - 1 : prog.ph[j].va + k \in Bytes
         /\ \A i \in 1 .. j - 1 : prog.ph[i].va + prog.ph[i].memsz <= prog.ph[j].va
         /\ \A i \in 1 .. j : i \in 1 .. Len(prog.ph)
<1> DEFINE R == [va : Nat, filesz : Nat, memsz : Nat]
           n == Len(prog.ph)
           m == PGSIZE
           N == NPDEENTRY * NPTEENTRY * NPTEENTRY
<1>1. /\ prog.ph \in Seq(R) /\ Len(Areas(prog)) = n + 1 /\ Areas(prog) \in Seq([start : Nat, end : Nat])
      /\ \A i \in 1 .. n + 1 :
           Areas(prog)[i].start < Areas(prog)[i].end /\ Pages(Areas(prog)[i]) \subseteq Page
      /\ \A i \in 1 .. n : Areas(prog)[i] = Area(prog.ph[i])
  BY AreasAre
<1>2. n \in Nat /\ m \in Nat \ {0} /\ N \in Nat
  <2> HIDE DEF R
  <2> QED BY <1>1, PageTableAssumption, AddressSpaceAssumption
<1>3. \A i \in 1 .. n : prog.ph[i] \in R
  <2> HIDE DEF R
  <2> QED BY <1>1, ElementOfSeq
<1>4. Page = 0 .. N - 1 /\ Bytes = 0 .. N * m - 1
  BY DEF Page, Bytes, NoImage
<1>5. j \in 1 .. n
  OBVIOUS
<1> HIDE DEF n, m, N
<1>6. \A i \in 1 .. j : i \in 1 .. n
  BY <1>2, <1>5
<1>7. /\ Area(prog.ph[j]).start \in Nat /\ Area(prog.ph[j]).end \in Nat
      /\ Area(prog.ph[j]).start < Area(prog.ph[j]).end
      /\ prog.ph[j].va \in Nat /\ prog.ph[j].memsz \in Nat
      /\ Pages(Area(prog.ph[j])) \subseteq Page
      /\ prog.ph[j].va + prog.ph[j].memsz <= Area(prog.ph[j]).end * m
      /\ Area(prog.ph[j]).start * m <= prog.ph[j].va
  <2>1. prog.ph[j] \in R
    BY <1>3, <1>5
  <2>2. /\ Area(prog.ph[j]) \in [start : Nat, end : Nat]
        /\ Area(prog.ph[j]).start * m <= prog.ph[j].va
        /\ prog.ph[j].va + prog.ph[j].memsz <= Area(prog.ph[j]).end * m
    BY <2>1, AreaIs DEF m
  <2>3. j \in 1 .. n + 1
    BY <1>2, <1>5
  <2>4. /\ Area(prog.ph[j]).start < Area(prog.ph[j]).end
        /\ Pages(Area(prog.ph[j])) \subseteq Page
    BY <1>1, <1>5, <2>3
  <2> QED BY <2>1, <2>2, <2>4
<1>8. \A k \in 0 .. prog.ph[j].memsz - 1 : prog.ph[j].va + k \in Bytes
  <2>1. Area(prog.ph[j]).end - 1 \in Page
    BY <1>7 DEF Pages
  <2>2. Area(prog.ph[j]).end <= N
    BY <1>2, <1>4, <1>7, <2>1
  <2>3. Area(prog.ph[j]).end * m <= N * m
    BY <1>2, <1>7, <2>2, Multiples
  <2>4. Area(prog.ph[j]).end * m \in Int /\ N * m \in Int
    BY <1>2, <1>7, Multiples
  <2>5. prog.ph[j].va + prog.ph[j].memsz <= N * m
    BY <1>7, <2>3, <2>4
  <2> QED BY <1>4, <1>7, <2>4, <2>5
<1>9. ASSUME NEW i \in 1 .. j - 1
      PROVE  prog.ph[i].va + prog.ph[i].memsz <= prog.ph[j].va
  <2>1. i \in 1 .. n /\ i < j
    BY <1>2, <1>5
  <2>2. prog.ph[i] \in R
    BY <1>3, <2>1
  <2>3. /\ Area(prog.ph[i]) \in [start : Nat, end : Nat]
        /\ prog.ph[i].va + prog.ph[i].memsz <= Area(prog.ph[i]).end * m
    BY <2>2, AreaIs DEF m
  <2>4. Areas(prog)[i].end <= Areas(prog)[j].start
    <3>1. DOMAIN Areas(prog) = 1 .. n + 1
      BY <1>1, <1>2
    <3>2. i \in DOMAIN Areas(prog) /\ j \in DOMAIN Areas(prog)
      BY <1>2, <1>5, <2>1, <3>1
    <3> QED BY <2>1, <3>2, ProgramsAssumption
  <2>5. Area(prog.ph[i]).end <= Area(prog.ph[j]).start
    BY <1>1, <1>5, <2>1, <2>4
  <2>6. Area(prog.ph[i]).end * m <= Area(prog.ph[j]).start * m
    <3> DEFINE a == Area(prog.ph[i]).end
               b == Area(prog.ph[j]).start
    <3>1. a \in Int /\ b \in Int /\ a <= b
      BY <1>7, <2>3, <2>5
    <3> HIDE DEF a, b
    <3>2. a * m <= b * m
      BY <1>2, <3>1, Multiples
    <3> QED BY <3>2 DEF a, b
  <2>7. Area(prog.ph[i]).end * m \in Int /\ Area(prog.ph[j]).start * m \in Int
    BY <1>2, <1>7, <2>3, Multiples
  <2> DEFINE A == Area(prog.ph[i]).end * m
             B == Area(prog.ph[j]).start * m
  <2>8. prog.ph[i].va + prog.ph[i].memsz \in Int /\ prog.ph[j].va \in Int
    BY <1>7, <2>2
  <2>9. prog.ph[i].va + prog.ph[i].memsz <= A /\ A <= B /\ B <= prog.ph[j].va /\ A \in Int /\ B \in Int
    BY <1>7, <2>3, <2>6, <2>7
  <2> HIDE DEF A, B
  <2> QED BY <2>8, <2>9
<1>10. prog.ph[j] \in R
  BY <1>3, <1>5
<1>11. n \in Nat /\ \A i \in 1 .. j : i \in 1 .. n
  BY <1>2, <1>6
<1> QED BY <1>8, <1>9, <1>10, <1>11 DEF n

\* The bytes from start up to `to' are written, with what the part is to have there.
WritesTo(to) ==
  /\ DOMAIN image' = DOMAIN image
  /\ \A b \in DOMAIN image :
       image'[b] = IF b \in start .. to - 1 THEN ByteOf(ph, b - ph.va) ELSE image[b]

LEMMA WritesStay ==
  ASSUME MemInv, ImageInv, pc = "load", UNCHANGED <<program, at>>, NEW to \in Int,
         to <= MemEnd, WritesTo(to)
  PROVE  /\ PartsBefore(at)'
         /\ \A k \in 0 .. to - ph.va - 1 : image'[ph.va + k] = ByteOf(ph, k)
<1>1. /\ PartsBefore(at) /\ Written(ph, start - ph.va) /\ ph.va <= start
      /\ DOMAIN image = Bytes
  BY DEF ImageInv, ImageAt, PartImage
<1>2. at \in 1 .. Len(program.ph) /\ start \in Int
  BY DEF MemInv, LoopOK, LoadAt
<1>3. program \in Programs
  BY <1>2, HeaderIs
<1>4. /\ ph \in [va : Nat, filesz : Nat, memsz : Nat]
      /\ \A k \in 0 .. ph.memsz - 1 : ph.va + k \in Bytes
      /\ \A j \in 1 .. at - 1 : program.ph[j].va + program.ph[j].memsz <= ph.va
      /\ \A j \in 1 .. at : j \in 1 .. Len(program.ph)
      /\ Len(program.ph) \in Nat
  BY <1>2, <1>3, PartsAre DEF ph
<1>a. ph.va \in Nat /\ start \in Int /\ to \in Int
  BY <1>2, <1>4
<1>5. ASSUME NEW j \in 1 .. at - 1
      PROVE  /\ program.ph[j].filesz <= program.ph[j].memsz
             /\ \A k \in 0 .. program.ph[j].memsz - 1 :
                  image'[program.ph[j].va + k] = ByteOf(program.ph[j], k)
  <2>1. j \in 1 .. Len(program.ph)
    BY <1>2, <1>4
  <2>2. /\ program.ph[j] \in [va : Nat, filesz : Nat, memsz : Nat]
        /\ \A k \in 0 .. program.ph[j].memsz - 1 : program.ph[j].va + k \in Bytes
    BY <1>3, <2>1, PartsAre
  <2>3. /\ program.ph[j].filesz <= program.ph[j].memsz
        /\ \A k \in 0 .. program.ph[j].memsz - 1 :
             image[program.ph[j].va + k] = ByteOf(program.ph[j], k)
    BY <1>1 DEF PartsBefore, Written
  <2>4. ASSUME NEW k \in 0 .. program.ph[j].memsz - 1
        PROVE  image'[program.ph[j].va + k] = image[program.ph[j].va + k]
    <3>1. program.ph[j].va + k \in DOMAIN image
      BY <1>1, <2>2
    <3>2. ~(program.ph[j].va + k \in start .. to - 1)
      <4> DEFINE va == program.ph[j].va
                 memsz == program.ph[j].memsz
      <4>1. /\ va + memsz <= ph.va /\ ph.va <= start
            /\ va \in Nat /\ memsz \in Nat /\ k \in 0 .. memsz - 1
        BY <1>1, <1>4, <2>2
      <4> HIDE DEF va, memsz
      <4>2. ~(va + k \in start .. to - 1)
        BY <1>a, <4>1
      <4> QED BY <4>2 DEF va
    <3> QED BY <3>1, <3>2 DEF WritesTo
  <2> QED BY <2>3, <2>4
<1>6. PartsBefore(at)'
  <2>1. program' = program /\ at' = at
    OBVIOUS
  <2> QED BY <1>5, <2>1 DEF PartsBefore, Written
<1>7. ASSUME NEW k \in 0 .. to - ph.va - 1
      PROVE  image'[ph.va + k] = ByteOf(ph, k)
  <2>1. k \in 0 .. ph.memsz - 1
    BY <1>4 DEF MemEnd
  <2>2. ph.va + k \in DOMAIN image
    BY <1>1, <1>4, <2>1
  <2>3. (ph.va + k) - ph.va = k
    BY <1>4
  <2>4. CASE ph.va + k < start
    <3>1. k \in 0 .. (start - ph.va) - 1
      BY <1>2, <1>4, <2>1, <2>4
    <3>2. image[ph.va + k] = ByteOf(ph, k)
      BY <1>1, <3>1 DEF Written
    <3>3. ~(ph.va + k \in start .. to - 1)
      BY <2>4, <1>2, <1>4
    <3> QED BY <2>2, <3>2, <3>3 DEF WritesTo
  <2>5. CASE ~(ph.va + k < start)
    <3>1. ph.va + k \in start .. to - 1
      <4> DEFINE va == ph.va
      <4>1. k \in 0 .. to - va - 1 /\ ~(va + k < start) /\ va \in Nat
        BY <1>a, <2>5
      <4> HIDE DEF va
      <4>2. va + k \in start .. to - 1
        BY <1>a, <4>1
      <4> QED BY <4>2 DEF va
    <3> DEFINE b == ph.va + k
    <3>2. b \in DOMAIN image /\ b \in start .. to - 1 /\ b - ph.va = k
      BY <2>2, <2>3, <3>1
    <3> HIDE DEF b
    <3>3. image'[b] = ByteOf(ph, b - ph.va)
      BY <3>2 DEF WritesTo
    <3>4. image'[b] = ByteOf(ph, k)
      BY <3>2, <3>3
    <3> QED BY <3>4 DEF b
  <2> QED BY <2>4, <2>5
<1> QED BY <1>6, <1>7

\* A page is loaded up to its end, or to the end of what is wanted.
LEMMA PartEnds ==
  ASSUME la \in Int, start \in Int, NEW end \in Int
  PROVE  start + Part(start - la, end) = IF end < la + PGSIZE THEN end ELSE la + PGSIZE
BY AddressSpaceAssumption DEF Part

LEMMA PageImage ==
  ASSUME MemInv, ImageInv, pc = "load", pc' = "load", UNCHANGED <<areas, program, at>>,
         la <= start, NEW end \in Int, start < end, end <= MemEnd,
         NEW to \in Int, to = start + Part(start - la, end), start' = to, WritesTo(to),
         la' = la + PGSIZE, AllocPage(la \div PGSIZE)
  PROVE  PartImage'
<1>1. /\ program.elf /\ AreasTo(at) /\ ph.va <= start /\ start <= MemEnd
      /\ \E k \in Area(ph).start .. Area(ph).end : PartAt(k)
  BY DEF ImageInv, ImageAt, PartImage
<1>2. /\ at \in 1 .. Len(program.ph) /\ start \in Int /\ TreeInv /\ Accounts
  BY DEF MemInv, LoopOK, LoadAt
<1>3. /\ ph \in [va : Nat, filesz : Nat, memsz : Nat] /\ Pages(Area(ph)) \subseteq Page
      /\ Area(ph).start \in Nat /\ Area(ph).end \in Nat
      /\ ph.va < Area(ph).start * PGSIZE + PGSIZE
  BY <1>2, HeaderIs
<1>4. MemEnd \in Int /\ start < MemEnd
  BY <1>2, <1>3 DEF MemEnd
<1>5. PICK k \in Pages(Area(ph)) : AtPage(k) /\ la \div PGSIZE = k /\ k + 1 <= Area(ph).end
  BY <1>4, PageIsThere
<1>6. la = k * PGSIZE /\ k \in Nat /\ la \in Int /\ k \in Page
  BY <1>3, <1>5 DEF AtPage
<1>7. PartAt(k)
  <2>1. PICK j \in Area(ph).start .. Area(ph).end : PartAt(j)
    BY <1>1
  <2>2. j \in Nat /\ la = j * PGSIZE
    BY <1>3, <2>1 DEF PartAt
  <2>3. la \div PGSIZE = j
    BY <2>2, PageOfAddress
  <2> QED BY <1>5, <2>1, <2>3
<1>8. PGSIZE \in Nat \ {0}
  BY AddressSpaceAssumption
<1>9. start < la + PGSIZE
  <2>1. CASE k = Area(ph).start /\ start = ph.va
    BY <1>3, <1>6, <2>1
  <2>2. CASE start <= la
    BY <1>2, <1>6, <1>8, <2>2
  <2> QED BY <1>7, <2>1, <2>2 DEF PartAt
<1>10. to <= MemEnd /\ start < to /\ to <= la + PGSIZE
  <2>1. to = IF end < la + PGSIZE THEN end ELSE la + PGSIZE
    BY <1>2, <1>6, PartEnds
  <2> QED BY <1>2, <1>4, <1>6, <1>8, <1>9, <2>1
<1>11. /\ PartsBefore(at)'
       /\ \A i \in 0 .. to - ph.va - 1 : image'[ph.va + i] = ByteOf(ph, i)
  BY <1>10, WritesStay
<1>12. ph' = ph /\ MemEnd' = MemEnd
  BY SameHeader
<1>13. Written(ph, start - ph.va)'
  BY <1>11, <1>12 DEF Written
<1>14. AreasTo(at)' /\ PagesBefore(at)' = PagesBefore(at)
  BY <1>1 DEF AreasTo, PagesBefore
<1>15. HasPage' = HasPage \cup {k}
  BY <1>2, <1>5, <1>6, AllocMaps
<1>16. /\ k + 1 \in Area(ph).start .. Area(ph).end /\ Area(ph).start < k + 1
       /\ Area(ph).start .. k = (Area(ph).start .. k - 1) \cup {k} /\ (k + 1) - 1 = k
  BY <1>3, <1>5, <1>6 DEF Pages
<1>17. HasPage' = PagesBefore(at) \cup (Area(ph).start .. (k + 1) - 1)
  <2>1. HasPage = PagesBefore(at) \cup (Area(ph).start .. k - 1)
    BY <1>7 DEF PartAt
  <2> QED BY <1>15, <1>16, <2>1
<1>18. la' = (k + 1) * PGSIZE
  BY <1>6, <1>8
<1>19. ph.va < start' /\ start' <= la' /\ ph.va <= start' /\ start' <= MemEnd
  BY <1>1, <1>2, <1>3, <1>6, <1>8, <1>10
<1>20. \E j \in Area(ph').start .. Area(ph').end : PartAt(j)'
  <2>1. PartAt(k + 1)'
    BY <1>12, <1>14, <1>16, <1>17, <1>18, <1>19 DEF PartAt
  <2>2. k + 1 \in Area(ph').start .. Area(ph').end
    BY <1>12, <1>16
  <2> WITNESS k + 1 \in Area(ph').start .. Area(ph').end
  <2> QED BY <2>1
<1> QED BY <1>1, <1>11, <1>12, <1>13, <1>14, <1>19, <1>20 DEF PartImage

\* The stack's pages.
LEMMA StackIs ==
  ASSUME MemInv, call = "load"
  PROVE  /\ program \in Programs /\ Len(program.ph) \in Nat /\ Pages(STACK) \subseteq Page
         /\ Areas(program)[Len(program.ph) + 1] = STACK
         /\ \A i \in 1 .. Len(program.ph) : Areas(program)[i] = Area(program.ph[i])
<1> DEFINE R == [va : Nat, filesz : Nat, memsz : Nat]
<1>1. program \in Programs
  BY DEF MemInv, PlaceOK, CallOK
<1>2. /\ program.ph \in Seq(R)
      /\ \A i \in 1 .. Len(program.ph) + 1 : Pages(Areas(program)[i]) \subseteq Page
      /\ Areas(program)[Len(program.ph) + 1] = STACK
      /\ \A i \in 1 .. Len(program.ph) : Areas(program)[i] = Area(program.ph[i])
  BY <1>1, AreasAre
<1> HIDE DEF R
<1>3. Len(program.ph) \in Nat
  BY <1>2
<1>4. Len(program.ph) + 1 \in 1 .. Len(program.ph) + 1
  BY <1>3
<1> QED BY <1>1, <1>2, <1>3, <1>4

\* One area more.
LEMMA AreaAdded ==
  ASSUME areas \in Seq([start : Int, end : Int]), NEW n \in Nat, AreasTo(n),
         NEW area \in [start : Int, end : Int], areas' = Append(areas, area),
         area = Areas(program)[n + 1], UNCHANGED program
  PROVE  Len(areas') = n + 1 /\ \A j \in 1 .. n + 1 : areas'[j] = Areas(program)[j]
<1> DEFINE S == [start : Int, end : Int]
<1>1. areas \in Seq(S) /\ area \in S /\ Len(areas) = n
      /\ \A j \in 1 .. n : areas[j] = Areas(program)[j]
  BY DEF AreasTo
<1> HIDE DEF S
<1>2. /\ Len(areas') = n + 1 /\ areas'[n + 1] = area
      /\ \A j \in 1 .. n : areas'[j] = areas[j]
  BY <1>1, AppendProperties
<1>3. \A j \in 1 .. n + 1 : j \in 1 .. n \/ j = n + 1
  OBVIOUS
<1> QED BY <1>1, <1>2, <1>3

LEMMA ImageStays ==
  ASSUME MemInv, ImageInv, [Next]_vars
  PROVE  ImageAt'
<1>a. ImageAt /\ DOMAIN image = Bytes /\ NoneYet /\ TreeInv /\ Accounts /\ LoadAt /\ CallOK
  BY DEF MemInv, ImageInv, LoopOK, PlaceOK
<1>b. PGSIZE \in Nat \ {0} /\ STACKPAGES \in Nat /\ STACK.end \in Int /\ STACK.start \in Int
      /\ STACK \in [start : Int, end : Int] /\ STACK.end - STACK.start >= STACKPAGES
  BY AddressSpaceAssumption, ProgramsAssumption
<1>c. areas \in Seq([start : Int, end : Int]) /\ Mine \subseteq Page
  BY <1>a DEF TreeInv, InAreas
<1>e. pc' \notin {"header", "load", "stack", "ready", "running"} => ImageAt'
  BY DEF ImageAt, HeaderImage, PartImage, StackImage, RunImage
<1>g. UNCHANGED <<program, image>> =>
        \A i : PagesBefore(i)' = PagesBefore(i) /\ PartsBefore(i)' = PartsBefore(i)
  BY DEF PagesBefore, PartsBefore, Written
<1>h. UNCHANGED <<program, areas>> => \A i : AreasTo(i)' = AreasTo(i)
  BY DEF AreasTo
<1>f. ASSUME pc' = pc, UNCHANGED <<areas, pgdir, table, program, mm, at, start, la, image>>
      PROVE  ImageAt'
  <2>1. ph' = ph /\ MemEnd' = MemEnd /\ HasPage' = HasPage
    BY <1>f, SameHeader, HasPageSame
  <2>2. HeaderImage' /\ StackImage' /\ RunImage'
    BY <1>a, <1>f, <1>g, <1>h, <2>1 DEF ImageAt, HeaderImage, StackImage, RunImage
  <2>3. PartImage'
    <3>1. \A k : PartAt(k)' = PartAt(k)
      BY <1>f, <1>g, <2>1 DEF PartAt
    <3>2. \A n : Written(ph, n)' = Written(ph, n)
      BY <1>f, <2>1 DEF Written
    <3> QED BY <1>a, <1>f, <1>g, <1>h, <2>1, <3>1, <3>2 DEF ImageAt, PartImage
  <2> QED BY <2>2, <2>3 DEF ImageAt
<1>r. ASSUME pc \in {"ready", "running"}, pc' \in {"ready", "running"},
             UNCHANGED <<areas, program, mm, image>>, HasPage' = HasPage
      PROVE  ImageAt'
  <2>1. RunImage'
    BY <1>a, <1>r, <1>g, <1>h DEF ImageAt, RunImage
  <2> QED BY <1>r, <2>1 DEF ImageAt, HeaderImage, PartImage, StackImage
<1>1. CASE UNCHANGED vars
  BY <1>1, <1>f DEF vars, treeVars
<1>2. CASE AllocProc
  BY <1>e, <1>2 DEF AllocProc, Goto
<1>3. CASE SetupKstack
  BY <1>e, <1>3 DEF SetupKstack, Goto
<1>4. CASE MmCreate
  BY <1>e, <1>4 DEF MmCreate, Goto
<1>5. CASE SetupPgdir
  <2>1. CASE pc' = "header"
    <3>1. /\ pc = "setup_pgdir" /\ call = "load" /\ at' = 1 /\ program.elf
          /\ UNCHANGED <<program, areas, pgdir, table, image>>
      BY <1>5, <2>1 DEF SetupPgdir, BadPgdirCleanupMm, Goto, setting
    <3>2. NoTables
      BY <3>1 DEF MemInv, PlaceOK, BareOK, Rootless
    <3>3. HasPage' = {}
      <4>1. HasPage' = HasPage
        BY <3>1, HasPageSame
      <4>2. \A v \in Page : TableOf(v) = {}
        <5>1. \A v \in Page : PDX1(v) \in Dirs
          BY Coordinates
        <5> QED BY <3>2, <5>1 DEF NoTables, TableOf, Dirs
      <4> QED BY <4>1, <4>2 DEF HasPage, PageAt
    <3>4. PagesBefore(at') = {} /\ AreasTo(at' - 1) /\ PartsBefore(at')
      BY <3>1, <3>2 DEF PagesBefore, AreasTo, PartsBefore, NoTables
    <3>5. HeaderImage'
      BY <1>g, <1>h, <3>1, <3>3, <3>4 DEF HeaderImage
    <3> QED BY <2>1, <3>5 DEF ImageAt, PartImage, StackImage, RunImage
  <2>2. CASE pc' # "header"
    <3>1. pc' \notin {"header", "load", "stack", "ready", "running"}
      BY <1>5, <2>2 DEF SetupPgdir, BadPgdirCleanupMm, Goto
    <3> QED BY <1>e, <3>1
  <2> QED BY <2>1, <2>2
<1>6. CASE DupArea
  BY <1>e, <1>6 DEF DupArea, Goto
<1>7. CASE CopyRange
  BY <1>e, <1>7 DEF CopyRange, Goto
<1>8. CASE CopyRangeEnds
  BY <1>e, <1>8 DEF CopyRangeEnds, Goto
<1>9. CASE GoodMm
  BY <1>e, <1>9 DEF GoodMm, Goto
<1>10. CASE SetLinks
  <2>1. pc = "set_links" /\ pc' = "ready" /\ program' = program
    BY <1>10 DEF SetLinks, setting
  <2>2. program' = NoProgram
    BY <1>a, <2>1 DEF NoneYet
  <2> QED BY <2>1, <2>2 DEF ImageAt, HeaderImage, PartImage, StackImage, RunImage
<1>11. CASE ProcRun
  <2>1. /\ pc \in {"ready", "running"} /\ pc' \in {"ready", "running"}
        /\ UNCHANGED <<areas, program, mm, image, pgdir, table>>
    BY <1>11 DEF ProcRun, treeVars, setting, mine, loop
  <2> QED BY <1>r, <2>1, HasPageSame
<1>12. CASE SwitchedOut
  <2>1. /\ pc \in {"ready", "running"} /\ pc' \in {"ready", "running"}
        /\ UNCHANGED <<areas, program, mm, image, pgdir, table>>
    BY <1>12 DEF SwitchedOut, treeVars, setting, mine, loop
  <2> QED BY <1>r, <2>1, HasPageSame
<1>13. CASE Pgfault
  <2>1. /\ pc \in {"ready", "running"} /\ pc' \in {"ready", "running"}
        /\ UNCHANGED <<areas, program, mm, image>>
    BY <1>13 DEF Pgfault, setting, mine, loop
  <2>2. PICK v \in Mine : PageAt(v) # {} /\ AllocPage(v)
    BY <1>13 DEF Pgfault
  <2>3. v \in Page
    BY <1>c
  <2>4. HasPage' = HasPage
    BY <1>a, <2>2, <2>3, AllocMaps DEF HasPage
  <2> QED BY <1>r, <2>1, <2>4
<1>14. CASE Execve
  BY <1>e, <1>14 DEF Execve, SatpBoot, CountLess, Goto
<1>15. CASE DoExit
  BY <1>e, <1>15 DEF DoExit, SatpBoot, CountLess, Goto
<1>16. CASE Header
  <2>1. CASE pc' = "load"
    <3>1. /\ pc = "header" /\ at <= Len(program.ph) /\ ph.filesz <= ph.memsz
          /\ areas' = Append(areas, Area(ph)) /\ start' = ph.va /\ la' = Area(ph).start * PGSIZE
          /\ UNCHANGED <<program, at, pgdir, table, image>>
      BY <1>16, <2>1 DEF Header, Goto, setting
    <3>2. at \in 1 .. Len(program.ph) + 1
      BY <1>a, <3>1 DEF LoadAt
    <3>3. at \in 1 .. Len(program.ph) /\ at - 1 \in Nat
      BY <3>1, <3>2
    <3>4. /\ ph \in [va : Nat, filesz : Nat, memsz : Nat] /\ Area(ph) \in [start : Int, end : Int]
          /\ Area(ph).start \in Nat /\ Area(ph).end \in Nat /\ Area(ph).start < Area(ph).end
          /\ program \in Programs
      BY <3>1, <3>3, HeaderIs
    <3>5. ph' = ph /\ MemEnd' = MemEnd /\ HasPage' = HasPage
      BY <3>1, SameHeader, HasPageSame
    <3>6. program.elf /\ PartsBefore(at) /\ AreasTo(at - 1) /\ HasPage = PagesBefore(at)
      BY <1>a, <3>1 DEF ImageAt, HeaderImage
    <3>7. AreasTo(at)'
      <4>1. Area(ph) = Areas(program)[(at - 1) + 1]
        BY <3>3, <3>4, AreasAre DEF ph
      <4>2. /\ Len(areas') = (at - 1) + 1
            /\ \A j \in 1 .. (at - 1) + 1 : areas'[j] = Areas(program)[j]
        BY <1>c, <3>1, <3>3, <3>4, <3>6, <4>1, AreaAdded
      <4>3. (at - 1) + 1 = at
        BY <3>3
      <4> QED BY <3>1, <4>2, <4>3 DEF AreasTo
    <3>8. ph.va <= start' /\ start' <= MemEnd' /\ Written(ph, start - ph.va)'
      BY <3>1, <3>4, <3>5 DEF MemEnd, Written
    <3>9. PICK c \in Area(ph).start .. Area(ph).end : c = Area(ph).start
      BY <3>4
    <3>10. \E k \in Area(ph').start .. Area(ph').end : PartAt(k)'
      <4>1. Area(ph).start .. c - 1 = {}
        BY <3>4, <3>9
      <4>2. HasPage' = PagesBefore(at) \cup (Area(ph).start .. c - 1)
        BY <3>5, <3>6, <4>1
      <4>3. PartAt(c)'
        BY <1>g, <3>1, <3>4, <3>5, <3>9, <4>2 DEF PartAt
      <4>4. c \in Area(ph').start .. Area(ph').end
        BY <3>5
      <4> WITNESS c \in Area(ph').start .. Area(ph').end
      <4> QED BY <4>3
    <3>11. PartImage'
      BY <1>g, <3>1, <3>5, <3>6, <3>7, <3>8, <3>10 DEF PartImage
    <3> QED BY <2>1, <3>11 DEF ImageAt, HeaderImage, StackImage, RunImage
  <2>2. CASE pc' # "load"
    <3>1. pc' = "exit_mmap"
      BY <1>16, <2>2 DEF Header, Goto
    <3> QED BY <1>e, <3>1
  <2> QED BY <2>1, <2>2
<1>17. CASE LoadText
  <2>1. CASE pc' = "load"
    <3>1. /\ pc = "load" /\ start < FileEnd /\ UNCHANGED <<areas, program, at>>
          /\ AllocPage(la \div PGSIZE)
          /\ start' = start + Part(start - la, FileEnd) /\ la' = la + PGSIZE
          /\ image' = [b \in DOMAIN image |->
                         IF b \in start .. start + Part(start - la, FileEnd) - 1
                         THEN FileByte(b - ph.va) ELSE image[b]]
      BY <1>17, <2>1 DEF LoadText, LoadPage, Filled, Goto, setting
    <3>2. /\ at \in 1 .. Len(program.ph) /\ ph.filesz <= ph.memsz /\ start \in Int
          /\ (start < FileEnd => la <= start)
      BY <1>a, <3>1 DEF LoadAt
    <3>3. ph.va \in Nat /\ ph.filesz \in Nat /\ ph.memsz \in Nat /\ Area(ph).start \in Nat
      BY <3>1, <3>2, HeaderIs
    <3>4. la <= start /\ FileEnd \in Int /\ FileEnd <= MemEnd /\ FileEnd <= MemEnd
          /\ FileEnd \in Int /\ ph.va <= start
      <4>1. ph.va <= start
        BY <1>a, <3>1 DEF ImageAt, PartImage
      <4> QED BY <3>1, <3>2, <3>3, <4>1 DEF FileEnd, MemEnd
    <3>5. start < MemEnd
      BY <3>1, <3>2, <3>3, <3>4 DEF FileEnd, MemEnd
    <3>6. la \in Int
      <4>1. PICK k \in Pages(Area(ph)) : AtPage(k)
        BY <3>1, <3>4, <3>5, PageIsThere
      <4> QED BY <4>1 DEF AtPage
    <3> DEFINE to == start + Part(start - la, FileEnd)
    <3>7. to = IF FileEnd < la + PGSIZE THEN FileEnd ELSE la + PGSIZE
      BY <3>2, <3>4, <3>6, PartEnds
    <3>8. to \in Int /\ to <= FileEnd /\ start' = to
      BY <1>b, <3>1, <3>4, <3>6, <3>7
    <3>9. /\ DOMAIN image' = DOMAIN image
          /\ \A b \in DOMAIN image :
               image'[b] = IF b \in start .. to - 1 THEN FileByte(b - ph.va) ELSE image[b]
      <4>1. Part(start - la, FileEnd) \in Int
        BY <1>b, <3>2, <3>4, <3>6 DEF Part
      <4>2. start + Part(start - la, FileEnd) - 1 = to - 1
        BY <3>2, <4>1
      <4> QED BY <3>1, <4>2
    <3> HIDE DEF to
    <3>10. DOMAIN image \subseteq Int
      <4>1. NPDEENTRY * NPTEENTRY * NPTEENTRY * PGSIZE \in Int
        BY <1>b, PageTableAssumption
      <4> QED BY <1>a, <4>1 DEF Bytes, NoImage
    <3>11. \A b \in DOMAIN image :
             b \in start .. to - 1 => ByteOf(ph, b - ph.va) = FileByte(b - ph.va)
      <4> SUFFICES ASSUME NEW b \in DOMAIN image, b \in start .. to - 1
                   PROVE  ByteOf(ph, b - ph.va) = FileByte(b - ph.va)
        OBVIOUS
      <4>1. b \in Int /\ start <= b /\ b < to
        BY <3>2, <3>8, <3>10
      <4>2. b - ph.va < ph.filesz
        BY <3>1, <3>2, <3>3, <3>4, <3>8, <4>1 DEF FileEnd
      <4> QED BY <4>2 DEF ByteOf
    <3>12. WritesTo(to)
      BY <3>9, <3>11 DEF WritesTo
    <3>13. /\ to = start + Part(start - la, FileEnd)
      BY DEF to
    <3>14. PartImage'
      BY <2>1, <3>1, <3>4, <3>8, <3>12, <3>13, PageImage
    <3> QED BY <2>1, <3>14 DEF ImageAt, HeaderImage, StackImage, RunImage
  <2>2. CASE pc' # "load"
    <3>1. pc' = "exit_mmap"
      BY <1>17, <2>2 DEF LoadText, LoadPage, Goto
    <3> QED BY <1>e, <3>1
  <2> QED BY <2>1, <2>2
<1>18. CASE LoadTail
  <2>1. CASE pc' = "load"
    <3> DEFINE size == PGSIZE - (start + PGSIZE - la) - (IF MemEnd < la THEN la - MemEnd ELSE 0)
               to == start + size
    <3>1. /\ pc = "load" /\ start >= FileEnd /\ start < la /\ start < MemEnd
          /\ UNCHANGED <<areas, program, at, la, pgdir, table>>
          /\ start' = to
          /\ image' = [b \in DOMAIN image |->
                         IF b \in start .. start + size - 1 THEN 0 ELSE image[b]]
      BY <1>18, <2>1 DEF LoadTail, Filled, setting, treeVars
    <3>2. /\ at \in 1 .. Len(program.ph) /\ ph.filesz <= ph.memsz /\ start \in Int
          /\ \E k \in Area(ph).start .. Area(ph).end : la = k * PGSIZE
      BY <1>a, <3>1 DEF LoadAt
    <3>3. /\ ph.va \in Nat /\ ph.filesz \in Nat /\ ph.memsz \in Nat
          /\ Area(ph).start \in Nat /\ Area(ph).end \in Nat
          /\ Area(ph).start * PGSIZE <= ph.va
      BY <3>1, <3>2, HeaderIs
    <3>4. la \in Int /\ MemEnd \in Int /\ FileEnd \in Int
      BY <1>b, <3>2, <3>3 DEF MemEnd, FileEnd
    <3>5. to = IF MemEnd < la THEN MemEnd ELSE la
      BY <1>b, <3>2, <3>4
    <3>6. to \in Int /\ to <= MemEnd /\ start < to /\ to <= la
      BY <3>1, <3>2, <3>4, <3>5
    <3>7. /\ DOMAIN image' = DOMAIN image
          /\ \A b \in DOMAIN image : image'[b] = IF b \in start .. to - 1 THEN 0 ELSE image[b]
      <4>1. size \in Int
        BY <1>b, <3>2, <3>4
      <4> HIDE DEF size
      <4>2. start + size - 1 = to - 1
        BY <3>2, <4>1
      <4> QED BY <3>1, <4>2
    <3> HIDE DEF to, size
    <3>8. DOMAIN image \subseteq Int
      <4>1. NPDEENTRY * NPTEENTRY * NPTEENTRY * PGSIZE \in Int
        BY <1>b, PageTableAssumption
      <4> QED BY <1>a, <4>1 DEF Bytes, NoImage
    <3>9. \A b \in DOMAIN image : b \in start .. to - 1 => ByteOf(ph, b - ph.va) = 0
      <4> SUFFICES ASSUME NEW b \in DOMAIN image, b \in start .. to - 1
                   PROVE  ByteOf(ph, b - ph.va) = 0
        OBVIOUS
      <4>1. b \in Int /\ start <= b
        BY <3>2, <3>6, <3>8
      <4>2. ~(b - ph.va < ph.filesz)
        BY <3>1, <3>2, <3>3, <3>4, <4>1 DEF FileEnd
      <4> QED BY <4>2 DEF ByteOf
    <3>10. WritesTo(to)
      BY <3>7, <3>9 DEF WritesTo
    <3>11. /\ PartsBefore(at)'
           /\ \A k \in 0 .. to - ph.va - 1 : image'[ph.va + k] = ByteOf(ph, k)
      BY <3>1, <3>6, <3>10, WritesStay
    <3>12. ph' = ph /\ MemEnd' = MemEnd /\ HasPage' = HasPage /\ PagesBefore(at)' = PagesBefore(at)
      BY <3>1, SameHeader, HasPageSame DEF PagesBefore
    <3>13. Written(ph, start - ph.va)'
      BY <3>1, <3>11, <3>12 DEF Written
    <3>14. /\ program.elf /\ AreasTo(at) /\ ph.va <= start
           /\ \E k \in Area(ph).start .. Area(ph).end : PartAt(k)
      BY <1>a, <3>1 DEF ImageAt, PartImage
    <3>15. PICK k \in Area(ph).start .. Area(ph).end : PartAt(k)
      BY <3>14
    <3>16. Area(ph).start < k
      <4>1. ~(k = Area(ph).start /\ start = ph.va)
        <5> SUFFICES ASSUME k = Area(ph).start, start = ph.va PROVE FALSE
          OBVIOUS
        <5>1. la <= start
          BY <3>3, <3>15 DEF PartAt
        <5> QED BY <3>1, <3>2, <3>4, <5>1
      <4> QED BY <3>15, <4>1 DEF PartAt
    <3>17. ph.va < start' /\ start' <= la' /\ ph.va <= start' /\ start' <= MemEnd
      BY <3>1, <3>2, <3>3, <3>4, <3>6, <3>14
    <3>18. PartAt(k)'
      BY <3>1, <3>12, <3>15, <3>16, <3>17 DEF PartAt
    <3>19. \E j \in Area(ph').start .. Area(ph').end : PartAt(j)'
      <4>1. k \in Area(ph').start .. Area(ph').end
        BY <3>12, <3>15
      <4> WITNESS k \in Area(ph').start .. Area(ph').end
      <4> QED BY <3>18
    <3>20. PartImage'
      BY <1>h, <3>1, <3>11, <3>12, <3>13, <3>14, <3>17, <3>19 DEF PartImage
    <3> QED BY <2>1, <3>20 DEF ImageAt, HeaderImage, StackImage, RunImage
  <2>2. CASE pc' # "load"
    <3>1. pc' = "panic"
      BY <1>18, <2>2 DEF LoadTail, Goto
    <3> QED BY <1>e, <3>1
  <2> QED BY <2>1, <2>2
<1>19. CASE LoadBss
  <2>1. CASE pc' = "load"
    <3>1. /\ pc = "load" /\ start < MemEnd /\ UNCHANGED <<areas, program, at>>
          /\ AllocPage(la \div PGSIZE)
          /\ start' = start + Part(start - la, MemEnd) /\ la' = la + PGSIZE /\ start >= la
          /\ start >= FileEnd
          /\ image' = [b \in DOMAIN image |->
                         IF b \in start .. start + Part(start - la, MemEnd) - 1
                         THEN 0 ELSE image[b]]
      BY <1>19, <2>1 DEF LoadBss, LoadPage, Filled, Goto, setting
    <3>2. /\ at \in 1 .. Len(program.ph) /\ ph.filesz <= ph.memsz /\ start \in Int
          /\ (start < FileEnd => la <= start)
      BY <1>a, <3>1 DEF LoadAt
    <3>3. ph.va \in Nat /\ ph.filesz \in Nat /\ ph.memsz \in Nat /\ Area(ph).start \in Nat
      BY <3>1, <3>2, HeaderIs
    <3>4. la <= start /\ MemEnd \in Int /\ MemEnd <= MemEnd /\ FileEnd <= MemEnd
          /\ FileEnd \in Int /\ ph.va <= start
      <4>1. ph.va <= start
        BY <1>a, <3>1 DEF ImageAt, PartImage
      <4> QED BY <3>1, <3>2, <3>3, <4>1 DEF FileEnd, MemEnd
    <3>5. start < MemEnd
      BY <3>1, <3>2, <3>3, <3>4 DEF FileEnd, MemEnd
    <3>6. la \in Int
      <4>1. PICK k \in Pages(Area(ph)) : AtPage(k)
        BY <3>1, <3>4, <3>5, PageIsThere
      <4> QED BY <4>1 DEF AtPage
    <3> DEFINE to == start + Part(start - la, MemEnd)
    <3>7. to = IF MemEnd < la + PGSIZE THEN MemEnd ELSE la + PGSIZE
      BY <3>2, <3>4, <3>6, PartEnds
    <3>8. to \in Int /\ to <= MemEnd /\ start' = to
      BY <1>b, <3>1, <3>4, <3>6, <3>7
    <3>9. /\ DOMAIN image' = DOMAIN image
          /\ \A b \in DOMAIN image :
               image'[b] = IF b \in start .. to - 1 THEN 0 ELSE image[b]
      <4>1. Part(start - la, MemEnd) \in Int
        BY <1>b, <3>2, <3>4, <3>6 DEF Part
      <4>2. start + Part(start - la, MemEnd) - 1 = to - 1
        BY <3>2, <4>1
      <4> QED BY <3>1, <4>2
    <3> HIDE DEF to
    <3>10. DOMAIN image \subseteq Int
      <4>1. NPDEENTRY * NPTEENTRY * NPTEENTRY * PGSIZE \in Int
        BY <1>b, PageTableAssumption
      <4> QED BY <1>a, <4>1 DEF Bytes, NoImage
    <3>11. \A b \in DOMAIN image :
             b \in start .. to - 1 => ByteOf(ph, b - ph.va) = 0
      <4> SUFFICES ASSUME NEW b \in DOMAIN image, b \in start .. to - 1
                   PROVE  ByteOf(ph, b - ph.va) = 0
        OBVIOUS
      <4>1. b \in Int /\ start <= b /\ b < to
        BY <3>2, <3>8, <3>10
      <4>2. ~(b - ph.va < ph.filesz)
        BY <3>1, <3>2, <3>3, <3>4, <3>8, <4>1 DEF FileEnd
      <4> QED BY <4>2 DEF ByteOf
    <3>12. WritesTo(to)
      BY <3>9, <3>11 DEF WritesTo
    <3>13. /\ to = start + Part(start - la, MemEnd)
      BY DEF to
    <3>14. PartImage'
      BY <2>1, <3>1, <3>4, <3>8, <3>12, <3>13, PageImage
    <3> QED BY <2>1, <3>14 DEF ImageAt, HeaderImage, StackImage, RunImage
  <2>2. CASE pc' # "load"
    <3>1. pc' = "exit_mmap"
      BY <1>19, <2>2 DEF LoadBss, LoadPage, Goto
    <3> QED BY <1>e, <3>1
  <2> QED BY <2>1, <2>2
<1>20. CASE HeaderEnds
  <2>1. /\ pc = "load" /\ pc' = "header" /\ start >= MemEnd /\ at' = at + 1
        /\ UNCHANGED <<areas, pgdir, table, program, image>>
    BY <1>20 DEF HeaderEnds, Goto, setting, treeVars
  <2>2. /\ at \in 1 .. Len(program.ph) /\ ph.filesz <= ph.memsz /\ start \in Int
    BY <1>a, <2>1 DEF LoadAt
  <2>3. /\ ph \in [va : Nat, filesz : Nat, memsz : Nat]
        /\ Area(ph).start \in Nat /\ Area(ph).end \in Nat /\ program \in Programs
    BY <2>1, <2>2, HeaderIs
  <2>4. /\ program.elf /\ PartsBefore(at) /\ AreasTo(at) /\ start <= MemEnd
        /\ Written(ph, start - ph.va) /\ \E k \in Area(ph).start .. Area(ph).end : PartAt(k)
    BY <1>a, <2>1 DEF ImageAt, PartImage
  <2>5. MemEnd = ph.va + ph.memsz /\ MemEnd \in Int /\ start = MemEnd
    BY <2>1, <2>2, <2>3, <2>4 DEF MemEnd
  <2>6. at \in Nat /\ (at + 1) - 1 = at /\ \A j : j \in 1 .. at <=> j \in 1 .. at - 1 \/ j = at
    BY <2>2
  <2>7. PartsBefore(at + 1)
    <3>1. start - ph.va = ph.memsz
      BY <2>3, <2>5
    <3>2. Written(ph, ph.memsz)
      BY <2>4, <3>1
    <3>3. ASSUME NEW j \in 1 .. at
          PROVE  /\ program.ph[j].filesz <= program.ph[j].memsz
                 /\ Written(program.ph[j], program.ph[j].memsz)
      <4>1. CASE j = at
        BY <2>2, <3>2, <4>1 DEF ph
      <4>2. CASE j \in 1 .. at - 1
        BY <2>4, <4>2 DEF PartsBefore
      <4> QED BY <2>6, <4>1, <4>2
    <3> QED BY <2>6, <3>3 DEF PartsBefore
  <2>8. HasPage = PagesBefore(at) \cup PagesLoaded(ph)
    <3>1. PICK k \in Area(ph).start .. Area(ph).end : PartAt(k)
      BY <2>4
    <3>2. HasPage = PagesBefore(at) \cup (Area(ph).start .. k - 1) /\ la = k * PGSIZE
      BY <3>1 DEF PartAt
    <3>3. CASE k = Area(ph).start /\ start = ph.va
      <4>1. ph.memsz = 0 /\ Area(ph).start .. k - 1 = {}
        BY <2>3, <2>5, <3>3
      <4> QED BY <3>2, <4>1 DEF PagesLoaded
    <3>4. CASE Area(ph).start < k /\ ph.va < start /\ start <= la
      <4>1. ph.memsz # 0
        BY <2>3, <2>5, <3>4
      <4> DEFINE e == Area(ph).end
                 A == e * PGSIZE
                 B == k * PGSIZE
                 C == (e - 1) * PGSIZE
      <4>2. e \in Int /\ k \in Int /\ k <= e
        BY <2>3
      <4>3. A < MemEnd + PGSIZE /\ MemEnd <= B
        <5>1. A < ph.va + ph.memsz + PGSIZE
          BY <2>3, AreaEnd
        <5> QED BY <2>5, <3>2, <3>4, <5>1
      <4> HIDE DEF e
      <4>4. A \in Int /\ B \in Int /\ C \in Int
        BY <1>b, <4>2, Multiples
      <4>5. A = C + PGSIZE
        <5>1. e - 1 \in Int /\ (e - 1) + 1 = e
          BY <4>2
        <5>2. ((e - 1) + 1) * PGSIZE = (e - 1) * PGSIZE + PGSIZE
          BY <1>b, <5>1, Multiples
        <5> QED BY <5>1, <5>2
      <4>6. C < B => e - 1 < k
        <5>1. e - 1 \in Int
          BY <4>2
        <5> QED BY <1>b, <4>2, <5>1, Multiples
      <4> HIDE DEF A, B, C
      <4>7. C < B
        BY <1>b, <2>5, <4>3, <4>4, <4>5
      <4>8. k = e
        BY <4>2, <4>6, <4>7
      <4>9. Area(ph).start .. k - 1 = Pages(Area(ph))
        BY <4>8 DEF Pages, e
      <4> QED BY <3>2, <4>1, <4>9 DEF PagesLoaded
    <3> QED BY <3>1, <3>3, <3>4 DEF PartAt
  <2>9. PagesBefore(at + 1) = PagesBefore(at) \cup PagesLoaded(ph)
    <3>1. PagesBefore(at + 1) = UNION {PagesLoaded(program.ph[j]) : j \in 1 .. at}
      BY <2>6 DEF PagesBefore
    <3>2. \A v : v \in PagesBefore(at + 1) <=> \E j \in 1 .. at : v \in PagesLoaded(program.ph[j])
      BY <3>1
    <3>3. \A v : v \in PagesBefore(at)
                  <=> \E j \in 1 .. at - 1 : v \in PagesLoaded(program.ph[j])
      BY DEF PagesBefore
    <3>4. ASSUME NEW v
          PROVE  v \in PagesBefore(at + 1) <=> v \in PagesBefore(at) \/ v \in PagesLoaded(ph)
      BY <2>6, <3>2, <3>3 DEF ph
    <3> QED BY <3>4
  <2>10. HasPage' = HasPage
    BY <2>1, HasPageSame
  <2>11. HeaderImage'
    BY <1>g, <1>h, <2>1, <2>4, <2>6, <2>7, <2>8, <2>9, <2>10 DEF HeaderImage
  <2> QED BY <2>1, <2>11 DEF ImageAt, PartImage, StackImage, RunImage
<1>21. CASE LoadStack
  <2>1. CASE pc' = "stack"
    <3>1. /\ pc = "header" /\ at > Len(program.ph) /\ areas' = Append(areas, STACK)
          /\ la' = STACK.end /\ UNCHANGED <<program, pgdir, table, image>>
      BY <1>21, <2>1 DEF LoadStack, Goto, setting
    <3> DEFINE n == Len(program.ph)
    <3>2. at \in 1 .. n + 1 /\ call = "load"
      BY <1>a, <3>1 DEF LoadAt, CallOK
    <3>3. n \in Nat /\ Areas(program)[n + 1] = STACK
      BY <3>2, StackIs
    <3>4. program.elf /\ PartsBefore(at) /\ AreasTo(at - 1) /\ HasPage = PagesBefore(at)
      BY <1>a, <3>1 DEF ImageAt, HeaderImage
    <3>5. at = n + 1 /\ at - 1 = n
      BY <3>1, <3>2, <3>3
    <3>6. Len(areas') = n + 1 /\ \A j \in 1 .. n + 1 : areas'[j] = Areas(program)[j]
      BY <1>b, <1>c, <3>1, <3>3, <3>4, <3>5, AreaAdded
    <3>7. HasPage' = HasPage /\ la' .. STACK.end - 1 = {}
      BY <1>b, <3>1, HasPageSame
    <3>8. StackImage'
      BY <1>g, <3>1, <3>4, <3>5, <3>6, <3>7 DEF StackImage, AreasTo
    <3> QED BY <2>1, <3>8 DEF ImageAt, HeaderImage, PartImage, RunImage
  <2>2. CASE pc' # "stack"
    <3>1. pc' = "exit_mmap"
      BY <1>21, <2>2 DEF LoadStack, Goto
    <3> QED BY <1>e, <3>1
  <2> QED BY <2>1, <2>2
<1>22. CASE StackPage
  <2>1. CASE pc' = "stack"
    <3>1. /\ pc = "stack" /\ la > STACK.end - STACKPAGES /\ la' = la - 1 /\ AllocPage(la - 1)
          /\ UNCHANGED <<areas, program, image>>
      BY <1>22, <2>1 DEF StackPage, Goto, setting
    <3>2. la \in STACK.end - STACKPAGES .. STACK.end /\ call = "load"
      BY <1>a, <3>1 DEF LoadAt, CallOK
    <3>3. la - 1 \in Page
      <4>1. la - 1 \in Pages(STACK)
        BY <1>b, <3>1, <3>2 DEF Pages
      <4> QED BY <3>2, <4>1, StackIs
    <3>4. HasPage' = HasPage \cup {la - 1}
      BY <1>a, <3>1, <3>3, AllocMaps
    <3>5. la' .. STACK.end - 1 = (la .. STACK.end - 1) \cup {la - 1}
      BY <1>b, <3>1, <3>2
    <3>6. StackImage'
      BY <1>a, <1>g, <1>h, <3>1, <3>4, <3>5 DEF ImageAt, StackImage
    <3> QED BY <2>1, <3>6 DEF ImageAt, HeaderImage, PartImage, RunImage
  <2>2. CASE pc' # "stack"
    <3>1. pc' = "panic"
      BY <1>22, <2>2 DEF StackPage, Goto
    <3> QED BY <1>e, <3>1
  <2> QED BY <2>1, <2>2
<1>23. CASE Loaded
  <2>1. /\ pc = "stack" /\ la = STACK.end - STACKPAGES /\ pc' = "running"
        /\ UNCHANGED <<areas, program, image, pgdir, table>>
    BY <1>23 DEF Loaded, setting, treeVars, loop
  <2>2. HasPage' = HasPage
    BY <2>1, HasPageSame
  <2>3. RunImage'
    BY <1>a, <1>g, <1>h, <2>1, <2>2 DEF ImageAt, StackImage, RunImage, StackLoaded
  <2> QED BY <2>1, <2>3 DEF ImageAt, HeaderImage, PartImage, StackImage
<1>24. CASE ExitMmap
  BY <1>e, <1>24 DEF ExitMmap, Goto
<1>25. CASE PutPgdir
  BY <1>e, <1>25 DEF PutPgdir, Goto
<1>26. CASE MmDestroy
  BY <1>e, <1>26 DEF MmDestroy, Goto
<1>27. CASE BadForkCleanupKstack
  BY <1>e, <1>27 DEF BadForkCleanupKstack, Goto
<1>28. CASE BadForkCleanupProc
  BY <1>e, <1>28 DEF BadForkCleanupProc, Goto, Clean
<1>29. CASE DoWait
  BY <1>e, <1>29 DEF DoWait, Goto, Clean
<1> QED
  BY <1>1, <1>2, <1>3, <1>4, <1>5, <1>6, <1>7, <1>8, <1>9, <1>10, <1>11, <1>12, <1>13, <1>14,
     <1>15, <1>16, <1>17, <1>18, <1>19, <1>20, <1>21, <1>22, <1>23, <1>24, <1>25, <1>26,
     <1>27, <1>28, <1>29
  DEF Next, KernelStep, Fork, Load, Cleanup

LEMMA ImageInvStays ==
  ASSUME MemInv, ImageInv, [Next]_vars
  PROVE  ImageInv'
<1>1. DOMAIN image' = Bytes
  BY BytesStay DEF ImageInv
<1>2. NoneYet'
  BY NoneYetStays DEF ImageInv, MemInv, PlaceOK
<1>3. ImageAt'
  BY ImageStays
<1> QED BY <1>1, <1>2, <1>3 DEF ImageInv

LEMMA ImageInvSuffices ==
  ASSUME MemInv, ImageInv
  PROVE  ImageLoaded
<1> SUFFICES ASSUME pc = "running", mm, program # NoProgram
             PROVE  /\ Valid(program) /\ areas = Areas(program)
                    /\ \A i \in DOMAIN program.ph : \A k \in 0 .. program.ph[i].memsz - 1 :
                         image[program.ph[i].va + k]
                           = IF k < program.ph[i].filesz THEN FileByte(k) ELSE 0
                    /\ HasPage = PagesOf(program)
  BY DEF ImageLoaded, HasPage
<1> DEFINE n == Len(program.ph)
           R == [va : Nat, filesz : Nat, memsz : Nat]
           S == [start : Nat, end : Nat]
           T == [start : Int, end : Int]
<1>1. /\ program.elf /\ PartsBefore(n + 1) /\ AreasTo(n + 1)
      /\ HasPage = PagesBefore(n + 1) \cup StackLoaded
  BY DEF ImageInv, ImageAt, RunImage
<1>2. program \in Programs /\ areas \in Seq(T)
  BY DEF MemInv, PlaceOK, KindsOK, TreeInv
<1>3. program.ph \in Seq(R) /\ Areas(program) \in Seq(S) /\ Len(Areas(program)) = n + 1
  BY <1>2, AreasAre
<1>4. n \in Nat /\ DOMAIN program.ph = 1 .. n /\ (n + 1) - 1 = n
  <2> HIDE DEF R
  <2> QED BY <1>3
<1>5. areas = Areas(program)
  <2>1. Areas(program) \in Seq(T)
    <3>1. S \subseteq T
      OBVIOUS
    <3> HIDE DEF S, T
    <3> QED BY <1>3, <3>1, SeqMonotonic
  <2>2. Len(areas) = n + 1 /\ \A j \in 1 .. n + 1 : areas[j] = Areas(program)[j]
    BY <1>1 DEF AreasTo
  <2> HIDE DEF T, n
  <2> QED BY <1>2, <1>3, <2>1, <2>2, SeqEqual
<1>6. \A i \in 1 .. n : program.ph[i].filesz <= program.ph[i].memsz
                         /\ Written(program.ph[i], program.ph[i].memsz)
  BY <1>1, <1>4 DEF PartsBefore
<1>7. Valid(program)
  BY <1>1, <1>4, <1>6 DEF Valid
<1>8. PagesBefore(n + 1) = UNION {PagesLoaded(program.ph[i]) : i \in DOMAIN program.ph}
  BY <1>4 DEF PagesBefore
<1>9. HasPage = PagesOf(program)
  <2> DEFINE P == PagesBefore(n + 1)
  <2>1. /\ P = UNION {PagesLoaded(program.ph[i]) : i \in DOMAIN program.ph}
        /\ HasPage = P \cup StackLoaded
    BY <1>1, <1>8
  <2> HIDE DEF P
  <2> QED BY <2>1 DEF PagesOf
<1>10. \A i \in DOMAIN program.ph : \A k \in 0 .. program.ph[i].memsz - 1 :
         image[program.ph[i].va + k] = IF k < program.ph[i].filesz THEN FileByte(k) ELSE 0
  BY <1>4, <1>6 DEF Written, ByteOf
<1> QED BY <1>5, <1>7, <1>9, <1>10

\* Of any program that load_icode accepts, every byte is where its header says, zeros
\* fill the rest of its memory, and its pages and areas are all there are.
THEOREM ImageCorrect == Spec => []ImageLoaded
<1> DEFINE Inv == MemInv /\ ImageInv
<1>1. Init => Inv
  <2>1. Init => MemInv
    BY MemInitHolds
  <2>2. Init => ImageInv
    BY DEF Init, ImageInv, Bytes, NoneYet, ImageAt, HeaderImage, PartImage, StackImage, RunImage
  <2> QED BY <2>1, <2>2
<1>2. Inv /\ [Next]_vars => Inv'
  BY MemInvStays, ImageInvStays
<1>3. Inv => ImageLoaded
  BY ImageInvSuffices
<1> HIDE DEF Inv
<1> QED BY <1>1, <1>2, <1>3, PTL DEF Spec

-----------------------------------------------------------------------------
(* When the pages run out.                                                 *)

\* What has been made for the pages so far: each directory and each table leads to
\* one of them.
Used ==
  /\ \A t \in tables : \/ \E d \in Dirs : t = Dir(d)
                       \/ \E d \in Dirs, e \in Entry : t = Tab(d, e)
  /\ \A d \in Dirs : Dir(d) # None => \E v \in HasPage : PDX1(v) = d
  /\ \A d \in Dirs, e \in Entry :
       Tab(d, e) # None => \E v \in HasPage : PDX1(v) = d /\ PDX0(v) = e
UsedOK == pc \in {"header", "load", "stack"} => Used
KstackOK ==
  pc \notin {"none", "setup_kstack", "bad_fork_cleanup_proc"} => Cardinality(kstack) = KSTACKPAGE
ShortInv == UsedOK /\ KstackOK /\ PanicsOnlyWhenShort

\* A set that a function covers from a finite one.
LEMMA Counted ==
  ASSUME NEW S, IsFiniteSet(S), NEW T, NEW f, \A t \in T : \E s \in S : f[s] = t
  PROVE  IsFiniteSet(T) /\ Cardinality(T) <= Cardinality(S)
<1> DEFINE R == {s \in S : f[s] \in T}
           g == [s \in R |-> f[s]]
<1>1. R \in SUBSET S
  OBVIOUS
<1>2. g \in Surjection(R, T)
  <2>1. g \in [R -> T]
    OBVIOUS
  <2>2. \A t \in T : \E s \in R : g[s] = t
    OBVIOUS
  <2> QED BY <2>1, <2>2 DEF Surjection
<1>3. IsFiniteSet(R) /\ Cardinality(R) <= Cardinality(S)
  BY <1>1, FS_Subset
<1> HIDE DEF R, g
<1>4. IsFiniteSet(T) /\ Cardinality(T) <= Cardinality(R)
  BY <1>2, <1>3, FS_Surjection
<1>5. Cardinality(T) \in Nat /\ Cardinality(R) \in Nat /\ Cardinality(S) \in Nat
  BY <1>3, <1>4, FS_CardinalityType
<1> QED BY <1>3, <1>4, <1>5

\* A finite set that has one more than another.
LEMMA OneMore ==
  ASSUME NEW S, IsFiniteSet(S), NEW T \in SUBSET S, NEW x \in S, x \notin T
  PROVE  Cardinality(T) + 1 <= Cardinality(S)
<1>1. T \cup {x} \in SUBSET S
  OBVIOUS
<1>2. IsFiniteSet(T)
  BY FS_Subset
<1>3. Cardinality(T \cup {x}) = Cardinality(T) + 1
  BY <1>2, FS_AddElement
<1>4. Cardinality(T \cup {x}) <= Cardinality(S)
  BY <1>1, FS_Subset
<1> QED BY <1>3, <1>4

LEMMA AtMostSum ==
  ASSUME NEW S, IsFiniteSet(S), NEW T, IsFiniteSet(T), NEW m \in Nat, NEW n \in Nat,
         Cardinality(S) <= m, Cardinality(T) <= n
  PROVE  IsFiniteSet(S \cup T) /\ Cardinality(S \cup T) <= m + n
<1>1. /\ IsFiniteSet(S \cup T)
      /\ Cardinality(S \cup T) = Cardinality(S) + Cardinality(T) - Cardinality(S \cap T)
  BY FS_Union
<1>2. IsFiniteSet(S \cap T)
  BY FS_Subset
<1>3. Cardinality(S) \in Nat /\ Cardinality(T) \in Nat /\ Cardinality(S \cap T) \in Nat
  BY <1>2, FS_CardinalityType
<1> QED BY <1>1, <1>3

LEMMA AllocUsed ==
  ASSUME TreeInv, Accounts, Used, NEW v \in Page, AllocPage(v)
  PROVE  Used'
<1>1. /\ TablesTypeOK /\ TreeOK /\ free \in SUBSET Frame /\ free \cap tables = {}
      /\ free # {} /\ tables \subseteq Frame
  BY DEF TreeInv, TablesTypeOK, Accounts, AllocPage
<1> DEFINE page == Lowest(free)
           left == free \ {page}
<1>2. page \in Frame \cup Shared /\ left \in SUBSET free /\ PageInsert(v, page, left)
  BY <1>1, LowestIsIn DEF AllocPage
<1> HIDE DEF page, left
<1>3. PICK pd, pt : Inserted(v, page, left, pd, pt)
  BY <1>1, <1>2, InsertDoes
<1>4. /\ tables' = tables \cup {pd, pt}
      /\ \A d \in Dirs : Dir(d)' = IF d = PDX1(v) THEN pd ELSE Dir(d)
      /\ \A d \in Dirs, e \in Entry :
           Tab(d, e)' = IF d = PDX1(v) /\ e = PDX0(v) THEN pt ELSE Tab(d, e)
      /\ IF Dir(PDX1(v)) = None THEN pd \in left ELSE pd = Dir(PDX1(v))
      /\ IF Tab(PDX1(v), PDX0(v)) = None THEN pt \in left \ {pd} ELSE pt = Tab(PDX1(v), PDX0(v))
  BY <1>3 DEF Inserted
<1>5. PDX1(v) \in Dirs /\ PDX0(v) \in Entry
  BY Coordinates
<1>6. HasPage' = HasPage \cup {v}
  BY AllocMaps
<1>7. \A t \in tables : t # None
  BY <1>1, Kinds
<1>8. ASSUME NEW t \in tables'
      PROVE  \/ \E d \in Dirs : t = Dir(d)'
             \/ \E d \in Dirs, e \in Entry : t = Tab(d, e)'
  <2>1. CASE t = pd
    BY <1>4, <1>5, <2>1
  <2>2. CASE t = pt
    BY <1>4, <1>5, <2>2
  <2>3. CASE t \in tables /\ \E d \in Dirs : t = Dir(d)
    <3>1. PICK d \in Dirs : t = Dir(d)
      BY <2>3
    <3>2. t = Dir(d)'
      BY <1>4, <1>7, <2>3, <3>1
    <3> QED BY <3>2
  <2>4. CASE t \in tables /\ \E d \in Dirs, e \in Entry : t = Tab(d, e)
    <3>1. PICK d \in Dirs, e \in Entry : t = Tab(d, e)
      BY <2>4
    <3>2. t = Tab(d, e)'
      BY <1>4, <1>7, <2>4, <3>1
    <3> QED BY <3>2
  <2> QED BY <1>4, <2>1, <2>2, <2>3, <2>4 DEF Used
<1>9. ASSUME NEW d \in Dirs, Dir(d)' # None
      PROVE  \E w \in HasPage' : PDX1(w) = d
  BY <1>4, <1>6, <1>9 DEF Used
<1>10. ASSUME NEW d \in Dirs, NEW e \in Entry, Tab(d, e)' # None
       PROVE  \E w \in HasPage' : PDX1(w) = d /\ PDX0(w) = e
  BY <1>4, <1>6, <1>10 DEF Used
<1> QED BY <1>8, <1>9, <1>10 DEF Used, Dirs

LEMMA KstackStays ==
  ASSUME MemInv, KstackOK, [Next]_vars
  PROVE  KstackOK'
<1>1. CASE UNCHANGED vars
  BY <1>1 DEF vars, KstackOK
<1>2. CASE AllocProc
  BY <1>2 DEF AllocProc, Goto, KstackOK, setting, mine
<1>3. CASE SetupKstack
  <2>1. CASE Rows # {}
    <3>1. /\ pc = "setup_kstack" /\ kstack' = Lowest(Rows) .. Lowest(Rows) + KSTACKPAGE - 1
      BY <1>3, <2>1 DEF SetupKstack
    <3>2. Lowest(Rows) \in Int
      <4>1. Rows \in SUBSET Frame
        BY DEF MemInv, TreeInv, TablesTypeOK, Rows
      <4>2. Lowest(Rows) \in Frame
        BY <2>1, <4>1, LowestIsIn
      <4> QED BY <4>2 DEF Frame
    <3>3. Cardinality(kstack') = KSTACKPAGE
      <4> DEFINE a == Lowest(Rows)
                 b == a + KSTACKPAGE - 1
      <4>1. a \in Int /\ b \in Int /\ ~(a > b) /\ b - a + 1 = KSTACKPAGE
        BY <3>2, AddressSpaceAssumption
      <4>2. kstack' = a .. b
        BY <3>1
      <4> HIDE DEF a, b
      <4> QED BY <4>1, <4>2, FS_Interval
    <3> QED BY <3>3 DEF KstackOK
  <2>2. CASE Rows = {}
    BY <1>3, <2>2 DEF SetupKstack, Goto, KstackOK
  <2> QED BY <2>1, <2>2
<1>4. CASE MmCreate
  BY <1>4 DEF MmCreate, Goto, KstackOK, setting, mine
<1>5. CASE SetupPgdir
  BY <1>5 DEF SetupPgdir, BadPgdirCleanupMm, Goto, KstackOK, setting, mine
<1>6. CASE DupArea
  BY <1>6 DEF DupArea, Goto, KstackOK, setting, mine
<1>7. CASE CopyRange
  BY <1>7 DEF CopyRange, Goto, KstackOK, setting, mine
<1>8. CASE CopyRangeEnds
  BY <1>8 DEF CopyRangeEnds, Goto, KstackOK, setting, mine
<1>9. CASE GoodMm
  BY <1>9 DEF GoodMm, Goto, KstackOK, setting, mine
<1>10. CASE SetLinks
  BY <1>10 DEF SetLinks, Goto, KstackOK, setting, mine
<1>11. CASE ProcRun
  BY <1>11 DEF ProcRun, Goto, KstackOK, setting, mine
<1>12. CASE SwitchedOut
  BY <1>12 DEF SwitchedOut, Goto, KstackOK, setting, mine
<1>13. CASE Pgfault
  BY <1>13 DEF Pgfault, Goto, KstackOK, setting, mine
<1>14. CASE Execve
  BY <1>14 DEF Execve, SatpBoot, CountLess, Goto, KstackOK, setting, mine
<1>15. CASE DoExit
  BY <1>15 DEF DoExit, SatpBoot, CountLess, Goto, KstackOK, setting, mine
<1>16. CASE Header
  BY <1>16 DEF Header, Goto, KstackOK, setting, mine
<1>17. CASE LoadText
  BY <1>17 DEF LoadText, LoadPage, Goto, KstackOK, setting, mine
<1>18. CASE LoadTail
  BY <1>18 DEF LoadTail, Goto, KstackOK, setting, mine
<1>19. CASE LoadBss
  BY <1>19 DEF LoadBss, LoadPage, Goto, KstackOK, setting, mine
<1>20. CASE HeaderEnds
  BY <1>20 DEF HeaderEnds, Goto, KstackOK, setting, mine
<1>21. CASE LoadStack
  BY <1>21 DEF LoadStack, Goto, KstackOK, setting, mine
<1>22. CASE StackPage
  BY <1>22 DEF StackPage, Goto, KstackOK, setting, mine
<1>23. CASE Loaded
  BY <1>23 DEF Loaded, Goto, KstackOK, setting, mine
<1>24. CASE ExitMmap
  BY <1>24 DEF ExitMmap, Goto, KstackOK, setting, mine
<1>25. CASE PutPgdir
  BY <1>25 DEF PutPgdir, Goto, KstackOK, setting, mine
<1>26. CASE MmDestroy
  BY <1>26 DEF MmDestroy, Goto, KstackOK, setting, mine
<1>27. CASE BadForkCleanupKstack
  BY <1>27 DEF BadForkCleanupKstack, Goto, KstackOK, setting, mine
<1>28. CASE BadForkCleanupProc
  BY <1>28 DEF BadForkCleanupProc, Goto, KstackOK, setting, mine, Clean
<1>29. CASE DoWait
  BY <1>29 DEF DoWait, Goto, KstackOK, setting, mine, Clean
<1> QED
  BY <1>1, <1>2, <1>3, <1>4, <1>5, <1>6, <1>7, <1>8, <1>9, <1>10, <1>11, <1>12, <1>13, <1>14,
     <1>15, <1>16, <1>17, <1>18, <1>19, <1>20, <1>21, <1>22, <1>23, <1>24, <1>25, <1>26,
     <1>27, <1>28, <1>29
  DEF Next, KernelStep, Fork, Load, Cleanup

LEMMA StackPageIs ==
  ASSUME MemInv, pc = "stack", la > STACK.end - STACKPAGES
  PROVE  la - 1 \in Page /\ la - 1 \in StackLoaded /\ la \in Int
<1>1. la \in STACK.end - STACKPAGES .. STACK.end /\ call = "load"
  BY DEF MemInv, LoopOK, LoadAt, PlaceOK, CallOK
<1>2. STACK.start \in Int /\ STACK.end \in Int /\ STACKPAGES \in Nat
      /\ STACK.end - STACK.start >= STACKPAGES
  BY AddressSpaceAssumption, ProgramsAssumption
<1>3. la - 1 \in Pages(STACK) /\ la - 1 \in StackLoaded
  BY <1>1, <1>2 DEF Pages, StackLoaded
<1>4. Pages(STACK) \subseteq Page
  BY <1>1, StackIs
<1> QED BY <1>1, <1>2, <1>3, <1>4

LEMMA UsedStays ==
  ASSUME MemInv, UsedOK, [Next]_vars
  PROVE  UsedOK'
<1>a. LoadAt /\ TreeInv /\ Accounts
  BY DEF MemInv, LoopOK
<1>e. pc' \notin {"header", "load", "stack"} => UsedOK'
  BY DEF UsedOK
<1>s. UNCHANGED <<pgdir, table, tables>> => Used' = Used
  BY HasPageSame DEF Used, Dir, Tab, Dirs
<1>f. ASSUME pc \in {"header", "load", "stack"}, UNCHANGED <<pgdir, table, tables>>
      PROVE  UsedOK'
  BY <1>f, <1>s DEF UsedOK
<1>p. ASSUME pc \in {"header", "load", "stack"}, NEW v \in Page, AllocPage(v)
      PROVE  UsedOK'
  <2>1. Used
    BY <1>p DEF UsedOK
  <2>2. Used'
    BY <1>a, <1>p, <2>1, AllocUsed
  <2> QED BY <2>2 DEF UsedOK
<1>1. CASE UNCHANGED vars
  BY <1>1, <1>s DEF vars, treeVars, UsedOK
<1>2. CASE AllocProc
  BY <1>e, <1>2 DEF AllocProc, Goto
<1>3. CASE SetupKstack
  BY <1>e, <1>3 DEF SetupKstack, Goto
<1>4. CASE MmCreate
  BY <1>e, <1>4 DEF MmCreate, Goto
<1>5. CASE SetupPgdir
  <2>1. CASE pc' = "header"
    <3>1. pc = "setup_pgdir" /\ UNCHANGED <<pgdir, table, tables>>
      BY <1>5, <2>1 DEF SetupPgdir
    <3>2. NoTables
      BY <3>1 DEF MemInv, PlaceOK, BareOK, Rootless
    <3>3. tables = {} /\ \A d \in Dirs : Dir(d) = None
      BY <3>2 DEF NoTables, Dir, Dirs
    <3>4. \A d \in Dirs, e \in Entry : Tab(d, e) = None
      BY <3>3 DEF Tab, Dir
    <3>5. Used
      BY <3>3, <3>4 DEF Used
    <3> QED BY <1>s, <3>1, <3>5 DEF UsedOK
  <2>2. CASE pc' # "header"
    <3>1. pc' \notin {"header", "load", "stack"}
      BY <1>5, <2>2 DEF SetupPgdir, BadPgdirCleanupMm, Goto
    <3> QED BY <1>e, <3>1
  <2> QED BY <2>1, <2>2
<1>6. CASE DupArea
  BY <1>e, <1>6 DEF DupArea, Goto
<1>7. CASE CopyRange
  BY <1>e, <1>7 DEF CopyRange, Goto
<1>8. CASE CopyRangeEnds
  BY <1>e, <1>8 DEF CopyRangeEnds, Goto
<1>9. CASE GoodMm
  BY <1>e, <1>9 DEF GoodMm, Goto
<1>10. CASE SetLinks
  BY <1>e, <1>10 DEF SetLinks, Goto
<1>11. CASE ProcRun
  BY <1>e, <1>11 DEF ProcRun, Goto
<1>12. CASE SwitchedOut
  BY <1>e, <1>12 DEF SwitchedOut, Goto
<1>13. CASE Pgfault
  BY <1>e, <1>13 DEF Pgfault, Goto
<1>14. CASE Execve
  BY <1>e, <1>14 DEF Execve, SatpBoot, CountLess, Goto
<1>15. CASE DoExit
  BY <1>e, <1>15 DEF DoExit, SatpBoot, CountLess, Goto
<1>16. CASE Header
  <2>1. pc \in {"header", "load", "stack"} /\ UNCHANGED <<pgdir, table, tables>>
    BY <1>16 DEF Header, treeVars
  <2> QED BY <1>f, <2>1
<1>17. CASE LoadText
  <2>1. CASE pc' = "load"
    <3>1. pc = "load" /\ start < FileEnd /\ AllocPage(la \div PGSIZE)
      BY <1>17, <2>1 DEF LoadText, LoadPage, Goto
    <3>2. /\ at \in 1 .. Len(program.ph) /\ ph.filesz <= ph.memsz /\ start \in Int
          /\ (start < FileEnd => la <= start)
      BY <1>a, <3>1 DEF LoadAt
    <3>3. ph.va \in Nat /\ ph.filesz \in Nat /\ ph.memsz \in Nat /\ Pages(Area(ph)) \subseteq Page
      BY <3>1, <3>2, HeaderIs
    <3>4. la <= start /\ start < MemEnd
      BY <3>1, <3>2, <3>3 DEF FileEnd, MemEnd
    <3>5. la \div PGSIZE \in Page
      BY <3>1, <3>3, <3>4, PageIsThere
    <3> QED BY <1>a, <1>p, <3>1, <3>5
  <2>2. CASE pc' # "load"
    <3>1. pc' = "exit_mmap"
      BY <1>17, <2>2 DEF LoadText, LoadPage, Goto
    <3> QED BY <1>e, <3>1
  <2> QED BY <2>1, <2>2
<1>18. CASE LoadTail
  <2>1. pc \in {"header", "load", "stack"} /\ UNCHANGED <<pgdir, table, tables>>
    BY <1>18 DEF LoadTail, treeVars
  <2> QED BY <1>f, <2>1
<1>19. CASE LoadBss
  <2>1. CASE pc' = "load"
    <3>1. pc = "load" /\ start >= la /\ start < MemEnd /\ AllocPage(la \div PGSIZE)
      BY <1>19, <2>1 DEF LoadBss, LoadPage, Goto
    <3>2. /\ at \in 1 .. Len(program.ph) /\ ph.filesz <= ph.memsz /\ start \in Int
          /\ (start < FileEnd => la <= start)
      BY <1>a, <3>1 DEF LoadAt
    <3>3. ph.va \in Nat /\ ph.filesz \in Nat /\ ph.memsz \in Nat /\ Pages(Area(ph)) \subseteq Page
      BY <3>1, <3>2, HeaderIs
    <3>4. la <= start /\ start < MemEnd
      BY <3>1, <3>2, <3>3 DEF FileEnd, MemEnd
    <3>5. la \div PGSIZE \in Page
      BY <3>1, <3>3, <3>4, PageIsThere
    <3> QED BY <1>a, <1>p, <3>1, <3>5
  <2>2. CASE pc' # "load"
    <3>1. pc' = "exit_mmap"
      BY <1>19, <2>2 DEF LoadBss, LoadPage, Goto
    <3> QED BY <1>e, <3>1
  <2> QED BY <2>1, <2>2
<1>20. CASE HeaderEnds
  <2>1. pc \in {"header", "load", "stack"} /\ UNCHANGED <<pgdir, table, tables>>
    BY <1>20 DEF HeaderEnds, treeVars
  <2> QED BY <1>f, <2>1
<1>21. CASE LoadStack
  <2>1. pc \in {"header", "load", "stack"} /\ UNCHANGED <<pgdir, table, tables>>
    BY <1>21 DEF LoadStack, treeVars
  <2> QED BY <1>f, <2>1
<1>22. CASE StackPage
  <2>1. CASE pc' = "stack"
    <3>1. pc = "stack" /\ la > STACK.end - STACKPAGES /\ AllocPage(la - 1)
      BY <1>22, <2>1 DEF StackPage, Goto
    <3>2. la - 1 \in Page
      BY <3>1, StackPageIs
    <3> QED BY <1>p, <3>1, <3>2
  <2>2. CASE pc' # "stack"
    <3>1. pc' = "panic"
      BY <1>22, <2>2 DEF StackPage, Goto
    <3> QED BY <1>e, <3>1
  <2> QED BY <2>1, <2>2
<1>23. CASE Loaded
  BY <1>e, <1>23 DEF Loaded, Goto
<1>24. CASE ExitMmap
  BY <1>e, <1>24 DEF ExitMmap, Goto
<1>25. CASE PutPgdir
  BY <1>e, <1>25 DEF PutPgdir, Goto
<1>26. CASE MmDestroy
  BY <1>e, <1>26 DEF MmDestroy, Goto
<1>27. CASE BadForkCleanupKstack
  BY <1>e, <1>27 DEF BadForkCleanupKstack, Goto
<1>28. CASE BadForkCleanupProc
  BY <1>e, <1>28 DEF BadForkCleanupProc, Goto, Clean
<1>29. CASE DoWait
  BY <1>e, <1>29 DEF DoWait, Goto, Clean
<1> QED
  BY <1>1, <1>2, <1>3, <1>4, <1>5, <1>6, <1>7, <1>8, <1>9, <1>10, <1>11, <1>12, <1>13, <1>14,
     <1>15, <1>16, <1>17, <1>18, <1>19, <1>20, <1>21, <1>22, <1>23, <1>24, <1>25, <1>26,
     <1>27, <1>28, <1>29
  DEF Next, KernelStep, Fork, Load, Cleanup

\* The directories and the tables that some pages need.
DirsOf(S) == {PDX1(v) : v \in S}
TabsOf(S) == {<<PDX1(v), PDX0(v)>> : v \in S}

LEMMA PagesAreFinite ==
  ASSUME NEW S \in SUBSET Page
  PROVE  /\ IsFiniteSet(S) /\ Cardinality(S) \in Nat
         /\ IsFiniteSet(DirsOf(S)) /\ Cardinality(DirsOf(S)) \in Nat
         /\ IsFiniteSet(TabsOf(S)) /\ Cardinality(TabsOf(S)) \in Nat
<1>1. IsFiniteSet(S)
  <2> DEFINE b == NPDEENTRY * NPTEENTRY * NPTEENTRY - 1
  <2>1. b \in Int /\ Page = 0 .. b
    BY PageTableAssumption DEF Page
  <2> HIDE DEF b
  <2>2. IsFiniteSet(Page)
    BY <2>1, FS_Interval
  <2> QED BY <2>2, FS_Subset
<1>2. IsFiniteSet(DirsOf(S))
  <2> DEFINE f == [v \in S |-> PDX1(v)]
  <2>1. \A t \in DirsOf(S) : \E v \in S : f[v] = t
    BY DEF DirsOf
  <2> HIDE DEF f
  <2> QED BY <1>1, <2>1, Counted
<1>3. IsFiniteSet(TabsOf(S))
  <2> DEFINE f == [v \in S |-> <<PDX1(v), PDX0(v)>>]
  <2>1. \A t \in TabsOf(S) : \E v \in S : f[v] = t
    BY DEF TabsOf
  <2> HIDE DEF f
  <2> QED BY <1>1, <2>1, Counted
<1> QED BY <1>1, <1>2, <1>3, FS_CardinalityType

\* What is in use is no more than the pages loaded so far need.
LEMMA TablesCounted ==
  ASSUME TreeInv, Used
  PROVE  /\ IsFiniteSet(tables)
         /\ Cardinality(tables) <= Cardinality(DirsOf(HasPage)) + Cardinality(TabsOf(HasPage))
<1> DEFINE A == {t \in tables : \E d \in Dirs : t = Dir(d)}
           B == {t \in tables : \E d \in Dirs, e \in Entry : t = Tab(d, e)}
<1>0. \A t \in tables : t # None
  BY Kinds DEF TreeInv, TablesTypeOK
<1>1. tables = A \cup B
  BY DEF Used
<1>2. /\ IsFiniteSet(DirsOf(HasPage)) /\ Cardinality(DirsOf(HasPage)) \in Nat
      /\ IsFiniteSet(TabsOf(HasPage)) /\ Cardinality(TabsOf(HasPage)) \in Nat
  BY PagesAreFinite DEF HasPage
<1>3. IsFiniteSet(A) /\ Cardinality(A) <= Cardinality(DirsOf(HasPage))
  <2> DEFINE f == [d \in Dirs |-> Dir(d)]
             D == DirsOf(HasPage)
  <2>1. ASSUME NEW t \in A
        PROVE  \E d \in D : f[d] = t
    <3>1. PICK d \in Dirs : t = Dir(d) /\ t # None
      BY <1>0
    <3>2. d \in D
      BY <3>1 DEF Used, DirsOf
    <3> QED BY <3>1, <3>2
  <2> HIDE DEF f, D, A
  <2>2. IsFiniteSet(D)
    BY <1>2 DEF D
  <2>3. IsFiniteSet(A) /\ Cardinality(A) <= Cardinality(D)
    BY <2>1, <2>2, Counted
  <2> QED BY <2>3 DEF D
<1>4. IsFiniteSet(B) /\ Cardinality(B) <= Cardinality(TabsOf(HasPage))
  <2> DEFINE f == [p \in Dirs \X Entry |-> Tab(p[1], p[2])]
             D == TabsOf(HasPage)
  <2>1. ASSUME NEW t \in B
        PROVE  \E p \in D : f[p] = t
    <3>1. PICK d \in Dirs, e \in Entry : t = Tab(d, e) /\ t # None
      BY <1>0
    <3>2. PICK v \in HasPage : PDX1(v) = d /\ PDX0(v) = e
      BY <3>1 DEF Used
    <3>3. <<d, e>> \in D
      BY <3>2 DEF TabsOf
    <3>4. f[<<d, e>>] = t
      BY <3>1
    <3> QED BY <3>3, <3>4
  <2> HIDE DEF f, D, B
  <2>2. IsFiniteSet(D)
    BY <1>2 DEF D
  <2>3. IsFiniteSet(B) /\ Cardinality(B) <= Cardinality(D)
    BY <2>1, <2>2, Counted
  <2> QED BY <2>3 DEF D
<1> HIDE DEF A, B
<1> QED BY <1>1, <1>2, <1>3, <1>4, AtMostSum

LEMMA OwnCounted == IsFiniteSet(Own) /\ Cardinality(Own) <= Cardinality(HasPage)
<1> DEFINE f == [v \in Page |-> Ent(PDX1(v), PDX0(v), PTX(v))]
<1>1. IsFiniteSet(HasPage)
  BY PagesAreFinite DEF HasPage
<1>2. ASSUME NEW t \in Own
      PROVE  \E v \in HasPage : f[v] = t
  <2>1. PICK v \in Page : t \in PageAt(v)
    BY DEF Own, Mapped
  <2>2. PageAt(v) = {Ent(PDX1(v), PDX0(v), PTX(v))} \ {None}
    BY PageAtIs
  <2> QED BY <2>1, <2>2 DEF HasPage
<1> HIDE DEF f
<1> QED BY <1>1, <1>2, Counted

\* What get_pte has to make for a page is not needed by the pages there are.
LEMMA MissingIsNew ==
  ASSUME NEW v \in Page, NEW P \in SUBSET Page, HasPage \subseteq P, v \in P
  PROVE  Cardinality(DirsOf(HasPage)) + Cardinality(TabsOf(HasPage)) + Missing(v)
           <= Cardinality(DirsOf(P)) + Cardinality(TabsOf(P))
<1> DEFINE D1 == DirsOf(HasPage)
           D2 == TabsOf(HasPage)
           E1 == DirsOf(P)
           E2 == TabsOf(P)
<1>1. /\ IsFiniteSet(E1) /\ IsFiniteSet(E2) /\ Cardinality(D1) \in Nat
      /\ Cardinality(D2) \in Nat /\ Cardinality(E1) \in Nat /\ Cardinality(E2) \in Nat
  BY PagesAreFinite DEF HasPage
<1>2. D1 \in SUBSET E1 /\ D2 \in SUBSET E2 /\ PDX1(v) \in E1 /\ <<PDX1(v), PDX0(v)>> \in E2
  BY DEF DirsOf, TabsOf
<1>3. \A w \in HasPage : TableOf(w) # {} /\ pgdir[PDX1(w)] # None
  BY DEF HasPage, PageAt, TableOf
<1>4. pgdir[PDX1(v)] = None => PDX1(v) \notin D1 /\ TableOf(v) = {}
  BY <1>3 DEF DirsOf, TableOf
<1>5. TableOf(v) = {} => <<PDX1(v), PDX0(v)>> \notin D2
  <2> SUFFICES ASSUME TableOf(v) = {}, <<PDX1(v), PDX0(v)>> \in D2 PROVE FALSE
    OBVIOUS
  <2>1. PICK w \in HasPage : PDX1(w) = PDX1(v) /\ PDX0(w) = PDX0(v)
    BY DEF TabsOf
  <2>2. TableOf(w) = TableOf(v)
    BY <2>1 DEF TableOf
  <2> QED BY <1>3, <2>1, <2>2
<1> HIDE DEF D1, D2, E1, E2
<1>6. Cardinality(D1) <= Cardinality(E1) /\ Cardinality(D2) <= Cardinality(E2)
  BY <1>1, <1>2, FS_Subset
<1>7. PDX1(v) \notin D1 => Cardinality(D1) + 1 <= Cardinality(E1)
  BY <1>1, <1>2, OneMore
<1>8. <<PDX1(v), PDX0(v)>> \notin D2 => Cardinality(D2) + 1 <= Cardinality(E2)
  BY <1>1, <1>2, OneMore
<1>9. Cardinality(D1) + Cardinality(D2) + Missing(v) <= Cardinality(E1) + Cardinality(E2)
  <2>1. CASE pgdir[PDX1(v)] = None
    BY <1>1, <1>4, <1>5, <1>7, <1>8, <2>1 DEF Missing
  <2>2. CASE pgdir[PDX1(v)] # None /\ TableOf(v) = {}
    BY <1>1, <1>5, <1>6, <1>8, <2>2 DEF Missing
  <2>3. CASE pgdir[PDX1(v)] # None /\ TableOf(v) # {}
    BY <1>1, <1>6, <2>3 DEF Missing
  <2> QED BY <2>1, <2>2, <2>3
<1> QED BY <1>9 DEF D1, D2, E1, E2

LEMMA FailsIsShort ==
  ASSUME free \in SUBSET Frame, NEW v \in Page, AllocPageFails(v)
  PROVE  IsFiniteSet(free) /\ Cardinality(free) <= Missing(v) /\ Missing(v) \in 0 .. 2
<1>1. Missing(v) \in 0 .. 2
  BY DEF Missing
<1>2. IsFiniteSet(free)
  <2>1. 1 \in Int /\ NFRAME \in Int
    BY PageTableAssumption
  <2>2. IsFiniteSet(Frame)
    BY <2>1, FS_Interval DEF Frame
  <2> QED BY <2>2, FS_Subset
<1>3. CASE free = {}
  <2>1. Cardinality(free) = 0
    BY <1>3, FS_EmptySet
  <2> QED BY <1>1, <1>2, <2>1
<1>4. CASE free # {} /\ PageInsertFails(v, free \ {Lowest(free)})
  <2>1. Lowest(free) \in free
    BY <1>4, LowestIsIn
  <2>2. Cardinality(free \ {Lowest(free)}) = Cardinality(free) - 1
    BY <1>2, <2>1, FS_RemoveElement
  <2>3. Cardinality(free \ {Lowest(free)}) < Missing(v)
    BY <1>4 DEF PageInsertFails
  <2>4. Cardinality(free) \in Nat
    BY <1>2, FS_CardinalityType
  <2> QED BY <1>1, <1>2, <2>2, <2>3, <2>4
<1> QED BY <1>3, <1>4 DEF AllocPageFails


\* The page of the stack is none of those that have been loaded.
LEMMA StackPageIsNew ==
  ASSUME MemInv, ImageInv, pc = "stack", la > STACK.end - STACKPAGES
  PROVE  /\ program \in Programs /\ PagesOf(program) \in SUBSET Page
         /\ HasPage \subseteq PagesOf(program)
         /\ la - 1 \in PagesOf(program) /\ la - 1 \in Page /\ la - 1 \notin HasPage
<1> DEFINE n == Len(program.ph)
           R == [va : Nat, filesz : Nat, memsz : Nat]
           B == PagesBefore(n + 1)
<1>1. /\ la - 1 \in Page /\ la - 1 \in StackLoaded /\ la \in Int
      /\ la \in STACK.end - STACKPAGES .. STACK.end /\ call = "load"
  BY StackPageIs DEF MemInv, LoopOK, LoadAt, PlaceOK, CallOK
<1>2. /\ STACK.start \in Int /\ STACK.end \in Int /\ STACKPAGES \in Nat
      /\ STACK.end - STACK.start >= STACKPAGES
  BY AddressSpaceAssumption, ProgramsAssumption
<1>3. /\ program \in Programs /\ n \in Nat /\ Pages(STACK) \subseteq Page
      /\ Areas(program)[n + 1] = STACK
      /\ \A i \in 1 .. n : Areas(program)[i] = Area(program.ph[i])
  BY <1>1, StackIs
<1>4. HasPage = B \cup (la .. STACK.end - 1)
  BY DEF ImageInv, ImageAt, StackImage
<1>5. /\ program.ph \in Seq(R) /\ DOMAIN program.ph = 1 .. n
      /\ DOMAIN Areas(program) = 1 .. n + 1
  <2>1. program.ph \in Seq(R) /\ Areas(program) \in Seq([start : Nat, end : Nat])
        /\ Len(Areas(program)) = n + 1
    BY <1>3, AreasAre
  <2> DEFINE S == [start : Nat, end : Nat]
  <2> HIDE DEF R, S, n
  <2>2. Areas(program) \in Seq(S)
    BY <2>1 DEF S
  <2>3. DOMAIN program.ph = 1 .. Len(program.ph)
    BY <2>1
  <2>4. DOMAIN Areas(program) = 1 .. n + 1
    BY <2>1, <2>2
  <2> QED BY <2>1, <2>3, <2>4 DEF n
<1>6. B = UNION {PagesLoaded(program.ph[i]) : i \in DOMAIN program.ph}
  BY <1>3, <1>5 DEF PagesBefore
<1>7. PagesOf(program) = B \cup StackLoaded
  BY <1>6 DEF PagesOf
<1> HIDE DEF B
<1>8. \A i \in 1 .. n : /\ Pages(Area(program.ph[i])) \subseteq Page
                        /\ Area(program.ph[i]).end <= STACK.start
                        /\ Area(program.ph[i]).end \in Int
  <2> SUFFICES ASSUME NEW i \in 1 .. n
               PROVE  /\ Pages(Area(program.ph[i])) \subseteq Page
                      /\ Area(program.ph[i]).end <= STACK.start
                      /\ Area(program.ph[i]).end \in Int
    OBVIOUS
  <2> DEFINE k == n + 1
  <2>1. i \in DOMAIN Areas(program) /\ k \in DOMAIN Areas(program) /\ i < k
    BY <1>3, <1>5
  <2>2. Areas(program)[i] = Area(program.ph[i]) /\ Areas(program)[k] = STACK
    BY <1>3
  <2> HIDE DEF k
  <2>3. /\ Pages(Areas(program)[i]) \subseteq Page
        /\ Areas(program)[i].end <= Areas(program)[k].start
    BY <1>3, <2>1, ProgramsAssumption
  <2>4. i \in 1 .. Len(program.ph)
    OBVIOUS
  <2>5. program.ph[i] \in R
    BY <1>3, <2>4, PartsAre
  <2>6. Area(program.ph[i]).end \in Int
    BY <2>5, AddressSpaceAssumption DEF Area
  <2> QED BY <2>2, <2>3, <2>6
<1>9. ASSUME NEW w \in B
      PROVE  w \in Page /\ w < STACK.start
  <2>1. PICK i \in 1 .. n : w \in PagesLoaded(program.ph[i])
    BY <1>5, <1>6, <1>9
  <2>2. w \in Pages(Area(program.ph[i]))
    BY <2>1 DEF PagesLoaded
  <2>3. w \in Page
    BY <1>8, <2>2
  <2>4. w \in Int /\ w <= Area(program.ph[i]).end - 1
    BY <1>8, <2>2, <2>3 DEF Pages, Page
  <2> QED BY <1>2, <1>8, <2>3, <2>4
<1>10. StackLoaded \subseteq Page
  <2>1. StackLoaded \subseteq Pages(STACK)
    BY <1>2 DEF StackLoaded, Pages
  <2> QED BY <1>3, <2>1
<1>11. PagesOf(program) \in SUBSET Page
  BY <1>7, <1>9, <1>10
<1>12. la .. STACK.end - 1 \subseteq StackLoaded
  BY <1>1, <1>2 DEF StackLoaded
<1>13. la - 1 \notin HasPage
  <2>1. la - 1 \notin B
    BY <1>1, <1>2, <1>9
  <2>2. la - 1 \notin la .. STACK.end - 1
    BY <1>1, <1>2
  <2> QED BY <1>4, <2>1, <2>2
<1> QED BY <1>1, <1>3, <1>4, <1>7, <1>11, <1>12, <1>13

\* Everything that is in use serves the program.
LEMMA ShortOfPages ==
  ASSUME MemInv, ImageInv, UsedOK, KstackOK, pc = "stack", la > STACK.end - STACKPAGES,
         AllocPageFails(la - 1)
  PROVE  Cardinality(given \ lost) < Enough(program)
<1> DEFINE v == la - 1
           P == PagesOf(program)
           H == HasPage
           K == kstack \cup root
           A == free \cup K
           F == A \cup tables
<1>1. P \in SUBSET Page /\ H \subseteq P /\ v \in P /\ v \in Page /\ v \notin H
  BY StackPageIsNew
<1>2. TreeInv /\ Accounts /\ Used /\ free \in SUBSET Frame /\ given \subseteq Frame
  BY DEF MemInv, UsedOK, TreeInv, TablesTypeOK, PlaceOK, KindsOK
<1>3. given \ lost = F \cup Own
  BY <1>2 DEF Accounts
<1>4. IsFiniteSet(free) /\ Cardinality(free) <= Missing(v) /\ Missing(v) \in Nat
  BY <1>1, <1>2, FailsIsShort
<1>5. IsFiniteSet(Frame)
  <2>1. 1 \in Int /\ NFRAME \in Int
    BY PageTableAssumption
  <2> QED BY <2>1, FS_Interval DEF Frame
<1>6. IsFiniteSet(kstack) /\ Cardinality(kstack) = KSTACKPAGE
  <2>1. kstack \subseteq Frame
    BY <1>2 DEF Accounts
  <2> QED BY <1>5, <2>1, FS_Subset DEF KstackOK
<1>7. IsFiniteSet(root) /\ Cardinality(root) <= 1
  <2>1. root # {} /\ \A r, s \in root : r = s
    BY DEF MemInv, SatpInv, Rooted
  <2>2. PICK r \in root : root = {r}
    BY <2>1
  <2>3. IsFiniteSet({r}) /\ Cardinality({r}) = 1
    BY FS_Singleton
  <2> QED BY <2>2, <2>3
<1>8. /\ IsFiniteSet(tables)
      /\ Cardinality(tables) <= Cardinality(DirsOf(H)) + Cardinality(TabsOf(H))
  BY <1>2, TablesCounted
<1>9. IsFiniteSet(Own) /\ Cardinality(Own) <= Cardinality(H)
  BY OwnCounted
<1>10. /\ IsFiniteSet(P) /\ Cardinality(P) \in Nat /\ Cardinality(DirsOf(P)) \in Nat
       /\ Cardinality(TabsOf(P)) \in Nat
  BY <1>1, PagesAreFinite
<1>11. /\ Cardinality(H) \in Nat /\ Cardinality(DirsOf(H)) \in Nat
       /\ Cardinality(TabsOf(H)) \in Nat
  BY PagesAreFinite DEF HasPage
<1>12. Cardinality(H) + 1 <= Cardinality(P)
  BY <1>1, <1>10, OneMore
<1>13. Cardinality(DirsOf(H)) + Cardinality(TabsOf(H)) + Missing(v)
         <= Cardinality(DirsOf(P)) + Cardinality(TabsOf(P))
  BY <1>1, MissingIsNew
<1>14. Enough(program)
         = KSTACKPAGE + 1 + Cardinality(P) + Cardinality(DirsOf(P)) + Cardinality(TabsOf(P))
  BY DEF Enough, DirsOf, TabsOf
<1>15. KSTACKPAGE \in Nat
  BY AddressSpaceAssumption
<1> DEFINE h == Cardinality(H)
           t == Cardinality(DirsOf(H)) + Cardinality(TabsOf(H))
           m == Missing(v)
           c == Cardinality(DirsOf(P)) + Cardinality(TabsOf(P))
           p == Cardinality(P)
<1>16. /\ h \in Nat /\ t \in Nat /\ m \in Nat /\ c \in Nat /\ p \in Nat
       /\ h + 1 <= p /\ t + m <= c
       /\ Enough(program) = KSTACKPAGE + 1 + p + c
  <2> HIDE DEF H, P, v
  <2>1. \A a, b, x, k \in Nat : k + 1 + a + b + x = k + 1 + a + (b + x)
    OBVIOUS
  <2> QED BY <1>4, <1>10, <1>11, <1>12, <1>13, <1>14, <1>15, <2>1
<1>17. /\ Cardinality(free) <= m /\ Cardinality(kstack) <= KSTACKPAGE /\ Cardinality(root) <= 1
       /\ Cardinality(tables) <= t /\ Cardinality(Own) <= h
  BY <1>4, <1>6, <1>7, <1>8, <1>9, <1>15
<1> HIDE DEF h, t, m, c, p, H, P, v
<1>18. IsFiniteSet(K) /\ Cardinality(K) <= KSTACKPAGE + 1
  BY <1>6, <1>7, <1>15, <1>17, AtMostSum
<1> DEFINE k1 == KSTACKPAGE + 1
<1>19. k1 \in Nat /\ Cardinality(K) <= k1
  BY <1>15, <1>18
<1> HIDE DEF K, k1
<1>20. IsFiniteSet(A) /\ Cardinality(A) <= m + k1
  BY <1>4, <1>16, <1>17, <1>18, <1>19, AtMostSum
<1> DEFINE k2 == m + k1
<1>21. k2 \in Nat /\ Cardinality(A) <= k2
  BY <1>16, <1>19, <1>20
<1> HIDE DEF A, k2
<1>22. IsFiniteSet(F) /\ Cardinality(F) <= k2 + t
  BY <1>8, <1>16, <1>17, <1>20, <1>21, AtMostSum
<1> DEFINE k3 == k2 + t
<1>23. k3 \in Nat /\ Cardinality(F) <= k3
  BY <1>16, <1>21, <1>22
<1> HIDE DEF F, k3
<1>24. IsFiniteSet(F \cup Own) /\ Cardinality(F \cup Own) <= k3 + h
  BY <1>9, <1>16, <1>17, <1>22, <1>23, AtMostSum
<1>25. Cardinality(F \cup Own) \in Nat
  BY <1>24, FS_CardinalityType
<1>26. k3 + h < KSTACKPAGE + 1 + p + c
  BY <1>15, <1>16 DEF k1, k2, k3
<1>27. Cardinality(F \cup Own) < Enough(program)
  BY <1>15, <1>16, <1>23, <1>24, <1>25, <1>26
<1> QED BY <1>3, <1>27

LEMMA PanicStays ==
  ASSUME MemInv, ImageInv, ShortInv, [Next]_vars
  PROVE  PanicsOnlyWhenShort'
<1>a. LoadAt /\ CountOK /\ CallOK /\ UsedOK /\ KstackOK /\ PanicsOnlyWhenShort
  BY DEF MemInv, LoopOK, PlaceOK, ShortInv
<1>e. pc' # "panic" => PanicsOnlyWhenShort'
  BY DEF PanicsOnlyWhenShort
<1>1. CASE UNCHANGED vars
  BY <1>a, <1>1 DEF vars, PanicsOnlyWhenShort, Enough, PagesOf
<1>2. CASE AllocProc
  BY <1>e, <1>2 DEF AllocProc, Goto
<1>3. CASE SetupKstack
  BY <1>e, <1>3 DEF SetupKstack, Goto
<1>4. CASE MmCreate
  BY <1>e, <1>4 DEF MmCreate, Goto
<1>5. CASE SetupPgdir
  BY <1>e, <1>5 DEF SetupPgdir, Goto, BadPgdirCleanupMm
<1>6. CASE DupArea
  BY <1>e, <1>6 DEF DupArea, Goto
<1>7. CASE CopyRange
  BY <1>e, <1>7 DEF CopyRange, Goto
<1>8. CASE CopyRangeEnds
  BY <1>e, <1>8 DEF CopyRangeEnds, Goto
<1>9. CASE GoodMm
  BY <1>e, <1>9 DEF GoodMm, Goto
<1>10. CASE SetLinks
  BY <1>e, <1>10 DEF SetLinks, Goto
<1>11. CASE ProcRun
  BY <1>e, <1>11 DEF ProcRun, Goto
<1>12. CASE SwitchedOut
  BY <1>e, <1>12 DEF SwitchedOut, Goto
<1>13. CASE Pgfault
  BY <1>e, <1>13 DEF Pgfault, Goto
<1>14. CASE Execve
  BY <1>e, <1>14 DEF Execve, SatpBoot, CountLess, Goto
<1>15. CASE DoExit
  BY <1>e, <1>15 DEF DoExit, Goto, SatpBoot, CountLess
<1>16. CASE Header
  BY <1>e, <1>16 DEF Header, Goto
<1>17. CASE LoadText
  BY <1>e, <1>17 DEF LoadText, Goto, LoadPage
<1>18. CASE LoadTail
  <2> DEFINE size == PGSIZE - (start + PGSIZE - la) - (IF MemEnd < la THEN la - MemEnd ELSE 0)
             to == start + size
  <2>1. /\ pc = "load" /\ start >= FileEnd /\ start < la /\ start < MemEnd
        /\ start' = to
        /\ IF (MemEnd < la /\ start' = MemEnd) \/ (MemEnd >= la /\ start' = la)
           THEN UNCHANGED <<pc, call>> ELSE Goto("panic")
    BY <1>18 DEF LoadTail
  <2>2. /\ at \in 1 .. Len(program.ph) /\ start \in Int
        /\ \E k \in Area(ph).start .. Area(ph).end : la = k * PGSIZE
    BY <1>a, <2>1 DEF LoadAt
  <2>3. /\ ph.va \in Nat /\ ph.filesz \in Nat /\ ph.memsz \in Nat
        /\ Area(ph).start \in Nat /\ Area(ph).end \in Nat
    BY <2>1, <2>2, HeaderIs
  <2>4. la \in Int /\ MemEnd \in Int /\ PGSIZE \in Int
    BY <2>2, <2>3, AddressSpaceAssumption DEF MemEnd
  <2>5. to = IF MemEnd < la THEN MemEnd ELSE la
    BY <2>2, <2>4
  <2> HIDE DEF to, size
  <2>6. (MemEnd < la /\ start' = MemEnd) \/ (MemEnd >= la /\ start' = la)
    BY <2>1, <2>4, <2>5
  <2>7. pc' = pc
    BY <2>1, <2>6
  <2> QED BY <1>e, <2>1, <2>7
<1>19. CASE LoadBss
  BY <1>e, <1>19 DEF LoadBss, Goto, LoadPage
<1>20. CASE HeaderEnds
  BY <1>e, <1>20 DEF HeaderEnds, Goto
<1>21. CASE LoadStack
  BY <1>e, <1>21 DEF LoadStack, Goto
<1>22. CASE StackPage
  <2>1. CASE AllocPage(la - 1) /\ UNCHANGED <<pc, call>>
    BY <1>e, <1>22, <2>1 DEF StackPage
  <2>2. CASE AllocPageFails(la - 1) /\ Goto("panic")
    <3>1. /\ pc = "stack" /\ la > STACK.end - STACKPAGES
          /\ UNCHANGED <<call, program, given, lost>>
      BY <1>22, <2>2 DEF StackPage, Goto, setting
    <3>2. call = "load"
      BY <1>a, <3>1 DEF CallOK
    <3>3. Cardinality(given \ lost) < Enough(program)
      BY <1>a, <2>2, <3>1, ShortOfPages
    <3>4. Enough(program)' = Enough(program)
      BY <3>1 DEF Enough, PagesOf
    <3>5. Cardinality(given' \ lost') < Enough(program')
      BY <3>1, <3>3
    <3> QED BY <3>1, <3>2, <3>5 DEF PanicsOnlyWhenShort
  <2> QED BY <1>22, <2>1, <2>2 DEF StackPage
<1>23. CASE Loaded
  BY <1>e, <1>23 DEF Loaded, Goto
<1>24. CASE ExitMmap
  <2>1. pc = "exit_mmap" /\ mm_count = 0
    BY <1>a, <1>24 DEF ExitMmap, CountOK
  <2>2. pc' = pc \/ pc' = "put_pgdir"
    BY <1>24, <2>1 DEF ExitMmap, Goto
  <2> QED BY <1>e, <2>1, <2>2
<1>25. CASE PutPgdir
  BY <1>e, <1>25 DEF PutPgdir, Goto
<1>26. CASE MmDestroy
  BY <1>e, <1>26 DEF MmDestroy, Goto
<1>27. CASE BadForkCleanupKstack
  BY <1>e, <1>27 DEF BadForkCleanupKstack, Goto
<1>28. CASE BadForkCleanupProc
  BY <1>e, <1>28 DEF BadForkCleanupProc, Goto, Clean
<1>29. CASE DoWait
  BY <1>e, <1>29 DEF DoWait, Goto, Clean
<1> QED
  BY <1>1, <1>2, <1>3, <1>4, <1>5, <1>6, <1>7, <1>8, <1>9, <1>10, <1>11, <1>12, <1>13, <1>14,
     <1>15, <1>16, <1>17, <1>18, <1>19, <1>20, <1>21, <1>22, <1>23, <1>24, <1>25, <1>26,
     <1>27, <1>28, <1>29
  DEF Next, KernelStep, Fork, Load, Cleanup

\* load_icode stops the kernel only where memory does not suffice, whatever the
\* program and however long the kernel has run; and no assertion fails elsewhere.
THEOREM PanicsCorrect == Spec => []PanicsOnlyWhenShort
<1> DEFINE Inv == MemInv /\ ImageInv /\ ShortInv
<1>1. Init => Inv
  <2>1. Init => MemInv
    BY MemInitHolds
  <2>2. Init => ImageInv
    BY DEF Init, ImageInv, Bytes, NoneYet, ImageAt, HeaderImage, PartImage, StackImage, RunImage
  <2>3. Init => ShortInv
    BY DEF Init, ShortInv, UsedOK, KstackOK, PanicsOnlyWhenShort
  <2> QED BY <2>1, <2>2, <2>3
<1>2. Inv /\ [Next]_vars => Inv'
  <2> SUFFICES ASSUME Inv, [Next]_vars
               PROVE  Inv'
    OBVIOUS
  <2>1. MemInv' /\ ImageInv'
    BY MemInvStays, ImageInvStays
  <2>2. UsedOK' /\ KstackOK'
    BY UsedStays, KstackStays DEF ShortInv
  <2>3. PanicsOnlyWhenShort'
    BY PanicStays
  <2> QED BY <2>1, <2>2, <2>3 DEF ShortInv
<1>3. Inv => PanicsOnlyWhenShort
  BY DEF ShortInv
<1> HIDE DEF Inv
<1> QED BY <1>1, <1>2, <1>3, PTL DEF Spec
=============================================================================
