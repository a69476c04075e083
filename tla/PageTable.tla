----------------------------- MODULE PageTable ------------------------------
(***************************************************************************)
(* The page tables of one address space, kern/mm/pmm.c: the page directory *)
(* leads to level-0 directories, these to page tables, and these to pages. *)
(* All three are pages of memory.  Directories and tables are made by      *)
(* get_pte on the way to a page, and given back by exit_range when the     *)
(* address space goes.                                                     *)
(*                                                                         *)
(* Pages of user memory are counted from 0, and entries from 0 in every    *)
(* directory and table.  The calls that map pages and that tear the        *)
(* address space down, and the page of the page directory itself, are in   *)
(* AddressSpace.                                                           *)
(***************************************************************************)
EXTENDS Integers, Sequences, FiniteSetsExt

CONSTANTS NPDEENTRY,  \* entries of the page directory
          NPTEENTRY,  \* entries of a level-0 directory, and of a page table
          NFRAME      \* pages of memory

ASSUME PageTableAssumption ==
  NPDEENTRY \in Nat \ {0} /\ NPTEENTRY \in Nat \ {0} /\ NFRAME \in Nat

VARIABLES
  areas,   \* the areas of the address space, in order
  pgdir,   \* the page directory: None, or the level-0 directory of an entry
  table,   \* what a directory or a table holds
  free,    \* the pages of memory that nobody holds
  tables,  \* the pages given to directories and tables
  short,   \* get_pte has made a directory and then got no page for a table
  done     \* how many areas the loops of exit_mmap have come to

treeVars == <<areas, pgdir, table, free, tables, short, done>>

None == 0
Frame == 1 .. NFRAME
Entry == 0 .. NPTEENTRY - 1
Empty == [e \in Entry |-> None]
Page == 0 .. NPDEENTRY * NPTEENTRY * NPTEENTRY - 1

\* The page that the parent process has at an address.  These are counted
\* behind the others; a mapping of the child does not own them.
ParentPage(la) == NFRAME + 1 + la
Shared == {ParentPage(la) : la \in Page}

PTX(la) == la % NPTEENTRY
PDX0(la) == (la \div NPTEENTRY) % NPTEENTRY
PDX1(la) == la \div (NPTEENTRY * NPTEENTRY)

Pages(area) == area.start .. area.end - 1
Mine == UNION {Pages(areas[i]) : i \in DOMAIN areas}

-----------------------------------------------------------------------------
\* get_pte without create, as far as the table: none or one.
TableOf(la) ==
  {table[pd][PDX0(la)] : pd \in {pgdir[PDX1(la)]} \ {None}} \ {None}

\* The page that an address is mapped to: none or one.
PageAt(la) == {table[pt][PTX(la)] : pt \in TableOf(la)} \ {None}
Mapped == UNION {PageAt(la) : la \in Page}

\* alloc_page gives the first free page.
Lowest(S) == Min(S)

\* How many pages get_pte needs.
Missing(la) == IF pgdir[PDX1(la)] = None THEN 2 ELSE IF TableOf(la) = {} THEN 1 ELSE 0

\* page_insert of a page, when `left' is free: the directory and the table are
\* made if they are missing, and the page that was mapped before is freed unless
\* the parent has it too.
PageInsert(la, page, left) ==
  LET pd == IF pgdir[PDX1(la)] # None THEN pgdir[PDX1(la)] ELSE Lowest(left)
      pt == IF TableOf(la) # {} THEN table[pd][PDX0(la)] ELSE Lowest(left \ {pd})
      old(f) == IF f \in tables THEN table[f] ELSE Empty
  IN  /\ Cardinality(left) >= Missing(la)
      /\ pgdir' = [pgdir EXCEPT ![PDX1(la)] = pd]
      /\ table' = [table EXCEPT ![pd] = [old(pd) EXCEPT ![PDX0(la)] = pt],
                                ![pt] = [old(pt) EXCEPT ![PTX(la)] = page]]
      /\ tables' = tables \cup {pd, pt}
      /\ free' = (left \ {pd, pt}) \cup (PageAt(la) \ Shared)
      /\ UNCHANGED short

\* page_insert without the pages it needs.  When there was one for the directory
\* it stays.
PageInsertFails(la, left) ==
  /\ Cardinality(left) < Missing(la)
  /\ IF Cardinality(left) = 1 /\ Missing(la) = 2
     THEN LET pd == Lowest(left)
          IN  /\ pgdir' = [pgdir EXCEPT ![PDX1(la)] = pd]
              /\ table' = [table EXCEPT ![pd] = Empty]
              /\ tables' = tables \cup {pd}
              /\ free' = free \ {pd}
              /\ short' = TRUE
     ELSE UNCHANGED <<pgdir, table, tables, free, short>>

\* pgdir_alloc_page, and do_pgfault of a shared page: the new page is allocated
\* first, and freed again when it cannot be inserted.
AllocPage(la) ==
  /\ free # {}
  /\ PageInsert(la, Lowest(free), free \ {Lowest(free)})
AllocPageFails(la) ==
  \/ free = {} /\ UNCHANGED <<pgdir, table, tables, free, short>>
  \/ free # {} /\ PageInsertFails(la, free \ {Lowest(free)})

-----------------------------------------------------------------------------
\* The addresses that unmap_range comes to: it steps over tables that are missing.
ComesTo(area) == Pages(area)

Unmapped(area) == UNION {PageAt(la) : la \in ComesTo(area)}

UnmapRange(area) ==
  /\ table' = [f \in Frame |->
       IF f \in tables THEN [e \in Entry |->
         IF \E la \in ComesTo(area) : f \in TableOf(la) /\ e = PTX(la) THEN None
         ELSE table[f][e]]
       ELSE table[f]]
  /\ free' = free \cup (Unmapped(area) \ Shared)
  /\ UNCHANGED <<areas, pgdir, tables, short>>

\* exit_range, in each level-0 directory of the range, looks at the entries of
\* the range.  The tables behind them that are empty are freed; the directory is
\* freed if all these entries were valid.
Looked(area, d1) == {PDX0(la) : la \in {a \in Pages(area) : PDX1(a) = d1}}
EmptyTables(area, d1) ==
  {table[pgdir[d1]][e] : e \in Looked(area, d1)} \cap {f \in tables : table[f] = Empty}
FreesDirectory(area, d1) == None \notin {table[pgdir[d1]][e] : e \in Looked(area, d1)}

\* The entries of the page directory whose directories are freed.
FreedDirectories(area) ==
  {d1 \in DOMAIN pgdir : /\ Looked(area, d1) # {} /\ pgdir[d1] # None
                         /\ FreesDirectory(area, d1)}

\* What the page directory is left with.
EntryAfter(d1, area) == IF d1 \in FreedDirectories(area) THEN None ELSE pgdir[d1]

ExitRange(area) ==
  LET emptied == UNION {EmptyTables(area, d1) : d1 \in {e \in DOMAIN pgdir : pgdir[e] # None}}
      gone == emptied \cup {pgdir[d1] : d1 \in FreedDirectories(area)}
  IN  /\ pgdir' = [d1 \in DOMAIN pgdir |-> EntryAfter(d1, area)]
      /\ table' = [f \in Frame |->
           IF \E d1 \in DOMAIN pgdir : f = pgdir[d1] /\ f # None
           THEN [e \in Entry |-> IF table[f][e] \in emptied THEN None ELSE table[f][e]]
           ELSE table[f]]
      /\ free' = free \cup gone /\ tables' = tables \ gone
      /\ UNCHANGED <<areas, short>>

-----------------------------------------------------------------------------
\* exit_mmap: unmap_range of all areas, and then exit_range of all.
ExitMmapStep ==
  LET n == Len(areas)
  IN  /\ done < 2 * n
      /\ done' = done + 1
      /\ IF done < n THEN UnmapRange(areas[done + 1]) ELSE ExitRange(areas[done - n + 1])
ExitMmapDone == done = 2 * Len(areas)

\* An address space without areas or pages.
NoTables ==
  /\ areas = <<>> /\ pgdir = [d1 \in 0 .. NPDEENTRY - 1 |-> None]
  /\ table = [f \in Frame |-> Empty]
  /\ tables = {} /\ short = FALSE /\ done = 0
ForgetTables ==
  /\ areas' = <<>> /\ pgdir' = [d1 \in 0 .. NPDEENTRY - 1 |-> None]
  /\ table' = [f \in Frame |-> Empty]
  /\ tables' = {} /\ short' = FALSE /\ done' = 0

-----------------------------------------------------------------------------
\* The types of the variables.
TablesTypeOK ==
  /\ pgdir \in [0 .. NPDEENTRY - 1 -> Frame \cup {None}]
  /\ table \in [Frame -> [Entry -> Frame \cup Shared \cup {None}]]
  /\ free \subseteq Frame /\ tables \subseteq Frame
  /\ short \in BOOLEAN /\ done \in 0 .. 2 * Len(areas)

\* What the directories lead to is in use, each page for one purpose: exit_range
\* leaves no way to a page that it has freed.
Directories == {pgdir[d1] : d1 \in DOMAIN pgdir} \ {None}
TablesApart ==
  /\ \A d, e \in DOMAIN pgdir : d # e => pgdir[d] = None \/ pgdir[d] # pgdir[e]
  /\ Directories \cup UNION {TableOf(la) : la \in Page} \subseteq tables
  /\ tables \cap free = {}
  /\ \A la \in Page : PageAt(la) \cap (free \cup tables) = {}
  /\ \A la, lb \in Page : la # lb => PageAt(la) \cap PageAt(lb) = {}

\* The areas that share a level-0 directory also share a table, and get_pte was
\* never cut short: as with this kernel's own programs, whose text and data lie
\* in one table and whose stack in another directory.
Tidy ==
  /\ ~short
  /\ \A la, lb \in Mine : PDX1(la) = PDX1(lb) => PDX0(la) = PDX0(lb)
=============================================================================
