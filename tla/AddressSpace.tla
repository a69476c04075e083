---------------------------- MODULE AddressSpace ----------------------------
(***************************************************************************)
(* The memory of one process from do_fork to do_wait: its proc_struct,     *)
(* kernel stack, mm_struct, page directory, tables and pages, built by     *)
(* do_fork and copy_mm or by do_execve and load_icode, and given back by   *)
(* do_exit, by do_wait and by the error paths of the others                *)
(* (kern/process/proc.c).  Every allocation may fail: pages run out, and   *)
(* the heap may have no object to give.                                    *)
(*                                                                         *)
(* A step is what the code does between two allocations; `pc' is the place *)
(* in the code, named for its label where it has one, and `call' what the  *)
(* kernel does.  The parent is the kernel thread that becomes the first    *)
(* program, or a process that has loaded one; it keeps its pages.  All     *)
(* areas are writable, the processes that run in between are not followed, *)
(* and heap objects do not take pages from this process's: the heap has    *)
(* pages of its own.                                                       *)
(***************************************************************************)
EXTENDS PageTable

CONSTANTS PGSIZE,      \* bytes in a page
          KSTACKPAGE,  \* pages in a kernel stack
          STACK,       \* the area of the user stack, and how many pages of it
          STACKPAGES,  \* load_icode allocates
          Programs     \* the ELF files: [elf: the magic number is right,
                       \* ph: its program headers, in order]

ASSUME AddressSpaceAssumption ==
  /\ PGSIZE \in Nat \ {0} /\ KSTACKPAGE \in Nat \ {0}
  /\ STACKPAGES \in Nat /\ STACK.end - STACK.start >= STACKPAGES

VARIABLES
  pc, call,
  from,     \* the program of the parent; NoProgram for a kernel thread, or
            \* when the process has its own
  program,  \* the program that is loaded or was loaded last
  given,    \* the pages that were free at the start,
  lost,     \* and those of them that nobody will ever free
  proc,     \* the proc_struct is there
  kstack,   \* the pages of the kernel stack
  mm,       \* the mm_struct is there
  mm_count,
  root,     \* the page of the page directory: none or one
  procPgdir,  \* proc->pgdir
  satp,     \* the page directory the hart uses
  at,       \* the area or program header the loop has come to, from 1
  start, la,  \* load_icode's variables; la is copy_range's start too
  image     \* what the bytes of user memory hold that load_icode has written

vars == <<treeVars, pc, call, from, program, given, lost, proc, kstack, mm, mm_count,
          root, procPgdir, satp, at, start, la, image>>

loop == <<at, start, la, image>>
mine == <<proc, kstack, mm, mm_count, root>>
setting == <<from, program, given, lost>>

Boot == None   \* boot_pgdir
Others == -1   \* the page directory of the process that runs instead
NoProgram == [elf |-> FALSE, ph |-> <<>>]

Goto(place) == pc' = place /\ UNCHANGED call

-----------------------------------------------------------------------------
(* Programs.  A header says where p_filesz bytes of the file go, and that  *)
(* they are followed by zeros up to p_memsz.                               *)

Area(ph) == [start |-> ph.va \div PGSIZE,
             end   |-> (ph.va + ph.memsz + PGSIZE - 1) \div PGSIZE]

\* The areas of a program that has been loaded, in the order of addresses.
Areas(prog) == [i \in DOMAIN prog.ph |-> Area(prog.ph[i])] \o <<STACK>>

\* Of other programs mm_map refuses a part, or insert_vma_struct stops the kernel.
ASSUME ProgramsAssumption ==
  /\ Programs \subseteq [elf : BOOLEAN, ph : Seq([va : Nat, filesz : Nat, memsz : Nat])]
  /\ STACK \in [start : Nat, end : Nat]
  /\ \A prog \in Programs : \A i, j \in DOMAIN Areas(prog) :
       /\ Areas(prog)[i].start < Areas(prog)[i].end /\ Pages(Areas(prog)[i]) \subseteq Page
       /\ i < j => Areas(prog)[i].end <= Areas(prog)[j].start

StackLoaded == STACK.end - STACKPAGES .. STACK.end - 1

\* The pages that are loaded; a part without bytes has an area, but no page.
PagesLoaded(header) == IF header.memsz = 0 THEN {} ELSE Pages(Area(header))
PagesOf(prog) == StackLoaded \cup UNION {PagesLoaded(prog.ph[i]) : i \in DOMAIN prog.ph}

Valid(prog) == prog.elf /\ \A i \in DOMAIN prog.ph : prog.ph[i].filesz <= prog.ph[i].memsz

\* Bytes: junk, zero, and the k-th byte of what the file has for a header.
Junk == -1
FileByte(k) == k + 1
NoImage == [b \in 0 .. (NPDEENTRY * NPTEENTRY * NPTEENTRY * PGSIZE) - 1 |-> Junk]

-----------------------------------------------------------------------------
(* do_fork                                                                 *)

AllocProc ==
  /\ pc = "none" /\ lost = {}
  /\ from' \in {p \in Programs : Valid(p)} \cup {NoProgram}
  /\ proc' = TRUE /\ procPgdir' = Boot
  /\ satp' = IF from' = NoProgram THEN Boot ELSE Others
  /\ pc' = "setup_kstack" /\ call' = "fork"
  /\ UNCHANGED <<treeVars, program, given, lost, kstack, mm, mm_count, root, loop>>

\* alloc_pages: the first KSTACKPAGE free pages in a row.
Rows == {f \in free : f .. f + KSTACKPAGE - 1 \subseteq free}

SetupKstack ==
  /\ pc = "setup_kstack"
  /\ \/ /\ Rows # {}
        /\ kstack' = Lowest(Rows) .. Lowest(Rows) + KSTACKPAGE - 1
        /\ free' = free \ kstack'
        /\ Goto(IF from = NoProgram THEN "set_links" ELSE "mm_create")
     \/ /\ Rows = {} /\ UNCHANGED <<kstack, free>>
        /\ Goto("bad_fork_cleanup_proc")
  /\ UNCHANGED <<areas, pgdir, table, tables, short, done, setting, proc, mm, mm_count,
                 root, procPgdir, satp, loop>>

\* copy_mm and load_icode begin in the same way.  Without an mm the first goes
\* to do_fork's label, and after the second do_execve exits.
MmCreate ==
  /\ pc = "mm_create"
  /\ \/ mm' = TRUE /\ Goto("setup_pgdir") /\ UNCHANGED satp
     \/ /\ mm' = FALSE
        /\ IF call = "fork" THEN Goto("bad_fork_cleanup_kstack") /\ UNCHANGED satp
           ELSE Goto("zombie") /\ satp' = Others
  /\ UNCHANGED <<treeVars, setting, proc, kstack, mm_count, root, procPgdir, loop>>

\* Where both go without a page directory.
BadPgdirCleanupMm == "mm_destroy"

SetupPgdir ==
  /\ pc = "setup_pgdir"
  /\ \/ /\ free # {} /\ root' = {Lowest(free)} /\ free' = free \ root'
        /\ \/ call = "fork" /\ Goto("dup_mmap") /\ at' = Len(Areas(from))
           \/ call = "load" /\ program.elf /\ Goto("header") /\ at' = 1
           \/ call = "load" /\ ~program.elf /\ Goto("put_pgdir") /\ at' = at
     \/ free = {} /\ Goto(BadPgdirCleanupMm) /\ UNCHANGED <<root, free, at>>
  /\ UNCHANGED <<areas, pgdir, table, tables, short, done, setting, proc, kstack, mm, mm_count,
                 procPgdir, satp, start, la, image>>

\* dup_mmap, from the last area to the first.
DupArea ==
  /\ pc = "dup_mmap" /\ at > 0
  /\ \/ /\ areas' = <<Areas(from)[at]>> \o areas
        /\ la' = Areas(from)[at].start /\ Goto("copy_range")
     \/ UNCHANGED <<areas, la>> /\ Goto("exit_mmap")
  /\ UNCHANGED <<pgdir, table, free, tables, short, done, setting, mine, procPgdir, satp,
                 at, start, image>>

\* Where copy_range goes on.  Fault: the same page again.
NextPageSame(v) == v
NextPage(v) == v + 1

\* A page of the parent is mapped for the child as well; what the parent has
\* not mapped is passed over.
CopyRange ==
  /\ pc = "copy_range" /\ la < Areas(from)[at].end
  /\ \/ la \notin PagesOf(from) /\ UNCHANGED <<pgdir, table, tables, free, short, pc, call>>
     \/ /\ la \in PagesOf(from) /\ PageInsert(la, ParentPage(la), free)
        /\ UNCHANGED <<pc, call>>
     \/ /\ la \in PagesOf(from) /\ PageInsertFails(la, free)
        /\ Goto("exit_mmap")
  /\ la' = NextPage(la)
  /\ UNCHANGED <<areas, done, setting, mine, procPgdir, satp, at, start, image>>
CopyRangeEnds ==
  /\ pc = "copy_range" /\ la = Areas(from)[at].end
  /\ at' = at - 1 /\ Goto("dup_mmap")
  /\ UNCHANGED <<treeVars, setting, mine, procPgdir, satp, start, la, image>>

\* The label good_mm.
GoodMm ==
  /\ pc = "dup_mmap" /\ at = 0
  /\ mm_count' = mm_count + 1 /\ \E r \in root : procPgdir' = r
  /\ Goto("set_links")
  /\ UNCHANGED <<treeVars, setting, proc, kstack, mm, root, satp, loop>>

SetLinks ==
  /\ pc = "set_links"
  /\ pc' = "ready" /\ call' = "none"
  /\ UNCHANGED <<treeVars, setting, mine, procPgdir, satp, loop>>

-----------------------------------------------------------------------------
(* The process runs.                                                       *)

ProcRun ==
  /\ pc = "ready" /\ pc' = "running" /\ satp' = procPgdir
  /\ UNCHANGED <<treeVars, call, setting, mine, procPgdir, loop>>
SwitchedOut ==
  /\ pc = "running" /\ pc' = "ready" /\ satp' = Others
  /\ UNCHANGED <<treeVars, call, setting, mine, procPgdir, loop>>

\* do_pgfault on a page shared with the parent.  Without memory the process is
\* made to exit, which it may do anyway.
Pgfault ==
  /\ pc = "running"
  /\ \E v \in Mine :
       /\ PageAt(v) # {} /\ PageAt(v) \subseteq Shared
       /\ AllocPage(v)
  /\ UNCHANGED <<areas, done, pc, call, setting, mine, procPgdir, satp, loop>>

\* mm_count_dec of the last user of the mm.  Fault: it is left out.
CountKept(n) == n
CountLess(n) == n - 1

\* The page directory to use while the old one goes.  Fault: it stays in use.
SatpKept == satp
SatpBoot == Boot

\* do_execve gives the old memory up first.
Execve ==
  /\ pc = "running"
  /\ program' \in Programs /\ from' = NoProgram
  /\ IF mm THEN /\ satp' = SatpBoot /\ mm_count' = CountLess(mm_count)
                /\ pc' = "exit_mmap" /\ call' = "execve"
           ELSE /\ pc' = "mm_create" /\ call' = "load" /\ UNCHANGED <<satp, mm_count>>
  /\ image' = NoImage
  /\ UNCHANGED <<treeVars, given, lost, proc, kstack, mm, root, procPgdir, at, start, la>>

DoExit ==
  /\ pc = "running"
  /\ IF mm THEN /\ satp' = SatpBoot /\ mm_count' = CountLess(mm_count)
                /\ pc' = "exit_mmap" /\ call' = "exit"
           ELSE pc' = "zombie" /\ satp' = Others /\ UNCHANGED <<mm_count, call>>
  /\ UNCHANGED <<treeVars, setting, proc, kstack, mm, root, procPgdir, loop>>

-----------------------------------------------------------------------------
(* load_icode                                                              *)

ph == program.ph[at]
FileEnd == ph.va + ph.filesz
MemEnd == ph.va + ph.memsz

\* One program header: its area.
Header ==
  /\ pc = "header" /\ at <= Len(program.ph)
  /\ \/ ph.filesz > ph.memsz /\ UNCHANGED <<areas, start, la>> /\ Goto("exit_mmap")
     \/ /\ ph.filesz <= ph.memsz
        /\ \/ areas' = Append(areas, Area(ph)) /\ Goto("load")
           \/ UNCHANGED areas /\ Goto("exit_mmap")
        /\ start' = ph.va /\ la' = Area(ph).start * PGSIZE
  /\ UNCHANGED <<pgdir, table, free, tables, short, done, setting, mine, procPgdir, satp,
                 at, image>>

\* How many bytes of the page at la are wanted, from offset off up to end.
\* Fault: all that is left of the page.
PartToThePageEnd(off, end) == PGSIZE - off
Part(off, end) ==
  PGSIZE - off - (IF end < la + PGSIZE THEN la + PGSIZE - end ELSE 0)

Filled(size, Value(_)) ==
  [b \in DOMAIN image |-> IF b \in start .. start + size - 1 THEN Value(b) ELSE image[b]]

\* A page with bytes of the file, or with zeros.
LoadPage(end, Value(_)) ==
  \/ /\ AllocPage(la \div PGSIZE)
     /\ LET size == Part(start - la, end)
        IN  image' = Filled(size, Value) /\ start' = start + size
     /\ la' = la + PGSIZE
     /\ UNCHANGED <<pc, call>>
  \/ /\ AllocPageFails(la \div PGSIZE)
     /\ Goto("exit_mmap") /\ UNCHANGED <<image, start, la>>

LoadText ==
  /\ pc = "load" /\ start < FileEnd
  /\ LoadPage(FileEnd, LAMBDA b : FileByte(b - ph.va))
  /\ UNCHANGED <<areas, done, setting, mine, procPgdir, satp, at>>

\* The rest of the page that the file ended in, with load_icode's assertion.
LoadTail ==
  /\ pc = "load" /\ start >= FileEnd /\ start < la /\ start < MemEnd
  /\ LET size == PGSIZE - (start + PGSIZE - la) - (IF MemEnd < la THEN la - MemEnd ELSE 0)
     IN  /\ image' = Filled(size, LAMBDA b : 0) /\ start' = start + size
         /\ IF (MemEnd < la /\ start' = MemEnd) \/ (MemEnd >= la /\ start' = la)
            THEN UNCHANGED <<pc, call>> ELSE Goto("panic")
  /\ UNCHANGED <<treeVars, setting, mine, procPgdir, satp, at, la>>

LoadBss ==
  /\ pc = "load" /\ start >= FileEnd /\ start >= la /\ start < MemEnd
  /\ LoadPage(MemEnd, LAMBDA b : 0)
  /\ UNCHANGED <<areas, done, setting, mine, procPgdir, satp, at>>

HeaderEnds ==
  /\ pc = "load" /\ start >= MemEnd
  /\ at' = at + 1 /\ Goto("header")
  /\ UNCHANGED <<treeVars, setting, mine, procPgdir, satp, start, la, image>>

LoadStack ==
  /\ pc = "header" /\ at > Len(program.ph)
  /\ \/ areas' = Append(areas, STACK) /\ la' = STACK.end /\ Goto("stack")
     \/ UNCHANGED <<areas, la>> /\ Goto("exit_mmap")
  /\ UNCHANGED <<pgdir, table, free, tables, short, done, setting, mine, procPgdir, satp,
                 at, start, image>>

\* The assertions about the pages of the stack.
StackPage ==
  /\ pc = "stack" /\ la > STACK.end - STACKPAGES
  /\ \/ AllocPage(la - 1) /\ UNCHANGED <<pc, call>>
     \/ AllocPageFails(la - 1) /\ Goto("panic")
  /\ la' = la - 1
  /\ UNCHANGED <<areas, done, setting, mine, procPgdir, satp, at, start, image>>

Loaded ==
  /\ pc = "stack" /\ la = STACK.end - STACKPAGES
  /\ mm_count' = mm_count + 1
  /\ \E r \in root : procPgdir' = r /\ satp' = r
  /\ pc' = "running" /\ call' = "none"
  /\ UNCHANGED <<treeVars, setting, proc, kstack, mm, root, loop>>

-----------------------------------------------------------------------------
(* Giving back: the error labels, do_exit and do_wait.                     *)

\* exit_mmap, with its assertion.
ExitMmap ==
  /\ pc = "exit_mmap"
  /\ IF mm_count # 0 THEN Goto("panic") /\ UNCHANGED treeVars
     ELSE \/ ExitMmapStep /\ UNCHANGED <<pc, call>>
          \/ ExitMmapDone /\ Goto("put_pgdir") /\ UNCHANGED treeVars
  /\ UNCHANGED <<setting, mine, procPgdir, satp, loop>>

PutPgdir ==
  /\ pc = "put_pgdir"
  /\ free' = free \cup root /\ root' = {}
  /\ Goto("mm_destroy")
  /\ UNCHANGED <<areas, pgdir, table, tables, short, done, setting, proc,
                 kstack, mm, mm_count, procPgdir, satp, loop>>

\* Nothing leads any more to the tables that exit_range has left.
MmDestroy ==
  /\ pc = "mm_destroy"
  /\ mm' = FALSE /\ ForgetTables /\ lost' = lost \cup tables
  /\ \/ call = "fork" /\ Goto("bad_fork_cleanup_kstack") /\ UNCHANGED satp
     \/ call = "execve" /\ pc' = "mm_create" /\ call' = "load" /\ UNCHANGED satp
     \/ call \in {"load", "exit"} /\ Goto("zombie") /\ satp' = Others
  /\ UNCHANGED <<free, from, program, given, proc, kstack, mm_count, root, procPgdir, loop>>

\* do_fork's labels.  Fault: the first is left out.
CleanupKstackSkipped == {}
CleanupKstack == kstack
BadForkCleanupKstack ==
  /\ pc = "bad_fork_cleanup_kstack"
  /\ free' = free \cup CleanupKstack /\ kstack' = {}
  /\ Goto("bad_fork_cleanup_proc")
  /\ UNCHANGED <<areas, pgdir, table, tables, short, done, setting, proc, mm, mm_count, root,
                 procPgdir, satp, loop>>

Clean ==
  /\ from' = NoProgram /\ program' = NoProgram
  /\ procPgdir' = Boot /\ satp' = Boot
  /\ at' = 1 /\ start' = 0 /\ la' = 0 /\ image' = NoImage
  /\ pc' = "none" /\ call' = "none"

BadForkCleanupProc ==
  /\ pc = "bad_fork_cleanup_proc"
  /\ proc' = FALSE /\ Clean
  /\ UNCHANGED <<treeVars, given, lost, kstack, mm, mm_count, root>>

\* do_wait reaps the process.
DoWait ==
  /\ pc = "zombie"
  /\ free' = free \cup kstack /\ kstack' = {} /\ proc' = FALSE
  /\ Clean
  /\ UNCHANGED <<areas, pgdir, table, tables, short, done, given, lost, mm, mm_count, root>>

-----------------------------------------------------------------------------
Init ==
  /\ \E n \in 0 .. NFRAME : given = 1 .. n
  /\ free = given /\ lost = {} /\ NoTables
  /\ proc = FALSE /\ kstack = {} /\ mm = FALSE /\ mm_count = 0 /\ root = {}
  /\ from = NoProgram /\ program = NoProgram
  /\ procPgdir = Boot /\ satp = Boot
  /\ at = 1 /\ start = 0 /\ la = 0 /\ image = NoImage
  /\ pc = "none" /\ call = "none"

Fork == SetupKstack \/ DupArea \/ CopyRange \/ CopyRangeEnds \/ GoodMm \/ SetLinks
Load == Header \/ LoadText \/ LoadTail \/ LoadBss \/ HeaderEnds \/ LoadStack \/ StackPage
          \/ Loaded
Cleanup == ExitMmap \/ PutPgdir \/ MmDestroy \/ BadForkCleanupKstack \/ BadForkCleanupProc
KernelStep == Fork \/ MmCreate \/ SetupPgdir \/ Load \/ Cleanup

\* The kernel has stopped; and, a bound, no second process once pages are lost.
Stopped == pc = "panic" \/ (pc = "none" /\ lost # {})

Next == \/ AllocProc \/ KernelStep
        \/ ProcRun \/ SwitchedOut \/ Pgfault \/ Execve \/ DoExit \/ DoWait
        \/ Stopped /\ UNCHANGED vars

Spec == Init /\ [][Next]_vars

\* Nothing interrupts these calls but the clock, whose handler returns.
FairSpec == Spec /\ WF_vars(KernelStep)

-----------------------------------------------------------------------------
\* The types of the variables.
Places == {"none", "setup_kstack", "mm_create", "setup_pgdir", "dup_mmap", "copy_range",
           "set_links", "ready", "running", "header", "load", "stack", "exit_mmap",
           "put_pgdir", "mm_destroy", "bad_fork_cleanup_kstack", "bad_fork_cleanup_proc",
           "zombie", "panic"}
TypeOK ==
  /\ TablesTypeOK
  /\ pc \in Places /\ call \in {"none", "fork", "execve", "load", "exit"}
  /\ {from, program} \subseteq Programs \cup {NoProgram}
  /\ given \subseteq Frame /\ lost \subseteq given /\ kstack \subseteq given /\ root \subseteq given
  /\ proc \in BOOLEAN /\ mm \in BOOLEAN /\ mm_count \in 0 .. 1
  /\ procPgdir \in Frame \cup {Boot} /\ satp \in Frame \cup {Boot, Others}

\* Every page that was free at the start is at every moment in one place, also
\* behind every failed allocation: do_fork's and load_icode's error paths free
\* what was built so far, each page once, and none of the parent's.
Holders == <<free, kstack, root, tables, Mapped \ Shared, lost>>
PagesAccounted ==
  /\ UNION {Holders[k] : k \in DOMAIN Holders} = given
  /\ \A j, k \in DOMAIN Holders : j # k => Holders[j] \cap Holders[k] = {}

\* The tables come back too, when exit_range can find them all.
TidyLosesNothing == pc = "mm_destroy" /\ Tidy => tables = {}

\* When do_fork has failed, or do_wait has reaped the process, no object of it is
\* left, on the heap or elsewhere.
NothingLeft ==
  pc = "none" =>
    /\ ~proc /\ ~mm /\ mm_count = 0 /\ areas = <<>>
    /\ kstack = {} /\ root = {} /\ free = given \ lost

\* The memory of the process between two allocations, whichever of them failed:
\* nothing is freed that is reached, freed twice, or left behind (do_fork's,
\* load_icode's and exit_mmap's labels).
MemoryOK == TypeOK /\ TablesApart /\ PagesAccounted /\ TidyLosesNothing /\ NothingLeft

\* The hart never uses a page directory that has been freed, and a process that
\* can run finds its own in proc->pgdir, or has none and uses the kernel's.
SatpIsHeld ==
  /\ satp \in {Boot, Others} \cup root
  /\ pc \in {"ready", "running"} => IF mm THEN root = {procPgdir} ELSE procPgdir = Boot

\* No assertion of load_icode or exit_mmap fails where memory suffices for the
\* program: do_execve has given up everything else by then.
Enough(prog) ==
  KSTACKPAGE + 1 + Cardinality(PagesOf(prog))
    + Cardinality({PDX1(v) : v \in PagesOf(prog)})
    + Cardinality({<<PDX1(v), PDX0(v)>> : v \in PagesOf(prog)})
PanicsOnlyWhenShort ==
  pc = "panic" => call = "load" /\ Cardinality(given \ lost) < Enough(program)

\* What load_icode has loaded is the program: bytes of the file where it says,
\* and zeros behind them, wherever its pages begin and end.
ImageLoaded ==
  pc = "running" /\ mm /\ program # NoProgram =>
    /\ Valid(program) /\ areas = Areas(program)
    /\ \A i \in DOMAIN program.ph : \A k \in 0 .. program.ph[i].memsz - 1 :
         image[program.ph[i].va + k] = IF k < program.ph[i].filesz THEN FileByte(k) ELSE 0
    /\ {v \in Page : PageAt(v) # {}} = PagesOf(program)

\* do_fork, do_execve and do_exit come to an end.
CallReturns ==
  call # "none" ~> pc \in {"none", "ready", "running", "zombie", "panic"}
=============================================================================
