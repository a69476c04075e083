-------------------------------- MODULE Cow --------------------------------
(***************************************************************************)
(* User memory: copy-on-write fork and the page faults that resolve it,    *)
(* from kern/mm/vmm.c, kern/mm/pmm.c and the callers in kern/process/.     *)
(*                                                                         *)
(* The kernel is not preempted, so one process at a time is in it.  The    *)
(* loops over pages, copy_range in fork and unmap_range in exit and in a   *)
(* fork that fails, take one step per page; `op' says which of them runs   *)
(* and `todo' which pages it has not come to.  (It visits them in the      *)
(* order of areas and addresses; any order does here.)  Nothing else       *)
(* happens until it ends.                                                  *)
(*                                                                         *)
(* A page table is the function from pages to entries that get_pte reads;  *)
(* of an entry the model keeps the frame, PTE_W and PTE_COW.  Every        *)
(* process runs the same program, so the areas are constants.  Tables,     *)
(* stacks and the heap take frames too: an allocation may fail whatever    *)
(* frames are left for user pages.  page_lock is free whenever do_pgfault  *)
(* asks for it, as it is released in the same stretch of kernel code.      *)
(***************************************************************************)
EXTENDS Integers, FiniteSets

CONSTANTS Proc,      \* processes that can have a user memory
          Page,      \* pages of the program's areas
          Writable,  \* those of areas with VM_WRITE
          Loaded,    \* those load_icode allocates (not the low stack pages)
          Frame,     \* physical pages
          Word,      \* the words of a page, which are stored one at a time
          Value,     \* contents of a word
          None,      \* no frame, no process
          Nothing,   \* the content of a page that is not mapped
          First      \* the process that execs the program

ASSUME MemAssumption ==
  /\ Writable \subseteq Page /\ Loaded \subseteq Page
  /\ First \in Proc
  /\ None \notin Frame /\ None \notin Proc /\ Nothing \notin [Word -> Value]
  /\ IsFiniteSet(Proc) /\ IsFiniteSet(Page)

VARIABLES
  life,    \* "none", "user" or "zombie"
  parent,  \* the process that will reap it, None for init
  pte,     \* pte[p][v]: the entry of page v in p's page table
  ref,     \* page->ref
  free,    \* the frames on the free list
  data,    \* contents of the frames
  op,      \* the loop the kernel is in: "none", "fork", "undo" or "exit"
  actor,   \* the process that forks
  target,  \* the process whose memory is being built or torn down
  todo,    \* the pages the loop has still to visit
  panic    \* the kernel has faulted on user memory

vars == <<life, parent, pte, ref, free, data, op, actor, target, todo, panic>>
kernel == <<op, actor, target, todo>>

Entry == [frame : Frame \cup {None}, w : BOOLEAN, cow : BOOLEAN]
Invalid == [frame |-> None, w |-> FALSE, cow |-> FALSE]

ReadWrite(f) == [frame |-> f, w |-> TRUE, cow |-> FALSE]

Mapped(p, v) == pte[p][v].frame # None

-----------------------------------------------------------------------------
(* pmm.c                                                                   *)

\* page_remove_pte: one mapping of frame g has gone, and the frame with its
\* last one.  Fault: the frame is not freed.
RefLess(r, g) == [r EXCEPT ![g] = @ - 1]
FreedNever(r, g) == {}
Freed(r, g) == IF r[g] = 1 THEN {g} ELSE {}

\* copy_range's permissions: a writable page becomes copy-on-write in both
\* processes; any other is shared with the bits it has.  Fault: both stay
\* writable.
SharedAsIs(e) == e
Shared(e) == [frame |-> e.frame, w |-> FALSE, cow |-> e.w \/ e.cow]

-----------------------------------------------------------------------------
(* A process in user mode.                                                 *)

InUser(p) == ~panic /\ op = "none" /\ life[p] = "user"

\* A store the page table allows.
Store(p, v, i, x) ==
  /\ InUser(p) /\ pte[p][v].w
  /\ data' = [data EXCEPT ![pte[p][v].frame][i] = x]
  /\ UNCHANGED <<life, parent, pte, ref, free, kernel, panic>>

\* do_exit: it begins to give up the memory.
ExitMmap(p) ==
  /\ op' = "exit" /\ actor' = p /\ target' = p /\ todo' = Page
  /\ UNCHANGED <<life, parent, pte, ref, free, data, panic>>

Exit(p) == InUser(p) /\ ExitMmap(p)

\* do_pgfault on a store to a page that is mapped copy-on-write.
CanFix(p, v) == Mapped(p, v) /\ pte[p][v].cow /\ v \in Writable

\* The page has one mapping left: it is made writable again.
Reuse(p, v) ==
  /\ ref[pte[p][v].frame] <= 1
  /\ pte' = [pte EXCEPT ![p][v] = ReadWrite(@.frame)]
  /\ UNCHANGED <<life, parent, ref, free, data, kernel, panic>>

\* The memcpy of do_pgfault.  Fault: it is left out.
NotCopied(g, f) == data
Copied(g, f) == [data EXCEPT ![g] = data[f]]

\* The page is shared: alloc_page, memcpy and page_insert.
Copy(p, v) ==
  LET f == pte[p][v].frame
  IN  /\ ref[f] > 1
      /\ \E g \in free :
           /\ data' = Copied(g, f)
           /\ pte' = [pte EXCEPT ![p][v] = ReadWrite(g)]
           /\ ref' = [RefLess(ref, f) EXCEPT ![g] = @ + 1]
           /\ free' = (free \ {g}) \cup Freed(ref, f)
  /\ UNCHANGED <<life, parent, kernel, panic>>

\* A store the page table does not allow.  A process whose fault is not
\* resolved, here also for lack of memory, is made to exit.
StoreFault(p, v) ==
  /\ InUser(p) /\ ~pte[p][v].w
  /\ \/ CanFix(p, v) /\ (Reuse(p, v) \/ Copy(p, v))
     \/ CanFix(p, v) /\ ref[pte[p][v].frame] > 1 /\ ExitMmap(p)
     \/ ~CanFix(p, v) /\ ExitMmap(p)

\* A load of a page that is not mapped.
LoadFault(p, v) == InUser(p) /\ ~Mapped(p, v) /\ ExitMmap(p)

\* do_wait frees a zombie child, and stores its exit code at an address in
\* page v once user_mem_check has found an area there that may be written.
Reap(p, c) ==
  /\ InUser(p) /\ life[c] = "zombie" /\ parent[c] = p
  /\ life' = [life EXCEPT ![c] = "none"]
  /\ parent' = [parent EXCEPT ![c] = None]
ReapNoCode(p, c) == Reap(p, c) /\ UNCHANGED <<pte, ref, free, data, kernel, panic>>
ReapCode(p, c, v, i, x) ==
  /\ v \in Writable
  /\ IF pte[p][v].w
     THEN /\ Reap(p, c)
          /\ data' = [data EXCEPT ![pte[p][v].frame][i] = x]
          /\ UNCHANGED <<pte, ref, free, kernel, panic>>
     ELSE /\ InUser(p) /\ life[c] = "zombie" /\ parent[c] = p
          /\ panic' = TRUE
          /\ UNCHANGED <<life, parent, pte, ref, free, data, kernel>>

\* init reaps an orphan.
ReapOrphan(c) ==
  /\ ~panic /\ op = "none" /\ life[c] = "zombie" /\ parent[c] = None
  /\ life' = [life EXCEPT ![c] = "none"]
  /\ UNCHANGED <<parent, pte, ref, free, data, kernel, panic>>

-----------------------------------------------------------------------------
(* fork                                                                    *)

\* copy_mm: the child has an empty page table.
Fork(p, c) ==
  /\ InUser(p) /\ life[c] = "none"
  /\ op' = "fork" /\ actor' = p /\ target' = c /\ todo' = Page
  /\ UNCHANGED <<life, parent, pte, ref, free, data, panic>>

\* One turn of copy_range.
CopyPage(v) ==
  /\ ~panic /\ op = "fork" /\ v \in todo
  /\ todo' = todo \ {v}
  /\ IF Mapped(actor, v)
     THEN LET e == pte[actor][v]
          IN  /\ pte' = [pte EXCEPT ![actor][v] = Shared(e), ![target][v] = Shared(e)]
              /\ ref' = [ref EXCEPT ![e.frame] = @ + 1]
     ELSE UNCHANGED <<pte, ref>>
  /\ UNCHANGED <<life, parent, free, data, op, actor, target, panic>>

\* An area or a table for the child cannot be allocated: copy_mm goes on with
\* exit_mmap.  Fault: it returns without.
CopyFailsKept ==
  /\ ~panic /\ op = "fork" /\ todo # {}
  /\ op' = "none" /\ actor' = None /\ target' = None
  /\ UNCHANGED <<life, parent, pte, ref, free, data, todo, panic>>
CopyFails ==
  /\ ~panic /\ op = "fork" /\ todo # {}
  /\ op' = "undo" /\ todo' = Page
  /\ UNCHANGED <<life, parent, pte, ref, free, data, actor, target, panic>>

ForkEnds ==
  /\ ~panic /\ op = "fork" /\ todo = {}
  /\ life' = [life EXCEPT ![target] = "user"]
  /\ parent' = [parent EXCEPT ![target] = actor]
  /\ op' = "none" /\ actor' = None /\ target' = None
  /\ UNCHANGED <<pte, ref, free, data, todo, panic>>

-----------------------------------------------------------------------------
(* exit_mmap, in do_exit and in the fork that fails.                       *)

\* One turn of unmap_range.
UnmapPage(v) ==
  /\ ~panic /\ op \in {"undo", "exit"} /\ v \in todo
  /\ todo' = todo \ {v}
  /\ IF Mapped(target, v)
     THEN LET f == pte[target][v].frame
          IN  /\ pte' = [pte EXCEPT ![target][v] = Invalid]
              /\ ref' = RefLess(ref, f)
              /\ free' = free \cup Freed(ref, f)
     ELSE UNCHANGED <<pte, ref, free>>
  /\ UNCHANGED <<life, parent, data, op, actor, target, panic>>

\* The memory is gone: a failed fork returns, an exiting process becomes a
\* zombie and leaves its children to init.
UnmapEnds ==
  /\ ~panic /\ op \in {"undo", "exit"} /\ todo = {}
  /\ op' = "none" /\ actor' = None /\ target' = None
  /\ IF op = "exit"
     THEN /\ life' = [life EXCEPT ![target] = "zombie"]
          /\ parent' = [c \in Proc |-> IF parent[c] = target THEN None ELSE parent[c]]
     ELSE UNCHANGED <<life, parent>>
  /\ UNCHANGED <<pte, ref, free, data, todo, panic>>

-----------------------------------------------------------------------------
\* load_icode has given First a frame for each page of its image.
Init ==
  /\ life = [p \in Proc |-> IF p = First THEN "user" ELSE "none"]
  /\ parent = [p \in Proc |-> None]
  /\ \E at \in [Loaded -> Frame] :
       /\ \A u, v \in Loaded : at[u] = at[v] => u = v
       /\ pte = [p \in Proc |-> [v \in Page |->
                   IF p = First /\ v \in Loaded
                   THEN [frame |-> at[v], w |-> v \in Writable, cow |-> FALSE]
                   ELSE Invalid]]
       /\ ref = [f \in Frame |-> IF \E v \in Loaded : at[v] = f THEN 1 ELSE 0]
       /\ free = {f \in Frame : \A v \in Loaded : at[v] # f}
  /\ data \in [Frame -> [Word -> Value]]
  /\ op = "none" /\ actor = None /\ target = None /\ todo = {}
  /\ panic = FALSE

UserStep(p) ==
  \/ Exit(p)
  \/ \E v \in Page : StoreFault(p, v) \/ LoadFault(p, v)
  \/ \E v \in Page, i \in Word, x \in Value : Store(p, v, i, x)
  \/ \E c \in Proc : Fork(p, c) \/ ReapNoCode(p, c)
  \/ \E c \in Proc, v \in Page, i \in Word, x \in Value : ReapCode(p, c, v, i, x)

LoopStep == \/ \E v \in Page : CopyPage(v) \/ UnmapPage(v)
            \/ CopyFails \/ ForkEnds \/ UnmapEnds

Stopped == \/ panic /\ UNCHANGED vars
           \/ (\A p \in Proc : life[p] = "none") /\ UNCHANGED vars

Next == \/ \E p \in Proc : UserStep(p)
        \/ \E c \in Proc : ReapOrphan(c)
        \/ LoopStep \/ Stopped

Spec == Init /\ [][Next]_vars

-----------------------------------------------------------------------------
(* What the kernel promises.                                               *)

\* The types of the variables.
TypeOK ==
  /\ life \in [Proc -> {"none", "user", "zombie"}]
  /\ parent \in [Proc -> Proc \cup {None}]
  /\ pte \in [Proc -> [Page -> Entry]]
  /\ ref \in [Frame -> Nat]
  /\ free \subseteq Frame
  /\ data \in [Frame -> [Word -> Value]]
  /\ op \in {"none", "fork", "undo", "exit"}
  /\ actor \in Proc \cup {None} /\ target \in Proc \cup {None}
  /\ todo \subseteq Page
  /\ panic \in BOOLEAN

\* Reference counting is exact: ref counts the entries that map a frame, and
\* the free list holds the frames that have none.  So no frame is freed while
\* it is mapped, and none is lost, also when a fork fails half way.
Mappings(f) == {m \in Proc \X Page : pte[m[1]][m[2]].frame = f}
RefsExact == /\ \A f \in Frame : ref[f] = Cardinality(Mappings(f))
             /\ free = {f \in Frame : ref[f] = 0}

\* A frame that some process can write to has no other mapping.
WritableIsPrivate ==
  \A p, q \in Proc, u, v \in Page :
    pte[p][u].w /\ pte[q][v].frame = pte[p][u].frame => p = q /\ u = v

\* The bits of an entry go with the area: in a writable one the page is
\* writable, or copy-on-write so that a store can make it so; elsewhere
\* neither, and so the program text stays as it was loaded.
BitsFitArea ==
  \A p \in Proc, v \in Page :
    /\ Mapped(p, v) /\ v \in Writable => pte[p][v].w # pte[p][v].cow
    /\ ~Mapped(p, v) \/ v \notin Writable => ~pte[p][v].w /\ ~pte[p][v].cow

\* Whoever has no memory maps nothing: a zombie, a process that is not yet, or
\* the child of a fork that failed.
DeadMapNothing ==
  \A p \in Proc, v \in Page :
    life[p] # "user" /\ ~(op \in {"fork", "undo"} /\ p = target) => ~Mapped(p, v)

\* The page tables as the above see them together: what copy_range, do_pgfault and
\* unmap_range must leave of each entry.
MapsOK == TypeOK /\ BitsFitArea /\ DeadMapNothing

\* Fork and its faults implement memories that are private: the memory of a
\* process is what its page table reaches, from the end of fork to the start
\* of exit.
HasMemory(p) == life[p] = "user" /\ ~(op = "exit" /\ p = target)
Memory == [p \in Proc |-> [v \in Page |->
             IF HasMemory(p) /\ Mapped(p, v) THEN data[pte[p][v].frame] ELSE Nothing]]
Private == INSTANCE PrivateMemory WITH mem <- Memory
MemoryIsPrivate == Private!Spec

\* What the loops have done so far: the child of a fork shares the pages that
\* have been visited and has none of the others, and exit_mmap leaves none.
LoopOK ==
  /\ op # "none" => target \in Proc
  /\ op = "fork" =>
       /\ actor \in Proc /\ life[actor] = "user" /\ life[target] = "none"
       /\ \A v \in Page : IF v \in todo THEN ~Mapped(target, v)
                         ELSE pte[target][v].frame = pte[actor][v].frame
  /\ op = "undo" => life[target] = "none"
  /\ op = "exit" => life[target] = "user"
  /\ op \in {"undo", "exit"} => \A v \in Page \ todo : ~Mapped(target, v)

\* The inductive invariant.
IInv == /\ TypeOK /\ RefsExact /\ WritableIsPrivate /\ BitsFitArea
        /\ DeadMapNothing /\ LoopOK

\* No page fault in the kernel, as trap.c says of kernel pages.
KernelNeverFaults == ~panic
=============================================================================
