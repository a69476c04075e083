# A TLA+ verification of the uCore Lab5 kernel

The program is the kernel under `src/Code/kern`: a small RISC-V kernel for one
hart, with kernel threads and user processes, a round-robin scheduler,
copy-on-write fork, a first-fit page allocator and a SLOB heap. It boots,
creates `idle` (pid 0) and `init` (pid 1); `init` creates `user_main`, which
execs one user program, and then reaps processes until none is left; then the
kernel stops itself with the panic "initproc exit".

This directory holds models of the kernel in TLA+, configurations that
model-check them with TLC on small instances, and proofs checked by TLAPS of the
properties that matter most.

## 1. Inventory

| component | state | operations | who it talks to |
|---|---|---|---|
| process management, `process/proc.c` | `current`, `proc_list`, `hash_list`, `nr_process`; in each `proc_struct`: `state`, `parent`, `cptr`/`optr`/`yptr`, `flags`, `wait_state`, `exit_code`, `mm` | `do_fork`, `do_exit`, `do_wait`, `do_kill`, `do_yield`, `do_execve`, `init_main`, `cpu_idle` | calls the scheduler and vmm; called by the system calls and by `trap()` |
| scheduler, `schedule/sched.c` | `need_resched`, the order of `proc_list` | `schedule`, `wakeup_proc` | `proc_run` switches page table and stack |
| trap dispatch, `trap/trap.c`, `trapentry.S` | the trap frame, `ticks` | `interrupt_handler`, `exception_handler`, `trap` | system calls, `do_pgfault`, `do_exit`, `schedule` |
| system calls, `syscall/syscall.c` | none | a table of handlers | process management |
| virtual memory, `mm/vmm.c` | `mm_struct`: list of areas, `pgdir`, `mm_count` | `mm_map`, `find_vma`, `dup_mmap`, `exit_mmap`, `do_pgfault`, `user_mem_check` | page tables, heap |
| page tables, `mm/pmm.c` | page directories and tables, `ref` of each page | `get_pte`, `page_insert`, `page_remove_pte`, `copy_range`, `unmap_range`, `exit_range` | page allocator |
| page allocator, `mm/default_pmm.c` | free list, `nr_free`, `property` | `init_memmap`, `alloc_pages`, `free_pages` | lists |
| kernel heap, `mm/kmalloc.c` | circular free list of units, list of big blocks | `kmalloc`, `kfree` | page allocator |
| masking and clock, `sync/sync.h`, `driver/` | `sstatus.SIE`, `ticks`, the pending timer | `local_intr_save/restore`, `clock_set_next_event`, `lock/unlock` | everyone |
| lists and hashing, `libs/list.h`, `libs/hash.c` | next and prev of each entry | `list_add`, `list_del`, `hash32` | process management, allocators, areas |
| string and print libraries, `libs/string.c`, `libs/printfmt.c`, `libs/stdio.c`, `libs/readline.c` | readline's buffer | `vprintfmt`, `snprintf`, `readline`, `str*`, `mem*` | everyone |
| monitor and panic, `debug/` | none of its own | `kmonitor`, `parse`, `runcmd`, `__panic` | print library; called where the kernel stops |
| boot, console, device tree, `init/`, `driver/` | | straight-line code and I/O | |
| user programs and their library, `user/` | | `fork`, `exit`, `wait`, `yield`, `kill`, memory accesses | the environment of the kernel |

**Concurrency.** There is one hart, and the kernel is never preempted. A trap is
entered with interrupts off. The kernel threads run with interrupts on, but a
trap taken from kernel mode never calls `schedule()` (`trap()` does so only when
the trap came from user mode). So a stretch of kernel code ends where it calls
`schedule()`: in `cpu_idle`, at the tail of `trap()`, in `do_wait`, in `do_exit`
and between two calls of `do_wait` by `init_main`. What interleaves is user
processes, at their traps, with processes that sleep in `do_wait`; what is hard
is that any of these may be killed, exit, or be handed to another parent while
another one sleeps. Below that level interrupts do interleave with the code of the kernel
threads, between any two instructions, and with the way in and out of a trap.

**What makes it correct.**

* Processes: the table, the list and the count agree; the family is a tree under
  `init`; nobody sleeps for a child that has already exited; a zombie is reaped
  once, by its parent; no assertion about how processes act on each other is reached; `idle`, which never yields the CPU
  after boot, never gets it back; runnable processes run; killed processes exit;
  `init` ends when all others have.
* Memory: a write by one process is never seen by another, although fork shares
  pages; a page is freed exactly when its last mapping goes; a failed fork leaves
  no trace; the kernel never faults on user memory.
* Allocators: free blocks are disjoint, ordered and merged, their sizes add up, and
  a block is handed out once.
* Pids: a pid is given to one process at a time, across the wrap at `MAX_PID`.
* Traps: a user program sees of them nothing but the answers to its calls; the kernel
  finds its own stack, with interrupts as it left them; the clock never stops.
* Monitor: what is read is what was typed, and what is printed is what was passed.

`PROJECT.json` lists the hazards line by line.

## 2. Plan

In this order; a module is marked done when its runs pass.

1. `Proc` (done) process life cycle, scheduler, tail of `trap()`; `ProcProofs` (done).
2. `PrivateMemory` (done), what fork promises about memory, and `Cow` (done), the page
   tables, reference counts and the fault handler that implement it; `CowProofs` (done).
3. `GetPid` (done): the search for a free pid in steps, with `proc_list` changing between
   calls, and that the pid it gives is in no entry, which is what `Proc` assumes.
4. `ProcTable` (done): the pointers of `proc_list`, the hash lists and the family, on
   top of `GetPid`, which it is proved to implement; `ProcTableProofs` (done) for both.
5. `DefaultPmm` (done): first fit with merging, implementing `PagePool` (done);
   `DefaultPmmProofs` (done).
6. `Slob` (done): `slob_alloc`, `slob_free`, the big blocks and the sizes at the border;
   `SlobProofs` (done).
7. `Vma` (done): the ordered list of areas, `mm_map`, `find_vma` with its cache; `VmaProofs` (done).
8. `PageTable` (done): three levels of tables, and `AddressSpace` (done), which composes
   them with `do_fork`, `do_execve`, `load_icode`, `do_exit` and every allocation failing;
   `AddressSpaceProofs` (done).
9. `UserMachine` (done), what a user program may assume of traps, and `TrapEntry` (done), the
   trap frame, stacks, interrupts and clock that implement it; `TrapEntryProofs` (done).
10. `Strings`, `Printfmt`, `Monitor` (done): the libraries below the kernel's only dialogue.
11. Not proved: the invariants of `Monitor` (section 12).

Invariants are conjunctions of named parts, and a run checks the conjunction: `TableOK` is
`TypeOK /\ ListOK /\ TreeOK /\ RunningIsRunnable`, `MemoryOK` is `PagesAccounted` and what goes with it,
and so on. The text below names the parts; the comment of each part says what it is about.

## 3. `Proc`: processes, scheduler and trap tail

**State.** A process is its pid. `state`, `parent`, `current`, `nr_process` are the
fields and globals of the code; `procList` is `proc_list` from its first entry;
`exiting` is the set of processes with `PF_EXITING`, `waiting` those whose
`wait_state` is `WT_CHILD`, `needResched` those with `need_resched`. `pc[p]` is the
place in the kernel where `p` resumes when it next has the CPU, which in the code
is its saved context and stack: the header of the module lists the places.
`waitPid` is the argument of the `do_wait` a process sleeps in. `panic` is the
message with which the kernel stopped.

**Actions.** One action is the stretch of kernel code from one place in `pc` to
the next, so a system call is one action when it does not sleep: `SysFork`,
`SysExit`, `SysExec`, `SysWait`, `SysKill`, `EndSlice` (yield or the tick that ends a slice) and
`OtherTrap`; then `TrapRet` is the tail of `trap()`, `WaitResumes` is `do_wait` after
its `schedule()`, and `CpuIdle`, `InitMain`, `InitWait`, `InitSched`, `UserMain`,
`KernelTimer` are the kernel threads. Each is built from `DoFork`, `DoExit`, `DoExecve`, `DoWait`,
`Schedule` and `Wakeup`, the functions of the same name.

**Abstractions.** `get_pid` returns any pid that is not in the list (section 5). The children of a process are the processes whose parent it is; when several
are zombies `do_wait(0)` takes any (the code takes the youngest, as `ProcTable` does). Exit codes, names,
memory and kernel stacks are left out; a fork that fails for lack of memory changes
nothing here and is an `OtherTrap` (that it changes nothing is shown in section 9). An exec loads its
program (or refuses its name), or exits, or stops the kernel in `load_icode`.

**Panics.** `panic` is one of three kinds. `ProtocolPanics` are the panics and assertions that say how
processes may act on each other, in `do_fork`, `do_exit`, `do_wait`, `wakeup_proc` and `init_main`;
`NoProtocolPanic` says that they are not reached. `MemoryPanics` are those of a kernel
that is short of memory: `init_main` cannot create `user_main` (`proc.c:1003`), or `load_icode` has no page for the
stack (`proc.c:740-743`). They are reached, here at any time, because `Proc` has no memory;
`AddressSpace` shows that the second kind needs an exhausted allocator (`PanicsOnlyWhenShort`). The
panic at the end of `init` is how the system stops. A stopped kernel does nothing more, so the
liveness properties are about runs in which the memory suffices. The panics at a trap without an
answer, an undefined system call or a misaligned store, are in `TrapEntry`.

**Runs** (`MCProc`; 5 processes and 6 pids for `proc`, 4 and 5 for the
counterexample). Three processes besides `idle` and `init` give a parent, a child and a
grandchild, orphans that are zombies or not, and a full table; one pid more than
the table needs lets freed pids come back while the table is full.

| run | question | result |
|---|---|---|
| `proc` | are the table, the family, the sleepers and the zombies consistent, is every assertion about how processes act on each other unreachable, and does `init` exit only when killed or alone; does each runnable process run, each killed sleeper exit, and does `init` finish? | holds, 267,237 states |
| `proc_kill` | does a killed process exit, as the diagram in `proc.c` says? | no, see below |

`CHECK_DEADLOCK` is on; the state after a panic stutters explicitly (`Halted`).

**Fairness.** `WF(KernelStep)`: the hart executes, so kernel code that can go on goes
on. `SF(EndSlice)`: the clock interrupts user mode for ever. Strong, because a user
process is in user mode again and again but not always; `trapentry.S` returns to user
mode with interrupts enabled, and the pending tick is taken. Nothing is assumed about
what user processes do: none need ever exit.

**Finding: a lost kill.** `do_kill` of a runnable process sets `PF_EXITING` and wakes
nobody. If the process then calls `wait`, `do_wait` puts it to sleep before `trap()`
looks at the flag. It sleeps as long as its child lives, and killing it again
returns `-E_KILLED` without effect. The diagram at `proc.c:56-57` promises that a
killed process goes through `do_exit`. What does hold, and the run `proc` shows, is
`KilledWaiterExits`: a process killed *while* it sleeps is woken and exits.

**What is not promised.** Nothing keeps a zombie child of `init` from waiting
for ever while other user processes fork and exit, because `do_wait(0)` prefers the
youngest child. The code promises no more than `ShutsDown`: when all user processes
have exited, all are reaped and the system stops.

**Proofs** (`ProcProofs`). All safety properties are proved for every `MAX_PROCESS >= 3`
and `MAX_PID > MAX_PROCESS`. The inductive invariant `IInv` is the conjunction of the
properties themselves and of `Bookkeeping`, which ties `pc` to the fields of the
process: a process is `SLEEPING` exactly when its `wait_state` is `WT_CHILD`, and
`ZOMBIE` exactly when it is past its last `schedule()`. Two arguments carry the proof.

* *The family is a tree.* A new process enters at the head of `proc_list`, its parent is
  further back, and `do_exit` hands children to `init`, which is the last entry
  (`InitIsLast`). So "the parent comes later in the list" is kept by every operation.
* *Someone is runnable* (`SomeoneIsRunnable`). Take the first process of the list that is
  not a zombie. It is runnable, or it sleeps and is owed a child that has not exited;
  that child comes earlier, a contradiction. So `schedule` never falls
  back to `idle` (`NeverStuckInIdle`), and `init`, woken with its last child gone,
  finds the list it asserts (`LastChildGone`).

`LineageKept` follows from it step by step: a parent is left only by its own exit or the child's
end, and a zombie only by its parent's `do_wait`. The liveness properties are checked by TLC only.

## 4. `PrivateMemory` and `Cow`: user memory and copy-on-write fork

`PrivateMemory` is the promise: every process has a memory of its own, `Fork` gives the
child a copy of its parent's, `Store` changes one word of one process, `Exit` takes
the memory away. `Cow` is what the kernel does, and implements it under the
refinement mapping `Memory`: what a process sees is what its page table reaches, from
the end of its creation by fork to the start of `exit_mmap`.

**State.** `pte[p][v]` is the entry of page `v` in the page table of `p`, with its frame,
`PTE_W` and `PTE_COW`; `ref` is `page->ref`; `free` is the allocator's free pages;
`data` the contents of the frames, word by word. `life` and `parent` are as much of
`Proc` as memory needs. `op`, `actor`, `target` and `todo` say which loop over pages
the kernel is in, for whom, and which pages are left.

**Actions.** In user mode: `Store` and `StoreFault` (a store the page table allows, or not:
`do_pgfault` with `Reuse`, `Copy` or the exit of the process), `LoadFault`, `Exit`, `Fork`,
`ReapNoCode` and `ReapCode` (`do_wait` without and with a place for the exit code). Then
the loops: `CopyPage` is one turn of `copy_range`, `CopyFails` its failure at any point,
`ForkEnds` the return of `copy_mm`; `UnmapPage` is one turn of `unmap_range` for an exit or
for the fork that failed, `UnmapEnds` the rest of `do_exit`.

**Abstractions.** Page tables are flat (section 9 has the levels); the pages of a process are
visited in any order; an allocation can fail at any time, because page tables, stacks
and the heap use frames too, and the bad outcome of `page_insert` in `do_pgfault` (no
page table) cannot occur as the table exists. All processes run the same
program, so the areas are the constants `Page` and `Writable`. `page_lock` is never
contended: it is taken and released within one stretch of kernel code. The TLB is
flushed at each change of an entry of the running process, and is left out.

**Runs** (`MCCow`; 3 processes, 3 pages, 4 frames, 2 words, 2 values). Three processes
make a frame shared by a parent, a child and a grandchild, and a copy that was made
by one of them shared again. One page is text, which may not be written, one is data, and
one is of the lower stack, with no frame behind it, as `load_icode` leaves it. Four frames
are what three processes need that share only the text. With two words a page is
more than the word stored last. Frames, words and values are symmetric: nothing tells
them apart, in the refinement either.

| run | question | result |
|---|---|---|
| `cow_safety` | are the counts exact, is every writable frame private, do dead processes map nothing, and does `Cow` implement `PrivateMemory`? | holds, 532,984 states |
| `cow_kernel_fault` | does the kernel never fault on user memory? | no, see below |

**Finding: a page fault in the kernel.** `do_wait` writes the exit code through the user's
pointer while in kernel mode. `user_mem_check` only asks whether an area with `VM_WRITE`
lies there. After a fork that page is copy-on-write until the first store in user
mode; if that first store is `do_wait`'s, `exception_handler` panics before it calls
`do_pgfault`. (A stack page that was not loaded gives the same panic.) The comment at
`trap.c:239` says the kernel takes no page fault. `Cow` stops there, as the kernel does,
and the other properties hold up to that point.

**Proofs** (`CowProofs`). All the safety properties and the refinement are proved for
every finite set of processes and pages, and any frames, words and values. The
inductive invariant `IInv` is the conjunction of the safety properties and `LoopOK`,
which says what the loops have done so far. The core is counting: `Remap` says by how much
the number of mappings of a frame changes when one entry changes, `CountedOnce` and
`FreeIsUnmapped` read the count back as facts about entries. `WritableIsPrivate` makes a
store invisible to others (`StoreRefines`), `FreeIsUnmapped` makes the copy of a
fault invisible (`FaultRefines`), and `LoopOK` gives the child its parent's memory when
fork ends (`ForkRefines`); `CopyOnWriteIsPrivate` puts these together.

## 5. `GetPid` and `ProcTable`: pids and the process table in memory

`get_pid` remembers `last_pid` and `next_safe` from call to call, and walks `proc_list`
only when it leaves the window between them. `Proc` lets it return any pid not in use;
`GetPid` is the code: `Call` is the entry with the first increment, `Scan` (`Hit` or `Miss`)
one entry of the walk, `ScanEnds` its end, `Link` the insertion by `set_links` and `Unlink`
the removal by `remove_links`, which only happen between calls because interrupts are off.
`from` is a history variable for `NextFree`.

`ProcTable` puts the table around it, pointer by pointer: `list_link` and `hash_link` are
next and prev of every entry, `cptr`, `yptr`, `optr` the family links, `pid`, `parent`,
`nr_process` the fields of those names. `Fork` is `do_fork` up to the call of `get_pid`
and `Forked` the rest, `Exit` is `do_exit` with the loop of adoptions (`AdoptOne`),
`WaitAny` and `WaitFor` are `do_wait` where it reaps (`Reaped`: `unhash_proc`, `remove_links`).
A new process gets any free structure, as from `kmalloc`. Any process that is no
zombie may do any of these: who runs is `Proc`'s affair. `hash32` is computed as the code does
for numbers of 16 bits, on which `TableAssumption` insists.

| run | question | result |
|---|---|---|
| `proc_table` (5 processes, 7 as `MAX_PID`, 2 hash lists) | is a pid never given twice, does the search end and skip no free pid; do lists and links spell the processes, forward and backward, with nothing left of one that is freed; does `find_proc` find just those there are? | holds, 76,910 states |

With four processes besides `idle` (`init` and three others) a process can be reaped from the
middle of its siblings, after an adoption, and adopted in front of a zombie of `init`'s; with
six pids the search wraps while all but one or two are in use. Two hash lists for six pids make
lists of three entries.

Properties: no pid is given twice (`PidsDistinct`), the window stays true while processes come
and go (`WindowIsFree`), the search is cyclic and skips no free pid (`NextFree`) and ends
(`SearchReturns`, under `WF(Search)`: nothing interrupts it; it needs `do_fork`'s check of
`MAX_PROCESS`); `ListSpellsProcesses`, `FindsByPid`, `FamilyIsLinked` and `CountIsExact` for the
pointers; and `InitIsLast`, what `init_main` asserts when it has no child left.

**Proofs.** `ProcTableProofs` proves all of `GetPid` but the end of the search for every
`MAX_PID > MAX_PROCESS >= 2`. The invariant adds `WalkOK`: no entry already passed has
`last_pid`, and those above it are not below `next_safe`; so `last_pid` may be
incremented in the middle of the walk as long as it stays below `next_safe`.
It proves that every step of `ProcTable` is a step of `GetPid` or leaves it alone
(`TableImplementsGetPid`), so that its invariants hold of the table as well, and that the
count is exact for any number of processes (`CountStaysExact`).

The pointers are proved as well: `LinksCorrect` and `InitEndsLast` hold for every number of
processes, pids up to 2^15 and up to 2^16 hash lists, from `PidAssumption`, `TableAssumption` and
`AddressAssumption` (different things in memory have different addresses). A run looks at what a walk
finds; a proof needs to know it without walking. So the invariant `TableInv` says that sequences *exist*
that the pointers spell: one for `proc_list` (`ListIs`), one for each hash list (`BucketIs`), one
for the children of each process (`FamilyIs`), each with just the processes that belong there, every
neighbour in the sequence linked both ways (`Ring`, `Brood`). Then

* each operation turns sequences into sequences: `list_add` is a new head (`RingAdd`), `list_del` and
  `remove_links` take the entry out (`RingDel`, `BroodDel`), `set_links` and each turn of `do_exit`'s
  loop put a youngest child in front (`BroodAdd`), and what an operation does not touch stays
  (`RingElsewhere`, `BroodElsewhere` and their like);
* the loop of adoptions is an induction over its turns (`LoopComputes`): after `n` of
  them init's children are its own and the first `n`, in one list (`Adopted`);
* a walk from the head meets the sequence (`WalkSpells`, an induction along the pointers), because it is
  shorter than `MAX_PROCESS`: `nr_process` counts it exactly (`RoomIsLeft`);
* `find_proc` looks in the one hash list where the pid belongs, and pids are distinct, by `GetPid`'s
  invariant;
* `TableInv` also keeps what the walks never see: a free structure points nowhere (`FreeIsLoose`), a
  zombie has no children (`ParentsLive`), and a parent is behind its children in `proc_list`, at whose end
  is `init`. From the last one `InitIsLast` follows: were there another process, the one just before
  `init` in the list would be its child.

## 6. `PagePool` and `DefaultPmm`: the allocator of physical pages

`PagePool` is the promise: a request for `n` pages gets the lowest `n` consecutive pages
that nobody holds, and is refused only if there are none. `DefaultPmm` is first fit with
merging: `free_list` is the list in the order of the next pointers, `property`,
`flagged` (`PG_property`) and `nr_free` are the fields of the code, `held` the pages given
out. `AllocBlock` and `AllocFails` are `default_alloc_pages`; `FreeFirst`, `FreeLast` and
`FreeBefore` are `default_free_pages` when the list is empty, when the block comes last, and
otherwise. Callers may free part of what they hold, as `default_check` does.

Prev pointers matter because of one loop. After `list_add` at the end of the list
the search for a place does not leave (`default_pmm.c:174`), visits the block it
has just added and adds it behind itself: its prev pointer is then its own address.
`ownPrev` is the set of these entries; for all others prev is the entry before.

| run | question | result |
|---|---|---|
| `pmm_safety` (8 pages) | are list and count exact until such a prev pointer is followed; and, as long as the last page has always been free, are there none, are the blocks merged, and is each step one of `PagePool`? | holds, 61,005 states |
| `pmm_last_block` (5 pages) | is every entry of the list a block with `PG_property`, as `default_check` asserts? | no, see below |

Eight pages allow four blocks with gaps between, so a block is freed in front of the
first, between two, behind the last, and merged on either side or both.
`spent`, that the last page has once been given out, is not in the code.

**Finding: a block that stays listed.** When memory has been used up to the last
page, and the highest block comes back while others are free, the next request that
takes it cannot unlink it: it is in use and on the list, and the next search gives it out
again. If a block is freed in front of it first, the list becomes a circle and the next
search that finds nothing does not end. While the last page stays free this
cannot happen, as every block is freed in front of the last one: that is
`MergedUntilSpent`. Nothing but the amount of memory ensures it.

**Proofs.** `DefaultPmmProofs` proves `BlocksOK` and `ServesLowest` for any number of pages. `BlocksOK`
is nearly inductive: `IInv` states the list as intervals that do not touch (`Extents`, with a gap of 0
or 1 page between two) and cover the pages that are not held (`Covers`), and adds that the last page is
free until it is spent, without which a block could come last and not merge. There is one lemma
about intervals for each thing a call does to the list (`Shorter`, `Removed`, `Inserted`, `GrownUp`,
`GrownDown`, `Bridged`), one about the list itself for each (`FrontTaken` to `JoinedBoth`), and one about
each call. The refinement rests on `RunInBlock`: if touching blocks are merged, pages that follow
one another and are free lie in one block, so the first block that fits is the lowest, and none
fits only if there is no room.

## 7. `Slob`: the kernel heap

**State.** Memory is counted in cells of `SLOB_UNIT` bytes. `heap.circle` is the circle of
free blocks from `slobfree` on, so a rotation of it is a move of `slobfree`;
`heap.units` is the first field of every header. `grown` is the set of pages that
`slob_alloc` has taken (it returns none), `bigblocks` the list of records of objects
with pages of their own, whose order nothing depends on. `asked` is not in the code: the objects
in use, with the bytes that were asked for. Pages come from `alloc_pages`, which
may answer with any free ones or refuse.

**Actions.** `KmallocSmall`, `KmallocBig` and `Kfree` are the calls; `slob_alloc`,
`Freed` (`slob_free`), `find_order` are the functions under them. Each is one step, as the
kernel is not preempted. A record overwrites the header it is given with its own
first field, `order`: `slob_free` must be told its length. Alignment is left out:
every caller gives 0. So is `ksize`, which changes nothing and is not called.

| run | question | result |
|---|---|---|
| `slob_safety` (3 pages of 6 cells; objects of 2, 3, 4 cells with the header, of one and of two pages, and one refused by the assertion) | does the circle stay in order and merged, is no cell lost or given out twice? | holds, 182,124 states |

Pages of six cells let a page be cut into two or three objects with a cell left
over, which merges with the next page when the heap grows; an object can then begin at a
page boundary, where `kfree` looks for a big one. Three pages suffice for growth on
either side, a hole between, and a big object of two.

**Met while modelling**, and not among the findings because every caller in this
kernel asks for small structures. At the border between small and big: `__kmalloc`
compares the size with `PAGE_SIZE - SLOB_UNIT`, adds the header, and `slob_alloc`
adds it again in its assertion, so requests of 4064 to 4079 bytes stop the kernel
(`KmallocPanics`). In `find_order`: the bits that are shifted out are dropped, so sizes
from `2^k * 4096 + 1` to `2^k * 4097 - 1`, for `k > 0`, get `2^k` pages. With such a size
(25 bytes in the scale of the run) `ObjectsApart` does not hold; the run asks for none.

**Proofs.** `SlobProofs` proves `HeapOK` for every number of pages, page size, cell size and set of sizes
(`HeapAssumption`: a page has more than three cells, nobody asks for 0 bytes), and `ObjectsApart` where
no size is one that `find_order` rounds down (`SizesWhole`, which the sizes of the run satisfy):
without it the theorem would be false, by the example above.

Neither invariant is inductive: they say that free blocks and objects lie apart, and not what
`slob_free` needs to know of the block that it is given. `SlobInv` says that the free blocks and the
pieces in use cut up the pages taken (`HeapHolds`), and how long each piece is: a small object's is in the
header before it, which is no record (`SmallsRight`), and a record's is a constant, because its
first field holds the order; the order is that of the size asked for (`RecordsRight`), and the pages of
objects are neither the heap's nor one another's (`PagesApart`). The argument goes up from there:

* the circle by itself (`Ring`): it goes up, with a gap behind each block, and comes back to the arena. It may be
  listed from any block (`Turned`), so `slob_free`'s search and `slob_alloc`'s are for a place where the circle can be
  opened. The search of `slob_free` ends (`BelongsSomewhere`: behind the nearest block below, at the
  latest), and the block lies between the two it has found (`BelongsMeans`);
* memory by itself (`Cut`): pieces that touch may be joined, one may be parted, and one may come
  from elsewhere, and they still cover the same cells or those and the new ones;
* the two together: `FreedKeeps` goes through the four ways in which `slob_free` joins a block with
  its neighbours, `TakenKeeps` through a block that fits exactly and one that is cut, `PageAdded` is
  `slob_free` of a new page, and `SlobAlloc` has all answers of `slob_alloc`;
* `kfree` decides by the address and the list of records whether an object is big. A small object may begin at a page
  boundary, but its page is the heap's, so it is in no record (`NoRecordHere`).

## 8. `Vma`: the areas of an address space

**State.** `mmap_list` is the list of areas, `mmap_cache` what `find_vma` found last (a
set, empty at first), `map_count` its counter. One address space is followed: `Duplicate` is
`dup_mmap`'s list, after which the model goes on with the child's copy, and `Renew` is
`mm_destroy` and `mm_create` at an exec. `MmMap` is `mm_map` with
`insert_vma_struct`, `Find` a look-up by the fault handler, `Check` the
`user_mem_check` of a system call, a loop written as a recursive function. A
request that fails for lack of memory, or is outside user memory, changes nothing and is
no action. The answer of `user_mem_check` to a kernel thread, which has no areas,
is left out.

| run | question | result |
|---|---|---|
| `vma_safety` (4 pages of 2 bytes, a page below them, all starts and lengths) | is the list in order; does the cache change an answer; does `user_mem_check` agree to just the ranges that may be accessed; does `check_vma_overlap` fail just for areas that overlap; does `mm_map` add one area or none; does the child get its parent's areas? | holds, 2,230 states |

Four pages hold up to four areas, with gaps and without; two bytes a page are
enough for starts and ends that are not at a page.

**Met while modelling**, and not among the findings because no program of this kernel leads
there. `mm_map` was written for a `find_vma` that returns the first area
that ends above an address. Here `find_vma` returns none unless the address
lies in it, so `mm_map` notices an overlap only when its start is in an area; a range that begins in a gap
and reaches into an area stops the kernel in `check_vma_overlap` (`panicked`). `load_icode`
meets this only with program headers that are not in order of address.

`AreasOK` says of any range of user memory that `check_vma_overlap`, which looks at the two
neighbours only, fails exactly if some byte of the range is taken (`FailsOnOverlap`): no overlap gets in, and
nothing else stops the kernel there. `AreasStay` says that the loop of `dup_mmap`
leaves the same list, and that any other step but `Renew` leaves the list or adds one area to it.

**Proofs.** `VmaProofs` proves `AreasOK`, `ChecksEveryByte` and `AreasStay` for every page size, address
space and set of flags. The invariant adds to the order of the list that the cache holds
listed areas only: as no address is in two areas (`OneArea`), a hit in the cache is what the list
would have given (`FindIsExact`). `check_vma_overlap` looks at the two neighbours; that the rest of
the list is clear too follows from its order (`NeighboursSuffice`, `OverlapIsExact`, `InsertKeepsSorted`). Two loops are recursive definitions,
and before anything can be said of what they compute it must be shown that there is such a
function: `LoopComputes` does so for any loop that comes nearer its end with each turn,
`FoldIsWalk` applies it to `dup_mmap`, which rebuilds the list from its end (`DuplicateKeepsList`),
and `LoopOfCheck` to `user_mem_check`, whose every turn goes to a higher address
(`TurnIsExact`, `TurnStops`).

## 9. `PageTable` and `AddressSpace`: a process's memory from fork to wait

`PageTable` has the three levels: `pgdir` and `table` map entries to pages, and a directory, a
table and a page of the program are all pages of memory, so that one freed too early shows
up as another's. `get_pte`, `page_insert`, `unmap_range` and `exit_range` are operators on them.
`tables` and `short` are not in the code: which pages are directories or tables, and
whether `get_pte` was cut short.

`AddressSpace` is the whole life of one process's memory: its `proc_struct`, kernel stack, `mm`,
page directory, tables and pages. `call` is what the kernel does for it (a fork, an exec, an
exit, a wait), `pc` the place in that code, named for its labels (`bad_fork_cleanup_kstack`
and so on). A step goes from one allocation to the next, and **every
allocation may fail**: pages when none is left, the heap at any time. `satp` is the
directory the hart uses, so that freeing it while it is in use can be seen.

**Abstractions.** Other processes are not followed; the parent's pages are numbered
behind memory, and a mapping of the child to one of them does not own it (`Cow` has
the reference counts, with flat tables). Bytes are grouped: a page has two, and a
segment's file and memory sizes end at any byte. Stores to user memory are `Cow`'s affair.

| run | question | result |
|---|---|---|
| `address_space` (2 directories of 2 tables of 2 pages of 2 bytes, 11 pages of memory, kernel stacks of 2 pages, 1 stack page, segments up to 4 bytes) | wherever memory runs out: is every page given back once, and all of them when the process is gone; does the hart never use a directory that is freed; is the image what the program file says; does every call return? | holds, 115,825 states |

The programs put a segment at every start and of every small size, two segments in one table, in
two and in two directories, one beside the stack and one without bytes, which has an area but no page;
one file is no program. A
behaviour begins with any number of free pages from none to eleven, which is enough for
the largest program, so that every allocation of every path fails in some behaviour and succeeds in another.
As a bound, there is no second process once pages are lost. The code allocates four stack pages (`STACKPAGES` is one here); they are taken by four equal
calls in a row. `CallReturns` is under `WF(KernelStep)`: the code is not
interrupted by other processes.

**Met while modelling**, and not among the findings because the layouts of this kernel's programs
avoid it. `exit_range` decides to free a level-0 directory when every entry of its range was
valid before (`pmm.c:353-361`); the comment at `pmm.c:356` says it is freed when it is empty. Entries
of other areas are not looked at, and the tables behind them are lost with the directory (`lost`).
`TidyLosesNothing` is the condition under which nothing is lost, and the programs of this
kernel meet it, with text and data in one table and the stack in another directory. When
`load_icode` cannot get the pages of the stack it stops the kernel (its assertions);
`PanicsOnlyWhenShort` shows that only a lack of memory leads there.

**Proofs.** `AddressSpaceProofs` proves `MemoryOK`, `SatpIsHeld`, `ImageLoaded` and `PanicsOnlyWhenShort` for page
tables and pages of any size, any number of pages of memory, and any programs. The assumptions are those TLC
evaluates: sizes are not 0, the area of the stack has room for the pages that are loaded, and the areas
of a program are not empty, in user memory, and in the order of addresses (else `mm_map` refuses one
or `insert_vma_struct` stops the kernel, which `Vma` has).

`MemInv` is the inductive invariant under all four. `TreeInv` says that the tables are a tree: the module
describes them by what lies in each direction from the page directory, `Dir(d)`, `Tab(d, e)` and `Ent(d, e, x)`,
which are never the same page in two directions. `Accounts` says that every page has one
holder, `PlaceOK` what is there at each place of `pc`, and `LoopOK` how far the loops have come. All
are needed at once: `page_insert` keeps one holder per page only because the tree has no page twice,
and an error label frees all only because of what was there at the place that jumped to it. The
proof has three layers: an address and its three indices determine each other (`Coordinates`, `SamePlace`,
`EveryPlace`, with the arithmetic of `div` and `mod`); what `page_insert`, `unmap_range` and `exit_range` do, failures
half way included, in terms of the tree (`InsertDoes`, `FailKeeps`, `UnmapKeeps`, `ExitDoes`); and one case per
action. That no table stays behind (`TidyLosesNothing`) rests on `TidyOK`: of the areas that
`exit_range` has come to, no directory is left.

`ImageInv` says what `load_icode` has done so far: the parts before `at` are complete, of this one the bytes up to
`start` are written, and the pages are those of the parts so far and those below `la`. That later parts do not
write over earlier ones follows from the order of the areas, that the tail of the last page of a
file is zeroed just up to the next page or the end from `LoopOK`.

`ShortInv` counts. While a program is loaded every directory and table leads to a page that has been loaded
(`Used`), so that the tables in use are no more than the pages so far need (`TablesCounted`), and
what `get_pte` finds missing for the next page is not among them (`MissingIsNew`). The next page of
the stack is new (`StackPageIsNew`), so when it cannot be had the free pages and all the others
together are fewer than `Enough` (`ShortOfPages`). It rests on both other invariants.

## 10. `UserMachine` and `TrapEntry`: traps, stacks and interrupts

`UserMachine` is what a program may assume: its program counter and registers move by its own
instructions only; a call moves the counter to the next one and may change the registers once,
with its answer; a child begins behind its parent's call with 0. `TrapEntry` is what makes
that so, and implements it (`TrapsUnseen`): the context of a user process is in the hart,
or in the frame at the bottom of its kernel stack.

**State.** The hart has `mode`, `pc`, `sp`, `regs` and in `csr` the bits SIE, SPIE, SPP and the
registers `sepc`, `scause`, `sscratch`. `stack[p]` is `p`'s kernel stack as a sequence: trap frames and the
locals of the C functions that are not over; an address on it is the number of items above, so a
frame that is overwritten, or a stack pointer that does not match the code, is visible.
`saved` is `proc->context`, `tf` is `proc->tf`. A step runs to the next place where an
interrupt could matter or the stack changes, and the timer's interrupt is taken between any
two steps that leave SIE on.

**Actions.** `TakeTrap`, `Sret` and `UserStep` are the hart; `SAVE_ALL`, `RESTORE_ALL`, `forkrets` and
`kernel_execve_ret` are `trapentry.S`; `TrapFrame`, `Dispatch...` and `TrapEnds` are `trap.c`; `Sys...` the calls
through the table; `SchedulePicks`, `switch_to`, `RunRestores`, `ScheduleRestores` the way through `schedule()` and
`proc_run`, with the flag of `local_intr_save` as a local of each; `WaitLooks`, `WaitSleeps`, `WaitWoken` are
`do_wait`; `InitMain`, `InitWaits`, `cpu_idle` and the steps of the boot the kernel threads. Four causes stand for
what a program can raise: a call, a page fault, which is resolved or ends the process, a misaligned
store, which `exception_handler` answers with a panic (`trap.c:200`), and the others, for which it prints
a line. `InitMain` panics when `user_main` cannot be created.

**Abstractions.** All registers are one value, that of `a0`. Any runnable process may be picked and
nobody is killed (`Proc` has both); whether an exec or a fault succeeds is open
(`AddressSpace`). Traps before `proc_init`, when there is no current process, do not occur: interrupts are
off until `intr_enable`.

| run | question | result |
|---|---|---|
| `trap` (2 user processes besides `init` and `idle`, `TICK_NUM` 2, programs of 2 instructions) | is a trap unseen by user programs; is the stack always the current process's and interrupts on just where they should be; does no wakeup get lost; is every timer interrupt answered and does every time slice end? | holds, 500,431 states |

Two user processes are a parent and its child, each in a call, in a tick or in a first return while
the other is. A slice of two ticks (100 in the code) has ticks that end it and ticks that do not.
`CHECK_DEADLOCK` is off: after a panic the kernel is in the monitor.

**Fairness.** `WF(KernelStep)`: the hart executes. `WF(TimerFires)`: the armed timer becomes
pending; in the model it does not do so while the handler that armed it is on its way back, as
the period is 10 ms. `SF(OpenStep)`: the code of kernel threads that runs with interrupts on is not
interrupted before every instruction for ever. Nothing is assumed of what programs do.

**Met while modelling.** `kernel_execve_ret` leaves by another way than `trap()`: `current->tf` still
names the frame deep in the stack that is given up, and the tail of `trap()` is not reached,
so a slice that ended during the exec goes on to the next tick (`SliceEnds` allows for it). `cpu_idle`'s
`need_resched` is never set again after the boot, which is harmless only because idle never
gets the hart back (`IdleNeverReturns`). An illegal instruction of a user program is printed
and then executed again, for ever: the program is preempted, but never ended.

**Proofs.** `TrapEntryProofs` proves `StacksOK`, `InterruptsAsIntended` and `NoLostWakeup`, and
that the kernel implements `UserMachine`, for any number of processes, programs
of any length and time slices of any length. They assume `TrapEntryAssumption`: `idle`, `init`, the
other processes and "no process" are different, "no context" is none of the contexts, and the
numbers of instructions and of ticks are not 0.

The invariant of the runs says where the stack pointer is; a step that pops needs to know *what*
it pops. `IInv` therefore says what lies on every kernel stack, item by item, for each place where the
kernel can be: `Bottom` is what a process's own code has below it, `InWait`, `InSchedule`,
`FlagSaved` and `InProcRun` are the locals of `do_wait`, `schedule()`, `local_intr_save` and `proc_run`
on top of that, `Interrupted` an interrupt's frame above code that may be interrupted (`Open`), `New` a process
before its first return. `Suits` chooses among them by the program counter of the running process,
`OthersOK` by the saved `ra` of the others, which are all in `proc_run` or new. The predicates take the
number of items they look at, so one statement serves the running process, the ones
switched out, and code below an interrupt. What carries the proof is that code that runs with
interrupts on has no `trap()` below it on its stack: interrupts and breakpoints in the kernel do not nest.
`NoLostWakeup` is inductive only with `FallsAsleep`: between the look at the
children and the change of the state, nobody else has run, as only `idle` and `init` have
interrupts on there and an interrupt of theirs does not schedule.

For the refinement, what a user program sees of its process depends only on where the hart is, or on the user
frames of the stack and whether `trap()` is above one. Most steps push, pop or store items
that do not count and are shown to change nothing seen; the steps that answer a call, end it,
start a child or load a program are shown to be that step of `UserMachine`. Two
conjuncts of `IInv` are there for this alone: a process that waits in a call has the cause
`ecall` in its frame, and the frame that `kernel_execve` copies down has none.

## 11. `Strings`, `Printfmt` and `Monitor`: the kernel's dialogue

`Strings` are the functions of `string.c` on a memory of bytes. `Printfmt` is
`vprintfmt`, one character of the format a step: `fmt` and `at` are the format and the place
in it, `esc` what flags, width and precision have said so far, `out` what was given to `putch`.
`Monitor` adds `readline`, key by key, into `buf`, and `parse` and `runcmd` on the same buffer;
between lines any other code prints with any of the formats.

| run | question | result |
|---|---|---|
| `monitor` (ints of 4 bits, longs of 6, a buffer of 5 bytes, `MAXARGS` 1) | does a printed number read back as the number passed, by `strtol`; does a field keep its width; is an unknown escape printed as it stands; does `snprintf` stay in its buffer, and refuse none or one of no size; does the terminal show the line that is read; are its words and command found, and does the kernel go astray only with more words than `argv` holds; are copies, moves and comparisons right for all blocks of the buffer; does every print end? | holds, 100,946 states |

Seven words, with zero, the largest and smallest of each width and numbers next to them, have the signs and
the truncation. The formats are every escape with up to three flags, digits, dots or stars and any
conversion, an unknown one, or the end of the format, with text around it. A buffer of five holds a command, two words and a line cut off at its end;
with room for one word, lines of two are too long for `argv` and all others are not.
`PrintReturns` is under `WF` of the print's own steps, which nothing waits for.

**Bounds that matter.** `HasOpposite`: `%e` is not given the smallest int, whose opposite is itself and
would index in front of `error_string`; no caller in this kernel does.

**More words than `MAXARGS`.** A typed line of more than 16 words is too long for `runcmd`'s `argv`. `parse` says
"Too many arguments" at the sixteenth, which still fits, and goes on
(`kmonitor.c:55-59`): the pointers to the following words are stored behind `argv`, in the frame of `runcmd`.
What they fall on is the compiler's choice, so `runcmd` has both outcomes for such a line: nothing is
lost, or the kernel is astray and the model says nothing more (`Astray`).

**Met while modelling**, differences from comments that no code here depends on. The head of
`printfmt.c` (8-9) says that padding and a field width are for the numeric formats only, but `%s` has them
too, as `FieldsKeepWidth` shows. A width pads
behind the sign (`%5d` of -3 is `-   3`), which `strtol` cannot read. The flag `-`, "to pad on the
right" (`printfmt.c:148`), pads a number on the left, with dashes. `%.0s` prints the whole string.
`strtol` takes `0x` but not the `0X` of its comment. `cons_getc` answers -1, not 0 (`console.c:25`), when no
key is waiting, so `readline` gives up in the middle of a line.

## 12. What is only model-checked, and what is not modelled

**Only model-checked.** Liveness: TLAPS does not handle fairness. So `TimerAnswered`, `SliceEnds` and the other
temporal properties of the runs stay with TLC. No liveness is claimed for `Cow`, where
nothing waits, nor for `DefaultPmm`, `Slob` and `Vma`, whose calls are single steps. The
invariants of `Monitor` hold on the instances of the runs: what
`Strings` and `Printfmt` compute for every input is an induction over data, which is out of the
prover's reach.

**Not modelled.**

* The boot mapping in `entry.S`, `page_init`, the device tree parser, firmware calls and the commands of the
  monitor with `kdebug.c`: straight-line code and device I/O, with no other actor; their result is the
  initial state of the models.
* Self-tests (`check_vma_struct`, `default_check`, `check_pgdir` and others): they run once, before the first process.
* `rand.c` and `ksize`, which nothing calls.
* `lock()` and the atomic operations: on one hart, without preemption in the kernel, no process
  finds `mm_lock` or `page_lock` taken, so the loop that waits is never entered.
* Exit codes on their way from `do_exit` to `do_wait`'s caller, and the names of processes.
* User programs and their library: the environment. `Proc` and `TrapEntry` let them make any call at any time.
* `hash32` of numbers above 16 bits: `MAX_PID` is 2^13 in the code.
