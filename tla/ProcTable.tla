----------------------------- MODULE ProcTable ------------------------------
(***************************************************************************)
(* The process table in memory (kern/process/proc.c): proc_list, the hash  *)
(* lists and the family links cptr, yptr and optr, pointer by pointer, as  *)
(* set_links, remove_links, hash_proc, unhash_proc and do_exit's adoption  *)
(* write them through libs/list.h, and as find_proc and do_wait follow     *)
(* them.  GetPid supplies the pids, and procList, the list the pointers    *)
(* must spell.                                                             *)
(*                                                                         *)
(* Interrupts are off while any of this is written, so the steps of one    *)
(* operation are one here, but for get_pid's walk.  Which process runs is  *)
(* Proc's affair: any that is not a zombie does what a process may do.     *)
(***************************************************************************)
EXTENDS GetPid, FiniteSets, Functions

CONSTANTS idleproc, initproc,
          Other,       \* the proc_structs of the other processes
          Null,
          HASH_SHIFT   \* there are 2^HASH_SHIFT hash lists

\* hash32 is computed as below for numbers of 16 bits only.
ASSUME TableAssumption ==
  /\ HASH_SHIFT \in 1 .. 16 /\ MAX_PID <= 2 ^ 15
  /\ Cardinality(Other) >= MAX_PROCESS - 2

VARIABLES
  pid, parent, zombie,
  cptr, yptr, optr,       \* youngest child, younger and older sibling
  nr_process,
  list_link, hash_link    \* the entries of proc_list and of the hash lists

family == <<cptr, yptr, optr>>
table == <<pid, parent, zombie, family, nr_process, list_link, hash_link>>

Struct == {initproc} \cup Other
proc_list == <<>>
Buckets == {<<b>> : b \in 0 .. 2 ^ HASH_SHIFT - 1}

\* Different things in memory have different addresses.
ASSUME AddressAssumption ==
  /\ initproc \notin Other /\ idleproc \notin Struct
  /\ Null \notin Struct \cup {idleproc, proc_list} \cup Buckets
  /\ ({proc_list} \cup Buckets) \cap Struct = {}

-----------------------------------------------------------------------------
(* libs/list.h.  A list is its entries' next and prev.                     *)

list_init(heads) ==
  LET own(n) == IF n \in heads THEN n ELSE Null
  IN  [next |-> [n \in heads \cup Struct |-> own(n)],
       prev |-> [n \in heads \cup Struct |-> own(n)]]

list_add(l, head, elm) ==
  LET next == l.next[head]
  IN  [next |-> [l.next EXCEPT ![head] = elm, ![elm] = next],
       prev |-> [l.prev EXCEPT ![next] = elm, ![elm] = head]]

\* The entry's own pointers stay, but nobody reads them: kfree follows.
list_del(l, elm) ==
  [next |-> [l.next EXCEPT ![l.prev[elm]] = l.next[elm], ![elm] = Null],
   prev |-> [l.prev EXCEPT ![l.next[elm]] = l.prev[elm], ![elm] = Null]]

\* What a walk from first on meets, in order, until it comes to one of the ends.
Walk(succ, first, ends) ==
  LET walk[n \in 0 .. MAX_PROCESS] ==
        IF n = 0 THEN <<first>>
        ELSE IF Last(walk[n - 1]) \in ends THEN walk[n - 1]
        ELSE Append(walk[n - 1], succ[Last(walk[n - 1])])
  IN  Front(walk[MAX_PROCESS])

\* Along next or prev, from a head once round.
Along(succ, head) == Walk(succ, succ[head], {head, Null})

-----------------------------------------------------------------------------
\* hash32, for 16-bit numbers: the upper half of the product with 0x9e370001.
hash32(val, bits) == ((val * 40503) % 2 ^ 16) \div 2 ^ (16 - bits)
pid_hashfn(p) == <<hash32(p, HASH_SHIFT)>>

\* find_proc: the first in the pid's hash list that has it.
find_proc(p) ==
  LET list == Along(hash_link.next, pid_hashfn(p))
      k == SelectInSeq(list, LAMBDA s : s \in Struct /\ pid[s] = p)
  IN  IF p \in Pid /\ k # 0 THEN list[k] ELSE Null

\* The children of q as do_wait's walk meets them.
Children(q) == Walk(optr, cptr[q], {Null})

Linked == {s \in Struct : pid[s] # 0}
Running == {s \in Linked : ~zombie[s]}

-----------------------------------------------------------------------------
\* do_fork's links, for proc_struct c and the process q: a child is the
\* youngest.
set_links(c, q) ==
  /\ optr' = [optr EXCEPT ![c] = cptr[q]]
  /\ yptr' = [s \in Struct |-> IF s = cptr[q] THEN c ELSE IF s = c THEN Null ELSE yptr[s]]
  /\ cptr' = [cptr EXCEPT ![q] = c, ![c] = Null]

hash_proc(c, p) == hash_link' = list_add(hash_link, pid_hashfn(p), c)

Fork ==
  /\ Call
  /\ nr_process < MAX_PROCESS
  /\ UNCHANGED table

\* The first process is init, forked by idle.
Forked(c, q) ==
  /\ Link
  /\ c \notin Linked
  /\ IF Linked = {} THEN c = initproc /\ q = idleproc ELSE q \in Running
  /\ pid' = [pid EXCEPT ![c] = last_pid]
  /\ parent' = [parent EXCEPT ![c] = q]
  /\ hash_proc(c, last_pid)
  /\ list_link' = list_add(list_link, proc_list, c)
  /\ set_links(c, q)
  /\ nr_process' = nr_process + 1
  /\ UNCHANGED zombie

\* do_exit: one by one, from the youngest, its children become init's youngest.
\* The state of the links after n of them.  Fault: init's youngest is not told
\* of its new sibling.
AdoptOneUntold(f, c) ==
  [cptr |-> [f.cptr EXCEPT ![initproc] = c],
   optr |-> [f.optr EXCEPT ![c] = f.cptr[initproc]],
   yptr |-> [f.yptr EXCEPT ![c] = Null]]
AdoptOne(f, c) ==
  [cptr |-> [f.cptr EXCEPT ![initproc] = c],
   optr |-> [f.optr EXCEPT ![c] = f.cptr[initproc]],
   yptr |-> [s \in Struct |-> IF s = c THEN Null
                              ELSE IF s = f.cptr[initproc] THEN c ELSE f.yptr[s]]]

\* A process other than init ends; idle and init would stop the kernel.
Exit(p) ==
  /\ pc = "none" /\ p \in Running \ {initproc}
  /\ LET kids == Children(p)
         before == [cptr |-> cptr, optr |-> optr, yptr |-> yptr]
         after[n \in 0 .. Len(kids)] ==
           IF n = 0 THEN before ELSE AdoptOne(after[n - 1], kids[n])
     IN  /\ cptr' = [after[Len(kids)].cptr EXCEPT ![p] = Null]
         /\ optr' = after[Len(kids)].optr /\ yptr' = after[Len(kids)].yptr
         /\ parent' = [s \in Struct |-> IF s \in ToSet(kids) THEN initproc ELSE parent[s]]
  /\ zombie' = [zombie EXCEPT ![p] = TRUE]
  /\ UNCHANGED <<vars, pid, nr_process, list_link, hash_link>>

\* remove_links, and what kfree makes of the rest.  Fault: the
\* parent is told in any case.
remove_linksFromParent(s) ==
  /\ yptr' = [x \in Struct |-> IF x = optr[s] THEN yptr[s] ELSE IF x = s THEN Null ELSE yptr[x]]
  /\ optr' = [x \in Struct |-> IF x = yptr[s] THEN optr[s] ELSE IF x = s THEN Null ELSE optr[x]]
  /\ cptr' = [cptr EXCEPT ![parent[s]] = optr[s]]
remove_links(s) ==
  /\ yptr' = [x \in Struct |-> IF x = optr[s] THEN yptr[s] ELSE IF x = s THEN Null ELSE yptr[x]]
  /\ optr' = [x \in Struct |-> IF x = yptr[s] THEN optr[s] ELSE IF x = s THEN Null ELSE optr[x]]
  /\ cptr' = IF yptr[s] # Null THEN cptr ELSE [cptr EXCEPT ![parent[s]] = optr[s]]

unhash_proc(s) == hash_link' = list_del(hash_link, s)

\* nr_process--.  Fault: it is left out.
CountedStill == nr_process
Counted == nr_process - 1

Reaped(s) ==
  /\ \E k \in DOMAIN procList : procList[k] = pid[s] /\ Unlink(k)
  /\ unhash_proc(s)
  /\ list_link' = list_del(list_link, s)
  /\ remove_links(s)
  /\ nr_process' = Counted
  /\ pid' = [pid EXCEPT ![s] = 0]
  /\ parent' = [parent EXCEPT ![s] = Null]
  /\ zombie' = [zombie EXCEPT ![s] = FALSE]

\* do_wait for any child takes the first zombie of the walk,
WaitAny(q) ==
  LET k == SelectInSeq(Children(q), LAMBDA s : zombie[s])
  IN  /\ pc = "none" /\ q \in Running /\ k # 0
      /\ Reaped(Children(q)[k])

\* for one of its own the one that find_proc knows.
WaitFor(q, p) ==
  LET s == find_proc(p)
  IN  /\ pc = "none" /\ q \in Running
      /\ s # Null /\ parent[s] = q /\ zombie[s]
      /\ Reaped(s)

-----------------------------------------------------------------------------
TableInit ==
  /\ Init
  /\ pid = [s \in Struct |-> 0] /\ parent = [s \in Struct |-> Null]
  /\ zombie = [s \in Struct |-> FALSE]
  /\ cptr = [s \in Struct \cup {idleproc} |-> Null]
  /\ yptr = [s \in Struct |-> Null] /\ optr = [s \in Struct |-> Null]
  /\ nr_process = 1
  /\ list_link = list_init({proc_list}) /\ hash_link = list_init(Buckets)

TableNext ==
  \/ Fork
  \/ Search /\ UNCHANGED table
  \/ \E c \in Struct, q \in Struct \cup {idleproc} : Forked(c, q)
  \/ \E p \in Struct : Exit(p)
  \/ \E q \in Struct : WaitAny(q)
  \/ \E q \in Struct, p \in Pid : WaitFor(q, p)

TableSpec == TableInit /\ [][TableNext]_<<vars, table>>
TableFairSpec == TableSpec /\ WF_<<vars, table>>(Search /\ UNCHANGED table)

-----------------------------------------------------------------------------
\* The pointers have their types (proc.h's struct proc_struct), and nothing points
\* to a proc_struct that was freed.
TableTypeOK ==
  /\ pid \in [Struct -> 0 .. MAX_PID] /\ zombie \in [Struct -> BOOLEAN]
  /\ nr_process \in 1 .. MAX_PROCESS
  /\ parent \in [Struct -> Linked \cup {idleproc, Null}]
  /\ cptr \in [Struct \cup {idleproc} -> Linked \cup {Null}]
  /\ yptr \in [Struct -> Linked \cup {Null}] /\ optr \in [Struct -> Linked \cup {Null}]
  /\ \A way \in {"next", "prev"} :
       /\ Range(list_link[way]) \subseteq {proc_list, Null} \cup Linked
       /\ Range(hash_link[way]) \subseteq Buckets \cup {Null} \cup Linked

\* Forward from its head proc_list spells the processes, the youngest first, and
\* backward the same (set_links and remove_links, proc.c:156, 170).
ListSpellsProcesses ==
  LET onward == Along(list_link.next, proc_list)
  IN  /\ [k \in DOMAIN onward |-> pid[onward[k]]] = procList
      /\ Along(list_link.prev, proc_list) = Reverse(onward)

\* find_proc finds every process by its pid, and nothing by any other: neither a
\* process that was reaped nor one in another hash list is met (proc.c:291-307).
FindsByPid ==
  \A p \in 0 .. MAX_PID :
    LET s == find_proc(p) IN IF p \in InUse THEN s # Null /\ pid[s] = p ELSE s = Null

\* From cptr along optr every process meets its children, each once and nobody
\* else's, and yptr leads back, through forks, reaps and adoptions in any order.
FamilyIsLinked ==
  \A q \in Linked \cup {idleproc} :
    LET kids == Children(q)
    IN  /\ ToSet(kids) = {s \in Linked : parent[s] = q}
        /\ Cardinality(ToSet(kids)) = Len(kids)
        /\ \A k \in DOMAIN kids : yptr[kids[k]] = IF k = 1 THEN Null ELSE kids[k - 1]

\* nr_process, which do_fork compares with MAX_PROCESS, counts the processes and idle.
CountIsExact == nr_process = Len(procList) + 1

\* The table as its readers find it: do_wait by the family, kill by the pid,
\* schedule() by the list.
LinksOK == TableTypeOK /\ ListSpellsProcesses /\ FindsByPid /\ FamilyIsLinked

\* When init finds no child any more, its assertions hold: nobody else is left
\* (init_main, proc.c:1012-1015).
InitIsLast ==
  pid[initproc] # 0 /\ pc = "none" /\ cptr[initproc] = Null =>
    /\ yptr[initproc] = Null /\ optr[initproc] = Null
    /\ nr_process = 2
    /\ list_link.next[proc_list] = initproc /\ list_link.prev[proc_list] = initproc
=============================================================================
