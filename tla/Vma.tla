-------------------------------- MODULE Vma ---------------------------------
(***************************************************************************)
(* The areas of a user address space, kern/mm/vmm.c: the list sorted by    *)
(* start address with the cache of find_vma, mm_map which adds to it, and  *)
(* user_mem_check which the system calls ask before they touch user        *)
(* memory.                                                                 *)
(*                                                                         *)
(* One address space is followed: do_execve and do_exit destroy it, and at *)
(* a fork the model goes on with the child's copy.  Nothing in the kernel  *)
(* takes a single area away.  No call sleeps, so each is one step.         *)
(***************************************************************************)
EXTENDS Integers, Sequences, FiniteSetsExt, SequencesExt

CONSTANTS PGSIZE,    \* bytes in a page
          USERBASE,  \* where user memory begins, and
          USERTOP,   \* the first byte behind it
          Flags      \* the vm_flags in use: sets of "read", "write", "stack"

ASSUME VmaAssumption ==
  /\ PGSIZE \in Nat \ {0} /\ USERBASE \in Nat /\ USERTOP \in Nat
  /\ USERBASE % PGSIZE = 0 /\ USERTOP % PGSIZE = 0 /\ USERBASE < USERTOP
  /\ Flags \subseteq SUBSET {"read", "write", "stack"}

VARIABLES
  mmap_list,   \* the areas, as the list has them
  mmap_cache,  \* the area that find_vma found last: none or one
  map_count,
  panicked     \* an assertion of insert_vma_struct has failed

vars == <<mmap_list, mmap_cache, map_count, panicked>>

Byte == 0 .. USERTOP + PGSIZE - 1
Area == [vm_start : Byte, vm_end : Byte, vm_flags : Flags]
In(a, vma) == vma.vm_start <= a /\ a < vma.vm_end

USER_ACCESS(start, end) == USERBASE <= start /\ start < end /\ end <= USERTOP
RoundDown(a) == a - (a % PGSIZE)
RoundUp(a) == RoundDown(a + PGSIZE - 1)

-----------------------------------------------------------------------------
\* What find_vma returns with a cache, none or one.  Fault: the end belongs to
\* the cached area too, as the comment above find_vma has it.
HitsEnd(a, cache) == {vma \in cache : vma.vm_start <= a /\ a <= vma.vm_end}
Hits(a, cache) == {vma \in cache : In(a, vma)}

Listed(a) ==
  LET found == {i \in DOMAIN mmap_list : In(a, mmap_list[i])}
  IN  IF found = {} THEN {} ELSE {mmap_list[Min(found)]}
find_vma(a, cache) == IF Hits(a, cache) # {} THEN Hits(a, cache) ELSE Listed(a)
CacheAfter(a, cache) == IF find_vma(a, cache) = {} THEN cache ELSE find_vma(a, cache)

Find(a) ==
  /\ mmap_cache' = CacheAfter(a, mmap_cache)
  /\ UNCHANGED <<mmap_list, map_count, panicked>>

-----------------------------------------------------------------------------
(* mm_map                                                                  *)

\* The new area goes behind all that do not start above it.
Place(list, vma) ==
  Min({i \in DOMAIN list : list[i].vm_start > vma.vm_start} \cup {Len(list) + 1})

\* check_vma_overlap, with the neighbour on either side.
Overlaps(list, vma) ==
  LET i == Place(list, vma)
  IN  \/ i > 1 /\ list[i - 1].vm_end > vma.vm_start
      \/ i <= Len(list) /\ list[i].vm_start < vma.vm_end
Inserted(list, vma) == InsertAt(list, Place(list, vma), vma)

\* Only an area that holds the start is in the way.
MmMap(addr, len, flags) ==
  LET start == RoundDown(addr)
      end == RoundUp(addr + len)
      vma == [vm_start |-> start, vm_end |-> end, vm_flags |-> flags]
  IN  /\ USER_ACCESS(start, end)
      /\ IF find_vma(start, mmap_cache) # {}
         THEN Find(start)
         ELSE IF Overlaps(mmap_list, vma)
         THEN panicked' = TRUE /\ UNCHANGED <<mmap_list, mmap_cache, map_count>>
         ELSE /\ mmap_list' = Inserted(mmap_list, vma)
              /\ map_count' = map_count + 1
              /\ UNCHANGED <<mmap_cache, panicked>>

-----------------------------------------------------------------------------
(* user_mem_check                                                          *)

\* One turn of its loop, in area vma.  A program may not write to the lowest
\* page of its stack.  Fault: it may.
PermitsGuard(a, vma, write) == (IF write THEN "write" ELSE "read") \in vma.vm_flags
Permits(a, vma, write) ==
  /\ (IF write THEN "write" ELSE "read") \in vma.vm_flags
  /\ ~(write /\ "stack" \in vma.vm_flags /\ a < vma.vm_start + PGSIZE)

\* The answer and the cache it leaves, going from area to area.
user_mem_check(addr, len, write) ==
  LET end == addr + len
      loop[q \in Byte \X SUBSET ToSet(mmap_list)] ==
        LET found == find_vma(q[1], q[2])
            cache == CacheAfter(q[1], q[2])
        IN  IF q[1] >= end THEN [ok |-> TRUE, cache |-> q[2]]
            ELSE IF \E vma \in found : Permits(q[1], vma, write)
            THEN loop[<<(CHOOSE vma \in found : TRUE).vm_end, cache>>]
            ELSE [ok |-> FALSE, cache |-> cache]
  IN  IF USER_ACCESS(addr, end) THEN loop[<<addr, mmap_cache>>]
      ELSE [ok |-> FALSE, cache |-> mmap_cache]

Check(addr, len, write) ==
  /\ mmap_cache' = user_mem_check(addr, len, write).cache
  /\ UNCHANGED <<mmap_list, map_count, panicked>>

-----------------------------------------------------------------------------
\* dup_mmap walks the list from its end, and inserts a copy of each area.
\* Fault: it copies the bounds only.
CopyBounds(vma) == [vma EXCEPT !.vm_flags = {"read"}]
Copy(vma) == vma
Duplicate ==
  /\ mmap_list' = FoldRight(LAMBDA vma, list : Inserted(list, Copy(vma)), mmap_list, <<>>)
  /\ mmap_cache' = {} /\ map_count' = Len(mmap_list')
  /\ UNCHANGED panicked

\* mm_destroy, and mm_create for the next program.
Renew ==
  /\ mmap_list' = <<>> /\ mmap_cache' = {} /\ map_count' = 0
  /\ UNCHANGED panicked

Init == mmap_list = <<>> /\ mmap_cache = {} /\ map_count = 0 /\ panicked = FALSE

Stopped == panicked /\ UNCHANGED vars

Next ==
  \/ /\ ~panicked
     /\ \/ \E a \in Byte : Find(a)
        \/ \E a \in Byte, len \in 0 .. USERTOP, flags \in Flags : MmMap(a, len, flags)
        \/ \E a \in Byte, len \in 0 .. USERTOP, write \in BOOLEAN : Check(a, len, write)
        \/ Duplicate
        \/ Renew
  \/ Stopped

Spec == Init /\ [][Next]_vars

-----------------------------------------------------------------------------
\* The types of the variables; map_count is the length of the list.
TypeOK ==
  /\ mmap_list \in Seq(Area) /\ mmap_cache \subseteq Area
  /\ map_count = Len(mmap_list) /\ panicked \in BOOLEAN

\* The areas are whole pages of user memory, in order of address, and do not
\* overlap, as check_vma_overlap asserts.
AreasInOrder ==
  /\ \A i \in DOMAIN mmap_list :
       LET vma == mmap_list[i]
       IN  /\ USER_ACCESS(vma.vm_start, vma.vm_end)
           /\ vma.vm_start % PGSIZE = 0 /\ vma.vm_end % PGSIZE = 0
  /\ \A i, j \in DOMAIN mmap_list : i < j => mmap_list[i].vm_end <= mmap_list[j].vm_start

\* Whatever was asked before, find_vma finds the area that an address belongs to
\* (vmm.h: vm_start <= addr < vm_end), and no other.
FindsTheArea ==
  \A a \in Byte : find_vma(a, mmap_cache) = {vma \in ToSet(mmap_list) : In(a, vma)}

\* check_vma_overlap looks at the two neighbours of the place for a new area only,
\* and fails exactly if some byte of the area is taken.  So mm_map, which looks at
\* the first byte, stops the kernel if that is free and a later one is not.
FailsOnOverlap ==
  \A start, end \in Byte, flags \in Flags :
    USER_ACCESS(start, end) =>
      ( Overlaps(mmap_list, [vm_start |-> start, vm_end |-> end, vm_flags |-> flags])
        <=> \E a \in start .. end - 1 : \E vma \in ToSet(mmap_list) : In(a, vma) )

\* The list of areas and its cache, which insert_vma_struct and find_vma keep, and
\* the assertions on it.
AreasOK == TypeOK /\ AreasInOrder /\ FindsTheArea /\ FailsOnOverlap

\* user_mem_check agrees to a range exactly if each of its bytes may be accessed.
MayAccess(a, write) ==
  \E vma \in ToSet(mmap_list) :
    /\ In(a, vma)
    /\ write => "write" \in vma.vm_flags
    /\ ~write => "read" \in vma.vm_flags
    /\ write /\ "stack" \in vma.vm_flags => a - vma.vm_start >= PGSIZE
ChecksEveryByte ==
  \A a \in Byte, len \in 0 .. USERTOP, write \in BOOLEAN :
    user_mem_check(a, len, write).ok <=>
      USER_ACCESS(a, a + len) /\ \A b \in a .. a + len - 1 : MayAccess(b, write)

\* A fork gives the child the areas of its parent, no more and no fewer, though
\* dup_mmap inserts them one by one from the last.  Only exec and exit take areas
\* away; what else changes the list keeps its areas and adds one, and does not do
\* so when an assertion fails.
Grows == /\ Len(mmap_list') = Len(mmap_list) + 1
         /\ ToSet(mmap_list) \subseteq ToSet(mmap_list')
         /\ ~panicked'
AreasStay == [][/\ Duplicate => mmap_list' = mmap_list
                /\ ~Renew => mmap_list' = mmap_list \/ Grows]_vars
=============================================================================
