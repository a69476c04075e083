--------------------------- MODULE PrivateMemory ---------------------------
(***************************************************************************)
(* What fork promises about user memory: every process has a memory of its *)
(* own.  A child starts with a copy of its parent's, a store changes the   *)
(* memory of the process that makes it and no other, and a process that    *)
(* exits loses its memory.  Pages and sharing do not exist here.           *)
(***************************************************************************)
CONSTANTS Proc,      \* processes
          Page,      \* pages of a user address space
          Writable,  \* the pages of areas with VM_WRITE
          Word,      \* the words of a page, which are stored one at a time
          Value,     \* contents of a word
          Nothing,   \* the content of a page that is not mapped
          First      \* the process that execs the program

VARIABLE mem         \* mem[p][v], for the processes p that have a memory

Image == [Page -> [Word -> Value] \cup {Nothing}]
NoMemory == [v \in Page |-> Nothing]

Init == /\ mem \in [Proc -> Image]
        /\ \A p \in Proc \ {First} : mem[p] = NoMemory

Store(p, v, i, x) ==
  /\ v \in Writable /\ mem[p][v] # Nothing
  /\ mem' = [mem EXCEPT ![p][v][i] = x]

Fork(p, c) ==
  /\ mem[c] = NoMemory
  /\ mem' = [mem EXCEPT ![c] = mem[p]]

Exit(p) == mem' = [mem EXCEPT ![p] = NoMemory]

Next == \E p \in Proc :
          \/ \E v \in Page, i \in Word, x \in Value : Store(p, v, i, x)
          \/ \E c \in Proc : Fork(p, c)
          \/ Exit(p)

Spec == Init /\ [][Next]_mem
=============================================================================
