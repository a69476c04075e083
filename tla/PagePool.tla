------------------------------ MODULE PagePool ------------------------------
(***************************************************************************)
(* What alloc_pages and free_pages promise: a request for n pages is given *)
(* the lowest n consecutive pages that nobody holds, and refused only if   *)
(* there are no such pages.  Blocks, lists and counters do not exist here. *)
(***************************************************************************)
EXTENDS Integers

CONSTANTS NPAGE,  \* the number of pages that are managed
          NULL    \* the answer to a request that is refused

VARIABLES held,   \* the pages that have been given out
          page    \* the answer to the last request

Page == 0 .. NPAGE - 1
Run(b, n) == b .. b + n - 1
FreeRuns(n) == {b \in Page : Run(b, n) \subseteq Page \ held}

Init == held = {} /\ page = NULL

Alloc(n) ==
  \/ /\ \E b \in FreeRuns(n) :
          /\ \A c \in FreeRuns(n) : b <= c
          /\ page' = b /\ held' = held \cup Run(b, n)
  \/ /\ FreeRuns(n) = {}
     /\ page' = NULL /\ UNCHANGED held

Free(b, n) ==
  /\ Run(b, n) \subseteq held
  /\ held' = held \ Run(b, n) /\ UNCHANGED page

Next == \E n \in 1 .. NPAGE : Alloc(n) \/ \E b \in Page : Free(b, n)

Spec == Init /\ [][Next]_<<held, page>>
=============================================================================
