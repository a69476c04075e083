-------------------------- MODULE ProcTableProofs --------------------------
(***************************************************************************)
(* Proofs about GetPid and ProcTable: whatever the sizes, and whatever     *)
(* processes come and go between calls, get_pid never gives a pid that is  *)
(* in use.  That carries over to the process table, which adds pointers    *)
(* and never steps where GetPid does not.                                  *)
(*                                                                         *)
(* The pointers themselves, next, prev, cptr, yptr and optr, spell a table *)
(* at any time: for proc_list, for every hash list and for every process's *)
(* children there is a sequence of proc_structs whose entries are linked   *)
(* in that order (Ring, Brood), and every operation of list.h or proc.c    *)
(* turns one such sequence into another.  What a walk along the pointers   *)
(* reads is then that sequence (Walk and WalkSpells).                      *)
(***************************************************************************)
EXTENDS ProcTable, SequencesExt, SequenceTheorems, WellFoundedInduction,
        FiniteSetTheorems, TLAPS

-----------------------------------------------------------------------------
(* Positions in a list, and loops.                                         *)

\* What list_add at the head of proc_list does to positions.
LEMMA AddAtHead ==
  ASSUME NEW S, NEW s \in Seq(S), NEW e \in S
  PROVE  LET t == <<e>> \o s
         IN  /\ t \in Seq(S) /\ Len(t) = Len(s) + 1 /\ t[1] = e
             /\ \A i \in 1 .. Len(s) : t[i + 1] = s[i]
OBVIOUS

\* What list_del of the i-th entry does to positions.
LEMMA DeleteAt ==
  ASSUME NEW S, NEW s \in Seq(S), NEW i \in 1 .. Len(s)
  PROVE  LET t == RemoveAt(s, i)
         IN  /\ t \in Seq(S) /\ Len(t) = Len(s) - 1
             /\ \A k \in 1 .. i - 1 : t[k] = s[k]
             /\ \A k \in i .. Len(s) - 1 : t[k] = s[k + 1]
<1> DEFINE a == SubSeq(s, 1, i - 1)
           b == SubSeq(s, i + 1, Len(s))
<1>1. a \in Seq(S) /\ Len(a) = i - 1 /\ \A k \in 1 .. i - 1 : a[k] = s[k]
  OBVIOUS
<1>2. /\ b \in Seq(S) /\ Len(b) = Len(s) - i
      /\ \A k \in 1 .. Len(s) - i : b[k] = s[i + k]
  OBVIOUS
<1>3. RemoveAt(s, i) = a \o b
  BY DEF RemoveAt
<1> HIDE DEF a, b
<1>4. /\ a \o b \in Seq(S) /\ Len(a \o b) = Len(s) - 1
      /\ \A k \in 1 .. Len(s) - 1 :
           (a \o b)[k] = IF k <= i - 1 THEN a[k] ELSE b[k - (i - 1)]
  <2>1. a \o b \in Seq(S) /\ Len(a \o b) = Len(a) + Len(b)
    BY <1>1, <1>2, ConcatProperties
  <2>2. \A k \in 1 .. Len(a) + Len(b) :
          (a \o b)[k] = IF k <= Len(a) THEN a[k] ELSE b[k - Len(a)]
    BY <1>1, <1>2, ConcatProperties
  <2>3. Len(a) + Len(b) = Len(s) - 1
    BY <1>1, <1>2
  <2> HIDE DEF a, b
  <2> QED BY <1>1, <2>1, <2>2, <2>3
<1>5. \A k \in 1 .. i - 1 : (a \o b)[k] = s[k]
  BY <1>1, <1>4
<1>6. \A k \in i .. Len(s) - 1 : (a \o b)[k] = s[k + 1]
  BY <1>2, <1>4
<1> QED BY <1>3, <1>4, <1>5, <1>6

\* A search from the head of a list stops at the first entry that will do.
LEMMA LeastExists ==
  ASSUME NEW S \in SUBSET Nat, S # {}
  PROVE  \E i \in S : \A j \in S : i <= j
<1>1. PICK i \in S : \A j \in S : <<j, i>> \notin OpToRel(<, Nat)
  BY NatLessThanWellFounded, WFMin
<1>2. \A j \in S : ~(j < i)
  BY <1>1 DEF OpToRel
<1> QED BY <1>2

\* A loop over D: where it stops it has the value val, and elsewhere it makes of
\* what it has after its next turn its own value; each turn leaves fewer.
Loop(D, V, N, left, done, val, next, turn) ==
  /\ N \in Nat /\ left \in [D -> 0 .. N] /\ done \subseteq D
  /\ val \in [D -> V] /\ next \in [D -> D] /\ turn \in [D -> [V -> V]]
  /\ \A x \in D \ done : left[next[x]] < left[x]

Computes(g, D, V, done, val, next, turn) ==
  /\ g \in [D -> V]
  /\ \A x \in D : g[x] = IF x \in done THEN val[x] ELSE turn[x][g[next[x]]]

\* Such a loop computes something: the function that a recursive definition with
\* the same turns stands for.
LEMMA LoopComputes ==
  ASSUME NEW D, NEW V, NEW N, NEW left, NEW done, NEW val, NEW next, NEW turn,
         Loop(D, V, N, left, done, val, next, turn)
  PROVE  \E g : Computes(g, D, V, done, val, next, turn)
<1>0. /\ N \in Nat /\ left \in [D -> 0 .. N] /\ done \subseteq D
      /\ val \in [D -> V] /\ next \in [D -> D] /\ turn \in [D -> [V -> V]]
      /\ \A x \in D \ done : left[next[x]] < left[x]
  BY DEF Loop
<1> USE <1>0
<1> DEFINE Right(g, x) == g[x] = IF x \in done THEN val[x] ELSE turn[x][g[next[x]]]
           UpTo(n) == \E g \in [D -> V] : \A x \in D : left[x] < n => Right(g, x)
<1>1. UpTo(0)
  <2>1. \A x \in D : ~(left[x] < 0)
    OBVIOUS
  <2> QED BY <2>1
<1>2. ASSUME NEW n \in Nat, UpTo(n)
      PROVE  UpTo(n + 1)
  <2>1. PICK g \in [D -> V] : \A x \in D : left[x] < n => Right(g, x)
    BY <1>2
  <2> DEFINE h == [x \in D |-> IF x \in done THEN val[x] ELSE turn[x][g[next[x]]]]
  <2>2. h \in [D -> V]
    OBVIOUS
  <2>3. \A x \in D : left[x] < n => h[x] = g[x]
    BY <2>1
  <2>4. ASSUME NEW x \in D, left[x] < n + 1
        PROVE  Right(h, x)
    <3>1. CASE x \in done
      BY <3>1
    <3>2. CASE x \notin done
      <4>1. next[x] \in D /\ left[next[x]] < left[x]
        BY <3>2
      <4>2. left[next[x]] \in Nat /\ left[x] \in Nat
        BY <4>1
      <4>3. left[next[x]] < n
        BY <2>4, <4>1, <4>2
      <4>4. h[next[x]] = g[next[x]]
        BY <2>3, <4>1, <4>3
      <4>5. h[x] = turn[x][g[next[x]]]
        BY <3>2
      <4> QED BY <3>2, <4>4, <4>5
    <3> QED BY <3>1, <3>2
  <2> HIDE DEF h
  <2> QED BY <2>2, <2>4
<1> HIDE DEF UpTo
<1>3. \A n \in Nat : UpTo(n)
  <2> DEFINE Bad == {n \in Nat : ~UpTo(n)}
  <2>1. SUFFICES ASSUME Bad # {} PROVE FALSE
    OBVIOUS
  <2>2. PICK n \in Bad : \A k \in Bad : n <= k
    BY <2>1, LeastExists
  <2>3. n # 0
    BY <1>1
  <2>4. n - 1 \in Nat /\ n - 1 + 1 = n
    BY <2>3
  <2>5. UpTo(n - 1)
    BY <2>2, <2>4
  <2>6. UpTo(n - 1 + 1)
    BY <1>2, <2>4, <2>5
  <2> QED BY <2>4, <2>6
<1>4. UpTo(N + 1)
  BY <1>3
<1>5. \A x \in D : left[x] < N + 1
  OBVIOUS
<1> QED BY <1>4, <1>5 DEF UpTo, Computes

-----------------------------------------------------------------------------
(* get_pid                                                                 *)

\* The list is empty before init is created.
LEMMA InitHolds == Init => IInv
BY PidAssumption DEF Init, IInv, TypeOK, PidsDistinct, WindowIsFree, WalkOK,
   InUse, Pid

\* A call starts from the window that the last one left.
LEMMA CallKeeps ==
  ASSUME IInv, Call
  PROVE  IInv'
<1>1. /\ pc = "none" /\ procList' = procList /\ from' = last_pid
      /\ last_pid' = IF last_pid + 1 >= MAX_PID THEN 1 ELSE last_pid + 1
      /\ last_pid \in Pid \cup {MAX_PID} /\ next_safe \in 2 .. MAX_PID
  BY DEF Call, After, IInv, TypeOK
<1>2. InUse \subseteq Pid /\ InUse' = InUse
  BY <1>1 DEF IInv, TypeOK, InUse
<1>3. last_pid' \in Pid
  BY <1>1, PidAssumption DEF Pid
<1>4. Passed' = {}
  BY <1>1, <1>3, PidAssumption DEF Passed, Pid
<1>5. CASE last_pid' = 1 \/ last_pid' >= next_safe
  <2>1. pc' = "scan" /\ next_safe' = MAX_PID /\ at' = 1
    BY <1>5 DEF Call, Restart
  <2>2. (TypeOK /\ PidsDistinct)'
    BY <1>1, <1>3, <2>1, PidAssumption DEF IInv, TypeOK, PidsDistinct, Pid
  <2>3. (WindowIsFree /\ WalkOK)'
    BY <1>1, <1>3, <2>1, PidAssumption DEF IInv, TypeOK, WindowIsFree, WalkOK, Pid
  <2> QED BY <1>4, <2>1, <2>2, <2>3 DEF IInv
<1>6. CASE ~(last_pid' = 1 \/ last_pid' >= next_safe)
  <2>1. /\ pc' = "found" /\ next_safe' = next_safe /\ at' = at
        /\ last_pid' = last_pid + 1 /\ last_pid + 1 < next_safe
    BY <1>1, <1>6, PidAssumption DEF Call, Pid
  <2>2. (TypeOK /\ PidsDistinct /\ WalkOK)'
    BY <1>1, <1>3, <2>1 DEF IInv, TypeOK, PidsDistinct, WalkOK
  <2>3. WindowIsFree' /\ last_pid' \notin InUse'
    BY <1>1, <1>2, <2>1 DEF IInv, WindowIsFree, Pid
  <2> QED BY <1>4, <2>2, <2>3 DEF IInv
<1> QED BY <1>5, <1>6

\* One entry of the walk.  A pid found in use joins those passed over; the walk
\* goes on only if no entry passed can have the next one.
LEMMA ScanKeeps ==
  ASSUME IInv, Scan
  PROVE  IInv'
<1>1. /\ pc = "scan" /\ pc' = "scan" /\ procList' = procList /\ from' = from
      /\ at \in DOMAIN procList /\ procList[at] \in Pid /\ last_pid \in Pid
      /\ last_pid < next_safe /\ next_safe \in 2 .. MAX_PID
      /\ from \in Pid \cup {MAX_PID}
  BY DEF Scan, IInv, TypeOK, WalkOK
<1>2. InUse' = InUse /\ PidsDistinct' /\ WindowIsFree'
  BY <1>1 DEF InUse, IInv, PidsDistinct, WindowIsFree
<1>3. CASE Miss
  <2>1. procList[at] # last_pid /\ at' = at + 1 /\ last_pid' = last_pid
    BY <1>3 DEF Miss
  <2>2. next_safe' = IF procList[at] > last_pid /\ next_safe > procList[at]
                     THEN procList[at] ELSE next_safe
    BY <1>3 DEF Miss, Narrowed
  <2>3. TypeOK'
    BY <1>1, <2>1, <2>2, PidAssumption DEF IInv, TypeOK, Pid
  <2>4. WalkOK'
    BY <1>1, <2>1, <2>2, PidAssumption DEF IInv, TypeOK, WalkOK, Pid
  <2>5. Passed' = Passed
    BY <1>1, <2>1 DEF Passed
  <2> QED BY <1>1, <1>2, <2>3, <2>4, <2>5 DEF IInv
<1>4. CASE Hit
  <2>1. last_pid \in InUse /\ Passed \subseteq InUse
    BY <1>1, <1>4 DEF Hit, InUse, IInv
  <2>2. last_pid' = IF last_pid + 1 >= MAX_PID THEN 1 ELSE last_pid + 1
    BY <1>1, <1>4, PidAssumption DEF Hit, After, Pid
  <2>3. last_pid' \in Pid /\ Passed' \subseteq InUse'
    BY <1>1, <1>2, <2>1, <2>2, PidAssumption DEF Passed, Pid
  <2>4. CASE last_pid + 1 >= next_safe
    <3>1. next_safe' = MAX_PID /\ at' = 1
      BY <1>4, <2>4 DEF Hit, Restart
    <3>2. (TypeOK /\ WalkOK)'
      BY <1>1, <2>3, <3>1, PidAssumption DEF IInv, TypeOK, WalkOK, Pid
    <3> QED BY <1>1, <1>2, <2>3, <3>2 DEF IInv
  <2>5. CASE ~(last_pid + 1 >= next_safe)
    <3>1. next_safe' = next_safe /\ at' = at + 1 /\ last_pid' = last_pid + 1
          /\ procList[at] = last_pid
      BY <1>4, <2>5 DEF Hit
    <3>2. TypeOK'
      BY <1>1, <2>3, <3>1 DEF IInv, TypeOK
    <3>3. WalkOK'
      BY <1>1, <2>5, <3>1, PidAssumption DEF IInv, TypeOK, WalkOK, Pid
    <3> QED BY <1>1, <1>2, <2>3, <3>2, <3>3 DEF IInv
  <2> QED BY <2>4, <2>5
<1> QED BY <1>3, <1>4 DEF Scan

\* The walk has seen every entry.
LEMMA ScanEndsKeeps ==
  ASSUME IInv, ScanEnds
  PROVE  IInv'
<1>1. /\ pc = "scan" /\ pc' = "found" /\ at > Len(procList)
      /\ UNCHANGED <<procList, last_pid, next_safe, at, from>>
  BY DEF ScanEnds
<1>2. (TypeOK /\ PidsDistinct /\ WalkOK)'
  BY <1>1 DEF IInv, TypeOK, PidsDistinct, WalkOK
<1>3. \A p \in InUse : p # last_pid /\ (p > last_pid => p >= next_safe)
  BY <1>1 DEF IInv, TypeOK, WalkOK, InUse
<1>4. InUse' = InUse /\ Passed' = Passed
  BY <1>1 DEF InUse, Passed
<1>5. WindowIsFree'
  <2>1. InUse \subseteq Pid /\ next_safe \in 2 .. MAX_PID
    BY DEF IInv, TypeOK, InUse
  <2> QED BY <1>1, <1>3, <1>4, <2>1 DEF WindowIsFree, Pid
<1> QED BY <1>1, <1>2, <1>3, <1>4, <1>5 DEF IInv

\* The pid that get_pid gave joins the list.
LEMMA LinkKeeps ==
  ASSUME IInv, Link
  PROVE  IInv'
<1>1. /\ pc = "found" /\ pc' = "none" /\ procList' = <<last_pid>> \o procList
      /\ UNCHANGED <<last_pid, next_safe, at, from>>
      /\ last_pid \in Pid /\ last_pid \notin InUse /\ procList \in Seq(Pid)
  BY DEF Link, IInv, TypeOK
<1>2. /\ procList' \in Seq(Pid) /\ Len(procList') = Len(procList) + 1
      /\ procList'[1] = last_pid
      /\ \A i \in 1 .. Len(procList) : procList'[i + 1] = procList[i]
  BY <1>1, AddAtHead
<1>3. \A i \in DOMAIN procList' \ {1} : i - 1 \in DOMAIN procList
                                     /\ procList'[i] = procList[i - 1]
  BY <1>1, <1>2
<1>4. InUse' \subseteq InUse \cup {last_pid}
  BY <1>2, <1>3 DEF InUse
<1>5. PidsDistinct'
  <2>1. ASSUME NEW i \in DOMAIN procList', NEW j \in DOMAIN procList',
               procList'[i] = procList'[j]
        PROVE  i = j
    <3>1. \A k \in DOMAIN procList : procList[k] # last_pid
      BY <1>1 DEF InUse
    <3>2. i = 1 <=> j = 1
      BY <1>2, <1>3, <2>1, <3>1
    <3>3. CASE i # 1 /\ j # 1
      <4>1. i - 1 = j - 1
        BY <1>3, <2>1, <3>3 DEF IInv, PidsDistinct
      <4>2. i \in Nat /\ j \in Nat
        BY <1>2
      <4> QED BY <4>1, <4>2
    <3> QED BY <3>2, <3>3
  <2> QED BY <2>1 DEF PidsDistinct
<1>6. (TypeOK /\ WalkOK)'
  BY <1>1, <1>2 DEF IInv, TypeOK, WalkOK
<1>7. WindowIsFree'
  BY <1>1, <1>4 DEF IInv, WindowIsFree, Pid
<1> QED BY <1>1, <1>5, <1>6, <1>7 DEF IInv

\* A process that leaves the list takes nothing from what get_pid remembers.
LEMMA UnlinkKeeps ==
  ASSUME IInv, NEW k \in DOMAIN procList, Unlink(k)
  PROVE  IInv'
<1>1. /\ pc = "none" /\ procList' = RemoveAt(procList, k)
      /\ UNCHANGED <<last_pid, next_safe, pc, at, from>>
      /\ procList \in Seq(Pid) /\ k \in 1 .. Len(procList)
  BY DEF Unlink, IInv, TypeOK
<1>2. /\ procList' \in Seq(Pid) /\ Len(procList') = Len(procList) - 1
      /\ \A i \in 1 .. k - 1 : procList'[i] = procList[i]
      /\ \A i \in k .. Len(procList) - 1 : procList'[i] = procList[i + 1]
  BY <1>1, DeleteAt
<1> DEFINE old(i) == IF i < k THEN i ELSE i + 1
<1>3. \A i \in DOMAIN procList' : old(i) \in DOMAIN procList
                               /\ procList'[i] = procList[old(i)]
  BY <1>1, <1>2
<1>4. InUse' \subseteq InUse
  <2> HIDE DEF old
  <2> QED BY <1>3 DEF InUse
<1>5. PidsDistinct'
  <2>1. ASSUME NEW i \in DOMAIN procList', NEW j \in DOMAIN procList',
               procList'[i] = procList'[j]
        PROVE  i = j
    <3>1. old(i) = old(j)
      <4> HIDE DEF old
      <4> QED BY <1>3, <2>1 DEF IInv, PidsDistinct
    <3>2. i \in Nat /\ j \in Nat
      BY <1>2
    <3> QED BY <1>1, <3>1, <3>2
  <2> QED BY <2>1 DEF PidsDistinct
<1>6. (TypeOK /\ WalkOK)'
  BY <1>1, <1>2 DEF IInv, TypeOK, WalkOK
<1>7. WindowIsFree'
  BY <1>1, <1>4 DEF IInv, WindowIsFree
<1> QED BY <1>1, <1>5, <1>6, <1>7 DEF IInv

LEMMA StepKeeps ==
  ASSUME IInv, [Next]_vars
  PROVE  IInv'
<1>1. CASE UNCHANGED vars
  BY <1>1 DEF vars, IInv, TypeOK, PidsDistinct, WindowIsFree, WalkOK, Passed, InUse
<1>2. CASE Next
  BY <1>2, CallKeeps, ScanKeeps, ScanEndsKeeps, LinkKeeps, UnlinkKeeps
     DEF Next, Search
<1> QED BY <1>1, <1>2

\* The invariant is inductive, whether or not the walk is fair.
THEOREM Invariance == Spec => []IInv
  BY InitHolds, StepKeeps, PTL DEF Spec

\* last_pid and next_safe stay in range, and every pid given is valid.
THEOREM TypeCorrect == Spec => []TypeOK
<1>1. IInv => TypeOK
  BY DEF IInv
<1> QED BY <1>1, Invariance, PTL

\* get_pid never gives a pid that a process in proc_list has.
THEOREM PidsAreUnique == Spec => []PidsDistinct
<1>1. IInv => PidsDistinct
  BY DEF IInv
<1> QED BY <1>1, Invariance, PTL

\* What next_safe says between calls stays true while processes come and go.
THEOREM WindowStaysFree == Spec => []WindowIsFree
<1>1. IInv => WindowIsFree
  BY DEF IInv
<1> QED BY <1>1, Invariance, PTL

\* Both together: what the next call of get_pid starts from.
THEOREM PidsCorrect == Spec => []PidsOK
<1>1. IInv => PidsOK
  BY DEF IInv, PidsOK
<1> QED BY <1>1, Invariance, PTL

\* get_pid passes over no pid that is free.
THEOREM NextFreeIsGiven == Spec => []NextFree
<1>1. IInv => NextFree
  BY DEF IInv, NextFree
<1> QED BY <1>1, Invariance, PTL

-----------------------------------------------------------------------------
(* The table                                                               *)

LEMMA TableStepIsStep ==
  ASSUME [TableNext]_<<vars, table>>
  PROVE  [Next]_vars
<1>1. CASE Fork
  BY <1>1 DEF Fork, Next
<1>2. CASE Search /\ UNCHANGED table
  BY <1>2 DEF Next
<1>3. CASE \E c \in Struct, q \in Struct \cup {idleproc} : Forked(c, q)
  BY <1>3 DEF Forked, Next
<1>4. CASE \E p \in Struct : Exit(p)
  BY <1>4 DEF Exit, vars
<1>5. ASSUME NEW s, Reaped(s)
      PROVE  Next
  BY <1>5 DEF Reaped, Next
<1>6. CASE \E q \in Struct : WaitAny(q)
  BY <1>5, <1>6 DEF WaitAny
<1>7. CASE \E q \in Struct, p \in Pid : WaitFor(q, p)
  BY <1>5, <1>7 DEF WaitFor
<1>8. CASE UNCHANGED <<vars, table>>
  BY <1>8
<1> QED
  BY <1>1, <1>2, <1>3, <1>4, <1>6, <1>7, <1>8 DEF TableNext

\* Whatever the table does is a step of get_pid and the list, or none of theirs
\* (do_fork, do_exit and do_wait as seen from get_pid).
THEOREM TableImplementsGetPid == TableSpec => Spec
<1>1. TableInit => Init
  BY DEF TableInit
<1> QED
  BY <1>1, TableStepIsStep, PTL DEF TableSpec, Spec

\* A step keeps nr_process and the length of the list together.
LEMMA CountKept ==
  ASSUME TypeOK, CountIsExact, [TableNext]_<<vars, table>>
  PROVE  CountIsExact'
<1>1. ASSUME procList' = procList, nr_process' = nr_process
      PROVE  CountIsExact'
  BY <1>1 DEF CountIsExact
<1>2. CASE UNCHANGED <<vars, table>>
  BY <1>1, <1>2 DEF vars, table
<1>3. CASE Fork
  BY <1>1, <1>3 DEF Fork, Call, table
<1>4. CASE Search /\ UNCHANGED table
  BY <1>1, <1>4 DEF Search, Scan, ScanEnds, table
<1>5. CASE \E p \in Struct : Exit(p)
  BY <1>1, <1>5 DEF Exit, vars
<1>6. CASE \E c \in Struct, q \in Struct \cup {idleproc} : Forked(c, q)
  <2>1. nr_process' = nr_process + 1 /\ procList' = <<last_pid>> \o procList
    BY <1>6 DEF Forked, Link
  <2>2. last_pid \in Pid /\ procList \in Seq(Pid)
    BY <1>6 DEF Forked, Link, TypeOK
  <2> QED
    BY <2>1, <2>2, AddAtHead DEF CountIsExact
<1>7. ASSUME NEW s, Reaped(s)
      PROVE  CountIsExact'
  <2>1. PICK k \in DOMAIN procList : procList' = RemoveAt(procList, k)
    BY <1>7 DEF Reaped, Unlink
  <2>2. nr_process' = nr_process - 1
    BY <1>7 DEF Reaped, Counted
  <2>3. procList \in Seq(Pid) /\ k \in 1 .. Len(procList)
    BY <2>1 DEF TypeOK
  <2>4. Len(procList') = Len(procList) - 1
    BY <2>1, <2>3, DeleteAt
  <2> QED
    BY <2>2, <2>3, <2>4 DEF CountIsExact
<1>8. CASE \E q \in Struct : WaitAny(q)
  BY <1>7, <1>8 DEF WaitAny
<1>9. CASE \E q \in Struct, p \in Pid : WaitFor(q, p)
  BY <1>7, <1>9 DEF WaitFor
<1> QED
  BY <1>2, <1>3, <1>4, <1>5, <1>6, <1>8, <1>9 DEF TableNext

\* nr_process counts the processes and idle exactly (set_links, remove_links).
THEOREM CountStaysExact == TableSpec => []CountIsExact
<1>1. TableInit => CountIsExact
  BY DEF TableInit, Init, CountIsExact
<1>2. TableSpec => []TypeOK
  BY TableImplementsGetPid, TypeCorrect, PTL
<1> QED
  BY <1>1, <1>2, CountKept, PTL DEF TableSpec

\* No two processes of the table have the same pid, whatever was forked, reaped or
\* adopted between (get_pid, proc.c:187).
THEOREM TablePidsAreUnique == TableSpec => []PidsDistinct
  BY TableImplementsGetPid, PidsAreUnique, PTL

\* Every call of get_pid may rely on what the last one left in last_pid and
\* next_safe (the static variables of get_pid, proc.c:193).
THEOREM TableWindowStaysFree == TableSpec => []WindowIsFree
  BY TableImplementsGetPid, WindowStaysFree, PTL

\* Both together, of the table in memory (get_pid, set_links and remove_links).
THEOREM TablePidsCorrect == TableSpec => []PidsOK
  BY TableImplementsGetPid, PidsCorrect, PTL

\* The pid that was freed last comes back last (get_pid's order of trying).
THEOREM TableGivesNextFree == TableSpec => []NextFree
  BY TableImplementsGetPid, NextFreeIsGiven, PTL

-----------------------------------------------------------------------------
(* Walks                                                                   *)

\* The i-th of s, and what lies before and behind s.
At(e, s, i) == IF i \in 1 .. Len(s) THEN s[i] ELSE e

Distinct(s) == \A i, j \in DOMAIN s : s[i] = s[j] => i = j

\* From first on, succ leads along s to e, where the walk ends.
Leads(succ, first, ends, e, s) ==
  /\ e \in ends /\ first = At(e, s, 1)
  /\ \A i \in 1 .. Len(s) : s[i] \notin ends /\ succ[s[i]] = At(e, s, i + 1)

\* Then the walk spells s (the loops over list_next and over optr).
LEMMA WalkSpells ==
  ASSUME NEW S, NEW s \in Seq(S), NEW succ, NEW first, NEW ends, NEW e,
         Leads(succ, first, ends, e, s), Len(s) <= MAX_PROCESS
  PROVE  Walk(succ, first, ends) = s
<1> DEFINE M == MAX_PROCESS
           n == Len(s)
           body(w) == [k \in 0 .. M |->
                         IF k = 0 THEN <<first>>
                         ELSE IF Last(w[k - 1]) \in ends THEN w[k - 1]
                         ELSE Append(w[k - 1], succ[Last(w[k - 1])])]
           Upto(m) == [i \in 1 .. m |-> At(e, s, i)]
           met(k) == IF k < n THEN k + 1 ELSE n + 1
           g == [k \in 0 .. M |-> Upto(met(k))]
<1>1. M \in Nat /\ n \in Nat /\ n <= M
  BY PidAssumption
<1>2. /\ e \in ends /\ first = At(e, s, 1)
      /\ \A i \in 1 .. n : s[i] \notin ends /\ succ[s[i]] = At(e, s, i + 1)
  BY DEF Leads
<1>3. ASSUME NEW m \in Nat \ {0}
      PROVE  /\ Last(Upto(m)) = At(e, s, m) /\ Len(Upto(m)) = m
             /\ Append(Upto(m), At(e, s, m + 1)) = Upto(m + 1)
             /\ Front(Upto(m)) = Upto(m - 1)
  <2> DEFINE T == {At(e, s, i) : i \in 1 .. m + 1}
  <2>1. Upto(m) \in Seq(T) /\ Len(Upto(m)) = m /\ DOMAIN Upto(m) = 1 .. m
    OBVIOUS
  <2>2. Last(Upto(m)) = At(e, s, m)
    BY <2>1 DEF Last
  <2>3. Append(Upto(m), At(e, s, m + 1)) = Upto(m + 1)
    <3>1. Append(Upto(m), At(e, s, m + 1))
          = [i \in 1 .. m + 1 |-> IF i \in 1 .. m THEN Upto(m)[i] ELSE At(e, s, m + 1)]
      BY <2>1
    <3>2. \A i \in 1 .. m + 1 : ~(i \in 1 .. m) => i = m + 1
      OBVIOUS
    <3> QED BY <3>1, <3>2
  <2>4. Front(Upto(m)) = Upto(m - 1)
    <3>1. Front(Upto(m)) = [i \in 1 .. m - 1 |-> Upto(m)[i]]
      BY <2>1 DEF Front
    <3> QED BY <3>1
  <2> QED BY <2>1, <2>2, <2>3, <2>4
<1> HIDE DEF Upto
\* One turn.
<1>4. ASSUME NEW k \in 1 .. M
      PROVE  Upto(met(k)) = IF Last(Upto(met(k - 1))) \in ends THEN Upto(met(k - 1))
                            ELSE Append(Upto(met(k - 1)), succ[Last(Upto(met(k - 1)))])
  <2>1. met(k - 1) \in Nat \ {0}
    BY <1>1
  <2>2. Last(Upto(met(k - 1))) = At(e, s, met(k - 1))
    BY <1>3, <2>1
  <2>3. CASE k - 1 < n
    <3>1. met(k - 1) = k /\ k \in 1 .. n /\ met(k) = k + 1
      BY <1>1, <2>3
    <3>2. At(e, s, k) = s[k]
      BY <3>1 DEF At
    <3>3. Append(Upto(k), At(e, s, k + 1)) = Upto(k + 1)
      BY <1>3
    <3> HIDE DEF met
    <3> QED BY <1>2, <2>2, <3>1, <3>2, <3>3
  <2>4. CASE ~(k - 1 < n)
    <3>1. met(k - 1) = n + 1 /\ met(k) = n + 1
      BY <1>1, <2>4
    <3>2. At(e, s, n + 1) = e
      BY <1>1 DEF At
    <3> HIDE DEF met
    <3> QED BY <1>2, <2>2, <3>1, <3>2
  <2> QED BY <2>3, <2>4
<1>5. Upto(met(0)) = <<first>>
  <2>1. met(0) = 1
    BY <1>1
  <2>2. Upto(1) = <<first>>
    BY <1>2 DEF Upto
  <2> QED BY <2>1, <2>2
<1> HIDE DEF met
<1>6. g = body(g)
  <2>1. ASSUME NEW k \in 0 .. M
        PROVE  g[k] = IF k = 0 THEN <<first>>
                      ELSE IF Last(g[k - 1]) \in ends THEN g[k - 1]
                      ELSE Append(g[k - 1], succ[Last(g[k - 1])])
    <3>1. CASE k = 0
      BY <1>1, <1>5, <3>1
    <3>2. CASE k # 0
      <4>1. k \in 1 .. M /\ k - 1 \in 0 .. M
        BY <1>1, <3>2
      <4>2. g[k - 1] = Upto(met(k - 1)) /\ g[k] = Upto(met(k))
        BY <4>1
      <4> HIDE DEF g
      <4> QED BY <1>4, <3>2, <4>1, <4>2
    <3> QED BY <3>1, <3>2
  <2> QED BY <2>1
<1> DEFINE walk == CHOOSE w : w = body(w)
<1>7. walk = body(walk)
  <2> HIDE DEF body
  <2> QED BY <1>6
<1>8. Walk(succ, first, ends) = Front(walk[M])
  BY DEF Walk
<1> HIDE DEF walk
<1>9. \A k \in 0 .. M : walk[k] = Upto(met(k))
  <2> DEFINE Bad == {k \in 0 .. M : walk[k] # Upto(met(k))}
  <2>1. SUFFICES ASSUME Bad # {} PROVE FALSE
    OBVIOUS
  <2>2. PICK k \in Bad : \A j \in Bad : k <= j
    <3>1. Bad \in SUBSET Nat
      BY <1>1
    <3> HIDE DEF Bad
    <3> QED BY <2>1, <3>1, LeastExists
  <2>3. walk[k] = IF k = 0 THEN <<first>>
                  ELSE IF Last(walk[k - 1]) \in ends THEN walk[k - 1]
                  ELSE Append(walk[k - 1], succ[Last(walk[k - 1])])
    BY <1>7
  <2>4. k # 0
    BY <1>5, <2>3
  <2>5. k \in 1 .. M /\ k - 1 \in 0 .. M /\ ~(k <= k - 1)
    BY <1>1, <2>4
  <2>6. walk[k - 1] = Upto(met(k - 1))
    BY <2>2, <2>5
  <2>7. walk[k] = Upto(met(k))
    <3> HIDE DEF Bad
    <3> QED BY <1>4, <2>3, <2>4, <2>5, <2>6
  <2> QED BY <2>7
<1>10. met(M) = n + 1 /\ n + 1 \in Nat \ {0} /\ n + 1 - 1 = n
  BY <1>1 DEF met
<1>11. Front(walk[M]) = Upto(n)
  <2>1. walk[M] = Upto(n + 1)
    BY <1>1, <1>9, <1>10
  <2>2. Front(Upto(n + 1)) = Upto(n + 1 - 1)
    BY <1>3, <1>10
  <2> QED BY <1>10, <2>1, <2>2
<1>12. Upto(n) = s
  BY <1>1 DEF Upto, At
<1> QED BY <1>8, <1>11, <1>12

-----------------------------------------------------------------------------
(* Entries                                                                 *)

\* An entry more at the head.
LEMMA ConsPlaces ==
  ASSUME NEW s \in Seq(Struct), Distinct(s), NEW c \in Struct, c \notin ToSet(s), NEW e
  PROVE  /\ <<c>> \o s \in Seq(Struct) /\ Distinct(<<c>> \o s)
         /\ Len(<<c>> \o s) = Len(s) + 1 /\ ToSet(<<c>> \o s) = ToSet(s) \cup {c}
         /\ At(e, <<c>> \o s, 0) = e /\ At(e, <<c>> \o s, 1) = c
         /\ \A i \in 1 .. Len(s) + 1 : At(e, <<c>> \o s, i + 1) = At(e, s, i)
<1> DEFINE t == <<c>> \o s
<1>1. Len(s) \in Nat /\ DOMAIN s = 1 .. Len(s)
  OBVIOUS
<1>2. /\ t \in Seq(Struct) /\ Len(t) = Len(s) + 1 /\ t[1] = c
      /\ \A i \in 1 .. Len(s) : t[i + 1] = s[i]
  BY AddAtHead
<1> HIDE DEF t
<1>3. DOMAIN t = 1 .. Len(s) + 1 /\ Len(t) = Len(s) + 1
  BY <1>1, <1>2
<1>4. ASSUME NEW i \in DOMAIN t
      PROVE  IF i = 1 THEN t[i] = c ELSE i - 1 \in 1 .. Len(s) /\ t[i] = s[i - 1] /\ t[i] # c
  <2>1. CASE i = 1
    BY <1>2, <2>1
  <2>2. CASE i # 1
    <3>1. i - 1 \in 1 .. Len(s) /\ i - 1 + 1 = i
      BY <1>1, <1>3, <2>2
    <3>2. t[i] = s[i - 1]
      BY <1>2, <3>1
    <3>3. s[i - 1] \in ToSet(s)
      BY <1>1, <3>1 DEF ToSet
    <3> QED BY <2>2, <3>1, <3>2, <3>3
  <2> QED BY <2>1, <2>2
<1>5. Distinct(t)
  <2>1. \A i \in DOMAIN t : i \in Int
    BY <1>3
  <2>2. ASSUME NEW i \in DOMAIN t, NEW j \in DOMAIN t, t[i] = t[j]
        PROVE  i = j
    <3>1. i = 1 <=> j = 1
      BY <1>4, <2>2
    <3>2. CASE i # 1
      <4>1. i - 1 \in DOMAIN s /\ j - 1 \in DOMAIN s /\ s[i - 1] = s[j - 1]
        BY <1>1, <1>4, <2>2, <3>1, <3>2
      <4>2. i - 1 = j - 1
        BY <4>1 DEF Distinct
      <4> QED BY <2>1, <4>2
    <3> QED BY <3>1, <3>2
  <2> QED BY <2>2 DEF Distinct
<1>6. ToSet(t) = ToSet(s) \cup {c}
  <2>1. ToSet(t) \subseteq ToSet(s) \cup {c}
    BY <1>1, <1>4 DEF ToSet
  <2>2. c \in ToSet(t)
    BY <1>1, <1>2, <1>3 DEF ToSet
  <2>3. ASSUME NEW i \in 1 .. Len(s)
        PROVE  s[i] \in ToSet(t)
    <3>1. i + 1 \in DOMAIN t
      BY <1>1, <1>3
    <3> QED BY <1>2, <3>1 DEF ToSet
  <2>4. ToSet(s) \subseteq ToSet(t)
    BY <1>1, <2>3 DEF ToSet
  <2> QED BY <2>1, <2>2, <2>4
<1>7. /\ At(e, t, 0) = e /\ At(e, t, 1) = c
      /\ \A i \in 1 .. Len(s) + 1 : At(e, t, i + 1) = At(e, s, i)
  <2>1. At(e, t, 0) = e /\ At(e, t, 1) = c
    BY <1>1, <1>2, <1>3 DEF At
  <2>2. ASSUME NEW i \in 1 .. Len(s) + 1
        PROVE  At(e, t, i + 1) = At(e, s, i)
    <3>1. CASE i = Len(s) + 1
      <4>1. ~(i + 1 \in 1 .. Len(t)) /\ ~(i \in 1 .. Len(s))
        BY <1>1, <1>3, <3>1
      <4> QED BY <4>1 DEF At
    <3>2. CASE i # Len(s) + 1
      <4>1. i + 1 \in 1 .. Len(t) /\ i \in 1 .. Len(s)
        BY <1>1, <1>3, <3>2
      <4> QED BY <1>2, <4>1 DEF At
    <3> QED BY <3>1, <3>2
  <2> QED BY <2>1, <2>2
<1> QED BY <1>2, <1>5, <1>6, <1>7 DEF t

LEMMA ConsSet ==
  ASSUME NEW s \in Seq(Struct), Distinct(s), NEW c \in Struct, c \notin ToSet(s)
  PROVE  <<c>> \o s \in Seq(Struct) /\ ToSet(<<c>> \o s) = ToSet(s) \cup {c}
<1>1. /\ <<c>> \o s \in Seq(Struct) /\ Distinct(<<c>> \o s)
      /\ Len(<<c>> \o s) = Len(s) + 1 /\ ToSet(<<c>> \o s) = ToSet(s) \cup {c}
      /\ At(Null, <<c>> \o s, 0) = Null /\ At(Null, <<c>> \o s, 1) = c
      /\ \A i \in 1 .. Len(s) + 1 : At(Null, <<c>> \o s, i + 1) = At(Null, s, i)
  BY ConsPlaces
<1> QED BY <1>1

\* An entry less.
LEMMA RemovePlaces ==
  ASSUME NEW s \in Seq(Struct), Distinct(s), NEW i \in 1 .. Len(s), NEW e
  PROVE  /\ RemoveAt(s, i) \in Seq(Struct) /\ Distinct(RemoveAt(s, i))
         /\ Len(RemoveAt(s, i)) = Len(s) - 1 /\ ToSet(RemoveAt(s, i)) = ToSet(s) \ {s[i]}
         /\ \A j \in 0 .. Len(s) : At(e, RemoveAt(s, i), j) =
                                     IF j < i THEN At(e, s, j) ELSE At(e, s, j + 1)
<1> DEFINE t == RemoveAt(s, i)
           n == Len(s)
           old(j) == IF j < i THEN j ELSE j + 1
<1>1. n \in Nat /\ DOMAIN s = 1 .. n /\ i \in Int
  OBVIOUS
<1>2. /\ t \in Seq(Struct) /\ Len(t) = n - 1
      /\ \A j \in 1 .. i - 1 : t[j] = s[j]
      /\ \A j \in i .. n - 1 : t[j] = s[j + 1]
  BY DeleteAt
<1> HIDE DEF t
<1>3. \A j \in DOMAIN t : j \in Int /\ old(j) \in DOMAIN s /\ t[j] = s[old(j)] /\ old(j) # i
  BY <1>1, <1>2
<1>4. Distinct(t)
  <2>1. ASSUME NEW j \in DOMAIN t, NEW m \in DOMAIN t, t[j] = t[m]
        PROVE  j = m
    <3>1. old(j) = old(m)
      <4> HIDE DEF old
      <4> QED BY <1>3, <2>1 DEF Distinct
    <3>2. j \in Int /\ m \in Int
      BY <1>3
    <3> QED BY <1>1, <3>1, <3>2
  <2> QED BY <2>1 DEF Distinct
<1>5. ToSet(t) = ToSet(s) \ {s[i]}
  <2>1. \A j \in DOMAIN t : t[j] \in ToSet(s) /\ t[j] # s[i]
    <3> HIDE DEF old
    <3> QED BY <1>1, <1>3 DEF Distinct, ToSet
  <2>2. ASSUME NEW m \in 1 .. n, m # i
        PROVE  \E j \in DOMAIN t : t[j] = s[m]
    <3>1. CASE m < i
      <4>1. m \in DOMAIN t /\ m \in 1 .. i - 1
        BY <1>1, <1>2, <3>1
      <4> QED BY <1>2, <4>1
    <3>2. CASE ~(m < i)
      <4>1. m - 1 \in DOMAIN t /\ m - 1 \in i .. n - 1 /\ m - 1 + 1 = m
        BY <1>1, <1>2, <2>2, <3>2
      <4>2. t[m - 1] = s[m - 1 + 1]
        BY <1>2, <4>1
      <4> QED BY <4>1, <4>2
    <3> QED BY <3>1, <3>2
  <2>3. ToSet(t) \subseteq ToSet(s) \ {s[i]}
    BY <2>1 DEF ToSet
  <2>4. ToSet(s) \ {s[i]} \subseteq ToSet(t)
    BY <1>1, <2>2 DEF ToSet
  <2> QED BY <2>3, <2>4
<1>6. ASSUME NEW j \in 0 .. n
      PROVE  At(e, t, j) = IF j < i THEN At(e, s, j) ELSE At(e, s, j + 1)
  <2>1. CASE j < i
    <3>1. j \in 1 .. n - 1 <=> j \in 1 .. n
      BY <1>1, <2>1
    <3>2. j \in 1 .. n => t[j] = s[j]
      BY <1>1, <1>2, <2>1
    <3> QED BY <1>2, <2>1, <3>1, <3>2 DEF At
  <2>2. CASE ~(j < i)
    <3>1. j \in 1 .. n - 1 <=> j + 1 \in 1 .. n
      BY <1>1, <2>2
    <3>2. j \in 1 .. n - 1 => t[j] = s[j + 1]
      BY <1>1, <1>2, <2>2
    <3> QED BY <1>2, <2>2, <3>1, <3>2 DEF At
  <2> QED BY <2>1, <2>2
<1> QED BY <1>2, <1>4, <1>5, <1>6 DEF t

LEMMA RemoveSet ==
  ASSUME NEW s \in Seq(Struct), Distinct(s), NEW i \in 1 .. Len(s)
  PROVE  ToSet(RemoveAt(s, i)) = ToSet(s) \ {s[i]}
<1>1. /\ RemoveAt(s, i) \in Seq(Struct) /\ Distinct(RemoveAt(s, i))
      /\ Len(RemoveAt(s, i)) = Len(s) - 1 /\ ToSet(RemoveAt(s, i)) = ToSet(s) \ {s[i]}
      /\ \A j \in 0 .. Len(s) : At(Null, RemoveAt(s, i), j) =
                                  IF j < i THEN At(Null, s, j) ELSE At(Null, s, j + 1)
  BY RemovePlaces
<1> QED BY <1>1

\* No two places have the same entry, and none has what ends the walk.
LEMMA OnePlace ==
  ASSUME NEW s \in Seq(Struct), Distinct(s), NEW e, e \notin Struct,
         NEW j \in 0 .. Len(s) + 1, NEW m \in 0 .. Len(s) + 1, At(e, s, j) = At(e, s, m)
  PROVE  j = m \/ (j \in {0, Len(s) + 1} /\ m \in {0, Len(s) + 1})
<1> DEFINE n == Len(s)
<1>1. n \in Nat /\ DOMAIN s = 1 .. n /\ \A x \in 1 .. n : s[x] \in Struct /\ s[x] # e
  OBVIOUS
<1>2. j \in 1 .. n <=> m \in 1 .. n
  BY <1>1 DEF At
<1>3. CASE j \in 1 .. n
  <2>1. s[j] = s[m] /\ j \in DOMAIN s /\ m \in DOMAIN s
    BY <1>1, <1>2, <1>3 DEF At
  <2> QED BY <2>1 DEF Distinct
<1>4. CASE j \notin 1 .. n
  <2>1. n \in Nat /\ j \in 0 .. n + 1 /\ m \in 0 .. n + 1
    BY <1>1
  <2> HIDE DEF n
  <2>2. \A x \in 0 .. n + 1 : x \notin 1 .. n => x \in {0, n + 1}
    BY <2>1
  <2>3. j \in {0, n + 1} /\ m \in {0, n + 1}
    BY <1>2, <1>4, <2>1, <2>2
  <2> QED BY <2>3 DEF n
<1> QED BY <1>3, <1>4

-----------------------------------------------------------------------------
(* Circular lists                                                          *)

\* The types of a set of lists with these heads.
Links(l, heads) ==
  /\ heads \cap Struct = {} /\ Null \notin heads \cup Struct
  /\ l.next \in [heads \cup Struct -> heads \cup Struct \cup {Null}]
  /\ l.prev \in [heads \cup Struct -> heads \cup Struct \cup {Null}]

\* The list at head is s, forward and backward.
Ring(l, head, s) ==
  /\ s \in Seq(Struct) /\ Distinct(s)
  /\ \A i \in 0 .. Len(s) : /\ l.next[At(head, s, i)] = At(head, s, i + 1)
                            /\ l.prev[At(head, s, i + 1)] = At(head, s, i)

\* What s has at each place.
LEMMA Places ==
  ASSUME NEW s \in Seq(Struct), NEW e
  PROVE  /\ Len(s) \in Nat /\ DOMAIN s = 1 .. Len(s)
         /\ \A i \in 1 .. Len(s) : At(e, s, i) = s[i] /\ s[i] \in Struct
         /\ At(e, s, 0) = e /\ At(e, s, Len(s) + 1) = e
BY DEF At

\* A list that a change does not touch stays.
LEMMA RingElsewhere ==
  ASSUME NEW l, NEW k, NEW head, NEW s, Ring(l, head, s),
         k.next[head] = l.next[head] /\ k.prev[head] = l.prev[head],
         \A x \in ToSet(s) : k.next[x] = l.next[x] /\ k.prev[x] = l.prev[x]
  PROVE  Ring(k, head, s)
<1>1. /\ s \in Seq(Struct) /\ Distinct(s)
      /\ \A i \in 0 .. Len(s) : /\ l.next[At(head, s, i)] = At(head, s, i + 1)
                                /\ l.prev[At(head, s, i + 1)] = At(head, s, i)
  BY DEF Ring
<1>2. \A i : At(head, s, i) = head \/ At(head, s, i) \in ToSet(s)
  BY <1>1 DEF At, ToSet
<1>3. \A x : x = head \/ x \in ToSet(s) => k.next[x] = l.next[x] /\ k.prev[x] = l.prev[x]
  OBVIOUS
<1> QED BY <1>1, <1>2, <1>3 DEF Ring

\* list_add at the head.
LEMMA RingAdd ==
  ASSUME NEW l, NEW heads, NEW head \in heads, NEW s, NEW c \in Struct,
         Links(l, heads), Ring(l, head, s), c \notin ToSet(s)
  PROVE  Ring(list_add(l, head, c), head, <<c>> \o s)
<1> DEFINE k == list_add(l, head, c)
           t == <<c>> \o s
           x == l.next[head]
<1>1. /\ s \in Seq(Struct) /\ Distinct(s)
      /\ \A i \in 0 .. Len(s) : /\ l.next[At(head, s, i)] = At(head, s, i + 1)
                                /\ l.prev[At(head, s, i + 1)] = At(head, s, i)
  BY DEF Ring
<1>2. /\ t \in Seq(Struct) /\ Len(t) = Len(s) + 1 /\ t[1] = c
      /\ \A i \in 1 .. Len(s) : t[i + 1] = s[i]
  BY <1>1, AddAtHead
<1>3. Len(s) \in Nat /\ DOMAIN s = 1 .. Len(s) /\ DOMAIN t = 1 .. Len(s) + 1
  BY <1>1, <1>2
<1>4. x = At(head, s, 1)
  <2>1. At(head, s, 0) = head /\ 0 \in 0 .. Len(s) /\ 0 + 1 = 1
    BY <1>3 DEF At
  <2> QED BY <1>1, <2>1
<1>5. \A i \in 1 .. Len(s) : s[i] \in Struct /\ s[i] # c /\ s[i] # head /\ head # c
  BY <1>1, <1>3 DEF ToSet, Links
<1>6. c # head /\ x # c /\ x \in heads \cup Struct /\ c \in heads \cup Struct
  <2>1. c # head
    BY DEF Links
  <2>2. x = head \/ x \in ToSet(s)
    BY <1>3, <1>4 DEF At, ToSet
  <2>3. ToSet(s) \subseteq Struct
    BY <1>1 DEF ToSet
  <2> QED BY <2>1, <2>2, <2>3
<1>7. /\ k.next[head] = c /\ k.next[c] = x
      /\ \A y \in heads \cup Struct : y # head /\ y # c => k.next[y] = l.next[y]
      /\ k.prev[x] = c /\ k.prev[c] = head
      /\ \A y \in heads \cup Struct : y # x /\ y # c => k.prev[y] = l.prev[y]
  BY <1>6 DEF list_add, Links
<1> HIDE DEF k, x
<1>8. /\ Distinct(t) /\ At(head, t, 0) = head /\ At(head, t, 1) = c
      /\ \A j \in 1 .. Len(s) + 1 : At(head, t, j + 1) = At(head, s, j)
  <2>1. /\ <<c>> \o s \in Seq(Struct) /\ Distinct(<<c>> \o s)
        /\ Len(<<c>> \o s) = Len(s) + 1 /\ ToSet(<<c>> \o s) = ToSet(s) \cup {c}
        /\ At(head, <<c>> \o s, 0) = head /\ At(head, <<c>> \o s, 1) = c
        /\ \A i \in 1 .. Len(s) + 1 : At(head, <<c>> \o s, i + 1) = At(head, s, i)
    <3>1. s \in Seq(Struct) /\ Distinct(s)
      BY <1>1
    <3> QED BY <3>1, ConsPlaces
  <2> QED BY <2>1
<1>9. Distinct(t)
  BY <1>8
<1> HIDE DEF t
<1>10. \A i \in 1 .. Len(s) + 1 : At(head, s, i) \in heads \cup Struct /\ At(head, s, i) # c
  BY <1>3, <1>5, <1>6 DEF At
<1>11. \A i \in 2 .. Len(s) + 1 : At(head, s, i) # x
  <2> SUFFICES ASSUME NEW i \in 2 .. Len(s) + 1, At(head, s, i) = At(head, s, 1)
               PROVE  FALSE
    BY <1>4
  <2>1. 1 \in 1 .. Len(s) /\ At(head, s, 1) = s[1] /\ s[1] # head
    BY <1>3, <1>5 DEF At
  <2>2. i \in 1 .. Len(s) /\ s[i] = s[1]
    BY <1>3, <2>1 DEF At
  <2> QED BY <1>1, <1>3, <2>1, <2>2 DEF Distinct
<1>12. ASSUME NEW i \in 0 .. Len(t)
       PROVE  /\ k.next[At(head, t, i)] = At(head, t, i + 1)
              /\ k.prev[At(head, t, i + 1)] = At(head, t, i)
  <2>1. CASE i = 0
    BY <1>7, <1>8, <2>1
  <2>2. CASE i = 1
    <3>1. 1 \in 1 .. Len(s) + 1 /\ At(head, t, 1 + 1) = At(head, s, 1)
      BY <1>3, <1>8
    <3> QED BY <1>4, <1>7, <1>8, <2>2, <3>1
  <2>3. CASE i > 1
    <3>1. PICK j \in 1 .. Len(s) : j = i - 1
      BY <1>2, <1>3, <2>3
    <3>2. i = j + 1 /\ j + 1 \in 1 .. Len(s) + 1 /\ j + 1 \in 2 .. Len(s) + 1 /\ j \in 0 .. Len(s)
          /\ j \in 1 .. Len(s) + 1
      BY <1>3, <3>1
    <3>3. At(head, t, i) = At(head, s, j) /\ At(head, t, i + 1) = At(head, s, j + 1)
      BY <1>8, <3>2
    <3>4. At(head, s, j) = s[j]
      BY DEF At
    <3>5. k.next[At(head, s, j)] = l.next[At(head, s, j)]
      BY <1>5, <1>7, <3>4
    <3>6. k.prev[At(head, s, j + 1)] = l.prev[At(head, s, j + 1)]
      BY <1>7, <1>10, <1>11, <3>2
    <3> QED BY <1>1, <3>2, <3>3, <3>5, <3>6
  <2> QED BY <1>2, <1>3, <2>1, <2>2, <2>3
<1> QED BY <1>2, <1>9, <1>12 DEF Ring, k, t

\* What list_add at a head changes: the head, the new entry and the first one.
LEMMA AddTouches ==
  ASSUME NEW l, NEW heads, NEW head \in heads, NEW s, NEW c \in Struct,
         Links(l, heads), Ring(l, head, s)
  PROVE  /\ Links(list_add(l, head, c), heads)
         /\ \A y \in heads \cup Struct : y # head /\ y # c /\ y \notin ToSet(s) =>
              /\ list_add(l, head, c).next[y] = l.next[y]
              /\ list_add(l, head, c).prev[y] = l.prev[y]
<1> DEFINE k == list_add(l, head, c)
           x == l.next[head]
<1>1. /\ s \in Seq(Struct) /\ Len(s) \in Nat
      /\ l.next[At(head, s, 0)] = At(head, s, 1)
  BY DEF Ring
<1>2. x = At(head, s, 1)
  BY <1>1 DEF At
<1>3. x = head \/ x \in ToSet(s)
  BY <1>1, <1>2 DEF At, ToSet
<1>4. ToSet(s) \subseteq Struct
  BY <1>1 DEF ToSet
<1>5. x \in heads \cup Struct /\ c \in heads \cup Struct /\ c # head
  BY <1>3, <1>4 DEF Links
<1> HIDE DEF x
<1>6. /\ k.next = [l.next EXCEPT ![head] = c, ![c] = x]
      /\ k.prev = [l.prev EXCEPT ![x] = c, ![c] = head]
  BY DEF list_add, x
<1>7. Links(k, heads)
  BY <1>5, <1>6 DEF Links
<1>8. \A y \in heads \cup Struct : y # head /\ y # c /\ y # x =>
        k.next[y] = l.next[y] /\ k.prev[y] = l.prev[y]
  BY <1>6 DEF Links
<1> QED BY <1>3, <1>7, <1>8

LEMMA RingAddElsewhere ==
  ASSUME NEW l, NEW heads, NEW head \in heads, NEW s, NEW c \in Struct,
         Links(l, heads), Ring(l, head, s),
         NEW other \in heads, other # head, NEW t, Ring(l, other, t),
         ToSet(s) \cap ToSet(t) = {}, c \notin ToSet(t)
  PROVE  Ring(list_add(l, head, c), other, t)
<1> DEFINE k == list_add(l, head, c)
<1>1. ToSet(t) \subseteq Struct /\ ToSet(s) \subseteq Struct
  BY DEF Ring, ToSet
<1>2. \A y \in heads \cup Struct : y # head /\ y # c /\ y \notin ToSet(s) =>
        k.next[y] = l.next[y] /\ k.prev[y] = l.prev[y]
  BY AddTouches
<1> HIDE DEF k
<1>3. k.next[other] = l.next[other] /\ k.prev[other] = l.prev[other]
  <2>1. other # c /\ other \notin ToSet(s)
    BY <1>1 DEF Links
  <2> QED BY <1>2, <2>1
<1>4. \A x \in ToSet(t) : k.next[x] = l.next[x] /\ k.prev[x] = l.prev[x]
  <2>1. \A x \in ToSet(t) : x # head /\ x # c /\ x \notin ToSet(s)
    BY <1>1 DEF Links
  <2> QED BY <1>1, <1>2, <2>1
<1>5. Ring(k, other, t)
  BY <1>3, <1>4, RingElsewhere
<1> QED BY <1>5 DEF k

\* The neighbours of the i-th entry.
LEMMA Neighbours ==
  ASSUME NEW l, NEW head, NEW s, Ring(l, head, s), NEW i \in 1 .. Len(s)
  PROVE  l.next[s[i]] = At(head, s, i + 1) /\ l.prev[s[i]] = At(head, s, i - 1)
<1>1. /\ s \in Seq(Struct) /\ Len(s) \in Nat
      /\ \A j \in 0 .. Len(s) : /\ l.next[At(head, s, j)] = At(head, s, j + 1)
                                /\ l.prev[At(head, s, j + 1)] = At(head, s, j)
  BY DEF Ring
<1>2. At(head, s, i) = s[i]
  BY DEF At
<1>3. i \in 0 .. Len(s) /\ i - 1 \in 0 .. Len(s) /\ i - 1 + 1 = i
  BY <1>1
<1> QED BY <1>1, <1>2, <1>3

\* What list_del changes, and what it leaves.
LEMMA DelTouches ==
  ASSUME NEW l, NEW heads, NEW head \in heads, NEW s, Links(l, heads),
         Ring(l, head, s), NEW i \in 1 .. Len(s)
  PROVE  /\ Links(list_del(l, s[i]), heads)
         /\ list_del(l, s[i]).next =
              [l.next EXCEPT ![At(head, s, i - 1)] = At(head, s, i + 1), ![s[i]] = Null]
         /\ list_del(l, s[i]).prev =
              [l.prev EXCEPT ![At(head, s, i + 1)] = At(head, s, i - 1), ![s[i]] = Null]
<1>1. s \in Seq(Struct) /\ Len(s) \in Nat
  BY DEF Ring
<1>2. PICK a, b : a = At(head, s, i - 1) /\ b = At(head, s, i + 1)
  OBVIOUS
<1>3. /\ a = head \/ a \in ToSet(s)
      /\ b = head \/ b \in ToSet(s)
  BY <1>1, <1>2 DEF At, ToSet
<1>4. ToSet(s) \subseteq Struct /\ s[i] \in ToSet(s)
  BY <1>1 DEF ToSet
<1>5. /\ list_del(l, s[i]).next = [l.next EXCEPT ![a] = b, ![s[i]] = Null]
      /\ list_del(l, s[i]).prev = [l.prev EXCEPT ![b] = a, ![s[i]] = Null]
  <2>1. l.next[s[i]] = b /\ l.prev[s[i]] = a
    BY <1>2, Neighbours
  <2> QED BY <2>1 DEF list_del
<1>6. a \in heads \cup Struct /\ b \in heads \cup Struct /\ s[i] \in heads \cup Struct
  BY <1>3, <1>4
<1>7. Links(list_del(l, s[i]), heads)
  BY <1>5, <1>6 DEF Links
<1> QED BY <1>2, <1>5, <1>7

LEMMA DelLeaves ==
  ASSUME NEW l, NEW heads, NEW head \in heads, NEW s, Links(l, heads),
         Ring(l, head, s), NEW i \in 1 .. Len(s),
         NEW y \in heads \cup Struct, y # head, y \notin ToSet(s)
  PROVE  /\ list_del(l, s[i]).next[y] = l.next[y]
         /\ list_del(l, s[i]).prev[y] = l.prev[y]
<1>1. s \in Seq(Struct) /\ Len(s) \in Nat
  BY DEF Ring
<1>2. PICK a, b : a = At(head, s, i - 1) /\ b = At(head, s, i + 1)
  OBVIOUS
<1>3. /\ a = head \/ a \in ToSet(s)
      /\ b = head \/ b \in ToSet(s)
      /\ s[i] \in ToSet(s)
  BY <1>1, <1>2 DEF At, ToSet
<1>4. l.next[s[i]] = b /\ l.prev[s[i]] = a
  BY <1>2, Neighbours
<1>5. /\ list_del(l, s[i]).next = [l.next EXCEPT ![a] = b, ![s[i]] = Null]
      /\ list_del(l, s[i]).prev = [l.prev EXCEPT ![b] = a, ![s[i]] = Null]
  BY <1>4 DEF list_del
<1>6. y # a /\ y # b /\ y # s[i]
  BY <1>3
<1> QED BY <1>5, <1>6 DEF Links

LEMMA RingDelElsewhere ==
  ASSUME NEW l, NEW heads, NEW head \in heads, NEW s, Links(l, heads),
         Ring(l, head, s), NEW i \in 1 .. Len(s),
         NEW other \in heads, other # head, NEW t, Ring(l, other, t),
         ToSet(s) \cap ToSet(t) = {}
  PROVE  Ring(list_del(l, s[i]), other, t)
<1> DEFINE k == list_del(l, s[i])
<1>1. ToSet(t) \subseteq Struct /\ ToSet(s) \subseteq Struct
  BY DEF Ring, ToSet
<1>2. \A y \in heads \cup Struct : y # head /\ y \notin ToSet(s) =>
        k.next[y] = l.next[y] /\ k.prev[y] = l.prev[y]
  BY DelLeaves
<1> HIDE DEF k
<1>3. k.next[other] = l.next[other] /\ k.prev[other] = l.prev[other]
  <2>1. other \notin ToSet(s)
    BY <1>1 DEF Links
  <2> QED BY <1>2, <2>1
<1>4. \A x \in ToSet(t) : k.next[x] = l.next[x] /\ k.prev[x] = l.prev[x]
  <2>1. \A x \in ToSet(t) : x # head /\ x \notin ToSet(s)
    BY <1>1 DEF Links
  <2> QED BY <1>1, <1>2, <2>1
<1>5. Ring(k, other, t)
  BY <1>3, <1>4, RingElsewhere
<1> QED BY <1>5 DEF k

\* list_del of the i-th entry.
LEMMA RingDel ==
  ASSUME NEW l, NEW heads, NEW head \in heads, NEW s, Links(l, heads),
         Ring(l, head, s), NEW i \in 1 .. Len(s)
  PROVE  /\ Ring(list_del(l, s[i]), head, RemoveAt(s, i))
         /\ list_del(l, s[i]).next[s[i]] = Null /\ list_del(l, s[i]).prev[s[i]] = Null
<1> DEFINE k == list_del(l, s[i])
           t == RemoveAt(s, i)
           n == Len(s)
<1>1. /\ s \in Seq(Struct) /\ Distinct(s) /\ n \in Nat /\ DOMAIN s = 1 .. n
      /\ \A j \in 0 .. n : /\ l.next[At(head, s, j)] = At(head, s, j + 1)
                           /\ l.prev[At(head, s, j + 1)] = At(head, s, j)
  BY DEF Ring
<1>2. /\ t \in Seq(Struct) /\ Len(t) = n - 1
      /\ \A j \in 1 .. i - 1 : t[j] = s[j]
      /\ \A j \in i .. n - 1 : t[j] = s[j + 1]
  BY <1>1, DeleteAt
<1>3. PICK a, b : a = At(head, s, i - 1) /\ b = At(head, s, i + 1)
  OBVIOUS
<1>4. k.next = [l.next EXCEPT ![a] = b, ![s[i]] = Null]
      /\ k.prev = [l.prev EXCEPT ![b] = a, ![s[i]] = Null]
  BY <1>3, DelTouches
<1> HIDE DEF k, t
\* No place but the i-th has the i-th entry, and none but its own an entry.
<1>5. ASSUME NEW j \in 0 .. n + 1, NEW m \in 0 .. n + 1, At(head, s, j) = At(head, s, m)
      PROVE  j = m \/ (j \in {0, n + 1} /\ m \in {0, n + 1})
  <2>1. s \in Seq(Struct) /\ Distinct(s) /\ head \notin Struct
    BY <1>1 DEF Links
  <2> QED BY <1>5, <2>1, OnePlace
<1>6. \A j \in 0 .. n + 1 : At(head, s, j) \in heads \cup Struct
  BY <1>1 DEF At
<1>7. i \in 0 .. n + 1 /\ i - 1 \in 0 .. n /\ i + 1 \in 1 .. n + 1 /\ i \in Int
      /\ i - 1 \in 0 .. n + 1 /\ i + 1 \in 0 .. n + 1
  BY <1>1
<1>8. s[i] = At(head, s, i)
  BY DEF At
<1>9. s[i] # a /\ s[i] # b
  BY <1>1, <1>3, <1>5, <1>7, <1>8
<1>10. a \in heads \cup Struct /\ b \in heads \cup Struct /\ s[i] \in heads \cup Struct
  BY <1>3, <1>6, <1>7, <1>8
<1>11. /\ k.next[a] = b /\ k.prev[b] = a
       /\ k.next[s[i]] = Null /\ k.prev[s[i]] = Null
       /\ \A y \in heads \cup Struct : y # a /\ y # s[i] => k.next[y] = l.next[y]
       /\ \A y \in heads \cup Struct : y # b /\ y # s[i] => k.prev[y] = l.prev[y]
  BY <1>4, <1>9, <1>10 DEF Links
<1>12. \A j \in 0 .. n : At(head, t, j) = IF j < i THEN At(head, s, j) ELSE At(head, s, j + 1)
  BY <1>1, RemovePlaces DEF t
<1>13. Distinct(t)
  BY <1>1, RemovePlaces DEF t
<1>14. ASSUME NEW j \in 0 .. n - 1
       PROVE  /\ k.next[At(head, t, j)] = At(head, t, j + 1)
              /\ k.prev[At(head, t, j + 1)] = At(head, t, j)
  <2>0. j \in 0 .. n /\ j + 1 \in 0 .. n /\ j \in Int /\ j + 1 \in 0 .. n + 1
        /\ j \in 0 .. n + 1 /\ j + 1 + 1 \in 0 .. n + 1
    BY <1>1
  <2>1. CASE j + 1 < i
    <3>1. At(head, t, j) = At(head, s, j) /\ At(head, t, j + 1) = At(head, s, j + 1)
      BY <1>7, <1>12, <2>0, <2>1
    <3>2. At(head, s, j) # a /\ At(head, s, j) # s[i]
      BY <1>1, <1>3, <1>5, <1>7, <1>8, <2>0, <2>1
    <3>3. At(head, s, j + 1) # b /\ At(head, s, j + 1) # s[i]
      BY <1>1, <1>3, <1>5, <1>7, <1>8, <2>0, <2>1
    <3> QED BY <1>1, <1>6, <1>11, <2>0, <3>1, <3>2, <3>3
  <2>2. CASE j + 1 = i
    <3>1. At(head, t, j) = a /\ At(head, t, j + 1) = b
      BY <1>3, <1>7, <1>12, <2>0, <2>2
    <3> QED BY <1>11, <3>1
  <2>3. CASE j + 1 > i
    <3>1. At(head, t, j) = At(head, s, j + 1) /\ At(head, t, j + 1) = At(head, s, j + 1 + 1)
      BY <1>7, <1>12, <2>0, <2>3
    <3>2. At(head, s, j + 1) # a /\ At(head, s, j + 1) # s[i]
      BY <1>1, <1>3, <1>5, <1>7, <1>8, <2>0, <2>3
    <3>3. At(head, s, j + 1 + 1) # b /\ At(head, s, j + 1 + 1) # s[i]
      BY <1>1, <1>3, <1>5, <1>7, <1>8, <2>0, <2>3
    <3> QED BY <1>1, <1>6, <1>11, <2>0, <3>1, <3>2, <3>3
  <2> QED BY <1>7, <2>0, <2>1, <2>2, <2>3
<1> QED BY <1>2, <1>11, <1>13, <1>14 DEF Ring, k, t

\* Whatever is in a list points into it.
LEMMA RingPointsInside ==
  ASSUME NEW l, NEW head, NEW s, Ring(l, head, s), NEW x, x = head \/ x \in ToSet(s)
  PROVE  l.next[x] \in {head} \cup ToSet(s) /\ l.prev[x] \in {head} \cup ToSet(s)
<1>1. /\ s \in Seq(Struct) /\ Len(s) \in Nat /\ DOMAIN s = 1 .. Len(s)
      /\ \A i \in 0 .. Len(s) : /\ l.next[At(head, s, i)] = At(head, s, i + 1)
                                /\ l.prev[At(head, s, i + 1)] = At(head, s, i)
  BY DEF Ring
<1>2. \A i : At(head, s, i) \in {head} \cup ToSet(s)
  BY <1>1 DEF At, ToSet
<1>3. CASE x = head
  <2>1. At(head, s, 0) = head /\ At(head, s, Len(s) + 1) = head /\ 0 \in 0 .. Len(s)
        /\ Len(s) \in 0 .. Len(s)
    BY <1>1 DEF At
  <2>2. l.next[head] = At(head, s, 0 + 1) /\ l.prev[head] = At(head, s, Len(s))
    BY <1>1, <2>1
  <2> QED BY <1>2, <1>3, <2>2
<1>4. CASE x \in ToSet(s)
  <2>1. PICK i \in 1 .. Len(s) : x = s[i]
    BY <1>1, <1>4 DEF ToSet
  <2>2. l.next[x] = At(head, s, i + 1) /\ l.prev[x] = At(head, s, i - 1)
    BY <2>1, Neighbours
  <2> QED BY <1>2, <2>2
<1> QED BY <1>3, <1>4

\* A walk round a list that is no longer than MAX_PROCESS spells it.
LEMMA RingSpells ==
  ASSUME NEW l, NEW heads, NEW head \in heads, NEW s, Links(l, heads),
         Ring(l, head, s), Len(s) <= MAX_PROCESS
  PROVE  Along(l.next, head) = s /\ Along(l.prev, head) = Reverse(s)
<1> DEFINE n == Len(s)
           r == Reverse(s)
<1>1. /\ s \in Seq(Struct) /\ n \in Nat
      /\ \A i \in 0 .. n : /\ l.next[At(head, s, i)] = At(head, s, i + 1)
                           /\ l.prev[At(head, s, i + 1)] = At(head, s, i)
  BY DEF Ring
<1>2. \A i \in 1 .. n : s[i] \notin {head, Null} /\ s[i] = At(head, s, i)
  BY <1>1 DEF Links, At
<1>3. At(head, s, 0) = head /\ At(head, s, n + 1) = head
  BY <1>1 DEF At
<1>4. Along(l.next, head) = s
  <2>1. l.next[head] = At(head, s, 1)
    BY <1>1, <1>3
  <2>2. \A i \in 1 .. n : l.next[s[i]] = At(head, s, i + 1)
    BY <1>1, <1>2
  <2>3. Leads(l.next, l.next[head], {head, Null}, head, s)
    BY <1>2, <2>1, <2>2 DEF Leads
  <2> QED BY <1>1, <2>3, WalkSpells DEF Along
<1>5. /\ r \in Seq(Struct) /\ Len(r) = n
      /\ \A i \in 1 .. n : r[i] = s[n + 1 - i]
  <2>1. r = [i \in 1 .. n |-> s[(n - i) + 1]]
    BY DEF Reverse
  <2>2. \A i \in 1 .. n : (n - i) + 1 \in 1 .. n /\ (n - i) + 1 = n + 1 - i
    BY <1>1
  <2> HIDE DEF r
  <2> QED BY <1>1, <2>1, <2>2
<1> HIDE DEF r
<1>6. \A i \in 0 .. n + 1 : At(head, r, i) = At(head, s, n + 1 - i)
  <2> SUFFICES ASSUME NEW i \in 0 .. n + 1 PROVE At(head, r, i) = At(head, s, n + 1 - i)
    OBVIOUS
  <2>1. i \in 1 .. n <=> n + 1 - i \in 1 .. n
    BY <1>1
  <2> QED BY <1>5, <2>1 DEF At
<1>7. Along(l.prev, head) = r
  <2>1. ASSUME NEW i \in 0 .. n
        PROVE  l.prev[At(head, r, i)] = At(head, r, i + 1)
    <3>1. n - i \in 0 .. n
      BY <1>1
    <3> DEFINE j == n - i
    <3>2. n + 1 - i = j + 1 /\ n + 1 - (i + 1) = j /\ i \in 0 .. n + 1 /\ i + 1 \in 0 .. n + 1
      BY <1>1
    <3> HIDE DEF j, n
    <3>3. At(head, r, i) = At(head, s, j + 1) /\ At(head, r, i + 1) = At(head, s, j)
      BY <1>6, <3>2
    <3> QED BY <1>1, <3>1, <3>3 DEF j
  <2>2. At(head, r, 0) = head /\ \A i \in 1 .. n : At(head, r, i) = r[i]
    BY <1>1, <1>5 DEF At
  <2>3. l.prev[head] = At(head, r, 1)
    BY <1>1, <2>1, <2>2
  <2>4. \A i \in 1 .. n : l.prev[r[i]] = At(head, r, i + 1)
    BY <1>1, <2>1, <2>2
  <2>5. \A i \in 1 .. n : r[i] \notin {head, Null}
    <3>1. \A i \in 1 .. n : n + 1 - i \in 1 .. n
      BY <1>1
    <3> HIDE DEF n
    <3> QED BY <1>2, <1>5, <3>1
  <2>6. Leads(l.prev, l.prev[head], {head, Null}, head, r)
    BY <1>5, <2>3, <2>4, <2>5 DEF Leads
  <2> QED BY <1>5, <2>6, WalkSpells DEF Along
<1> QED BY <1>4, <1>7 DEF r

-----------------------------------------------------------------------------
(* Families                                                                *)

\* The types of the family's links, taken as a record.
Family(f) ==
  /\ f.cptr \in [Struct \cup {idleproc} -> Struct \cup {Null}]
  /\ f.yptr \in [Struct -> Struct \cup {Null}]
  /\ f.optr \in [Struct -> Struct \cup {Null}]

\* The children of q are s, the youngest first, and each knows its neighbours.
Brood(f, q, s) ==
  /\ s \in Seq(Struct) /\ Distinct(s) /\ f.cptr[q] = At(Null, s, 1)
  /\ \A i \in 1 .. Len(s) : /\ f.optr[s[i]] = At(Null, s, i + 1)
                            /\ f.yptr[s[i]] = At(Null, s, i - 1)

\* g is f with c as the youngest child of q.
Joined(f, g, q, c) ==
  /\ g.cptr[q] = c
  /\ g.optr[c] = f.cptr[q] /\ \A x \in Struct : x # c => g.optr[x] = f.optr[x]
  /\ g.yptr[c] = Null
  /\ \A x \in Struct : x # c => g.yptr[x] = IF x = f.cptr[q] THEN c ELSE f.yptr[x]

\* A walk along the children spells them.
LEMMA BroodSpells ==
  ASSUME NEW f, NEW q, NEW s, Brood(f, q, s), Len(s) <= MAX_PROCESS
  PROVE  Walk(f.optr, f.cptr[q], {Null}) = s
<1>1. /\ s \in Seq(Struct) /\ f.cptr[q] = At(Null, s, 1)
      /\ \A i \in 1 .. Len(s) : f.optr[s[i]] = At(Null, s, i + 1)
  BY DEF Brood
<1>2. \A i \in 1 .. Len(s) : s[i] \notin {Null}
  BY <1>1, AddressAssumption
<1>3. Leads(f.optr, f.cptr[q], {Null}, Null, s)
  BY <1>1, <1>2 DEF Leads
<1> QED BY <1>1, <1>3, WalkSpells

\* A family that a change does not touch stays.
LEMMA BroodElsewhere ==
  ASSUME NEW f, NEW g, NEW q, NEW s, Brood(f, q, s), g.cptr[q] = f.cptr[q],
         \A x \in ToSet(s) : g.optr[x] = f.optr[x] /\ g.yptr[x] = f.yptr[x]
  PROVE  Brood(g, q, s)
<1>1. \A i \in 1 .. Len(s) : s[i] \in ToSet(s)
  BY DEF ToSet, Brood
<1> QED BY <1>1 DEF Brood

\* set_links, and one turn of do_exit's adoption.
LEMMA BroodAdd ==
  ASSUME NEW f, NEW g, NEW q, NEW s, NEW c \in Struct, Brood(f, q, s), Joined(f, g, q, c),
         c \notin ToSet(s)
  PROVE  Brood(g, q, <<c>> \o s)
<1> DEFINE t == <<c>> \o s
<1>1. /\ s \in Seq(Struct) /\ Distinct(s) /\ f.cptr[q] = At(Null, s, 1)
      /\ \A i \in 1 .. Len(s) : /\ f.optr[s[i]] = At(Null, s, i + 1)
                                /\ f.yptr[s[i]] = At(Null, s, i - 1)
  BY DEF Brood
<1>2. /\ t \in Seq(Struct) /\ Distinct(t) /\ Len(t) = Len(s) + 1
      /\ At(Null, t, 0) = Null /\ At(Null, t, 1) = c
      /\ \A i \in 1 .. Len(s) + 1 : At(Null, t, i + 1) = At(Null, s, i)
  BY <1>1, ConsPlaces
<1> HIDE DEF t
<1>3. Len(s) \in Nat /\ DOMAIN s = 1 .. Len(s)
  BY <1>1
<1>4. \A i \in 1 .. Len(t) : t[i] = At(Null, t, i)
  BY DEF At
<1>5. /\ g.cptr[q] = c
      /\ g.optr[c] = f.cptr[q] /\ \A x \in Struct : x # c => g.optr[x] = f.optr[x]
      /\ g.yptr[c] = Null
      /\ \A x \in Struct : x # c => g.yptr[x] = IF x = f.cptr[q] THEN c ELSE f.yptr[x]
  BY DEF Joined
<1>6. ASSUME NEW i \in 1 .. Len(t)
      PROVE  g.optr[t[i]] = At(Null, t, i + 1) /\ g.yptr[t[i]] = At(Null, t, i - 1)
  <2>1. CASE i = 1
    <3>1. 1 \in 1 .. Len(s) + 1 /\ t[i] = c
      BY <1>2, <1>3, <1>4, <2>1
    <3> QED BY <1>1, <1>2, <1>5, <2>1, <3>1
  <2>2. CASE i # 1
    <3>1. PICK j \in 1 .. Len(s) : i = j + 1
      <4>1. i - 1 \in 1 .. Len(s) /\ i = i - 1 + 1
        BY <1>2, <1>3, <2>2
      <4> QED BY <4>1
    <3>2. j \in 1 .. Len(s) + 1 /\ j + 1 \in 1 .. Len(s) + 1
      BY <1>3
    <3>3. t[i] = s[j] /\ s[j] \in Struct /\ s[j] # c
      <4>1. t[i] = At(Null, s, j)
        BY <1>2, <1>4, <3>1, <3>2
      <4>2. At(Null, s, j) = s[j] /\ s[j] \in ToSet(s)
        BY <1>3 DEF At, ToSet
      <4> QED BY <1>1, <4>1, <4>2
    <3>4. g.optr[t[i]] = At(Null, t, i + 1)
      <4>1. At(Null, t, i + 1) = At(Null, s, j + 1)
        BY <1>2, <3>1, <3>2
      <4> QED BY <1>1, <1>5, <3>3, <4>1
    <3>5. g.yptr[t[i]] = At(Null, t, i - 1)
      <4>1. i - 1 = j
        BY <3>1
      <4>2. CASE j = 1
        <5>1. f.cptr[q] = s[j]
          BY <1>1, <1>3, <4>2 DEF At
        <5> QED BY <1>2, <1>5, <3>3, <4>1, <4>2, <5>1
      <4>3. CASE j # 1
        <5>1. s[j] # f.cptr[q]
          <6>1. 1 \in DOMAIN s /\ j \in DOMAIN s /\ f.cptr[q] = s[1]
            BY <1>1, <1>3 DEF At
          <6> QED BY <1>1, <4>3, <6>1 DEF Distinct
        <5>2. j - 1 \in 1 .. Len(s) + 1 /\ j - 1 + 1 = j
          BY <1>3, <4>3
        <5>3. At(Null, t, j) = At(Null, s, j - 1)
          BY <1>2, <5>2
        <5> QED BY <1>1, <1>5, <3>3, <4>1, <5>1, <5>3
      <4> QED BY <4>2, <4>3
    <3> QED BY <3>4, <3>5
  <2> QED BY <2>1, <2>2
<1> QED BY <1>2, <1>5, <1>6 DEF Brood, t

\* g is f without c among the children of q.
Parted(f, g, q, c) ==
  /\ g.cptr = IF f.yptr[c] # Null THEN f.cptr ELSE [f.cptr EXCEPT ![q] = f.optr[c]]
  /\ g.optr = [x \in Struct |-> IF x = f.yptr[c] THEN f.optr[c]
                                 ELSE IF x = c THEN Null ELSE f.optr[x]]
  /\ g.yptr = [x \in Struct |-> IF x = f.optr[c] THEN f.yptr[c]
                                 ELSE IF x = c THEN Null ELSE f.yptr[x]]

\* remove_links of the i-th child.
LEMMA BroodDel ==
  ASSUME NEW f, NEW g, NEW q \in DOMAIN f.cptr, NEW s, Brood(f, q, s), NEW i \in 1 .. Len(s),
         Parted(f, g, q, s[i])
  PROVE  Brood(g, q, RemoveAt(s, i))
<1> DEFINE t == RemoveAt(s, i)
           n == Len(s)
<1>1. /\ s \in Seq(Struct) /\ Distinct(s) /\ f.cptr[q] = At(Null, s, 1)
      /\ \A j \in 1 .. n : /\ f.optr[s[j]] = At(Null, s, j + 1)
                           /\ f.yptr[s[j]] = At(Null, s, j - 1)
      /\ n \in Nat /\ DOMAIN s = 1 .. n
  BY DEF Brood
<1>2. s \in Seq(Struct) /\ Distinct(s)
  BY <1>1
<1>3. PICK a, b : a = At(Null, s, i - 1) /\ b = At(Null, s, i + 1)
  OBVIOUS
<1>4. f.yptr[s[i]] = a /\ f.optr[s[i]] = b
  BY <1>1, <1>3
<1>5. /\ g.cptr = IF a # Null THEN f.cptr ELSE [f.cptr EXCEPT ![q] = b]
      /\ \A x \in Struct : /\ g.optr[x] = IF x = a THEN b ELSE IF x = s[i] THEN Null ELSE f.optr[x]
                           /\ g.yptr[x] = IF x = b THEN a ELSE IF x = s[i] THEN Null ELSE f.yptr[x]
  BY <1>4 DEF Parted
<1>6. /\ t \in Seq(Struct) /\ Distinct(t) /\ Len(t) = n - 1
      /\ \A j \in 0 .. n : At(Null, t, j) = IF j < i THEN At(Null, s, j) ELSE At(Null, s, j + 1)
  BY <1>2, RemovePlaces
<1> HIDE DEF t
<1>7. Null \notin Struct
  BY AddressAssumption
<1>8. ASSUME NEW j \in 0 .. n + 1, NEW m \in 0 .. n + 1, At(Null, s, j) = At(Null, s, m)
      PROVE  j = m \/ (j \in {0, n + 1} /\ m \in {0, n + 1})
  BY <1>2, <1>7, <1>8, OnePlace
<1>9. /\ i \in Int /\ i \in 0 .. n + 1 /\ i - 1 \in 0 .. n + 1 /\ i + 1 \in 0 .. n + 1
      /\ i - 1 \in 0 .. n /\ 1 \in 0 .. n /\ 1 \in 0 .. n + 1
  BY <1>1
<1>10. \A j \in 1 .. n : At(Null, s, j) = s[j] /\ s[j] \in Struct /\ s[j] # Null
  BY <1>1, <1>7 DEF At
<1>11. \A j \in 1 .. Len(t) : At(Null, t, j) = t[j]
  BY DEF At
\* Which entry the neighbours are.
<1>12. ASSUME NEW j \in 1 .. n
       PROVE  /\ At(Null, s, j) = a <=> j = i - 1
              /\ At(Null, s, j) = b <=> j = i + 1
              /\ At(Null, s, j) = s[i] <=> j = i
  <2>1. j \in 0 .. n + 1 /\ j # 0 /\ j # n + 1 /\ At(Null, s, i) = s[i]
    BY <1>1, <1>10
  <2> QED BY <1>3, <1>8, <1>9, <2>1
<1>13. g.cptr[q] = At(Null, t, 1)
  <2>1. CASE i = 1
    <3>1. a = Null
      BY <1>3, <2>1 DEF At
    <3>2. At(Null, t, 1) = b
      <4>1. ~(1 < i) /\ i + 1 = 1 + 1
        BY <2>1
      <4> QED BY <1>3, <1>6, <1>9, <4>1
    <3> QED BY <1>5, <3>1, <3>2
  <2>2. CASE i # 1
    <3>1. a # Null
      <4>1. i - 1 \in 1 .. n
        BY <1>1, <2>2
      <4> QED BY <1>3, <1>10, <4>1
    <3>2. At(Null, t, 1) = At(Null, s, 1)
      <4>1. 1 < i
        BY <1>1, <2>2
      <4> QED BY <1>6, <1>9, <4>1
    <3> QED BY <1>1, <1>5, <3>1, <3>2
  <2> QED BY <2>1, <2>2
<1>14. ASSUME NEW j \in 1 .. Len(t)
       PROVE  g.optr[t[j]] = At(Null, t, j + 1) /\ g.yptr[t[j]] = At(Null, t, j - 1)
  <2>1. j \in 0 .. n /\ j + 1 \in 0 .. n /\ j - 1 \in 0 .. n /\ j \in Int /\ t[j] = At(Null, t, j)
        /\ j \in 1 .. n /\ j + 1 \in 1 .. n
    BY <1>1, <1>6, <1>11
  <2>2. CASE j < i
    <3>1. t[j] = At(Null, s, j) /\ At(Null, s, j) = s[j]
          /\ At(Null, t, j - 1) = At(Null, s, j - 1)
      BY <1>6, <1>9, <1>10, <2>1, <2>2
    <3>2. g.yptr[t[j]] = At(Null, t, j - 1)
      <4>1. j # i + 1 /\ j # i
        BY <1>9, <2>1, <2>2
      <4> QED BY <1>1, <1>5, <1>10, <1>12, <2>1, <3>1, <4>1
    <3>3. CASE j + 1 < i
      <4>1. At(Null, t, j + 1) = At(Null, s, j + 1) /\ j # i - 1 /\ j # i
        BY <1>6, <1>9, <2>1, <3>3
      <4> QED BY <1>1, <1>5, <1>10, <1>12, <2>1, <3>1, <3>2, <4>1
    <3>4. CASE j + 1 = i
      <4>1. At(Null, t, j + 1) = b /\ j = i - 1
        BY <1>3, <1>6, <1>9, <2>1, <3>4
      <4> QED BY <1>5, <1>10, <1>12, <2>1, <3>1, <3>2, <4>1
    <3> QED BY <1>9, <2>1, <2>2, <3>3, <3>4
  <2>3. CASE ~(j < i)
    <3>1. t[j] = At(Null, s, j + 1) /\ At(Null, s, j + 1) = s[j + 1]
          /\ At(Null, t, j + 1) = At(Null, s, j + 1 + 1)
      BY <1>6, <1>9, <1>10, <2>1, <2>3
    <3>2. g.optr[t[j]] = At(Null, t, j + 1)
      <4>1. j + 1 # i - 1 /\ j + 1 # i
        BY <1>9, <2>1, <2>3
      <4> QED BY <1>1, <1>5, <1>10, <1>12, <2>1, <3>1, <4>1
    <3>3. CASE j = i
      <4>1. At(Null, t, j - 1) = a /\ j + 1 = i + 1
        BY <1>3, <1>6, <1>9, <2>1, <3>3
      <4> QED BY <1>5, <1>10, <1>12, <2>1, <3>1, <3>2, <4>1
    <3>4. CASE j # i
      <4>1. At(Null, t, j - 1) = At(Null, s, j) /\ j + 1 # i + 1 /\ j + 1 # i /\ j + 1 - 1 = j
        <5>1. ~(j - 1 < i) /\ j - 1 + 1 = j
          BY <1>9, <2>1, <2>3, <3>4
        <5> QED BY <1>6, <1>9, <2>1, <2>3, <3>4, <5>1
      <4> QED BY <1>1, <1>5, <1>10, <1>12, <2>1, <3>1, <3>2, <4>1
    <3> QED BY <3>3, <3>4
  <2> QED BY <2>2, <2>3
<1> QED BY <1>6, <1>13, <1>14 DEF Brood, t

\* What that leaves: every other family.
LEMMA BroodDelElsewhere ==
  ASSUME NEW f, NEW g, NEW q, NEW s, Brood(f, q, s), NEW i \in 1 .. Len(s),
         Parted(f, g, q, s[i]), NEW r, r # q, NEW u, Brood(f, r, u), ToSet(s) \cap ToSet(u) = {}
  PROVE  Brood(g, r, u)
<1>1. /\ s \in Seq(Struct) /\ s[i] \in ToSet(s) /\ DOMAIN s = 1 .. Len(s)
      /\ f.optr[s[i]] = At(Null, s, i + 1) /\ f.yptr[s[i]] = At(Null, s, i - 1)
  BY DEF Brood, ToSet
<1>2. \A j : At(Null, s, j) = Null \/ At(Null, s, j) \in ToSet(s)
  BY <1>1 DEF At, ToSet
<1>3. /\ f.optr[s[i]] = Null \/ f.optr[s[i]] \in ToSet(s)
      /\ f.yptr[s[i]] = Null \/ f.yptr[s[i]] \in ToSet(s)
  BY <1>1, <1>2
<1>4. ToSet(u) \subseteq Struct /\ Null \notin Struct
  BY AddressAssumption DEF Brood, ToSet
<1>5. ASSUME NEW x \in ToSet(u)
      PROVE  g.optr[x] = f.optr[x] /\ g.yptr[x] = f.yptr[x]
  <2>1. x # f.optr[s[i]] /\ x # f.yptr[s[i]] /\ x # s[i] /\ x \in Struct
    BY <1>1, <1>3, <1>4
  <2> QED BY <2>1 DEF Parted
<1>6. g.cptr[r] = f.cptr[r]
  BY DEF Parted
<1> QED BY <1>5, <1>6, BroodElsewhere

\* What a child more leaves: every other family.
LEMMA BroodAddElsewhere ==
  ASSUME NEW f, NEW g, NEW q, NEW s, NEW c \in Struct, Brood(f, q, s), Joined(f, g, q, c),
         NEW r, NEW u, Brood(f, r, u), g.cptr[r] = f.cptr[r],
         ToSet(s) \cap ToSet(u) = {}, c \notin ToSet(u)
  PROVE  Brood(g, r, u)
<1>1. f.cptr[q] = Null \/ f.cptr[q] \in ToSet(s)
  <2>1. s \in Seq(Struct) /\ f.cptr[q] = At(Null, s, 1)
    BY DEF Brood
  <2> QED BY <2>1 DEF At, ToSet
<1>2. ToSet(u) \subseteq Struct /\ Null \notin Struct
  BY AddressAssumption DEF Brood, ToSet
<1>3. ASSUME NEW x \in ToSet(u)
      PROVE  g.optr[x] = f.optr[x] /\ g.yptr[x] = f.yptr[x]
  <2>1. x # f.cptr[q] /\ x # c /\ x \in Struct
    BY <1>1, <1>2
  <2> QED BY <2>1 DEF Joined
<1> QED BY <1>3, BroodElsewhere

\* Of fewer entries a list is no longer.
LEMMA FewerPlaces ==
  ASSUME NEW s \in Seq(Struct), Distinct(s), NEW t \in Seq(Struct), ToSet(s) \subseteq ToSet(t)
  PROVE  Len(s) <= Len(t)
<1> DEFINE f == [i \in 1 .. Len(s) |-> CHOOSE j \in 1 .. Len(t) : t[j] = s[i]]
<1>1. /\ Len(s) \in Nat /\ DOMAIN s = 1 .. Len(s)
      /\ Len(t) \in Nat /\ DOMAIN t = 1 .. Len(t)
  OBVIOUS
<1>2. ASSUME NEW i \in 1 .. Len(s)
      PROVE  f[i] \in 1 .. Len(t) /\ t[f[i]] = s[i]
  <2>1. \E j \in 1 .. Len(t) : t[j] = s[i]
    BY <1>1 DEF ToSet
  <2> QED BY <2>1
<1> HIDE DEF f
<1>3. f \in Injection(1 .. Len(s), 1 .. Len(t))
  <2>1. f \in [1 .. Len(s) -> 1 .. Len(t)]
    BY <1>2 DEF f
  <2>2. \A i, j \in 1 .. Len(s) : f[i] = f[j] => i = j
    BY <1>1, <1>2 DEF Distinct
  <2> QED BY <2>1, <2>2 DEF Injection, IsInjective
<1>4. /\ IsFiniteSet(1 .. Len(t)) /\ Cardinality(1 .. Len(t)) = Len(t)
      /\ Cardinality(1 .. Len(s)) = Len(s)
  <2>1. ASSUME NEW n \in Nat
        PROVE  IsFiniteSet(1 .. n) /\ Cardinality(1 .. n) = n
    <3>1. /\ IsFiniteSet(1 .. n)
          /\ Cardinality(1 .. n) = IF 1 > n THEN 0 ELSE n - 1 + 1
      BY FS_Interval
    <3> QED BY <3>1
  <2> QED BY <1>1, <2>1
<1> QED BY <1>3, <1>4, FS_Injection

\* Of distinct entries there are as many as places.
LEMMA AsManyAsPlaces ==
  ASSUME NEW s \in Seq(Struct), Distinct(s)
  PROVE  Cardinality(ToSet(s)) = Len(s)
<1>1. Len(s) \in Nat /\ DOMAIN s = 1 .. Len(s)
  OBVIOUS
<1>2. s \in Bijection(1 .. Len(s), ToSet(s))
  BY <1>1 DEF Distinct, ToSet, Bijection, Injection, Surjection, IsInjective
<1>3. ExistsBijection(1 .. Len(s), ToSet(s))
  BY <1>2 DEF ExistsBijection
<1> QED BY <1>1, <1>3, FS_CountingElements

-----------------------------------------------------------------------------
(* The hash                                                                *)

\* The upper bits of a 16-bit number.
LEMMA UpperBits ==
  ASSUME NEW w \in Nat, w < 65536, NEW a \in Nat, NEW b \in Nat, a > 0, a * b = 65536
  PROVE  w \div a \in 0 .. b - 1
<1>1. w \div a \in Int
  OBVIOUS
<1>2. w \div a >= 0
  OBVIOUS
<1>3. w \div a < b
  OBVIOUS
<1> QED BY <1>1, <1>2, <1>3

\* Every pid has a hash list (hash32 with HASH_SHIFT bits).
LEMMA HashInRange ==
  ASSUME NEW p \in Nat
  PROVE  pid_hashfn(p) \in Buckets
<1>1. /\ 2 ^ HASH_SHIFT \in Nat /\ 2 ^ (16 - HASH_SHIFT) \in Nat \ {0}
      /\ 2 ^ (16 - HASH_SHIFT) * 2 ^ HASH_SHIFT = 65536
  <2>1. HASH_SHIFT \in {1, 2, 3, 4, 5, 6, 7, 8, 9, 10, 11, 12, 13, 14, 15, 16}
    BY TableAssumption
  <2>2. CASE HASH_SHIFT = 1
    BY <2>2
  <2>3. CASE HASH_SHIFT = 2
    BY <2>3
  <2>4. CASE HASH_SHIFT = 3
    BY <2>4
  <2>5. CASE HASH_SHIFT = 4
    BY <2>5
  <2>6. CASE HASH_SHIFT = 5
    BY <2>6
  <2>7. CASE HASH_SHIFT = 6
    BY <2>7
  <2>8. CASE HASH_SHIFT = 7
    BY <2>8
  <2>9. CASE HASH_SHIFT = 8
    BY <2>9
  <2>10. CASE HASH_SHIFT = 9
    BY <2>10
  <2>11. CASE HASH_SHIFT = 10
    BY <2>11
  <2>12. CASE HASH_SHIFT = 11
    BY <2>12
  <2>13. CASE HASH_SHIFT = 12
    BY <2>13
  <2>14. CASE HASH_SHIFT = 13
    BY <2>14
  <2>15. CASE HASH_SHIFT = 14
    BY <2>15
  <2>16. CASE HASH_SHIFT = 15
    BY <2>16
  <2>17. CASE HASH_SHIFT = 16
    BY <2>17
  <2> QED BY <2>1, <2>2, <2>3, <2>4, <2>5, <2>6, <2>7, <2>8, <2>9, <2>10, <2>11,
             <2>12, <2>13, <2>14, <2>15, <2>16, <2>17
<1>2. (p * 40503) % 65536 \in Nat /\ (p * 40503) % 65536 < 65536
  <2>1. \A v \in Nat : v % 65536 \in Nat /\ v % 65536 < 65536
    OBVIOUS
  <2>2. p * 40503 \in Nat
    OBVIOUS
  <2> QED BY <2>1, <2>2
<1>3. 2 ^ 16 = 65536
  OBVIOUS
<1>4. hash32(p, HASH_SHIFT) = ((p * 40503) % 65536) \div 2 ^ (16 - HASH_SHIFT)
  BY <1>3 DEF hash32
<1>5. PICK w, a, b : /\ w = (p * 40503) % 65536
                     /\ a = 2 ^ (16 - HASH_SHIFT) /\ b = 2 ^ HASH_SHIFT
  OBVIOUS
<1>6. w \in Nat /\ w < 65536
  BY <1>2, <1>5
<1>7. a \in Nat /\ b \in Nat /\ a > 0 /\ a * b = 65536
  BY <1>1, <1>5
<1>8. w \div a \in 0 .. b - 1
  BY <1>6, <1>7, UpperBits
<1> QED BY <1>4, <1>5, <1>8 DEF pid_hashfn, Buckets

-----------------------------------------------------------------------------
(* The table's invariant                                                   *)

\* The family's links as one record.
links == [cptr |-> cptr, optr |-> optr, yptr |-> yptr]

TableTypes ==
  /\ pid \in [Struct -> Pid \cup {0}] /\ zombie \in [Struct -> BOOLEAN]
  /\ parent \in [Struct -> Struct \cup {idleproc, Null}]
  /\ Family(links) /\ Links(list_link, {proc_list}) /\ Links(hash_link, Buckets)

\* There is room for the process that do_fork is about to link.
RoomIsLeft ==
  /\ CountIsExact /\ nr_process <= MAX_PROCESS
  /\ pc # "none" => nr_process < MAX_PROCESS

\* A proc_struct that is free points nowhere.
FreeIsLoose ==
  \A x \in Struct \ Linked :
    /\ ~zombie[x] /\ parent[x] = Null
    /\ cptr[x] = Null /\ optr[x] = Null /\ yptr[x] = Null
    /\ list_link.next[x] = Null /\ list_link.prev[x] = Null
    /\ hash_link.next[x] = Null /\ hash_link.prev[x] = Null

\* Init never ends, and a process that has ended has no children.
ParentsLive ==
  /\ ~zombie[initproc]
  /\ \A x \in Linked : parent[x] \in Struct => ~zombie[parent[x]]

\* proc_list is s, and a parent is behind its children: last is init, whose parent
\* is idle.
ListIs(s) ==
  /\ Ring(list_link, proc_list, s) /\ ToSet(s) = Linked
  /\ procList = [i \in 1 .. Len(s) |-> pid[s[i]]]
  /\ \A i \in 1 .. Len(s) : i = Len(s) => s[i] = initproc /\ parent[s[i]] = idleproc
  /\ \A i \in 1 .. Len(s) : i # Len(s) =>
       \E j \in 1 .. Len(s) : i < j /\ parent[s[i]] = s[j]

\* The hash list b is s, and s has the processes whose pids belong there.
BucketIs(b, s) ==
  /\ Ring(hash_link, b, s)
  /\ ToSet(s) = {x \in Linked : pid_hashfn(pid[x]) = b}

\* The children of q are s.
FamilyIs(q, s) ==
  /\ Brood(links, q, s)
  /\ ToSet(s) = {x \in Linked : parent[x] = q}

TableInv ==
  /\ IInv /\ TableTypes /\ RoomIsLeft /\ FreeIsLoose /\ ParentsLive
  /\ \E s : ListIs(s)
  /\ \A b \in Buckets : \E s : BucketIs(b, s)
  /\ \A q \in Struct \cup {idleproc} : \E s : FamilyIs(q, s)

\* Every list in the table is shorter than MAX_PROCESS.
LEMMA Short ==
  ASSUME TableInv, NEW s \in Seq(Struct), Distinct(s), ToSet(s) \subseteq Linked
  PROVE  Len(s) <= MAX_PROCESS
<1>1. PICK L : ListIs(L)
  BY DEF TableInv
<1>2. L \in Seq(Struct) /\ Distinct(L) /\ ToSet(L) = Linked
      /\ procList = [i \in 1 .. Len(L) |-> pid[L[i]]]
  BY <1>1 DEF ListIs, Ring
<1>3. Len(procList) = Len(L) /\ Len(L) \in Nat
  BY <1>2
<1>4. Len(L) + 1 <= MAX_PROCESS
  BY <1>3 DEF TableInv, RoomIsLeft, CountIsExact
<1>5. Len(s) <= Len(L)
  BY <1>2, FewerPlaces
<1> QED BY <1>3, <1>4, <1>5, PidAssumption

LEMMA ListReads ==
  ASSUME TableInv, NEW s, ListIs(s)
  PROVE  /\ Along(list_link.next, proc_list) = s
         /\ Along(list_link.prev, proc_list) = Reverse(s)
<1>1. Links(list_link, {proc_list}) /\ Ring(list_link, proc_list, s) /\ ToSet(s) = Linked
  BY DEF TableInv, TableTypes, ListIs
<1>2. Len(s) <= MAX_PROCESS
  BY <1>1, Short DEF Ring
<1>3. proc_list \in {proc_list}
  OBVIOUS
<1> QED BY <1>1, <1>2, <1>3, RingSpells

LEMMA BucketReads ==
  ASSUME TableInv, NEW b \in Buckets, NEW s, BucketIs(b, s)
  PROVE  Along(hash_link.next, b) = s
<1>1. Links(hash_link, Buckets) /\ Ring(hash_link, b, s) /\ ToSet(s) \subseteq Linked
  BY DEF TableInv, TableTypes, BucketIs
<1>2. Len(s) <= MAX_PROCESS
  BY <1>1, Short DEF Ring
<1> QED BY <1>1, <1>2, RingSpells

LEMMA ChildrenRead ==
  ASSUME TableInv, NEW q, NEW s, FamilyIs(q, s)
  PROVE  Children(q) = s
<1>1. Brood(links, q, s) /\ ToSet(s) \subseteq Linked
  BY DEF FamilyIs
<1>2. Len(s) <= MAX_PROCESS
  BY <1>1, Short DEF Brood
<1>3. Walk(links.optr, links.cptr[q], {Null}) = s
  BY <1>1, <1>2, BroodSpells
<1> QED BY <1>3 DEF Children, links

\* The pids in proc_list are those of the processes.
LEMMA PidsAreLinked ==
  ASSUME TableInv, NEW p
  PROVE  p \in InUse <=> \E x \in Linked : pid[x] = p
<1>1. PICK s : ListIs(s)
  BY DEF TableInv
<1>2. s \in Seq(Struct) /\ ToSet(s) = Linked /\ procList = [i \in 1 .. Len(s) |-> pid[s[i]]]
  BY <1>1 DEF ListIs, Ring
<1>3. DOMAIN s = 1 .. Len(s) /\ DOMAIN procList = 1 .. Len(s)
  BY <1>2
<1> QED BY <1>2, <1>3 DEF InUse, ToSet

\* No two processes have the same pid.
LEMMA PidsDiffer ==
  ASSUME TableInv, NEW x \in Linked, NEW y \in Linked, pid[x] = pid[y]
  PROVE  x = y
<1>1. PICK s : ListIs(s)
  BY DEF TableInv
<1>2. s \in Seq(Struct) /\ ToSet(s) = Linked /\ procList = [i \in 1 .. Len(s) |-> pid[s[i]]]
  BY <1>1 DEF ListIs, Ring
<1>3. DOMAIN s = 1 .. Len(s) /\ DOMAIN procList = 1 .. Len(s)
  BY <1>2
<1>4. PICK i \in 1 .. Len(s), j \in 1 .. Len(s) : x = s[i] /\ y = s[j]
  BY <1>2, <1>3 DEF ToSet
<1>5. procList[i] = procList[j]
  BY <1>2, <1>4
<1>6. i = j
  BY <1>3, <1>5 DEF TableInv, IInv, PidsDistinct
<1> QED BY <1>4, <1>6

\* What find_proc finds.
LEMMA FindProcFinds ==
  ASSUME TableInv, NEW p \in Pid
  PROVE  IF p \in InUse THEN find_proc(p) \in Linked /\ pid[find_proc(p)] = p
         ELSE find_proc(p) = Null
<1>1. pid_hashfn(p) \in Buckets
  BY HashInRange, PidAssumption DEF Pid
<1>2. PICK s : BucketIs(pid_hashfn(p), s)
  BY <1>1 DEF TableInv
<1>3. Along(hash_link.next, pid_hashfn(p)) = s
  BY <1>1, <1>2, BucketReads
<1>4. /\ s \in Seq(Struct) /\ DOMAIN s = 1 .. Len(s) /\ Len(s) \in Nat
      /\ ToSet(s) = {x \in Linked : pid_hashfn(pid[x]) = pid_hashfn(p)}
  BY <1>2 DEF BucketIs, Ring
<1> DEFINE I == {i \in 1 .. Len(s) : s[i] \in Struct /\ pid[s[i]] = p}
<1>5. find_proc(p) = IF (IF I # {} THEN Min(I) ELSE 0) # 0
                     THEN s[IF I # {} THEN Min(I) ELSE 0] ELSE Null
  BY <1>3 DEF find_proc, SelectInSeq
<1>6. ASSUME NEW i \in I
      PROVE  s[i] \in Linked /\ pid[s[i]] = p
  BY <1>4 DEF ToSet
<1>7. CASE I # {}
  <2>1. PICK i \in I : \A j \in I : i <= j
    <3>1. I \in SUBSET Nat
      OBVIOUS
    <3> QED BY <1>7, <3>1, LeastExists
  <2>2. Min(I) \in I
    BY <2>1 DEF Min
  <2>3. Min(I) # 0
    BY <2>2
  <2>4. find_proc(p) = s[Min(I)]
    <3> HIDE DEF I
    <3> QED BY <1>5, <1>7, <2>3
  <2>5. p \in InUse
    <3> HIDE DEF I
    <3> QED BY <1>6, <1>7, PidsAreLinked
  <2> QED BY <1>6, <2>2, <2>4, <2>5
<1>8. CASE I = {}
  <2>1. find_proc(p) = Null
    <3> HIDE DEF I
    <3> QED BY <1>5, <1>8
  <2>2. p \notin InUse
    <3> SUFFICES ASSUME p \in InUse PROVE FALSE
      OBVIOUS
    <3>1. PICK x \in Linked : pid[x] = p
      BY PidsAreLinked
    <3>2. x \in ToSet(s) /\ x \in Struct
      BY <1>4, <3>1 DEF Linked
    <3>3. PICK i \in 1 .. Len(s) : s[i] = x
      BY <1>4, <3>2 DEF ToSet
    <3>4. i \in I
      BY <3>1, <3>2, <3>3
    <3> QED BY <1>8, <3>4
  <2> QED BY <2>1, <2>2
<1> QED BY <1>7, <1>8

\* A process's parent is a process, or idle.
LEMMA ParentIsLinked ==
  ASSUME TableInv, NEW x \in Linked
  PROVE  parent[x] \in Linked \cup {idleproc}
<1>1. PICK s : ListIs(s)
  BY DEF TableInv
<1>2. /\ s \in Seq(Struct) /\ ToSet(s) = Linked /\ DOMAIN s = 1 .. Len(s)
      /\ \A i \in 1 .. Len(s) : i = Len(s) => parent[s[i]] = idleproc
      /\ \A i \in 1 .. Len(s) : i # Len(s) =>
           \E j \in 1 .. Len(s) : parent[s[i]] = s[j]
  BY <1>1 DEF ListIs, Ring
<1>3. PICK i \in 1 .. Len(s) : x = s[i]
  BY <1>2 DEF ToSet
<1>4. \A j \in 1 .. Len(s) : s[j] \in Linked
  BY <1>2 DEF ToSet
<1>5. CASE i = Len(s)
  BY <1>2, <1>3, <1>5
<1>6. CASE i # Len(s)
  <2>1. PICK j \in 1 .. Len(s) : parent[s[i]] = s[j]
    BY <1>2, <1>6
  <2> QED BY <1>3, <1>4, <2>1
<1> QED BY <1>5, <1>6

LEMMA TypesFollow ==
  ASSUME TableInv
  PROVE  TableTypeOK
<1>1. /\ pid \in [Struct -> Pid \cup {0}] /\ zombie \in [Struct -> BOOLEAN]
      /\ parent \in [Struct -> Struct \cup {idleproc, Null}]
      /\ Family(links) /\ Links(list_link, {proc_list}) /\ Links(hash_link, Buckets)
  BY DEF TableInv, TableTypes
<1>2. pid \in [Struct -> 0 .. MAX_PID]
  BY <1>1, PidAssumption DEF Pid
<1>3. nr_process \in 1 .. MAX_PROCESS
  <2>1. nr_process = Len(procList) + 1 /\ nr_process <= MAX_PROCESS /\ Len(procList) \in Nat
    BY DEF TableInv, RoomIsLeft, CountIsExact, IInv, TypeOK
  <2> QED BY <2>1, PidAssumption
<1>4. /\ idleproc \notin Struct /\ Null \notin Struct /\ Linked \subseteq Struct
  BY AddressAssumption DEF Linked
<1>5. ASSUME NEW q \in Struct \cup {idleproc}
      PROVE  \E s : Brood(links, q, s) /\ ToSet(s) = {x \in Linked : parent[x] = q}
  BY DEF TableInv, FamilyIs
\* Parents and siblings.
<1>6. parent \in [Struct -> Linked \cup {idleproc, Null}]
  <2>1. ASSUME NEW x \in Struct
        PROVE  parent[x] \in Linked \cup {idleproc, Null}
    <3>1. CASE x \in Linked
      BY <3>1, ParentIsLinked
    <3>2. CASE x \notin Linked
      BY <3>2 DEF TableInv, FreeIsLoose
    <3> QED BY <3>1, <3>2
  <2> QED BY <1>1, <2>1
<1>7. /\ cptr \in [Struct \cup {idleproc} -> Struct \cup {Null}]
      /\ yptr \in [Struct -> Struct \cup {Null}]
      /\ optr \in [Struct -> Struct \cup {Null}]
  BY <1>1 DEF Family, links
<1>8. ASSUME NEW q \in Struct \cup {idleproc}
      PROVE  cptr[q] \in Linked \cup {Null}
  <2>1. PICK s : Brood(links, q, s) /\ ToSet(s) \subseteq Linked
    BY <1>5
  <2>2. s \in Seq(Struct) /\ cptr[q] = At(Null, s, 1)
    BY <2>1 DEF Brood, links
  <2> QED BY <2>1, <2>2 DEF At, ToSet
<1>9. ASSUME NEW x \in Struct
      PROVE  yptr[x] \in Linked \cup {Null} /\ optr[x] \in Linked \cup {Null}
  <2>1. CASE x \in Linked
    <3>1. parent[x] \in Struct \cup {idleproc}
      BY <1>4, <2>1, ParentIsLinked
    <3>2. PICK s : Brood(links, parent[x], s) /\ ToSet(s) = {z \in Linked : parent[z] = parent[x]}
      BY <1>5, <3>1
    <3>3. /\ s \in Seq(Struct) /\ DOMAIN s = 1 .. Len(s)
          /\ \A i \in 1 .. Len(s) : /\ optr[s[i]] = At(Null, s, i + 1)
                                    /\ yptr[s[i]] = At(Null, s, i - 1)
      BY <3>2 DEF Brood, links
    <3>4. PICK i \in 1 .. Len(s) : x = s[i]
      BY <2>1, <3>2, <3>3 DEF ToSet
    <3>5. \A j : At(Null, s, j) \in ToSet(s) \cup {Null}
      BY <3>3 DEF At, ToSet
    <3> QED BY <3>2, <3>3, <3>4, <3>5
  <2>2. CASE x \notin Linked
    BY <2>2 DEF TableInv, FreeIsLoose
  <2> QED BY <2>1, <2>2
<1>10. /\ cptr \in [Struct \cup {idleproc} -> Linked \cup {Null}]
       /\ yptr \in [Struct -> Linked \cup {Null}] /\ optr \in [Struct -> Linked \cup {Null}]
  BY <1>7, <1>8, <1>9
\* The lists.
<1>11. ASSUME NEW x \in {proc_list} \cup Struct
       PROVE  /\ list_link.next[x] \in {proc_list, Null} \cup Linked
              /\ list_link.prev[x] \in {proc_list, Null} \cup Linked
  <2>1. CASE x = proc_list \/ x \in Linked
    <3>1. PICK s : Ring(list_link, proc_list, s) /\ ToSet(s) = Linked
      BY DEF TableInv, ListIs
    <3> QED BY <2>1, <3>1, RingPointsInside
  <2>2. CASE x \in Struct \ Linked
    BY <2>2 DEF TableInv, FreeIsLoose
  <2> QED BY <2>1, <2>2
<1>12. ASSUME NEW x \in Buckets \cup Struct
       PROVE  /\ hash_link.next[x] \in Buckets \cup {Null} \cup Linked
              /\ hash_link.prev[x] \in Buckets \cup {Null} \cup Linked
  <2>1. ASSUME NEW b \in Buckets, NEW s, BucketIs(b, s), x = b \/ x \in ToSet(s)
        PROVE  /\ hash_link.next[x] \in Buckets \cup {Null} \cup Linked
               /\ hash_link.prev[x] \in Buckets \cup {Null} \cup Linked
    <3>1. Ring(hash_link, b, s) /\ ToSet(s) \subseteq Linked
      BY <2>1 DEF BucketIs
    <3> QED BY <2>1, <3>1, RingPointsInside
  <2>2. CASE x \in Buckets
    <3>1. PICK s : BucketIs(x, s)
      BY <2>2 DEF TableInv
    <3> QED BY <2>1, <2>2, <3>1
  <2>3. CASE x \in Linked
    <3>1. pid_hashfn(pid[x]) \in Buckets
      BY <1>1, <1>4, <2>3, HashInRange, PidAssumption DEF Pid
    <3>2. PICK s : BucketIs(pid_hashfn(pid[x]), s)
      BY <3>1 DEF TableInv
    <3>3. x \in ToSet(s)
      BY <2>3, <3>2 DEF BucketIs
    <3> QED BY <2>1, <3>1, <3>2, <3>3
  <2>4. CASE x \in Struct \ Linked
    BY <2>4 DEF TableInv, FreeIsLoose
  <2> QED BY <2>2, <2>3, <2>4
<1>13. \A way \in {"next", "prev"} :
         /\ Range(list_link[way]) \subseteq {proc_list, Null} \cup Linked
         /\ Range(hash_link[way]) \subseteq Buckets \cup {Null} \cup Linked
  <2>1. /\ DOMAIN list_link.next = {proc_list} \cup Struct
        /\ DOMAIN list_link.prev = {proc_list} \cup Struct
        /\ DOMAIN hash_link.next = Buckets \cup Struct
        /\ DOMAIN hash_link.prev = Buckets \cup Struct
    BY <1>1 DEF Links
  <2>2. /\ Range(list_link.next) \subseteq {proc_list, Null} \cup Linked
        /\ Range(list_link.prev) \subseteq {proc_list, Null} \cup Linked
    BY <1>11, <2>1 DEF Range
  <2>3. /\ Range(hash_link.next) \subseteq Buckets \cup {Null} \cup Linked
        /\ Range(hash_link.prev) \subseteq Buckets \cup {Null} \cup Linked
    BY <1>12, <2>1 DEF Range
  <2> QED BY <2>2, <2>3
<1> QED BY <1>1, <1>2, <1>3, <1>6, <1>10, <1>13 DEF TableTypeOK

LEMMA InvImpliesLinks ==
  ASSUME TableInv
  PROVE  LinksOK
<1>1. ListSpellsProcesses
  <2>1. PICK s : ListIs(s)
    BY DEF TableInv
  <2>2. /\ s \in Seq(Struct) /\ DOMAIN s = 1 .. Len(s)
        /\ procList = [i \in 1 .. Len(s) |-> pid[s[i]]]
    BY <2>1 DEF ListIs, Ring
  <2>3. /\ Along(list_link.next, proc_list) = s
        /\ Along(list_link.prev, proc_list) = Reverse(s)
    BY <2>1, ListReads
  <2> QED BY <2>2, <2>3 DEF ListSpellsProcesses
<1>2. FindsByPid
  <2>1. ASSUME NEW p \in 0 .. MAX_PID
        PROVE  IF p \in InUse THEN find_proc(p) # Null /\ pid[find_proc(p)] = p
               ELSE find_proc(p) = Null
    <3>1. Null \notin Linked
      BY AddressAssumption DEF Linked
    <3>2. CASE p \in Pid
      BY <3>1, <3>2, FindProcFinds
    <3>3. CASE p \notin Pid
      <4>1. p \notin InUse
        BY <3>3 DEF TableInv, IInv, TypeOK, InUse
      <4>2. find_proc(p) = Null
        BY <3>3 DEF find_proc
      <4> QED BY <4>1, <4>2
    <3> QED BY <3>2, <3>3
  <2> QED BY <2>1 DEF FindsByPid
<1>3. FamilyIsLinked
  <2>1. ASSUME NEW q \in Linked \cup {idleproc}
        PROVE  /\ ToSet(Children(q)) = {s \in Linked : parent[s] = q}
               /\ Cardinality(ToSet(Children(q))) = Len(Children(q))
               /\ \A k \in DOMAIN Children(q) :
                    yptr[Children(q)[k]] = IF k = 1 THEN Null ELSE Children(q)[k - 1]
    <3>1. q \in Struct \cup {idleproc}
      BY DEF Linked
    <3>2. PICK s : FamilyIs(q, s)
      BY <3>1 DEF TableInv
    <3>3. Children(q) = s
      BY <3>2, ChildrenRead
    <3>4. /\ s \in Seq(Struct) /\ Distinct(s) /\ DOMAIN s = 1 .. Len(s) /\ Len(s) \in Nat
          /\ ToSet(s) = {x \in Linked : parent[x] = q}
          /\ \A k \in 1 .. Len(s) : yptr[s[k]] = At(Null, s, k - 1)
      BY <3>2 DEF FamilyIs, Brood, links
    <3>5. Cardinality(ToSet(s)) = Len(s)
      BY <3>4, AsManyAsPlaces
    <3>6. \A k \in 1 .. Len(s) : At(Null, s, k - 1) = IF k = 1 THEN Null ELSE s[k - 1]
      BY <3>4 DEF At
    <3> QED BY <3>3, <3>4, <3>5, <3>6
  <2> QED BY <2>1 DEF FamilyIsLinked
<1> QED BY <1>1, <1>2, <1>3, TypesFollow DEF LinksOK

LEMMA InvImpliesInitLast ==
  ASSUME TableInv
  PROVE  InitIsLast
<1> SUFFICES ASSUME pid[initproc] # 0, cptr[initproc] = Null
             PROVE  /\ yptr[initproc] = Null /\ optr[initproc] = Null /\ nr_process = 2
                    /\ list_link.next[proc_list] = initproc
                    /\ list_link.prev[proc_list] = initproc
  BY DEF InitIsLast
<1>1. PICK L : ListIs(L)
  BY DEF TableInv
<1>2. /\ L \in Seq(Struct) /\ Distinct(L) /\ Len(L) \in Nat /\ DOMAIN L = 1 .. Len(L)
      /\ ToSet(L) = Linked /\ procList = [i \in 1 .. Len(L) |-> pid[L[i]]]
      /\ \A i \in 1 .. Len(L) : i = Len(L) => L[i] = initproc /\ parent[L[i]] = idleproc
      /\ \A i \in 1 .. Len(L) : i # Len(L) =>
           \E j \in 1 .. Len(L) : i < j /\ parent[L[i]] = L[j]
      /\ \A i \in 0 .. Len(L) : /\ list_link.next[At(proc_list, L, i)] = At(proc_list, L, i + 1)
                                /\ list_link.prev[At(proc_list, L, i + 1)] = At(proc_list, L, i)
  BY <1>1 DEF ListIs, Ring
<1>3. initproc \in Struct /\ idleproc \notin Struct /\ Null \notin Struct
  BY AddressAssumption DEF Struct
<1>4. initproc \in Linked /\ Linked \subseteq Struct
  BY <1>3 DEF Linked
<1>5. {x \in Linked : parent[x] = initproc} = {}
  <2>1. PICK s : FamilyIs(initproc, s)
    BY <1>3 DEF TableInv
  <2>2. s \in Seq(Struct) /\ cptr[initproc] = At(Null, s, 1) /\ DOMAIN s = 1 .. Len(s)
        /\ ToSet(s) = {x \in Linked : parent[x] = initproc} /\ Len(s) \in Nat
    BY <2>1 DEF FamilyIs, Brood, links
  <2>3. 1 \notin 1 .. Len(s)
    BY <1>3, <2>2 DEF At
  <2> QED BY <2>2, <2>3 DEF ToSet
<1>6. Len(L) = 1
  <2> DEFINE n == Len(L)
  <2>1. /\ n \in Nat /\ ToSet(L) = Linked /\ DOMAIN L = 1 .. n
        /\ \A i \in 1 .. n : i = n => L[i] = initproc
        /\ \A i \in 1 .. n : i # n => \E j \in 1 .. n : i < j /\ parent[L[i]] = L[j]
    BY <1>2
  <2> HIDE DEF n
  <2>2. n # 0
    <3> SUFFICES ASSUME n = 0 PROVE FALSE
      OBVIOUS
    <3>1. DOMAIN L = {}
      BY <2>1
    <3> QED BY <1>4, <2>1, <3>1 DEF ToSet
  <2>3. ASSUME n > 1
        PROVE  FALSE
    <3>1. /\ n - 1 \in 1 .. n /\ n \in 1 .. n /\ n - 1 # n
          /\ \A j \in 1 .. n : n - 1 < j => j = n
      BY <2>1, <2>3
    <3>2. parent[L[n - 1]] = initproc
      <4>1. PICK j \in 1 .. n : n - 1 < j /\ parent[L[n - 1]] = L[j]
        BY <2>1, <3>1
      <4> QED BY <2>1, <3>1, <4>1
    <3>3. L[n - 1] \in Linked
      BY <2>1, <3>1 DEF ToSet
    <3> QED BY <1>5, <3>2, <3>3
  <2>4. n = 1
    BY <2>1, <2>2, <2>3
  <2> QED BY <2>4 DEF n
<1>7. L[1] = initproc /\ parent[initproc] = idleproc /\ Linked = {initproc}
  BY <1>2, <1>6 DEF ToSet
<1>8. list_link.next[proc_list] = initproc /\ list_link.prev[proc_list] = initproc
  <2>1. At(proc_list, L, 0) = proc_list /\ At(proc_list, L, 1) = initproc
        /\ At(proc_list, L, 1 + 1) = proc_list
    BY <1>6, <1>7 DEF At
  <2>2. 0 \in 0 .. Len(L) /\ 1 \in 0 .. Len(L) /\ 0 + 1 = 1
    BY <1>6
  <2> QED BY <1>2, <2>1, <2>2
<1>9. nr_process = 2
  BY <1>2, <1>6 DEF TableInv, RoomIsLeft, CountIsExact
<1>10. yptr[initproc] = Null /\ optr[initproc] = Null
  <2>1. PICK s : FamilyIs(idleproc, s)
    BY DEF TableInv
  <2>2. s \in Seq(Struct) /\ Distinct(s) /\ DOMAIN s = 1 .. Len(s) /\ Len(s) \in Nat
        /\ ToSet(s) = {initproc}
        /\ \A i \in 1 .. Len(s) : /\ optr[s[i]] = At(Null, s, i + 1)
                                  /\ yptr[s[i]] = At(Null, s, i - 1)
    BY <1>7, <2>1 DEF FamilyIs, Brood, links
  <2>3. \A i \in 1 .. Len(s) : s[i] = initproc
    BY <2>2 DEF ToSet
  <2>4. Len(s) = 1
    <3>1. Len(s) # 0
      BY <2>2 DEF ToSet
    <3>2. ASSUME Len(s) > 1
          PROVE  FALSE
      <4>1. 1 \in DOMAIN s /\ 2 \in DOMAIN s /\ s[1] = s[2]
        BY <2>2, <2>3, <3>2
      <4> QED BY <2>2, <4>1 DEF Distinct
    <3> QED BY <2>2, <3>1, <3>2
  <2>5. s[1] = initproc /\ At(Null, s, 1 + 1) = Null /\ At(Null, s, 1 - 1) = Null
    BY <2>3, <2>4 DEF At
  <2> QED BY <2>2, <2>4, <2>5
<1> QED BY <1>8, <1>9, <1>10

-----------------------------------------------------------------------------
(* do_fork                                                                 *)

\* Between forks, exits and waits the table stays.
LEMMA QuietKeeps ==
  ASSUME TableInv, UNCHANGED <<procList, table>>, IInv', RoomIsLeft'
  PROVE  TableInv'
<1>1. UNCHANGED <<procList, pid, parent, zombie, cptr, yptr, optr, list_link, hash_link>>
  BY DEF table, family
<1>2. Linked' = Linked /\ links' = links
  BY <1>1 DEF Linked, links
<1>3. TableTypes' /\ FreeIsLoose' /\ ParentsLive'
  BY <1>1, <1>2 DEF TableInv, TableTypes, FreeIsLoose, ParentsLive
<1>4. \A s : /\ ListIs(s)' <=> ListIs(s)
             /\ \A b : BucketIs(b, s)' <=> BucketIs(b, s)
             /\ \A q : FamilyIs(q, s)' <=> FamilyIs(q, s)
  BY <1>1, <1>2 DEF ListIs, BucketIs, FamilyIs
<1> QED BY <1>3, <1>4 DEF TableInv

\* What set_links and hash_proc do to the table.
LEMMA ForkedDoes ==
  ASSUME TableInv, NEW c \in Struct, NEW q \in Struct \cup {idleproc}, Forked(c, q)
  PROVE  /\ c \notin Linked /\ Linked' = Linked \cup {c} /\ last_pid \in Pid /\ q # c
         /\ IF Linked = {} THEN c = initproc /\ q = idleproc ELSE q \in Linked /\ ~zombie[q]
         /\ pid' = [pid EXCEPT ![c] = last_pid] /\ pid'[c] = last_pid
         /\ parent' = [parent EXCEPT ![c] = q] /\ parent'[c] = q
         /\ \A x \in Struct : x # c => pid'[x] = pid[x] /\ parent'[x] = parent[x]
         /\ procList' = <<last_pid>> \o procList
         /\ list_link' = list_add(list_link, proc_list, c)
         /\ hash_link' = list_add(hash_link, pid_hashfn(last_pid), c)
         /\ UNCHANGED zombie
         /\ Family(links') /\ Joined(links, links', q, c)
         /\ \A r \in Struct \cup {idleproc} :
              r # q => links'.cptr[r] = IF r = c THEN Null ELSE links.cptr[r]
<1>1. /\ pid \in [Struct -> Pid \cup {0}] /\ parent \in [Struct -> Struct \cup {idleproc, Null}]
      /\ cptr \in [Struct \cup {idleproc} -> Struct \cup {Null}]
      /\ yptr \in [Struct -> Struct \cup {Null}] /\ optr \in [Struct -> Struct \cup {Null}]
  BY DEF TableInv, TableTypes, Family, links
<1>2. /\ c \notin Linked /\ last_pid \in Pid
      /\ IF Linked = {} THEN c = initproc /\ q = idleproc ELSE q \in Running
      /\ pid' = [pid EXCEPT ![c] = last_pid] /\ parent' = [parent EXCEPT ![c] = q]
      /\ procList' = <<last_pid>> \o procList
      /\ list_link' = list_add(list_link, proc_list, c)
      /\ hash_link' = list_add(hash_link, pid_hashfn(last_pid), c)
      /\ UNCHANGED zombie /\ set_links(c, q)
  BY DEF Forked, Link, hash_proc, TableInv, IInv, TypeOK
<1>3. idleproc \notin Struct /\ Null \notin Struct /\ Linked \subseteq Struct
  BY AddressAssumption DEF Linked
<1>4. q # c /\ IF Linked = {} THEN c = initproc /\ q = idleproc ELSE q \in Linked /\ ~zombie[q]
  BY <1>2, <1>3 DEF Running
<1>5. Linked' = Linked \cup {c}
  <2>1. last_pid # 0
    BY <1>2 DEF Pid
  <2> QED BY <1>1, <1>2, <2>1 DEF Linked
<1>6. /\ optr' = [optr EXCEPT ![c] = cptr[q]]
      /\ yptr' = [s \in Struct |-> IF s = cptr[q] THEN c ELSE IF s = c THEN Null ELSE yptr[s]]
      /\ cptr' = [cptr EXCEPT ![q] = c, ![c] = Null]
  BY <1>2 DEF set_links
<1>7. cptr[q] # c
  <2>1. PICK s : FamilyIs(q, s)
    BY DEF TableInv
  <2>2. s \in Seq(Struct) /\ cptr[q] = At(Null, s, 1) /\ ToSet(s) \subseteq Linked
    BY <2>1 DEF FamilyIs, Brood, links
  <2>3. cptr[q] = Null \/ cptr[q] \in ToSet(s)
    BY <2>2 DEF At, ToSet
  <2> QED BY <1>2, <1>3, <2>2, <2>3
<1>8. links' = [cptr |-> cptr', optr |-> optr', yptr |-> yptr']
  BY DEF links
<1>9. /\ cptr' \in [Struct \cup {idleproc} -> Struct \cup {Null}]
      /\ optr' \in [Struct -> Struct \cup {Null}]
      /\ cptr'[q] = c /\ optr'[c] = cptr[q]
      /\ \A x \in Struct : x # c => optr'[x] = optr[x]
      /\ \A r \in Struct \cup {idleproc} : r # q => cptr'[r] = IF r = c THEN Null ELSE cptr[r]
  BY <1>1, <1>4, <1>6
<1>10. /\ yptr' \in [Struct -> Struct \cup {Null}]
       /\ yptr'[c] = Null
       /\ \A x \in Struct : x # c => yptr'[x] = IF x = cptr[q] THEN c ELSE yptr[x]
  BY <1>1, <1>6, <1>7
<1>11. Family(links') /\ Joined(links, links', q, c)
  BY <1>8, <1>9, <1>10 DEF Family, Joined, links
<1>12. \A r \in Struct \cup {idleproc} :
         r # q => links'.cptr[r] = IF r = c THEN Null ELSE links.cptr[r]
  BY <1>8, <1>9 DEF links
<1>13. /\ pid'[c] = last_pid /\ parent'[c] = q
       /\ \A x \in Struct : x # c => pid'[x] = pid[x] /\ parent'[x] = parent[x]
  BY <1>1, <1>2
<1> QED BY <1>2, <1>4, <1>5, <1>11, <1>12, <1>13

\* The child is in its parent's family, and has no children itself.
LEMMA ForkedFamilies ==
  ASSUME TableInv, NEW c \in Struct, NEW q \in Struct \cup {idleproc}, Forked(c, q),
         NEW r \in Struct \cup {idleproc}
  PROVE  \E s : FamilyIs(r, s)'
<1>1. /\ c \notin Linked /\ Linked' = Linked \cup {c} /\ q # c /\ parent'[c] = q
      /\ \A x \in Struct : x # c => parent'[x] = parent[x]
      /\ Joined(links, links', q, c)
      /\ \A x \in Struct \cup {idleproc} :
           x # q => links'.cptr[x] = IF x = c THEN Null ELSE links.cptr[x]
  BY ForkedDoes
<1>2. PICK s : FamilyIs(q, s)
  BY DEF TableInv
<1>3. PICK u : FamilyIs(r, u)
  BY DEF TableInv
<1>4. /\ Brood(links, q, s) /\ ToSet(s) = {x \in Linked : parent[x] = q}
      /\ Brood(links, r, u) /\ ToSet(u) = {x \in Linked : parent[x] = r}
  BY <1>2, <1>3 DEF FamilyIs
<1>5. c # idleproc /\ Linked \subseteq Struct
  BY AddressAssumption DEF Linked
<1>6. {x \in Linked : parent'[x] = r} = {x \in Linked : parent[x] = r}
  BY <1>1, <1>5
<1>7. CASE r = q
  <2>1. Brood(links', q, <<c>> \o s)
    BY <1>1, <1>4, BroodAdd
  <2>2. <<c>> \o s \in Seq(Struct) /\ ToSet(<<c>> \o s) = ToSet(s) \cup {c}
    <3>1. s \in Seq(Struct) /\ Distinct(s) /\ c \notin ToSet(s)
      BY <1>1, <1>4 DEF Brood
    <3> QED BY <3>1, ConsSet
  <2>3. ToSet(<<c>> \o s) = {x \in Linked' : parent'[x] = q}
    BY <1>1, <1>4, <1>6, <1>7, <2>2
  <2>4. FamilyIs(r, <<c>> \o s)'
    BY <1>7, <2>1, <2>3 DEF FamilyIs
  <2> QED BY <2>4
<1>8. CASE r = c
  <2>1. ToSet(u) = {}
    <3>1. \A x \in Linked : parent[x] # c
      BY <1>1, <1>5, ParentIsLinked
    <3> QED BY <1>4, <1>8, <3>1
  <2>2. u \in Seq(Struct) /\ Distinct(u) /\ Len(u) = 0
    BY <1>4, <2>1 DEF Brood, ToSet
  <2>3. links'.cptr[c] = Null
    BY <1>1
  <2>4. Brood(links', c, u)
    BY <2>2, <2>3 DEF Brood, At
  <2>5. {x \in Linked' : parent'[x] = c} = {}
    BY <1>1, <1>4, <1>6, <1>8, <2>1
  <2>6. FamilyIs(r, u)'
    BY <1>8, <2>1, <2>4, <2>5 DEF FamilyIs
  <2> QED BY <2>6
<1>9. CASE r # q /\ r # c
  <2>1. Brood(links', r, u)
    <3>1. links'.cptr[r] = links.cptr[r] /\ ToSet(s) \cap ToSet(u) = {} /\ c \notin ToSet(u)
      BY <1>1, <1>4, <1>9
    <3> QED BY <1>1, <1>4, <3>1, BroodAddElsewhere
  <2>2. ToSet(u) = {x \in Linked' : parent'[x] = r}
    BY <1>1, <1>4, <1>6, <1>9
  <2>3. FamilyIs(r, u)'
    BY <2>1, <2>2 DEF FamilyIs
  <2> QED BY <2>3
<1> QED BY <1>7, <1>8, <1>9

\* The child is in the hash list of its pid.
LEMMA ForkedBuckets ==
  ASSUME TableInv, NEW c \in Struct, NEW q \in Struct \cup {idleproc}, Forked(c, q),
         NEW b \in Buckets
  PROVE  \E s : BucketIs(b, s)'
<1>1. /\ c \notin Linked /\ Linked' = Linked \cup {c} /\ last_pid \in Pid /\ pid'[c] = last_pid
      /\ \A x \in Struct : x # c => pid'[x] = pid[x]
      /\ hash_link' = list_add(hash_link, pid_hashfn(last_pid), c)
  BY ForkedDoes
<1>2. PICK h \in Buckets : h = pid_hashfn(last_pid)
  BY <1>1, HashInRange, PidAssumption DEF Pid
<1>3. PICK s : BucketIs(h, s)
  BY DEF TableInv
<1>4. PICK u : BucketIs(b, u)
  BY DEF TableInv
<1>5. /\ Ring(hash_link, h, s) /\ ToSet(s) = {x \in Linked : pid_hashfn(pid[x]) = h}
      /\ Ring(hash_link, b, u) /\ ToSet(u) = {x \in Linked : pid_hashfn(pid[x]) = b}
      /\ Links(hash_link, Buckets)
  BY <1>3, <1>4 DEF BucketIs, TableInv, TableTypes
<1>6. {x \in Linked : pid_hashfn(pid'[x]) = b} = {x \in Linked : pid_hashfn(pid[x]) = b}
  BY <1>1 DEF Linked
<1>7. hash_link' = list_add(hash_link, h, c)
  BY <1>1, <1>2
<1>8. CASE b = h
  <2>1. Ring(list_add(hash_link, h, c), h, <<c>> \o s)
    <3>1. c \notin ToSet(s)
      BY <1>1, <1>5
    <3> QED BY <1>5, <3>1, RingAdd
  <2>2. <<c>> \o s \in Seq(Struct) /\ ToSet(<<c>> \o s) = ToSet(s) \cup {c}
    <3>1. s \in Seq(Struct) /\ Distinct(s) /\ c \notin ToSet(s)
      BY <1>1, <1>5 DEF Ring
    <3> QED BY <3>1, ConsSet
  <2>3. ToSet(<<c>> \o s) = {x \in Linked' : pid_hashfn(pid'[x]) = b}
    BY <1>1, <1>2, <1>5, <1>6, <1>8, <2>2
  <2>4. BucketIs(b, <<c>> \o s)'
    BY <1>7, <1>8, <2>1, <2>3 DEF BucketIs
  <2> QED BY <2>4
<1>9. CASE b # h
  <2>1. Ring(list_add(hash_link, h, c), b, u)
    <3>1. ToSet(s) \cap ToSet(u) = {} /\ c \notin ToSet(u)
      BY <1>1, <1>5, <1>9
    <3> QED BY <1>5, <1>9, <3>1, RingAddElsewhere
  <2>2. ToSet(u) = {x \in Linked' : pid_hashfn(pid'[x]) = b}
    BY <1>1, <1>2, <1>5, <1>6, <1>9
  <2>3. BucketIs(b, u)'
    BY <1>7, <2>1, <2>2 DEF BucketIs
  <2> QED BY <2>3
<1> QED BY <1>8, <1>9

\* The child is first in proc_list, before its parent.
LEMMA ForkedList ==
  ASSUME TableInv, NEW c \in Struct, NEW q \in Struct \cup {idleproc}, Forked(c, q)
  PROVE  \E s : ListIs(s)'
<1>1. /\ c \notin Linked /\ Linked' = Linked \cup {c}
      /\ IF Linked = {} THEN c = initproc /\ q = idleproc ELSE q \in Linked
      /\ pid'[c] = last_pid /\ parent'[c] = q
      /\ \A x \in Struct : x # c => pid'[x] = pid[x] /\ parent'[x] = parent[x]
      /\ procList' = <<last_pid>> \o procList
      /\ list_link' = list_add(list_link, proc_list, c) /\ last_pid \in Pid
  BY ForkedDoes
<1>2. PICK s : ListIs(s)
  BY DEF TableInv
<1>3. /\ Ring(list_link, proc_list, s) /\ ToSet(s) = Linked
      /\ s \in Seq(Struct) /\ Distinct(s) /\ Len(s) \in Nat /\ DOMAIN s = 1 .. Len(s)
      /\ procList = [i \in 1 .. Len(s) |-> pid[s[i]]]
      /\ \A i \in 1 .. Len(s) : i = Len(s) => s[i] = initproc /\ parent[s[i]] = idleproc
      /\ \A i \in 1 .. Len(s) : i # Len(s) =>
           \E j \in 1 .. Len(s) : i < j /\ parent[s[i]] = s[j]
  BY <1>2 DEF ListIs, Ring
<1> DEFINE t == <<c>> \o s
           n == Len(s)
<1>4. Ring(list_link', proc_list, t)
  <2>1. Links(list_link, {proc_list}) /\ proc_list \in {proc_list} /\ c \notin ToSet(s)
    BY <1>1, <1>3 DEF TableInv, TableTypes
  <2>2. Ring(list_add(list_link, proc_list, c), proc_list, <<c>> \o s)
    BY <1>3, <2>1, RingAdd
  <2> QED BY <1>1, <2>2
<1>5. t \in Seq(Struct) /\ Len(t) = n + 1 /\ ToSet(t) = Linked' /\ t[1] = c
      /\ \A i \in 1 .. n : t[i + 1] = s[i]
  <2>1. s \in Seq(Struct) /\ Distinct(s) /\ c \notin ToSet(s) /\ ToSet(s) = Linked
    BY <1>1, <1>3
  <2>2. <<c>> \o s \in Seq(Struct) /\ ToSet(<<c>> \o s) = ToSet(s) \cup {c}
    BY <2>1, ConsSet
  <2>3. t[1] = c /\ \A i \in 1 .. n : t[i + 1] = s[i]
    BY <2>1, AddAtHead
  <2>4. Linked' = ToSet(s) \cup {c}
    BY <1>1, <2>1
  <2> QED BY <2>2, <2>3, <2>4
<1> HIDE DEF t
<1>6. /\ n \in Nat /\ Len(t) = n + 1 /\ t \in Seq(Struct) /\ DOMAIN s = 1 .. n /\ ToSet(s) = Linked
      /\ procList = [i \in 1 .. n |-> pid[s[i]]]
      /\ \A i \in 1 .. n : s[i] \in Struct /\ s[i] # c /\ t[i + 1] = s[i]
      /\ \A i \in 1 .. n : i = n => s[i] = initproc /\ parent[s[i]] = idleproc
      /\ \A i \in 1 .. n : i # n =>
           \E j \in 1 .. n : i < j /\ parent[s[i]] = s[j]
  <2>1. \A i \in 1 .. n : s[i] \in Struct /\ s[i] # c
    <3>1. s \in Seq(Struct) /\ c \notin ToSet(s) /\ DOMAIN s = 1 .. n
      BY <1>1, <1>3
    <3> QED BY <3>1 DEF ToSet
  <2> QED BY <1>3, <1>5, <2>1
<1>7. t[1] = c /\ ToSet(t) = Linked' /\ procList \in Seq(Pid) /\ Len(procList) = n
  <2>1. procList \in Seq(Pid)
    BY DEF TableInv, IInv, TypeOK
  <2>2. Len(procList) = n
    <3>1. procList = [i \in 1 .. n |-> pid[s[i]]] /\ n \in Nat
      BY <1>6
    <3> HIDE DEF n
    <3> QED BY <3>1
  <2> QED BY <1>5, <2>1, <2>2
<1> HIDE DEF n
<1>8. procList' = [i \in 1 .. Len(t) |-> pid'[t[i]]]
  <2>1. /\ procList \in Seq(Pid) /\ Len(procList) = n
        /\ procList' \in Seq(Pid) /\ Len(procList') = n + 1 /\ procList'[1] = last_pid
        /\ \A i \in 1 .. n : procList'[i + 1] = procList[i]
    BY <1>1, <1>7, AddAtHead
  <2>2. ASSUME NEW i \in 1 .. n + 1
        PROVE  procList'[i] = pid'[t[i]]
    <3>1. CASE i = 1
      BY <1>1, <1>6, <1>7, <2>1, <3>1
    <3>2. CASE i # 1
      <4>1. PICK j \in 1 .. n : i = j + 1
        <5>1. i - 1 \in 1 .. n /\ i = i - 1 + 1
          BY <1>6, <3>2
        <5> QED BY <5>1
      <4>2. t[i] = s[j] /\ procList'[i] = pid[s[j]]
        BY <1>6, <1>7, <2>1, <4>1
      <4> QED BY <1>1, <1>6, <4>2
    <3> QED BY <3>1, <3>2
  <2>3. procList' = [i \in 1 .. n + 1 |-> procList'[i]]
    BY <2>1
  <2> QED BY <1>6, <1>7, <2>2, <2>3
<1>9. ASSUME NEW i \in 1 .. Len(t)
      PROVE  IF i = Len(t) THEN t[i] = initproc /\ parent'[t[i]] = idleproc
             ELSE \E j \in 1 .. Len(t) : i < j /\ parent'[t[i]] = t[j]
  <2>1. CASE i = 1
    <3>1. CASE Linked = {}
      <4>1. n = 0
        <5>1. 1 \notin 1 .. n
          <6>1. DOMAIN s = 1 .. n /\ ToSet(s) = {}
            BY <1>6, <3>1
          <6> QED BY <6>1 DEF ToSet
        <5>2. n \in Nat
          BY <1>6
        <5> QED BY <5>1, <5>2
      <4> QED BY <1>1, <1>6, <1>7, <2>1, <3>1, <4>1
    <3>2. CASE Linked # {}
      <4>1. PICK m \in 1 .. n : q = s[m]
        BY <1>1, <1>6, <3>2 DEF ToSet
      <4>2. m + 1 \in 1 .. Len(t) /\ 1 < m + 1 /\ 1 # Len(t) /\ t[m + 1] = q
        BY <1>6, <1>7, <4>1
      <4> QED BY <1>1, <1>6, <1>7, <2>1, <4>2
    <3> QED BY <3>1, <3>2
  <2>2. CASE i # 1
    <3>1. PICK k \in 1 .. n : i = k + 1
      <4>1. i - 1 \in 1 .. n /\ i = i - 1 + 1
        BY <1>6, <1>7, <2>2
      <4> QED BY <4>1
    <3>2. t[i] = s[k] /\ s[k] \in Struct /\ s[k] # c
      BY <1>6, <3>1
    <3>3. parent'[t[i]] = parent[s[k]]
      BY <1>1, <3>2
    <3>4. CASE k = n
      BY <1>6, <1>7, <3>1, <3>2, <3>3, <3>4
    <3>5. CASE k # n
      <4>1. PICK j \in 1 .. n : k < j /\ parent[s[k]] = s[j]
        BY <1>6, <3>5
      <4>2. j + 1 \in 1 .. Len(t) /\ i < j + 1 /\ i # Len(t) /\ t[j + 1] = s[j]
        BY <1>6, <1>7, <3>1, <3>5, <4>1
      <4> QED BY <3>3, <4>1, <4>2
    <3> QED BY <3>4, <3>5
  <2> QED BY <2>1, <2>2
<1>10. ListIs(t)'
  BY <1>4, <1>6, <1>7, <1>8, <1>9 DEF ListIs
<1> QED BY <1>10

\* What a fork leaves of the free proc_structs.
LEMMA ForkedRest ==
  ASSUME TableInv, NEW c \in Struct, NEW q \in Struct \cup {idleproc}, Forked(c, q)
  PROVE  TableTypes' /\ FreeIsLoose' /\ ParentsLive'
<1>1. /\ c \notin Linked /\ Linked' = Linked \cup {c} /\ last_pid \in Pid /\ q # c
      /\ IF Linked = {} THEN c = initproc /\ q = idleproc ELSE q \in Linked /\ ~zombie[q]
      /\ pid' = [pid EXCEPT ![c] = last_pid]
      /\ parent' = [parent EXCEPT ![c] = q] /\ parent'[c] = q
      /\ \A x \in Struct : x # c => parent'[x] = parent[x]
      /\ list_link' = list_add(list_link, proc_list, c)
      /\ hash_link' = list_add(hash_link, pid_hashfn(last_pid), c)
      /\ zombie' = zombie
      /\ Family(links') /\ Joined(links, links', q, c)
      /\ \A r \in Struct \cup {idleproc} :
           r # q => links'.cptr[r] = IF r = c THEN Null ELSE links.cptr[r]
  BY ForkedDoes
<1>2. /\ pid \in [Struct -> Pid \cup {0}] /\ zombie \in [Struct -> BOOLEAN]
      /\ parent \in [Struct -> Struct \cup {idleproc, Null}]
      /\ Family(links) /\ Links(list_link, {proc_list}) /\ Links(hash_link, Buckets)
  BY DEF TableInv, TableTypes
<1>3. PICK h \in Buckets : h = pid_hashfn(last_pid)
  BY <1>1, HashInRange, PidAssumption DEF Pid
<1>4. PICK s, u : ListIs(s) /\ BucketIs(h, u)
  BY DEF TableInv
<1>5. Ring(list_link, proc_list, s) /\ ToSet(s) = Linked
      /\ Ring(hash_link, h, u) /\ ToSet(u) \subseteq Linked
  BY <1>4 DEF ListIs, BucketIs
<1>6. /\ Links(list_link', {proc_list})
      /\ \A y \in {proc_list} \cup Struct : y # proc_list /\ y # c /\ y \notin ToSet(s) =>
           list_link'.next[y] = list_link.next[y] /\ list_link'.prev[y] = list_link.prev[y]
  <2>1. proc_list \in {proc_list}
    OBVIOUS
  <2>2. /\ Links(list_add(list_link, proc_list, c), {proc_list})
        /\ \A y \in {proc_list} \cup Struct : y # proc_list /\ y # c /\ y \notin ToSet(s) =>
             /\ list_add(list_link, proc_list, c).next[y] = list_link.next[y]
             /\ list_add(list_link, proc_list, c).prev[y] = list_link.prev[y]
    BY <1>2, <1>5, <2>1, AddTouches
  <2> QED BY <1>1, <2>2
<1>7. /\ Links(hash_link', Buckets)
      /\ \A y \in Buckets \cup Struct : y # h /\ y # c /\ y \notin ToSet(u) =>
           hash_link'.next[y] = hash_link.next[y] /\ hash_link'.prev[y] = hash_link.prev[y]
  <2>1. /\ Links(list_add(hash_link, h, c), Buckets)
        /\ \A y \in Buckets \cup Struct : y # h /\ y # c /\ y \notin ToSet(u) =>
             /\ list_add(hash_link, h, c).next[y] = hash_link.next[y]
             /\ list_add(hash_link, h, c).prev[y] = hash_link.prev[y]
    BY <1>2, <1>5, AddTouches
  <2> QED BY <1>1, <1>3, <2>1
<1>8. TableTypes'
  <2>1. /\ pid' \in [Struct -> Pid \cup {0}] /\ zombie' \in [Struct -> BOOLEAN]
        /\ parent' \in [Struct -> Struct \cup {idleproc, Null}]
    BY <1>1, <1>2
  <2> QED BY <1>1, <1>6, <1>7, <2>1 DEF TableTypes
<1>9. FreeIsLoose'
  <2> SUFFICES ASSUME NEW x \in Struct \ Linked'
               PROVE  /\ ~zombie'[x] /\ parent'[x] = Null
                      /\ cptr'[x] = Null /\ optr'[x] = Null /\ yptr'[x] = Null
                      /\ list_link'.next[x] = Null /\ list_link'.prev[x] = Null
                      /\ hash_link'.next[x] = Null /\ hash_link'.prev[x] = Null
    BY DEF FreeIsLoose
  <2>1. x \in Struct /\ x \notin Linked /\ x # c
    BY <1>1
  <2>2. /\ ~zombie[x] /\ parent[x] = Null
        /\ cptr[x] = Null /\ optr[x] = Null /\ yptr[x] = Null
        /\ list_link.next[x] = Null /\ list_link.prev[x] = Null
        /\ hash_link.next[x] = Null /\ hash_link.prev[x] = Null
    BY <2>1 DEF TableInv, FreeIsLoose
  <2>3. x # proc_list /\ x # h /\ x \notin ToSet(s) /\ x \notin ToSet(u)
    BY <1>5, <2>1, AddressAssumption
  <2>4. x # q /\ x # cptr[q]
    <3>1. cptr[q] \in Linked \cup {Null} /\ Null \notin Struct
      BY TypesFollow, AddressAssumption DEF TableTypeOK
    <3>2. q \in Linked \cup {idleproc} /\ idleproc \notin Struct
      BY <1>1, AddressAssumption
    <3> QED BY <2>1, <3>1, <3>2
  <2>5. cptr'[x] = Null
    <3>1. links'.cptr[x] = links.cptr[x]
      BY <1>1, <2>1, <2>4
    <3> QED BY <2>2, <3>1 DEF links
  <2>6. optr'[x] = Null /\ yptr'[x] = Null
    <3>1. links'.optr[x] = links.optr[x] /\ links'.yptr[x] = links.yptr[x]
      BY <1>1, <2>1, <2>4 DEF Joined, links
    <3> QED BY <2>2, <3>1 DEF links
  <2> QED BY <1>1, <1>6, <1>7, <2>1, <2>2, <2>3, <2>5, <2>6
<1>10. ParentsLive'
  <2>1. ~zombie'[initproc]
    BY <1>1 DEF TableInv, ParentsLive
  <2>2. ASSUME NEW x \in Linked', parent'[x] \in Struct
        PROVE  ~zombie'[parent'[x]]
    <3>1. CASE x = c
      BY <1>1, <2>2, <3>1, AddressAssumption
    <3>2. CASE x # c
      <4>1. x \in Linked /\ parent'[x] = parent[x]
        BY <1>1, <3>2 DEF Linked
      <4> QED BY <1>1, <2>2, <4>1 DEF TableInv, ParentsLive
    <3> QED BY <3>1, <3>2
  <2> QED BY <2>1, <2>2 DEF ParentsLive
<1> QED BY <1>8, <1>9, <1>10

-----------------------------------------------------------------------------
(* do_exit                                                                 *)

FamilyLinks ==
  [cptr : [Struct \cup {idleproc} -> Struct \cup {Null}],
   optr : [Struct -> Struct \cup {Null}], yptr : [Struct -> Struct \cup {Null}]]

\* w has the links before each turn of the adoption of kids, and after the last.
Adopts(w, f, kids) ==
  w = [n \in 0 .. Len(kids) |-> IF n = 0 THEN f ELSE AdoptOne(w[n - 1], kids[n])]

\* g is f with the first n of kids among the children of init, which were s.
Adopted(g, f, kids, s, n) ==
  /\ g \in FamilyLinks
  /\ \E t : Brood(g, initproc, t) /\ ToSet(t) = ToSet(s) \cup {kids[i] : i \in 1 .. n}
  /\ \A r \in Struct \cup {idleproc} : r # initproc => g.cptr[r] = f.cptr[r]
  /\ \A x \in Struct : x \notin ToSet(s) \cup ToSet(kids) =>
       g.optr[x] = f.optr[x] /\ g.yptr[x] = f.yptr[x]

LEMMA AdoptOneType ==
  ASSUME NEW f \in FamilyLinks, NEW c \in Struct
  PROVE  AdoptOne(f, c) \in FamilyLinks
<1>1. /\ f.cptr \in [Struct \cup {idleproc} -> Struct \cup {Null}]
      /\ f.optr \in [Struct -> Struct \cup {Null}] /\ f.yptr \in [Struct -> Struct \cup {Null}]
      /\ initproc \in Struct
  BY DEF FamilyLinks, Struct
<1>2. /\ [f.cptr EXCEPT ![initproc] = c] \in [Struct \cup {idleproc} -> Struct \cup {Null}]
      /\ [f.optr EXCEPT ![c] = f.cptr[initproc]] \in [Struct -> Struct \cup {Null}]
      /\ [s \in Struct |-> IF s = c THEN Null ELSE IF s = f.cptr[initproc] THEN c ELSE f.yptr[s]]
           \in [Struct -> Struct \cup {Null}]
  BY <1>1
<1> QED BY <1>2 DEF AdoptOne, FamilyLinks

LEMMA AdoptionExists ==
  ASSUME NEW kids \in Seq(Struct), NEW f \in FamilyLinks
  PROVE  \E w : Adopts(w, f, kids)
<1> DEFINE N == Len(kids)
           D == 0 .. N
           left == [n \in D |-> n]
           done == {0}
           val == [n \in D |-> f]
           next == [n \in D |-> IF n = 0 THEN 0 ELSE n - 1]
           turn == [n \in D |-> [g \in FamilyLinks |->
                      IF n = 0 THEN g ELSE AdoptOne(g, kids[n])]]
<1>1. N \in Nat /\ \A n \in 1 .. N : kids[n] \in Struct
  OBVIOUS
<1>2. turn \in [D -> [FamilyLinks -> FamilyLinks]]
  <2>1. ASSUME NEW n \in D, n # 0, NEW g \in FamilyLinks
        PROVE  AdoptOne(g, kids[n]) \in FamilyLinks
    <3>1. n \in 1 .. N
      BY <1>1, <2>1
    <3> QED BY <1>1, <3>1, AdoptOneType
  <2> QED BY <2>1
<1>3. /\ left \in [D -> 0 .. N] /\ done \subseteq D
      /\ val \in [D -> FamilyLinks] /\ next \in [D -> D]
      /\ \A n \in D \ done : left[next[n]] < left[n]
  BY <1>1
<1>4. Loop(D, FamilyLinks, N, left, done, val, next, turn)
  <2> HIDE DEF D, N, left, done, val, next, turn
  <2> QED BY <1>1, <1>2, <1>3 DEF Loop
<1>5. PICK g : Computes(g, D, FamilyLinks, done, val, next, turn)
  <2> HIDE DEF D, N, left, done, val, next, turn
  <2> QED BY <1>4, LoopComputes
<1>6. /\ g \in [D -> FamilyLinks]
      /\ \A n \in D : g[n] = IF n \in done THEN val[n] ELSE turn[n][g[next[n]]]
  <2> HIDE DEF D, N, left, done, val, next, turn
  <2> QED BY <1>5 DEF Computes
<1>7. ASSUME NEW n \in D
      PROVE  g[n] = IF n = 0 THEN f ELSE AdoptOne(g[n - 1], kids[n])
  <2>1. CASE n = 0
    BY <1>6, <2>1
  <2>2. CASE n # 0
    <3>1. n - 1 \in D /\ next[n] = n - 1 /\ n \notin done
      BY <1>1, <2>2
    <3>2. g[n - 1] \in FamilyLinks
      BY <1>6, <3>1
    <3>3. g[n] = turn[n][g[n - 1]]
      BY <1>6, <3>1
    <3> QED BY <2>2, <3>2, <3>3
  <2> QED BY <2>1, <2>2
<1>8. g = [n \in D |-> g[n]]
  BY <1>6
<1> QED BY <1>7, <1>8 DEF Adopts

\* One turn.
LEMMA AdoptOneDoes ==
  ASSUME NEW g, NEW f, NEW kids \in Seq(Struct), Distinct(kids), NEW s, NEW n \in 1 .. Len(kids),
         ToSet(kids) \cap ToSet(s) = {}, Adopted(g, f, kids, s, n - 1)
  PROVE  Adopted(AdoptOne(g, kids[n]), f, kids, s, n)
<1> DEFINE c == kids[n]
           h == AdoptOne(g, c)
<1>1. /\ g \in FamilyLinks
      /\ \A r \in Struct \cup {idleproc} : r # initproc => g.cptr[r] = f.cptr[r]
      /\ \A x \in Struct : x \notin ToSet(s) \cup ToSet(kids) =>
           g.optr[x] = f.optr[x] /\ g.yptr[x] = f.yptr[x]
  BY DEF Adopted
<1>2. PICK t : Brood(g, initproc, t) /\ ToSet(t) = ToSet(s) \cup {kids[i] : i \in 1 .. n - 1}
  BY DEF Adopted
<1>3. c \in Struct /\ c \in ToSet(kids) /\ c \notin ToSet(t)
  <2>1. \A i \in 1 .. n - 1 : i \in DOMAIN kids /\ n \in DOMAIN kids /\ i # n
    OBVIOUS
  <2>2. c \in Struct /\ c \in ToSet(kids)
    BY DEF ToSet
  <2> QED BY <1>2, <2>1, <2>2 DEF Distinct
<1>4. /\ g.cptr \in [Struct \cup {idleproc} -> Struct \cup {Null}]
      /\ g.optr \in [Struct -> Struct \cup {Null}] /\ g.yptr \in [Struct -> Struct \cup {Null}]
      /\ initproc \in Struct
  BY <1>1 DEF FamilyLinks, Struct
<1>5. /\ h.cptr = [g.cptr EXCEPT ![initproc] = c]
      /\ h.optr = [g.optr EXCEPT ![c] = g.cptr[initproc]]
      /\ h.yptr = [x \in Struct |-> IF x = c THEN Null
                                    ELSE IF x = g.cptr[initproc] THEN c ELSE g.yptr[x]]
  BY DEF AdoptOne
<1>6. h \in FamilyLinks
  BY <1>1, <1>3, AdoptOneType
<1> HIDE DEF h, c
<1>7. Joined(g, h, initproc, c)
  BY <1>3, <1>4, <1>5 DEF Joined
<1>8. Brood(h, initproc, <<c>> \o t)
  BY <1>2, <1>3, <1>7, BroodAdd
<1>9. ToSet(<<c>> \o t) = ToSet(s) \cup {kids[i] : i \in 1 .. n}
  <2>1. t \in Seq(Struct) /\ Distinct(t)
    BY <1>2 DEF Brood
  <2>2. <<c>> \o t \in Seq(Struct) /\ ToSet(<<c>> \o t) = ToSet(t) \cup {c}
    <3>1. c \in Struct /\ c \notin ToSet(t)
      BY <1>3
    <3> QED BY <2>1, <3>1, ConsSet
  <2>3. {kids[i] : i \in 1 .. n} = {kids[i] : i \in 1 .. n - 1} \cup {c}
    <3>1. n \in Nat /\ 1 .. n = (1 .. n - 1) \cup {n}
      OBVIOUS
    <3> QED BY <3>1 DEF c
  <2> QED BY <1>2, <2>2, <2>3
<1>10. \A r \in Struct \cup {idleproc} : r # initproc => h.cptr[r] = f.cptr[r]
  BY <1>1, <1>4, <1>5
<1>11. \A x \in Struct : x \notin ToSet(s) \cup ToSet(kids) =>
         h.optr[x] = f.optr[x] /\ h.yptr[x] = f.yptr[x]
  <2>1. ASSUME NEW x \in Struct, x \notin ToSet(s) \cup ToSet(kids)
        PROVE  h.optr[x] = f.optr[x] /\ h.yptr[x] = f.yptr[x]
    <3>1. x # c
      BY <1>3, <2>1
    <3>2. x # g.cptr[initproc] \/ g.cptr[initproc] \notin Struct
      <4>1. t \in Seq(Struct) /\ g.cptr[initproc] = At(Null, t, 1)
        BY <1>2 DEF Brood
      <4>2. At(Null, t, 1) = Null \/ At(Null, t, 1) \in ToSet(t)
        BY <4>1 DEF At, ToSet
      <4>3. Null \notin Struct
        BY AddressAssumption
      <4>4. ToSet(t) \subseteq ToSet(s) \cup ToSet(kids)
        <5>1. \A i \in 1 .. n - 1 : i \in DOMAIN kids
          OBVIOUS
        <5> QED BY <1>2, <5>1 DEF ToSet
      <4> QED BY <2>1, <4>1, <4>2, <4>3, <4>4
    <3>3. x # g.cptr[initproc]
      BY <3>2
    <3> QED BY <1>1, <1>4, <1>5, <2>1, <3>1, <3>3
  <2> QED BY <2>1
<1>12. Adopted(h, f, kids, s, n)
  BY <1>6, <1>8, <1>9, <1>10, <1>11 DEF Adopted
<1> QED BY <1>12 DEF h, c

\* All turns.
LEMMA AdoptionDoes ==
  ASSUME NEW w, NEW f \in FamilyLinks, NEW kids \in Seq(Struct), Distinct(kids), NEW s,
         ToSet(kids) \cap ToSet(s) = {}, Adopts(w, f, kids), Brood(f, initproc, s)
  PROVE  Adopted(w[Len(kids)], f, kids, s, Len(kids))
<1> DEFINE N == Len(kids)
           Bad == {n \in 0 .. N : ~Adopted(w[n], f, kids, s, n)}
<1>1. N \in Nat
  OBVIOUS
<1>2. \A n \in 0 .. N : w[n] = IF n = 0 THEN f ELSE AdoptOne(w[n - 1], kids[n])
  BY DEF Adopts
<1>3. SUFFICES ASSUME Bad # {} PROVE FALSE
  BY <1>1
<1>4. PICK n \in Bad : \A m \in Bad : n <= m
  <2>1. Bad \in SUBSET Nat
    OBVIOUS
  <2> HIDE DEF Bad
  <2> QED BY <1>3, <2>1, LeastExists
<1>5. CASE n = 0
  <2>1. w[n] = f
    BY <1>1, <1>2, <1>5
  <2>2. {kids[i] : i \in 1 .. n} = {}
    BY <1>5
  <2>3. Adopted(f, f, kids, s, n)
    BY <2>2 DEF Adopted
  <2> QED BY <2>1, <2>3
<1>6. CASE n # 0
  <2>1. n \in 1 .. Len(kids) /\ n - 1 \in 0 .. N /\ ~(n <= n - 1) /\ n \in 0 .. N
    BY <1>1, <1>6
  <2>2. Adopted(w[n - 1], f, kids, s, n - 1)
    BY <1>4, <2>1
  <2>3. Adopted(AdoptOne(w[n - 1], kids[n]), f, kids, s, n)
    BY <2>1, <2>2, AdoptOneDoes
  <2>4. w[n] = AdoptOne(w[n - 1], kids[n])
    BY <1>2, <1>6, <2>1
  <2> QED BY <2>3, <2>4
<1> QED BY <1>5, <1>6

\* Init is there as soon as there is a process.
LEMMA InitIsLinked ==
  ASSUME TableInv, Linked # {}
  PROVE  initproc \in Linked /\ parent[initproc] = idleproc
<1>1. PICK s : ListIs(s)
  BY DEF TableInv
<1>2. /\ s \in Seq(Struct) /\ Len(s) \in Nat /\ DOMAIN s = 1 .. Len(s) /\ ToSet(s) = Linked
      /\ \A i \in 1 .. Len(s) : i = Len(s) => s[i] = initproc /\ parent[s[i]] = idleproc
  BY <1>1 DEF ListIs, Ring
<1>3. Len(s) \in 1 .. Len(s)
  <2>1. DOMAIN s = 1 .. Len(s) /\ ToSet(s) # {} /\ s \in Seq(Struct)
    BY <1>2
  <2>2. \E i : i \in 1 .. Len(s)
    BY <2>1 DEF ToSet
  <2> QED BY <2>1, <2>2
<1>4. s[Len(s)] \in ToSet(s)
  BY <1>2, <1>3 DEF ToSet
<1> QED BY <1>2, <1>3, <1>4

\* What do_exit does to the table.
LEMMA ExitDoes ==
  ASSUME TableInv, NEW p \in Struct, Exit(p)
  PROVE  /\ p \in Linked /\ p # initproc /\ p # idleproc /\ initproc \in Linked
         /\ zombie' = [zombie EXCEPT ![p] = TRUE]
         /\ UNCHANGED <<vars, pid, nr_process, list_link, hash_link>>
         /\ \E kids, s, g :
              /\ FamilyIs(p, kids) /\ FamilyIs(initproc, s)
              /\ Adopted(g, links, kids, s, Len(kids))
              /\ links' = [cptr |-> [g.cptr EXCEPT ![p] = Null], optr |-> g.optr, yptr |-> g.yptr]
              /\ parent' = [x \in Struct |-> IF x \in ToSet(kids) THEN initproc ELSE parent[x]]
<1>1. /\ p \in Linked /\ p # initproc /\ zombie' = [zombie EXCEPT ![p] = TRUE]
      /\ UNCHANGED <<vars, pid, nr_process, list_link, hash_link>>
  BY DEF Exit, Running
<1>2. initproc \in Linked /\ p # idleproc /\ initproc \in Struct
  BY <1>1, InitIsLinked, AddressAssumption DEF Struct
<1>3. PICK kids, s : FamilyIs(p, kids) /\ FamilyIs(initproc, s)
  BY <1>2 DEF TableInv
<1>4. /\ kids \in Seq(Struct) /\ Distinct(kids) /\ Brood(links, initproc, s)
      /\ ToSet(kids) = {x \in Linked : parent[x] = p}
      /\ ToSet(s) = {x \in Linked : parent[x] = initproc}
  BY <1>3 DEF FamilyIs, Brood
<1>5. Children(p) = kids
  BY <1>3, ChildrenRead
<1>6. links \in FamilyLinks
  BY DEF TableInv, TableTypes, Family, links, FamilyLinks
<1> DEFINE body(w) == [n \in 0 .. Len(kids) |->
                         IF n = 0 THEN [cptr |-> cptr, optr |-> optr, yptr |-> yptr]
                         ELSE AdoptOne(w[n - 1], kids[n])]
           after == CHOOSE w : w = body(w)
<1>7. /\ cptr' = [after[Len(kids)].cptr EXCEPT ![p] = Null]
      /\ optr' = after[Len(kids)].optr /\ yptr' = after[Len(kids)].yptr
      /\ parent' = [x \in Struct |-> IF x \in ToSet(kids) THEN initproc ELSE parent[x]]
  BY <1>5 DEF Exit
<1>8. \A w : w = body(w) <=> Adopts(w, links, kids)
  BY DEF Adopts, links
<1>9. Adopts(after, links, kids)
  <2>1. \E w : w = body(w)
    BY <1>4, <1>6, <1>8, AdoptionExists
  <2> HIDE DEF body
  <2>2. after = body(after)
    BY <2>1
  <2> QED BY <1>8, <2>2
<1> HIDE DEF after
<1>10. Adopted(after[Len(kids)], links, kids, s, Len(kids))
  <2>1. ToSet(kids) \cap ToSet(s) = {}
    BY <1>1, <1>4
  <2> QED BY <1>4, <1>6, <1>9, <2>1, AdoptionDoes
<1>11. links' = [cptr |-> [after[Len(kids)].cptr EXCEPT ![p] = Null],
                 optr |-> after[Len(kids)].optr, yptr |-> after[Len(kids)].yptr]
  BY <1>7 DEF links
<1> QED BY <1>1, <1>2, <1>3, <1>7, <1>10, <1>11

\* Whoever exits, init has its children, the family of any other stays.
LEMMA ExitFamilies ==
  ASSUME TableInv, NEW p \in Struct, Exit(p), NEW r \in Struct \cup {idleproc}
  PROVE  \E s : FamilyIs(r, s)'
<1>1. p \in Linked /\ p # initproc /\ p # idleproc /\ initproc \in Linked /\ pid' = pid
  BY ExitDoes
<1>2. PICK kids, s, g :
              /\ FamilyIs(p, kids) /\ FamilyIs(initproc, s)
              /\ Adopted(g, links, kids, s, Len(kids))
              /\ links' = [cptr |-> [g.cptr EXCEPT ![p] = Null], optr |-> g.optr, yptr |-> g.yptr]
              /\ parent' = [x \in Struct |-> IF x \in ToSet(kids) THEN initproc ELSE parent[x]]
  BY ExitDoes
<1>3. /\ kids \in Seq(Struct) /\ DOMAIN kids = 1 .. Len(kids)
      /\ ToSet(kids) = {x \in Linked : parent[x] = p}
      /\ ToSet(s) = {x \in Linked : parent[x] = initproc}
  BY <1>2 DEF FamilyIs, Brood
<1>4. /\ g \in FamilyLinks
      /\ \A q \in Struct \cup {idleproc} : q # initproc => g.cptr[q] = links.cptr[q]
      /\ \A x \in Struct : x \notin ToSet(s) \cup ToSet(kids) =>
           g.optr[x] = links.optr[x] /\ g.yptr[x] = links.yptr[x]
  BY <1>2 DEF Adopted
<1>5. PICK t : Brood(g, initproc, t) /\ ToSet(t) = ToSet(s) \cup {kids[i] : i \in 1 .. Len(kids)}
  BY <1>2 DEF Adopted
<1>6. /\ links'.optr = g.optr /\ links'.yptr = g.yptr
      /\ \A q \in Struct \cup {idleproc} : links'.cptr[q] = IF q = p THEN Null ELSE g.cptr[q]
  BY <1>2, <1>4 DEF FamilyLinks
<1>7. Linked' = Linked /\ Linked \subseteq Struct
  BY <1>1 DEF Linked
<1>8. \A x \in Linked : parent'[x] = IF parent[x] = p THEN initproc ELSE parent[x]
  BY <1>2, <1>3, <1>7
<1>9. CASE r = initproc
  <2>1. Brood(links', r, t)
    <3>1. /\ links'.cptr[r] = g.cptr[r]
          /\ \A x \in ToSet(t) : links'.optr[x] = g.optr[x] /\ links'.yptr[x] = g.yptr[x]
      BY <1>1, <1>6, <1>9
    <3> QED BY <1>5, <1>9, <3>1, BroodElsewhere
  <2>2. ToSet(t) = {x \in Linked : parent'[x] = r}
    <3>1. ToSet(t) = ToSet(s) \cup ToSet(kids)
      BY <1>3, <1>5 DEF ToSet
    <3> QED BY <1>3, <1>8, <1>9, <3>1
  <2>3. FamilyIs(r, t)'
    BY <1>7, <2>1, <2>2 DEF FamilyIs
  <2> QED BY <2>3
<1>10. CASE r = p
  <2>1. PICK u : u \in Seq(Struct) /\ Len(u) = 0 /\ ToSet(u) = {}
    <3>1. <<>> \in Seq(Struct) /\ Len(<<>>) = 0 /\ ToSet(<<>>) = {}
      BY DEF ToSet
    <3> QED BY <3>1
  <2>2. Brood(links', r, u)
    <3>1. links'.cptr[r] = Null
      BY <1>6, <1>10
    <3> QED BY <2>1, <3>1 DEF Brood, At, Distinct
  <2>3. ToSet(u) = {x \in Linked : parent'[x] = r}
    BY <1>1, <1>8, <1>10, <2>1
  <2>4. FamilyIs(r, u)'
    BY <1>7, <2>2, <2>3 DEF FamilyIs
  <2> QED BY <2>4
<1>11. CASE r # initproc /\ r # p
  <2>1. PICK u : FamilyIs(r, u)
    BY DEF TableInv
  <2>2. Brood(links, r, u) /\ ToSet(u) = {x \in Linked : parent[x] = r}
    BY <2>1 DEF FamilyIs
  <2>3. Brood(links', r, u)
    <3>1. links'.cptr[r] = links.cptr[r]
      BY <1>4, <1>6, <1>11
    <3>2. \A x \in ToSet(u) : links'.optr[x] = links.optr[x] /\ links'.yptr[x] = links.yptr[x]
      BY <1>3, <1>4, <1>6, <1>7, <1>11, <2>2
    <3> QED BY <2>2, <3>1, <3>2, BroodElsewhere
  <2>4. ToSet(u) = {x \in Linked : parent'[x] = r}
    BY <1>8, <1>11, <2>2
  <2>5. FamilyIs(r, u)'
    BY <1>7, <2>3, <2>4 DEF FamilyIs
  <2> QED BY <2>5
<1> QED BY <1>9, <1>10, <1>11

LEMMA ExitKeeps ==
  ASSUME TableInv, NEW p \in Struct, Exit(p), IInv', RoomIsLeft'
  PROVE  TableInv'
<1>1. /\ p \in Linked /\ p # initproc /\ p # idleproc /\ initproc \in Linked
      /\ zombie' = [zombie EXCEPT ![p] = TRUE]
      /\ UNCHANGED <<procList, pid, list_link, hash_link>>
  BY ExitDoes DEF vars
<1>2. PICK kids, s, g :
              /\ FamilyIs(p, kids) /\ FamilyIs(initproc, s)
              /\ Adopted(g, links, kids, s, Len(kids))
              /\ links' = [cptr |-> [g.cptr EXCEPT ![p] = Null], optr |-> g.optr, yptr |-> g.yptr]
              /\ parent' = [x \in Struct |-> IF x \in ToSet(kids) THEN initproc ELSE parent[x]]
  BY ExitDoes
<1>3. /\ ToSet(kids) = {x \in Linked : parent[x] = p}
      /\ ToSet(s) = {x \in Linked : parent[x] = initproc}
  BY <1>2 DEF FamilyIs
<1>4. /\ g \in FamilyLinks
      /\ \A q \in Struct \cup {idleproc} : q # initproc => g.cptr[q] = links.cptr[q]
      /\ \A x \in Struct : x \notin ToSet(s) \cup ToSet(kids) =>
           g.optr[x] = links.optr[x] /\ g.yptr[x] = links.yptr[x]
  BY <1>2 DEF Adopted
<1>5. Linked' = Linked /\ Linked \subseteq Struct
  BY <1>1 DEF Linked
<1>6. \A x \in Linked : parent'[x] = IF parent[x] = p THEN initproc ELSE parent[x]
  BY <1>2, <1>3, <1>5
<1>7. /\ links'.optr = g.optr /\ links'.yptr = g.yptr
      /\ \A q \in Struct \cup {idleproc} : links'.cptr[q] = IF q = p THEN Null ELSE g.cptr[q]
      /\ links'.cptr \in [Struct \cup {idleproc} -> Struct \cup {Null}]
  BY <1>2, <1>4 DEF FamilyLinks
<1>8. TableTypes'
  <2>1. /\ pid \in [Struct -> Pid \cup {0}] /\ zombie \in [Struct -> BOOLEAN]
        /\ parent \in [Struct -> Struct \cup {idleproc, Null}]
        /\ Links(list_link, {proc_list}) /\ Links(hash_link, Buckets)
    BY DEF TableInv, TableTypes
  <2>2. Family(links')
    BY <1>4, <1>7 DEF Family, FamilyLinks
  <2>3. /\ zombie' \in [Struct -> BOOLEAN]
        /\ parent' \in [Struct -> Struct \cup {idleproc, Null}]
    BY <1>1, <1>2, <1>5, <2>1
  <2> QED BY <1>1, <2>1, <2>2, <2>3 DEF TableTypes
<1>9. FreeIsLoose'
  <2> SUFFICES ASSUME NEW x \in Struct \ Linked
               PROVE  /\ ~zombie'[x] /\ parent'[x] = Null
                      /\ cptr'[x] = Null /\ optr'[x] = Null /\ yptr'[x] = Null
                      /\ list_link'.next[x] = Null /\ list_link'.prev[x] = Null
                      /\ hash_link'.next[x] = Null /\ hash_link'.prev[x] = Null
    BY <1>5 DEF FreeIsLoose
  <2>1. /\ ~zombie[x] /\ parent[x] = Null
        /\ cptr[x] = Null /\ optr[x] = Null /\ yptr[x] = Null
        /\ list_link.next[x] = Null /\ list_link.prev[x] = Null
        /\ hash_link.next[x] = Null /\ hash_link.prev[x] = Null
    BY DEF TableInv, FreeIsLoose
  <2>2. x # p /\ x # initproc /\ x \notin ToSet(s) \cup ToSet(kids)
    BY <1>1, <1>3
  <2>3. /\ links'.cptr[x] = links.cptr[x]
        /\ links'.optr[x] = links.optr[x] /\ links'.yptr[x] = links.yptr[x]
    BY <1>4, <1>7, <2>2
  <2>4. cptr'[x] = Null /\ optr'[x] = Null /\ yptr'[x] = Null
    BY <2>1, <2>3 DEF links
  <2>5. ~zombie'[x] /\ parent'[x] = Null
    <3>1. zombie'[x] = zombie[x]
      BY <1>1, <2>2 DEF TableInv, TableTypes
    <3>2. parent'[x] = parent[x]
      BY <1>2, <2>2
    <3> QED BY <2>1, <3>1, <3>2
  <2> QED BY <1>1, <2>1, <2>4, <2>5
<1>10. ParentsLive'
  <2>1. /\ ~zombie[initproc]
        /\ \A x \in Linked : parent[x] \in Struct => ~zombie[parent[x]]
        /\ zombie \in [Struct -> BOOLEAN]
    BY DEF TableInv, ParentsLive, TableTypes
  <2>2. \A x \in Struct : x # p => zombie'[x] = zombie[x]
    BY <1>1, <2>1
  <2>3. ~zombie'[initproc]
    BY <1>1, <1>5, <2>1, <2>2
  <2>4. ASSUME NEW x \in Linked, parent'[x] \in Struct
        PROVE  ~zombie'[parent'[x]]
    <3>1. CASE parent[x] = p
      BY <1>6, <2>3, <3>1
    <3>2. CASE parent[x] # p
      <4>1. parent'[x] = parent[x]
        BY <1>6, <3>2
      <4> QED BY <2>1, <2>2, <2>4, <3>2, <4>1
    <3> QED BY <3>1, <3>2
  <2> QED BY <1>5, <2>3, <2>4 DEF ParentsLive
<1>11. \E t : ListIs(t)'
  <2>1. PICK t : ListIs(t)
    BY DEF TableInv
  <2>2. /\ Ring(list_link, proc_list, t) /\ t \in Seq(Struct) /\ ToSet(t) = Linked
        /\ DOMAIN t = 1 .. Len(t) /\ Len(t) \in Nat
        /\ procList = [i \in 1 .. Len(t) |-> pid[t[i]]]
    BY <2>1 DEF ListIs, Ring
  <2>3. /\ \A i \in 1 .. Len(t) : i = Len(t) => t[i] = initproc /\ parent[t[i]] = idleproc
        /\ \A i \in 1 .. Len(t) : i # Len(t) =>
             \E j \in 1 .. Len(t) : i < j /\ parent[t[i]] = t[j]
    BY <2>1 DEF ListIs
  <2>4. \A i \in 1 .. Len(t) : t[i] \in Linked
    BY <2>2 DEF ToSet
  <2>5. ASSUME NEW i \in 1 .. Len(t)
        PROVE  IF i = Len(t) THEN t[i] = initproc /\ parent'[t[i]] = idleproc
               ELSE \E j \in 1 .. Len(t) : i < j /\ parent'[t[i]] = t[j]
    <3>1. parent'[t[i]] = IF parent[t[i]] = p THEN initproc ELSE parent[t[i]]
      BY <1>6, <2>4
    <3>2. CASE i = Len(t)
      BY <1>1, <2>3, <3>1, <3>2
    <3>3. CASE i # Len(t) /\ parent[t[i]] = p
      <4>1. Len(t) \in 1 .. Len(t) /\ i < Len(t)
        <5>1. Len(t) \in Nat /\ i # Len(t)
          BY <2>2, <3>3
        <5> QED BY <5>1
      <4>2. t[Len(t)] = initproc
        BY <2>3, <4>1
      <4> QED BY <3>1, <3>3, <4>1, <4>2
    <3>4. CASE i # Len(t) /\ parent[t[i]] # p
      <4>1. PICK j \in 1 .. Len(t) : i < j /\ parent[t[i]] = t[j]
        BY <2>3, <3>4
      <4> QED BY <3>1, <3>4, <4>1
    <3> QED BY <3>2, <3>3, <3>4
  <2>6. ListIs(t)'
    BY <1>1, <1>5, <2>2, <2>5 DEF ListIs
  <2> QED BY <2>6
<1>12. \A b \in Buckets : \E t : BucketIs(b, t)'
  <2>1. \A b, t : BucketIs(b, t)' <=> BucketIs(b, t)
    BY <1>1, <1>5 DEF BucketIs
  <2> QED BY <2>1 DEF TableInv
<1>13. \A r \in Struct \cup {idleproc} : \E t : FamilyIs(r, t)'
  BY ExitFamilies
<1> QED BY <1>8, <1>9, <1>10, <1>11, <1>12, <1>13 DEF TableInv

-----------------------------------------------------------------------------
(* do_wait                                                                 *)

\* What remove_links and unhash_proc do to the table.
LEMMA ReapedDoes ==
  ASSUME TableInv, NEW s \in Linked, zombie[s], Reaped(s)
  PROVE  /\ s \in Struct /\ s # initproc /\ Linked' = Linked \ {s}
         /\ \A x \in Linked : parent[x] # s
         /\ \E k \in DOMAIN procList : procList[k] = pid[s] /\ procList' = RemoveAt(procList, k)
         /\ hash_link' = list_del(hash_link, s) /\ list_link' = list_del(list_link, s)
         /\ pid' = [pid EXCEPT ![s] = 0] /\ parent' = [parent EXCEPT ![s] = Null]
         /\ zombie' = [zombie EXCEPT ![s] = FALSE]
         /\ Family(links') /\ Parted(links, links', parent[s], s)
<1>1. /\ \E k \in DOMAIN procList : procList[k] = pid[s] /\ procList' = RemoveAt(procList, k)
      /\ hash_link' = list_del(hash_link, s) /\ list_link' = list_del(list_link, s)
      /\ pid' = [pid EXCEPT ![s] = 0] /\ parent' = [parent EXCEPT ![s] = Null]
      /\ zombie' = [zombie EXCEPT ![s] = FALSE] /\ remove_links(s)
  BY DEF Reaped, Unlink, unhash_proc
<1>2. /\ s \in Struct /\ s # initproc /\ \A x \in Linked : parent[x] # s
  BY DEF Linked, TableInv, ParentsLive
<1>3. Linked' = Linked \ {s}
  <2>1. pid \in [Struct -> Pid \cup {0}]
    BY DEF TableInv, TableTypes
  <2> QED BY <1>1, <1>2, <2>1 DEF Linked
<1>4. links' = [cptr |-> cptr', optr |-> optr', yptr |-> yptr']
  BY DEF links
<1>5. /\ yptr' = [x \in Struct |-> IF x = optr[s] THEN yptr[s] ELSE IF x = s THEN Null ELSE yptr[x]]
      /\ optr' = [x \in Struct |-> IF x = yptr[s] THEN optr[s] ELSE IF x = s THEN Null ELSE optr[x]]
      /\ cptr' = IF yptr[s] # Null THEN cptr ELSE [cptr EXCEPT ![parent[s]] = optr[s]]
  BY <1>1 DEF remove_links
<1>6. Parted(links, links', parent[s], s)
  BY <1>4, <1>5 DEF Parted, links
<1>7. /\ cptr \in [Struct \cup {idleproc} -> Struct \cup {Null}]
      /\ yptr \in [Struct -> Struct \cup {Null}] /\ optr \in [Struct -> Struct \cup {Null}]
  BY DEF TableInv, TableTypes, Family, links
<1>8. /\ cptr' \in [Struct \cup {idleproc} -> Struct \cup {Null}]
      /\ yptr' \in [Struct -> Struct \cup {Null}] /\ optr' \in [Struct -> Struct \cup {Null}]
  BY <1>2, <1>5, <1>7
<1>9. Family(links')
  BY <1>4, <1>8 DEF Family
<1> QED BY <1>1, <1>2, <1>3, <1>6, <1>9

\* The parent has a child less.
LEMMA ReapedFamilies ==
  ASSUME TableInv, NEW s \in Linked, zombie[s], Reaped(s), NEW r \in Struct \cup {idleproc}
  PROVE  \E t : FamilyIs(r, t)'
<1>1. /\ s \in Struct /\ Linked' = Linked \ {s} /\ parent' = [parent EXCEPT ![s] = Null]
      /\ Parted(links, links', parent[s], s)
  BY ReapedDoes
<1>2. PICK q \in Struct \cup {idleproc} : q = parent[s]
  BY ParentIsLinked DEF Linked
<1>3. PICK u, t : FamilyIs(q, u) /\ FamilyIs(r, t)
  BY DEF TableInv
<1>4. /\ Brood(links, q, u) /\ ToSet(u) = {x \in Linked : parent[x] = q}
      /\ Brood(links, r, t) /\ ToSet(t) = {x \in Linked : parent[x] = r}
      /\ u \in Seq(Struct) /\ Distinct(u) /\ DOMAIN u = 1 .. Len(u)
  BY <1>3 DEF FamilyIs, Brood
<1>5. PICK i \in 1 .. Len(u) : u[i] = s
  <2>1. s \in ToSet(u)
    BY <1>2, <1>4
  <2> QED BY <1>4, <2>1 DEF ToSet
<1>6. Parted(links, links', q, u[i])
  BY <1>1, <1>2, <1>5
<1>7. \A x \in Linked' : parent'[x] = parent[x]
  <2>1. parent \in [Struct -> Struct \cup {idleproc, Null}]
    BY DEF TableInv, TableTypes
  <2> QED BY <1>1, <2>1 DEF Linked
<1>8. CASE r = q
  <2>1. Brood(links', r, RemoveAt(u, i))
    <3>1. q \in DOMAIN links.cptr
      BY DEF TableInv, TableTypes, Family
    <3> QED BY <1>4, <1>6, <1>8, <3>1, BroodDel
  <2>2. ToSet(RemoveAt(u, i)) = ToSet(u) \ {s}
    <3>1. u \in Seq(Struct) /\ Distinct(u)
      BY <1>4
    <3> QED BY <1>5, <3>1, RemoveSet
  <2>3. ToSet(RemoveAt(u, i)) = {x \in Linked' : parent'[x] = r}
    BY <1>1, <1>4, <1>7, <1>8, <2>2
  <2>4. FamilyIs(r, RemoveAt(u, i))'
    BY <2>1, <2>3 DEF FamilyIs
  <2> QED BY <2>4
<1>9. CASE r # q
  <2>1. Brood(links', r, t)
    <3>1. ToSet(u) \cap ToSet(t) = {}
      BY <1>4, <1>9
    <3> QED BY <1>4, <1>6, <1>9, <3>1, BroodDelElsewhere
  <2>2. ToSet(t) = {x \in Linked' : parent'[x] = r}
    BY <1>1, <1>2, <1>4, <1>7, <1>9
  <2>3. FamilyIs(r, t)'
    BY <2>1, <2>2 DEF FamilyIs
  <2> QED BY <2>3
<1> QED BY <1>8, <1>9

\* Its hash list has a process less.
LEMMA ReapedBuckets ==
  ASSUME TableInv, NEW s \in Linked, zombie[s], Reaped(s), NEW b \in Buckets
  PROVE  \E t : BucketIs(b, t)'
<1>1. /\ s \in Struct /\ Linked' = Linked \ {s} /\ pid' = [pid EXCEPT ![s] = 0]
      /\ hash_link' = list_del(hash_link, s)
  BY ReapedDoes
<1>2. pid \in [Struct -> Pid \cup {0}] /\ Links(hash_link, Buckets)
  BY DEF TableInv, TableTypes
<1>3. PICK h \in Buckets : h = pid_hashfn(pid[s])
  BY <1>1, <1>2, HashInRange, PidAssumption DEF Pid
<1>4. PICK u, t : BucketIs(h, u) /\ BucketIs(b, t)
  BY DEF TableInv
<1>5. /\ Ring(hash_link, h, u) /\ ToSet(u) = {x \in Linked : pid_hashfn(pid[x]) = h}
      /\ Ring(hash_link, b, t) /\ ToSet(t) = {x \in Linked : pid_hashfn(pid[x]) = b}
      /\ u \in Seq(Struct) /\ Distinct(u) /\ DOMAIN u = 1 .. Len(u)
  BY <1>4 DEF BucketIs, Ring
<1>6. PICK i \in 1 .. Len(u) : u[i] = s
  <2>1. s \in ToSet(u)
    BY <1>3, <1>5
  <2> QED BY <1>5, <2>1 DEF ToSet
<1>7. hash_link' = list_del(hash_link, u[i])
  BY <1>1, <1>6
<1>8. \A x \in Linked' : pid'[x] = pid[x]
  BY <1>1, <1>2 DEF Linked
<1>9. CASE b = h
  <2>1. Ring(hash_link', b, RemoveAt(u, i))
    <3>1. /\ Ring(list_del(hash_link, u[i]), h, RemoveAt(u, i))
          /\ list_del(hash_link, u[i]).next[u[i]] = Null
          /\ list_del(hash_link, u[i]).prev[u[i]] = Null
      BY <1>2, <1>5, RingDel
    <3> QED BY <1>7, <1>9, <3>1
  <2>2. ToSet(RemoveAt(u, i)) = ToSet(u) \ {s}
    <3>1. u \in Seq(Struct) /\ Distinct(u)
      BY <1>5
    <3> QED BY <1>6, <3>1, RemoveSet
  <2>3. ToSet(RemoveAt(u, i)) = {x \in Linked' : pid_hashfn(pid'[x]) = b}
    BY <1>1, <1>5, <1>8, <1>9, <2>2
  <2>4. BucketIs(b, RemoveAt(u, i))'
    BY <2>1, <2>3 DEF BucketIs
  <2> QED BY <2>4
<1>10. CASE b # h
  <2>1. Ring(list_del(hash_link, u[i]), b, t)
    <3>1. ToSet(u) \cap ToSet(t) = {}
      BY <1>5, <1>10
    <3> QED BY <1>2, <1>5, <1>10, <3>1, RingDelElsewhere
  <2>2. ToSet(t) = {x \in Linked' : pid_hashfn(pid'[x]) = b}
    BY <1>1, <1>3, <1>5, <1>8, <1>10
  <2>3. BucketIs(b, t)'
    BY <1>7, <2>1, <2>2 DEF BucketIs
  <2> QED BY <2>3
<1> QED BY <1>9, <1>10

\* proc_list has a process less, and none that a child waits for.
LEMMA ReapedList ==
  ASSUME TableInv, NEW s \in Linked, zombie[s], Reaped(s)
  PROVE  \E t : ListIs(t)'
<1>1. /\ s \in Struct /\ s # initproc /\ Linked' = Linked \ {s} /\ pid' = [pid EXCEPT ![s] = 0]
      /\ parent' = [parent EXCEPT ![s] = Null] /\ \A x \in Linked : parent[x] # s
      /\ list_link' = list_del(list_link, s)
  BY ReapedDoes
<1>2. PICK k \in DOMAIN procList : procList[k] = pid[s] /\ procList' = RemoveAt(procList, k)
  BY ReapedDoes
<1>3. /\ pid \in [Struct -> Pid \cup {0}] /\ parent \in [Struct -> Struct \cup {idleproc, Null}]
      /\ Links(list_link, {proc_list}) /\ procList \in Seq(Pid) /\ PidsDistinct
  BY DEF TableInv, TableTypes, IInv, TypeOK
<1>4. PICK u : ListIs(u)
  BY DEF TableInv
<1> DEFINE n == Len(u)
<1>5. /\ Ring(list_link, proc_list, u) /\ u \in Seq(Struct) /\ Distinct(u) /\ ToSet(u) = Linked
      /\ n \in Nat /\ DOMAIN u = 1 .. n
  BY <1>4 DEF ListIs, Ring
<1>6. procList = [i \in 1 .. n |-> pid[u[i]]]
  BY <1>4 DEF ListIs
<1>7. /\ \A i \in 1 .. n : i = n => u[i] = initproc /\ parent[u[i]] = idleproc
      /\ \A i \in 1 .. n : i # n => \E j \in 1 .. n : i < j /\ parent[u[i]] = u[j]
  BY <1>4 DEF ListIs
<1>8. \A i \in 1 .. n : u[i] \in Linked
  BY <1>5 DEF ToSet
<1>9. DOMAIN procList = 1 .. n /\ Len(procList) = n
  BY <1>5, <1>6
<1>10. k \in 1 .. n /\ u[k] = s
  <2>1. PICK i \in 1 .. n : u[i] = s
    BY <1>5 DEF ToSet
  <2>2. procList[i] = procList[k]
    BY <1>2, <1>6, <2>1
  <2>3. i = k
    BY <1>3, <1>9, <2>2 DEF PidsDistinct
  <2> QED BY <2>1, <2>3
<1> DEFINE t == RemoveAt(u, k)
<1>11. Ring(list_link', proc_list, t) /\ ToSet(t) = Linked'
  <2>1. /\ Ring(list_del(list_link, u[k]), proc_list, RemoveAt(u, k))
        /\ list_del(list_link, u[k]).next[u[k]] = Null
        /\ list_del(list_link, u[k]).prev[u[k]] = Null
    <3>1. proc_list \in {proc_list} /\ k \in 1 .. Len(u)
      BY <1>10
    <3> QED BY <1>3, <1>5, <3>1, RingDel
  <2>2. ToSet(RemoveAt(u, k)) = ToSet(u) \ {u[k]}
    BY <1>5, <1>10, RemoveSet
  <2> QED BY <1>1, <1>5, <1>10, <2>1, <2>2
<1>12. /\ t \in Seq(Struct) /\ Len(t) = n - 1
       /\ \A i \in 1 .. k - 1 : t[i] = u[i]
       /\ \A i \in k .. n - 1 : t[i] = u[i + 1]
  <2>1. u \in Seq(Struct) /\ k \in 1 .. Len(u)
    BY <1>5, <1>10
  <2> QED BY <2>1, DeleteAt
<1>13. /\ procList' \in Seq(Pid) /\ Len(procList') = n - 1
       /\ \A i \in 1 .. k - 1 : procList'[i] = procList[i]
       /\ \A i \in k .. n - 1 : procList'[i] = procList[i + 1]
  <2>1. k \in 1 .. Len(procList)
    BY <1>9, <1>10
  <2>2. procList \in Seq(Pid)
    BY <1>3
  <2>3. procList' = RemoveAt(procList, k) /\ Len(procList) = n
    BY <1>2, <1>9
  <2>4. /\ RemoveAt(procList, k) \in Seq(Pid)
        /\ Len(RemoveAt(procList, k)) = Len(procList) - 1
        /\ \A i \in 1 .. k - 1 : RemoveAt(procList, k)[i] = procList[i]
        /\ \A i \in k .. Len(procList) - 1 : RemoveAt(procList, k)[i] = procList[i + 1]
    BY <2>1, <2>2, DeleteAt
  <2> HIDE DEF n
  <2> QED BY <2>3, <2>4
<1> HIDE DEF t, n
<1> DEFINE old(i) == IF i < k THEN i ELSE i + 1
<1>14. ASSUME NEW i \in 1 .. n - 1
       PROVE  /\ old(i) \in 1 .. n /\ old(i) # k
              /\ t[i] = u[old(i)] /\ procList'[i] = pid[u[old(i)]]
              /\ t[i] \in Linked' /\ t[i] # s
  <2>1. old(i) \in 1 .. n /\ old(i) # k
    BY <1>5, <1>10
  <2>2. t[i] = u[old(i)] /\ procList'[i] = procList[old(i)]
    BY <1>5, <1>10, <1>12, <1>13
  <2> HIDE DEF old
  <2>3. u[old(i)] # s
    BY <1>5, <1>10, <2>1 DEF Distinct
  <2> QED BY <1>1, <1>6, <1>8, <2>1, <2>2, <2>3
<1>15. \A x \in Linked' : pid'[x] = pid[x] /\ parent'[x] = parent[x]
  BY <1>1, <1>3 DEF Linked
<1>16. procList' = [i \in 1 .. Len(t) |-> pid'[t[i]]]
  <2>1. procList' = [i \in 1 .. n - 1 |-> procList'[i]]
    BY <1>13
  <2>2. ASSUME NEW i \in 1 .. n - 1
        PROVE  procList'[i] = pid'[t[i]]
    <3> HIDE DEF old
    <3> QED BY <1>14, <1>15
  <2> QED BY <1>12, <2>1, <2>2
\* Where an entry has gone.
<1>17. ASSUME NEW j \in 1 .. n, j # k
       PROVE  \E i \in 1 .. n - 1 : old(i) = j
  <2>1. CASE j < k
    <3>1. j \in 1 .. n - 1 /\ old(j) = j
      BY <1>5, <1>10, <2>1
    <3> QED BY <3>1
  <2>2. CASE ~(j < k)
    <3>1. j - 1 \in 1 .. n - 1 /\ old(j - 1) = j
      BY <1>5, <1>10, <1>17, <2>2
    <3> QED BY <3>1
  <2> QED BY <2>1, <2>2
<1>18. k # n
  BY <1>1, <1>7, <1>10
<1>19. ASSUME NEW i \in 1 .. n - 1
       PROVE  IF i = n - 1 THEN t[i] = initproc /\ parent'[t[i]] = idleproc
              ELSE \E j \in 1 .. n - 1 : i < j /\ parent'[t[i]] = t[j]
  <2>1. parent'[t[i]] = parent[u[old(i)]] /\ t[i] = u[old(i)] /\ old(i) \in 1 .. n
    <3> HIDE DEF old
    <3> QED BY <1>14, <1>15
  <2>2. i = n - 1 <=> old(i) = n
    BY <1>5, <1>10, <1>18
  <2>3. CASE i = n - 1
    <3> HIDE DEF old
    <3> QED BY <1>7, <2>1, <2>2, <2>3
  <2>4. CASE i # n - 1
    <3>1. PICK m \in 1 .. n : old(i) < m /\ parent[u[old(i)]] = u[m]
      <4> HIDE DEF old
      <4> QED BY <1>7, <2>1, <2>2, <2>4
    <3>2. m # k
      <4>1. u[old(i)] \in Linked
        BY <1>8, <2>1
      <4> HIDE DEF old
      <4> QED BY <1>1, <1>10, <3>1, <4>1
    <3>3. PICK j \in 1 .. n - 1 : old(j) = m
      BY <1>17, <3>2
    <3>4. i < j
      BY <1>5, <1>10, <3>1, <3>3
    <3>5. t[j] = u[m]
      <4> HIDE DEF old
      <4> QED BY <1>14, <3>3
    <3> HIDE DEF old
    <3> QED BY <2>1, <2>4, <3>1, <3>4, <3>5
  <2> QED BY <2>3, <2>4
<1>20. ListIs(t)'
  BY <1>11, <1>12, <1>16, <1>19 DEF ListIs
<1> QED BY <1>20

LEMMA ReapedRest ==
  ASSUME TableInv, NEW s \in Linked, zombie[s], Reaped(s)
  PROVE  TableTypes' /\ FreeIsLoose' /\ ParentsLive'
<1>1. /\ s \in Struct /\ s # initproc /\ Linked' = Linked \ {s}
      /\ \A x \in Linked : parent[x] # s
      /\ hash_link' = list_del(hash_link, s) /\ list_link' = list_del(list_link, s)
      /\ pid' = [pid EXCEPT ![s] = 0] /\ parent' = [parent EXCEPT ![s] = Null]
      /\ zombie' = [zombie EXCEPT ![s] = FALSE]
      /\ Family(links') /\ Parted(links, links', parent[s], s)
  BY ReapedDoes
<1>2. /\ pid \in [Struct -> Pid \cup {0}] /\ zombie \in [Struct -> BOOLEAN]
      /\ parent \in [Struct -> Struct \cup {idleproc, Null}]
      /\ Family(links) /\ Links(list_link, {proc_list}) /\ Links(hash_link, Buckets)
  BY DEF TableInv, TableTypes
<1>3. PICK h \in Buckets : h = pid_hashfn(pid[s])
  BY <1>1, <1>2, HashInRange, PidAssumption DEF Pid
<1>4. PICK L, u, v : ListIs(L) /\ BucketIs(h, u) /\ FamilyIs(parent[s], v)
  <2>1. parent[s] \in Struct \cup {idleproc}
    BY ParentIsLinked DEF Linked
  <2> QED BY <2>1 DEF TableInv
<1>5. /\ Ring(list_link, proc_list, L) /\ ToSet(L) = Linked
      /\ L \in Seq(Struct) /\ DOMAIN L = 1 .. Len(L)
  BY <1>4 DEF ListIs, Ring
<1>6. /\ Ring(hash_link, h, u) /\ ToSet(u) = {x \in Linked : pid_hashfn(pid[x]) = h}
      /\ u \in Seq(Struct) /\ DOMAIN u = 1 .. Len(u)
  BY <1>4 DEF BucketIs, Ring
<1>7. /\ v \in Seq(Struct) /\ Distinct(v) /\ DOMAIN v = 1 .. Len(v) /\ Len(v) \in Nat
      /\ ToSet(v) = {x \in Linked : parent[x] = parent[s]}
      /\ \A i \in 1 .. Len(v) : /\ optr[v[i]] = At(Null, v, i + 1)
                                /\ yptr[v[i]] = At(Null, v, i - 1)
  BY <1>4 DEF FamilyIs, Brood, links
<1>8. PICK i \in 1 .. Len(L), j \in 1 .. Len(u), m \in 1 .. Len(v) : L[i] = s /\ u[j] = s /\ v[m] = s
  <2>1. s \in ToSet(L) /\ s \in ToSet(u) /\ s \in ToSet(v)
    BY <1>3, <1>5, <1>6, <1>7
  <2> QED BY <1>5, <1>6, <1>7, <2>1 DEF ToSet
<1>9. optr[s] # s /\ yptr[s] # s
  <2>1. Null \notin Struct /\ v \in Seq(Struct) /\ Distinct(v)
    BY <1>7, AddressAssumption
  <2>2. m \in 0 .. Len(v) + 1 /\ m + 1 \in 0 .. Len(v) + 1 /\ m - 1 \in 0 .. Len(v) + 1
        /\ m # 0 /\ m # Len(v) + 1 /\ m # m + 1 /\ m # m - 1
    BY <1>7
  <2>3. At(Null, v, m) = s
    BY <1>8 DEF At
  <2>4. At(Null, v, m) # At(Null, v, m + 1)
    BY <2>1, <2>2, OnePlace
  <2>5. At(Null, v, m) # At(Null, v, m - 1)
    BY <2>1, <2>2, OnePlace
  <2> QED BY <1>7, <1>8, <2>3, <2>4, <2>5
<1>10. /\ Links(list_link', {proc_list})
       /\ list_link'.next[s] = Null /\ list_link'.prev[s] = Null
       /\ \A y \in {proc_list} \cup Struct : y # proc_list /\ y \notin Linked =>
            list_link'.next[y] = list_link.next[y] /\ list_link'.prev[y] = list_link.prev[y]
  <2>1. proc_list \in {proc_list} /\ list_link' = list_del(list_link, L[i])
    BY <1>1, <1>8
  <2>2. Links(list_del(list_link, L[i]), {proc_list})
    BY <1>2, <1>5, <2>1, DelTouches
  <2>3. /\ Ring(list_del(list_link, L[i]), proc_list, RemoveAt(L, i))
        /\ list_del(list_link, L[i]).next[L[i]] = Null
        /\ list_del(list_link, L[i]).prev[L[i]] = Null
    BY <1>2, <1>5, <2>1, RingDel
  <2>4. ASSUME NEW y \in {proc_list} \cup Struct, y # proc_list, y \notin ToSet(L)
        PROVE  /\ list_del(list_link, L[i]).next[y] = list_link.next[y]
               /\ list_del(list_link, L[i]).prev[y] = list_link.prev[y]
    <3>1. /\ Links(list_link, {proc_list}) /\ Ring(list_link, proc_list, L)
          /\ proc_list \in {proc_list} /\ i \in 1 .. Len(L)
      BY <1>2, <1>5, <1>8
    <3> QED BY <2>4, <3>1, DelLeaves
  <2> QED BY <1>5, <1>8, <2>1, <2>2, <2>3, <2>4
<1>11. /\ Links(hash_link', Buckets)
       /\ hash_link'.next[s] = Null /\ hash_link'.prev[s] = Null
       /\ \A y \in Buckets \cup Struct : y # h /\ y \notin Linked =>
            hash_link'.next[y] = hash_link.next[y] /\ hash_link'.prev[y] = hash_link.prev[y]
  <2>1. hash_link' = list_del(hash_link, u[j])
    BY <1>1, <1>8
  <2>2. Links(list_del(hash_link, u[j]), Buckets)
    BY <1>2, <1>6, DelTouches
  <2>3. /\ Ring(list_del(hash_link, u[j]), h, RemoveAt(u, j))
        /\ list_del(hash_link, u[j]).next[u[j]] = Null
        /\ list_del(hash_link, u[j]).prev[u[j]] = Null
    BY <1>2, <1>6, RingDel
  <2>4. ASSUME NEW y \in Buckets \cup Struct, y # h, y \notin ToSet(u)
        PROVE  /\ list_del(hash_link, u[j]).next[y] = hash_link.next[y]
               /\ list_del(hash_link, u[j]).prev[y] = hash_link.prev[y]
    BY <1>2, <1>6, <2>4, DelLeaves
  <2>5. ToSet(u) \subseteq Linked
    BY <1>6
  <2> QED BY <1>8, <2>1, <2>2, <2>3, <2>4, <2>5
<1>12. TableTypes'
  <2>1. /\ pid' \in [Struct -> Pid \cup {0}] /\ zombie' \in [Struct -> BOOLEAN]
        /\ parent' \in [Struct -> Struct \cup {idleproc, Null}]
    BY <1>1, <1>2
  <2> QED BY <1>1, <1>10, <1>11, <2>1 DEF TableTypes
<1>13. /\ optr' = [x \in Struct |-> IF x = yptr[s] THEN optr[s] ELSE IF x = s THEN Null ELSE optr[x]]
       /\ yptr' = [x \in Struct |-> IF x = optr[s] THEN yptr[s] ELSE IF x = s THEN Null ELSE yptr[x]]
       /\ cptr' = IF yptr[s] # Null THEN cptr ELSE [cptr EXCEPT ![parent[s]] = optr[s]]
  BY <1>1 DEF Parted, links
<1>14. cptr \in [Struct \cup {idleproc} -> Struct \cup {Null}]
  BY <1>2 DEF Family, links
<1>15. optr[s] \in Linked \cup {Null} /\ yptr[s] \in Linked \cup {Null} /\ Null \notin Struct
       /\ parent[s] \in Linked \cup {idleproc} /\ idleproc \notin Struct
  BY <1>1, TypesFollow, ParentIsLinked, AddressAssumption DEF TableTypeOK
<1>16. FreeIsLoose'
  <2> SUFFICES ASSUME NEW x \in Struct \ Linked'
               PROVE  /\ ~zombie'[x] /\ parent'[x] = Null
                      /\ cptr'[x] = Null /\ optr'[x] = Null /\ yptr'[x] = Null
                      /\ list_link'.next[x] = Null /\ list_link'.prev[x] = Null
                      /\ hash_link'.next[x] = Null /\ hash_link'.prev[x] = Null
    BY DEF FreeIsLoose
  <2>1. CASE x = s
    <3>1. cptr[s] = Null
      <4>1. PICK w : FamilyIs(s, w)
        BY <1>1 DEF TableInv
      <4>2. w \in Seq(Struct) /\ DOMAIN w = 1 .. Len(w) /\ cptr[s] = At(Null, w, 1)
            /\ ToSet(w) = {y \in Linked : parent[y] = s}
        BY <4>1 DEF FamilyIs, Brood, links
      <4>3. ToSet(w) = {}
        BY <1>1, <4>2
      <4> QED BY <4>2, <4>3 DEF ToSet, At
    <3>2. cptr'[s] = Null
      BY <1>1, <1>13, <1>14, <3>1
    <3>3. optr'[s] = Null /\ yptr'[s] = Null
      BY <1>1, <1>9, <1>13
    <3>4. ~zombie'[s] /\ parent'[s] = Null
      BY <1>1, <1>2
    <3> QED BY <1>10, <1>11, <2>1, <3>2, <3>3, <3>4
  <2>2. CASE x # s
    <3>1. x \in Struct /\ x \notin Linked
      BY <1>1, <2>2
    <3>2. /\ ~zombie[x] /\ parent[x] = Null
          /\ cptr[x] = Null /\ optr[x] = Null /\ yptr[x] = Null
          /\ list_link.next[x] = Null /\ list_link.prev[x] = Null
          /\ hash_link.next[x] = Null /\ hash_link.prev[x] = Null
      BY <3>1 DEF TableInv, FreeIsLoose
    <3>3. x # proc_list /\ x # h
      BY <3>1, AddressAssumption
    <3>4. cptr'[x] = Null /\ optr'[x] = Null /\ yptr'[x] = Null
      BY <1>13, <1>14, <1>15, <2>2, <3>1, <3>2
    <3>5. ~zombie'[x] /\ parent'[x] = Null
      BY <1>1, <1>2, <2>2, <3>1, <3>2
    <3> QED BY <1>10, <1>11, <3>1, <3>2, <3>3, <3>4, <3>5
  <2> QED BY <2>1, <2>2
<1>17. ParentsLive'
  <2>1. /\ ~zombie[initproc]
        /\ \A x \in Linked : parent[x] \in Struct => ~zombie[parent[x]]
    BY DEF TableInv, ParentsLive
  <2>2. \A x \in Struct : zombie'[x] = IF x = s THEN FALSE ELSE zombie[x]
    BY <1>1, <1>2
  <2>3. \A x \in Linked' : x \in Linked /\ parent'[x] = parent[x]
    BY <1>1, <1>2 DEF Linked
  <2>4. initproc \in Struct
    BY DEF Struct
  <2>5. ~zombie'[initproc]
    BY <1>1, <2>1, <2>2, <2>4
  <2>6. \A x \in Linked' : parent'[x] \in Struct => ~zombie'[parent'[x]]
    BY <2>1, <2>2, <2>3
  <2> QED BY <2>5, <2>6 DEF ParentsLive
<1> QED BY <1>12, <1>16, <1>17

LEMMA ReapedKeeps ==
  ASSUME TableInv, NEW s \in Linked, zombie[s], Reaped(s), IInv', RoomIsLeft'
  PROVE  TableInv'
<1>1. TableTypes' /\ FreeIsLoose' /\ ParentsLive'
  BY ReapedRest
<1>2. \E t : ListIs(t)'
  BY ReapedList
<1>3. \A b \in Buckets : \E t : BucketIs(b, t)'
  BY ReapedBuckets
<1>4. \A r \in Struct \cup {idleproc} : \E t : FamilyIs(r, t)'
  BY ReapedFamilies
<1> QED BY <1>1, <1>2, <1>3, <1>4 DEF TableInv

\* do_wait reaps zombies only.
LEMMA WaitReapsZombie ==
  ASSUME TableInv, (\E q \in Struct : WaitAny(q)) \/ (\E q \in Struct, p \in Pid : WaitFor(q, p))
  PROVE  \E s \in Linked : zombie[s] /\ Reaped(s)
<1>1. ASSUME NEW q \in Struct, WaitAny(q)
      PROVE  \E s \in Linked : zombie[s] /\ Reaped(s)
  <2>1. PICK u : FamilyIs(q, u)
    BY DEF TableInv
  <2>2. Children(q) = u /\ u \in Seq(Struct) /\ DOMAIN u = 1 .. Len(u) /\ ToSet(u) \subseteq Linked
    BY <2>1, ChildrenRead DEF FamilyIs, Brood
  <2> DEFINE I == {i \in 1 .. Len(u) : zombie[u[i]]}
             k == IF I # {} THEN Min(I) ELSE 0
  <2>3. k # 0 /\ Reaped(u[k])
    BY <1>1, <2>2 DEF WaitAny, SelectInSeq
  <2>4. I # {}
    BY <2>3
  <2>5. Min(I) \in I
    <3>1. I \in SUBSET Nat
      OBVIOUS
    <3> HIDE DEF I
    <3>2. PICK i \in I : \A j \in I : i <= j
      BY <2>4, <3>1, LeastExists
    <3> QED BY <3>2 DEF Min
  <2>6. k \in 1 .. Len(u) /\ zombie[u[k]]
    BY <2>4, <2>5
  <2> HIDE DEF k
  <2>7. u[k] \in Linked
    BY <2>2, <2>6 DEF ToSet
  <2> QED BY <2>3, <2>6, <2>7
<1>2. ASSUME NEW q \in Struct, NEW p \in Pid, WaitFor(q, p)
      PROVE  \E s \in Linked : zombie[s] /\ Reaped(s)
  <2>1. find_proc(p) # Null /\ zombie[find_proc(p)] /\ Reaped(find_proc(p))
    BY <1>2 DEF WaitFor
  <2>2. find_proc(p) \in Linked
    BY <2>1, FindProcFinds
  <2> QED BY <2>1, <2>2
<1> QED BY <1>1, <1>2
-----------------------------------------------------------------------------
(* All steps                                                               *)

LEMMA ForkedKeeps ==
  ASSUME TableInv, NEW c \in Struct, NEW q \in Struct \cup {idleproc}, Forked(c, q),
         IInv', RoomIsLeft'
  PROVE  TableInv'
<1>1. TableTypes' /\ FreeIsLoose' /\ ParentsLive'
  BY ForkedRest
<1>2. \E s : ListIs(s)'
  BY ForkedList
<1>3. \A b \in Buckets : \E s : BucketIs(b, s)'
  BY ForkedBuckets
<1>4. \A r \in Struct \cup {idleproc} : \E s : FamilyIs(r, s)'
  BY ForkedFamilies
<1> QED BY <1>1, <1>2, <1>3, <1>4 DEF TableInv

\* do_fork compares nr_process before get_pid looks for a pid, and only one do_fork
\* is between the two.
LEMMA RoomKept ==
  ASSUME TableInv, [TableNext]_<<vars, table>>
  PROVE  RoomIsLeft'
<1>1. /\ TypeOK /\ CountIsExact /\ nr_process <= MAX_PROCESS
      /\ pc # "none" => nr_process < MAX_PROCESS
  BY DEF TableInv, IInv, RoomIsLeft
<1>2. CountIsExact'
  BY <1>1, CountKept
<1>3. nr_process \in Nat /\ MAX_PROCESS \in Nat
  BY <1>1, PidAssumption DEF CountIsExact, TypeOK
<1>4. nr_process' <= MAX_PROCESS /\ (pc' # "none" => nr_process' < MAX_PROCESS)
  <2>1. CASE UNCHANGED <<vars, table>>
    BY <1>1, <2>1 DEF vars, table
  <2>2. CASE Fork
    BY <1>3, <2>2 DEF Fork, table
  <2>3. CASE Search /\ UNCHANGED table
    BY <1>1, <2>3 DEF Search, Scan, ScanEnds, table
  <2>4. CASE \E c \in Struct, q \in Struct \cup {idleproc} : Forked(c, q)
    <3>1. pc = "found" /\ pc' = "none" /\ nr_process' = nr_process + 1
      BY <2>4 DEF Forked, Link
    <3> QED BY <1>1, <1>3, <3>1
  <2>5. CASE \E p \in Struct : Exit(p)
    BY <1>1, <2>5 DEF Exit, vars
  <2>6. CASE (\E q \in Struct : WaitAny(q)) \/ (\E q \in Struct, p \in Pid : WaitFor(q, p))
    <3>1. PICK s \in Linked : Reaped(s)
      BY <2>6, WaitReapsZombie
    <3>2. pc' = pc /\ nr_process' = nr_process - 1
      BY <3>1 DEF Reaped, Unlink, Counted
    <3> QED BY <1>1, <1>3, <3>2
  <2> QED BY <2>1, <2>2, <2>3, <2>4, <2>5, <2>6 DEF TableNext
<1> QED BY <1>2, <1>4 DEF RoomIsLeft

\* Before init is created every list is empty.
LEMMA TableInitHolds == TableInit => TableInv
<1> SUFFICES ASSUME TableInit PROVE TableInv
  OBVIOUS
<1>1. /\ Init /\ procList = <<>> /\ pc = "none"
      /\ pid = [s \in Struct |-> 0] /\ parent = [s \in Struct |-> Null]
      /\ zombie = [s \in Struct |-> FALSE]
      /\ cptr = [s \in Struct \cup {idleproc} |-> Null]
      /\ yptr = [s \in Struct |-> Null] /\ optr = [s \in Struct |-> Null]
      /\ nr_process = 1
      /\ list_link = list_init({proc_list}) /\ hash_link = list_init(Buckets)
  BY DEF TableInit, Init
<1>2. IInv
  BY <1>1, InitHolds
<1>3. Linked = {}
  BY <1>1 DEF Linked
<1>4. ASSUME NEW heads, heads \cap Struct = {}, Null \notin heads \cup Struct
      PROVE  /\ Links(list_init(heads), heads)
             /\ \A n \in heads : list_init(heads).next[n] = n /\ list_init(heads).prev[n] = n
             /\ \A n \in Struct : n \notin heads =>
                  list_init(heads).next[n] = Null /\ list_init(heads).prev[n] = Null
  <2>1. PICK l : l = list_init(heads)
    OBVIOUS
  <2>2. /\ l = [next |-> l.next, prev |-> l.prev]
        /\ l.next = [n \in heads \cup Struct |-> IF n \in heads THEN n ELSE Null]
        /\ l.prev = [n \in heads \cup Struct |-> IF n \in heads THEN n ELSE Null]
    BY <2>1 DEF list_init
  <2>3. Links(l, heads)
    BY <1>4, <2>2 DEF Links
  <2> QED BY <2>1, <2>2, <2>3
<1>5. TableTypes
  <2>1. Family(links)
    BY <1>1 DEF Family, links
  <2>2. Links(list_link, {proc_list}) /\ Links(hash_link, Buckets)
    BY <1>1, <1>4, AddressAssumption
  <2> QED BY <1>1, <2>1, <2>2 DEF TableTypes
<1>6. RoomIsLeft
  BY <1>1, PidAssumption DEF RoomIsLeft, CountIsExact
<1>7. FreeIsLoose
  <2>1. \A x \in Struct : x \notin {proc_list} /\ x \notin Buckets
    BY AddressAssumption
  <2>2. \A x \in Struct : /\ list_link.next[x] = Null /\ list_link.prev[x] = Null
                          /\ hash_link.next[x] = Null /\ hash_link.prev[x] = Null
    BY <1>1, <1>4, <2>1, AddressAssumption
  <2> QED BY <1>1, <2>2 DEF FreeIsLoose
<1>8. ParentsLive
  BY <1>1, <1>3 DEF ParentsLive, Struct
<1>9. <<>> \in Seq(Struct) /\ Len(<<>>) = 0 /\ Distinct(<<>>) /\ ToSet(<<>>) = {}
  BY DEF Distinct, ToSet
<1>10. ASSUME NEW l, NEW heads, NEW h \in heads, l = list_init(heads),
              heads \cap Struct = {}, Null \notin heads \cup Struct
       PROVE  Ring(l, h, <<>>)
  BY <1>4, <1>9, <1>10 DEF Ring, At
<1>11. ListIs(<<>>)
  <2>1. Ring(list_link, proc_list, <<>>)
    BY <1>1, <1>10, AddressAssumption
  <2>2. procList = [i \in 1 .. Len(<<>>) |-> pid[<<>>[i]]]
    BY <1>1, <1>9
  <2> QED BY <1>3, <1>9, <2>1, <2>2 DEF ListIs
<1>12. \A b \in Buckets : BucketIs(b, <<>>)
  BY <1>1, <1>3, <1>9, <1>10, AddressAssumption DEF BucketIs
<1>13. \A q \in Struct \cup {idleproc} : FamilyIs(q, <<>>)
  BY <1>1, <1>3, <1>9 DEF FamilyIs, Brood, links, At
<1> QED BY <1>2, <1>5, <1>6, <1>7, <1>8, <1>11, <1>12, <1>13 DEF TableInv

LEMMA TableStepKeeps ==
  ASSUME TableInv, [TableNext]_<<vars, table>>
  PROVE  TableInv'
<1>1. RoomIsLeft'
  BY RoomKept
<1>2. IInv'
  BY TableStepIsStep, StepKeeps DEF TableInv
<1>3. CASE UNCHANGED <<procList, table>>
  BY <1>1, <1>2, <1>3, QuietKeeps
<1>4. CASE UNCHANGED <<vars, table>>
  BY <1>3, <1>4 DEF vars
<1>5. CASE Fork
  BY <1>3, <1>5 DEF Fork, Call
<1>6. CASE Search /\ UNCHANGED table
  BY <1>3, <1>6 DEF Search, Scan, ScanEnds
<1>7. CASE \E c \in Struct, q \in Struct \cup {idleproc} : Forked(c, q)
  BY <1>1, <1>2, <1>7, ForkedKeeps
<1>8. CASE \E p \in Struct : Exit(p)
  BY <1>1, <1>2, <1>8, ExitKeeps
<1>9. CASE (\E q \in Struct : WaitAny(q)) \/ (\E q \in Struct, p \in Pid : WaitFor(q, p))
  <2>1. PICK s \in Linked : zombie[s] /\ Reaped(s)
    BY <1>9, WaitReapsZombie
  <2> QED BY <1>1, <1>2, <2>1, ReapedKeeps
<1> QED BY <1>4, <1>5, <1>6, <1>7, <1>8, <1>9 DEF TableNext

\* The pointers spell proc_list, the hash lists and the families at any time.
THEOREM TableInvariance == TableSpec => []TableInv
  BY TableInitHolds, TableStepKeeps, PTL DEF TableSpec

\* Whatever is forked, ends or is reaped in any order, schedule() meets every process
\* along proc_list, find_proc finds it by its pid, and do_wait meets a process's
\* children and nobody else (set_links, remove_links, hash_proc, unhash_proc and
\* do_exit's adoption).
THEOREM LinksCorrect == TableSpec => []LinksOK
  BY TableInvariance, InvImpliesLinks, PTL

\* init_main's assertions hold when it has no child left: every other process was
\* adopted and reaped before.
THEOREM InitEndsLast == TableSpec => []InitIsLast
  BY TableInvariance, InvImpliesInitLast, PTL
=============================================================================
