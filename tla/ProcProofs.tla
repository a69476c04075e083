----------------------------- MODULE ProcProofs -----------------------------
(***************************************************************************)
(* Proofs about Proc: the invariant IInv is inductive, so the safety       *)
(* properties of the process life cycle hold for every size of the process *)
(* table, and idleproc never runs again once the system is up.             *)
(***************************************************************************)
EXTENDS Proc, SequencesExt, SequenceTheorems, WellFoundedInduction,
        FiniteSetTheorems, TLAPS

-----------------------------------------------------------------------------
(* Positions in a list.                                                    *)

\* What list_add at the head of proc_list does to positions.
LEMMA AddAtHead ==
  ASSUME NEW S, NEW s \in Seq(S), NEW e \in S
  PROVE  LET t == <<e>> \o s
         IN  /\ t \in Seq(S) /\ Len(t) = Len(s) + 1 /\ t[1] = e
             /\ \A i \in 1 .. Len(s) : t[i + 1] = s[i]
OBVIOUS

\* What list_del of the i-th entry does to positions.
LEMMA DeleteAt ==
  ASSUME NEW S, NEW s \in Seq(S), NEW i \in 1 .. Len(s)
  PROVE  LET t == RemoveAt(s, i)
         IN  /\ t \in Seq(S) /\ Len(t) = Len(s) - 1
             /\ \A k \in 1 .. i - 1 : t[k] = s[k]
             /\ \A k \in i .. Len(s) - 1 : t[k] = s[k + 1]
<1> DEFINE a == SubSeq(s, 1, i - 1)
           b == SubSeq(s, i + 1, Len(s))
<1>1. a \in Seq(S) /\ Len(a) = i - 1 /\ \A k \in 1 .. i - 1 : a[k] = s[k]
  OBVIOUS
<1>2. /\ b \in Seq(S) /\ Len(b) = Len(s) - i
      /\ \A k \in 1 .. Len(s) - i : b[k] = s[i + k]
  OBVIOUS
<1>3. RemoveAt(s, i) = a \o b
  BY DEF RemoveAt
<1> HIDE DEF a, b
<1>4. /\ a \o b \in Seq(S) /\ Len(a \o b) = Len(s) - 1
      /\ \A k \in 1 .. Len(s) - 1 :
           (a \o b)[k] = IF k <= i - 1 THEN a[k] ELSE b[k - (i - 1)]
  <2>1. a \o b \in Seq(S) /\ Len(a \o b) = Len(a) + Len(b)
    BY <1>1, <1>2, ConcatProperties
  <2>2. \A k \in 1 .. Len(a) + Len(b) :
          (a \o b)[k] = IF k <= Len(a) THEN a[k] ELSE b[k - Len(a)]
    BY <1>1, <1>2, ConcatProperties
  <2>3. Len(a) + Len(b) = Len(s) - 1
    BY <1>1, <1>2
  <2> HIDE DEF a, b
  <2> QED BY <1>1, <2>1, <2>2, <2>3
<1>5. \A k \in 1 .. i - 1 : (a \o b)[k] = s[k]
  BY <1>1, <1>4
<1>6. \A k \in i .. Len(s) - 1 : (a \o b)[k] = s[k + 1]
  BY <1>2, <1>4
<1> QED BY <1>3, <1>4, <1>5, <1>6

\* A search from the head of a list stops at the first entry that will do.
LEMMA LeastExists ==
  ASSUME NEW S \in SUBSET Nat, S # {}
  PROVE  \E i \in S : \A j \in S : i <= j
<1>1. PICK i \in S : \A j \in S : <<j, i>> \notin OpToRel(<, Nat)
  BY NatLessThanWellFounded, WFMin
<1>2. \A j \in S : ~(j < i)
  BY <1>1 DEF OpToRel
<1> QED BY <1>2

-----------------------------------------------------------------------------
(* Facts about positions in a list.                                        *)

\* A set of positions that is not empty has a first one: what `First', the
\* entry at which the scan of schedule() stops, relies on.
LEMMA FirstExists ==
  ASSUME NEW n \in Nat, NEW S \in SUBSET (1 .. n), S # {}
  PROVE  First(S) \in S /\ \A j \in S : First(S) <= j
<1>1. \E i \in S : \A j \in S : i <= j
  BY LeastExists
<1> QED BY <1>1, Zenon DEF First

-----------------------------------------------------------------------------
(* Why the system never runs out of runnable processes.                    *)

\* What the argument needs of the list pl, the states st and the parents par.
Ordered(st, pl, par) ==
  /\ {pl[i] : i \in 1 .. Len(pl)} = {p \in Pid : st[p] # "FREE"} \ {idle}
  /\ \A i, j \in 1 .. Len(pl) : pl[i] = pl[j] => i = j
  /\ par[idle] = NULL /\ par[init] = idle
  /\ \A i \in 1 .. Len(pl) : pl[i] # init =>
       \E j \in i + 1 .. Len(pl) : par[pl[i]] = pl[j]

\* No process sleeps without a child that has not exited.
Owed(st, par) ==
  \A p \in Pid \ {idle} : st[p] = "SLEEPING" =>
    \E c \in Pid : par[c] = p /\ st[c] \notin {"FREE", "ZOMBIE"}

\* Parents come later in the list than their children, and a sleeping
\* process has a child that has not exited: so the first process of the list
\* that has not exited is not asleep.
LEMMA SomeoneIsRunnable ==
  ASSUME NEW st \in [Pid -> States], NEW pl \in Seq(Pid), NEW par,
         Ordered(st, pl, par), Owed(st, par),
         init \in Pid, st[init] \notin {"FREE", "ZOMBIE"}
  PROVE  \E i \in 1 .. Len(pl) : st[pl[i]] = "RUNNABLE"
<1> USE DEF Ordered, Owed
<1> DEFINE Up == {i \in 1 .. Len(pl) : st[pl[i]] # "ZOMBIE"}
           f == First(Up)
<1>1. Up # {}
  BY DEF idle, init
<1>2. f \in Up /\ \A j \in Up : f <= j
  <2> HIDE DEF Up
  <2>1. Up \subseteq 1 .. Len(pl) /\ Len(pl) \in Nat
    BY DEF Up
  <2> QED BY <1>1, <2>1, FirstExists
<1> HIDE DEF f
<1>3. pl[f] \in Pid /\ pl[f] # idle /\ st[pl[f]] \in {"SLEEPING", "RUNNABLE"}
  <2>1. pl[f] \in {p \in Pid : st[p] # "FREE"} \ {idle}
    BY <1>2
  <2>2. st[pl[f]] # "ZOMBIE"
    BY <1>2
  <2> QED BY <2>1, <2>2 DEF States
<1>4. ASSUME st[pl[f]] = "SLEEPING" PROVE FALSE
  <2>1. PICK c \in Pid : par[c] = pl[f] /\ st[c] \notin {"FREE", "ZOMBIE"}
    BY <1>3, <1>4
  <2>2. c # idle /\ c # init
    BY <1>3, <2>1 DEF idle, NULL, Pid
  <2>3. PICK i \in 1 .. Len(pl) : pl[i] = c
    BY <2>1, <2>2
  <2>4. PICK j \in i + 1 .. Len(pl) : par[c] = pl[j]
    BY <2>2, <2>3
  <2>5. j = f /\ i < f
    <3>1. f \in 1 .. Len(pl) /\ j \in 1 .. Len(pl) /\ i < j
      BY <1>2
    <3>2. pl[j] = pl[f]
      BY <2>1, <2>4
    <3>3. j = f
      BY <3>1, <3>2
    <3> QED BY <3>1, <3>3
  <2>6. i \in Up
    BY <2>1, <2>3
  <2> QED BY <1>2, <2>5, <2>6
<1> QED BY <1>2, <1>3, <1>4

\* schedule() hands the CPU to a runnable process when there is one.
LEMMA NextProcRuns ==
  ASSUME TypeOK, ListOK, NEW st \in [Pid -> States],
         \E i \in 1 .. Len(procList) : st[procList[i]] = "RUNNABLE"
  PROVE  /\ NextProc(st) \in Live \ {idle}
         /\ st[NextProc(st)] = "RUNNABLE"
<1> DEFINE start == IF current = idle THEN 0 ELSE Position(current)
           R == {i \in 1 .. Len(procList) : st[procList[i]] = "RUNNABLE"}
           after == {i \in R : i > start}
           pick == First(IF after # {} THEN after ELSE R)
<1>1. R # {} /\ R \subseteq 1 .. Len(procList) /\ Len(procList) \in Nat
  BY DEF TypeOK
<1>2. after \subseteq R
  OBVIOUS
<1>3. NextProc(st) = procList[pick]
  BY <1>1 DEF NextProc
<1>4. pick \in R
  <2> HIDE DEF R, after
  <2>1. CASE after # {}
    BY <1>1, <1>2, <2>1, FirstExists
  <2>2. CASE after = {}
    BY <1>1, <2>2, FirstExists
  <2> QED BY <2>1, <2>2
<1> HIDE DEF pick
<1> QED BY <1>3, <1>4 DEF ListOK

-----------------------------------------------------------------------------
(* Each operation of proc.c keeps the invariant.                           *)

USE DEF NULL, idle, init

\* The constants idle, init and NULL as the provers need them.
LEMMA PidFacts == idle \in Pid /\ init \in Pid /\ NULL \notin Pid /\ Pid \subseteq Int
BY PidAssumption DEF Pid

\* do_fork: the new process is first in proc_list, before its parent, and is
\* owed by nobody who sleeps.
LEMMA ForkKeeps ==
  ASSUME IInv, panic = "none", current # idle,
         NEW entry \in {"user_main", "user"}, NEW return \in Labels,
         \/ current = init /\ return = "init_wait"
         \/ current # init /\ return = "trapret",
         DoFork(entry, return)
  PROVE  IInv'
<1> USE PidFacts
<1> PICK p \in Pid \ Live :
      /\ state' = [state EXCEPT ![p] = "RUNNABLE"]
      /\ parent' = [parent EXCEPT ![p] = current]
      /\ procList' = <<p>> \o procList
      /\ pc' = [pc EXCEPT ![p] = entry, ![current] = return]
  BY DEF DoFork
<1>1. /\ nr_process < MAX_PROCESS /\ nr_process' = nr_process + 1
      /\ panic' = IF current \in waiting THEN "fork: wait_state" ELSE panic
      /\ UNCHANGED <<current, exiting, waiting, needResched, waitPid>>
  BY DEF DoFork, HasRoom
<1>2. /\ TypeOK /\ Bookkeeping /\ ListOK /\ TreeOK /\ SleepersAreOwed
      /\ RunningIsRunnable
  BY DEF IInv
<1>3. current \in Pid /\ state[current] = "RUNNABLE" /\ current # p
      /\ current \notin waiting /\ p \notin waiting
      /\ state[p] = "FREE" /\ p # idle /\ p # init /\ current \in Live
  BY <1>2 DEF TypeOK, RunningIsRunnable, Bookkeeping, Live, TreeOK
<1>4. panic' = panic
  BY <1>1, <1>3
<1>5. /\ procList' \in Seq(Pid) /\ Len(procList') = Len(procList) + 1
      /\ procList'[1] = p /\ Len(procList) \in Nat
      /\ \A i \in 1 .. Len(procList) : procList'[i + 1] = procList[i]
  BY <1>2, AddAtHead DEF TypeOK
<1>6. Live' = Live \cup {p}
  BY <1>2 DEF Live, TypeOK
<1>7. TypeOK'
  BY <1>1, <1>2, <1>3, <1>4, <1>5, PidAssumption DEF TypeOK, States, Labels
<1>8. Bookkeeping'
  BY <1>1, <1>2, <1>3 DEF TypeOK, Bookkeeping
<1>9. ListOK'
  <2>1. \A i \in 1 .. Len(procList) : procList[i] \in Live \ {idle}
    BY <1>2 DEF ListOK
  <2>2. \A i \in 2 .. Len(procList') :
           i - 1 \in 1 .. Len(procList) /\ procList'[i] = procList[i - 1]
    BY <1>5
  <2>3. {procList'[i] : i \in 1 .. Len(procList')} = Live' \ {idle}
    BY <1>2, <1>3, <1>5, <1>6, <2>1, <2>2 DEF ListOK
  <2>4. \A i, j \in 1 .. Len(procList') : procList'[i] = procList'[j] => i = j
    BY <1>2, <1>5, <2>1, <2>2 DEF ListOK
  <2>5. nr_process' = Len(procList') + 1
    BY <1>1, <1>2, <1>5 DEF ListOK
  <2> QED BY <2>3, <2>4, <2>5 DEF ListOK
<1>10. TreeOK'
  <2>1. {idle, init} \subseteq Live' /\ parent'[idle] = NULL /\ parent'[init] = idle
    BY <1>2, <1>3, <1>6 DEF TreeOK
  <2>2. ASSUME NEW i \in 1 .. Len(procList'), procList'[i] # init
        PROVE  \E j \in i + 1 .. Len(procList') : parent'[procList'[i]] = procList'[j]
    <3>1. CASE i = 1
      <4>1. PICK j \in 1 .. Len(procList) : procList[j] = current
        BY <1>2, <1>3 DEF ListOK
      <4>2. parent'[procList'[1]] = procList'[j + 1]
        BY <1>2, <1>5, <4>1 DEF TypeOK
      <4> QED BY <1>5, <3>1, <4>1, <4>2
    <3>2. CASE i # 1
      <4>1. i - 1 \in 1 .. Len(procList) /\ procList'[i] = procList[i - 1]
        BY <1>5, <3>2
      <4>2. PICK j \in (i - 1) + 1 .. Len(procList) : parent[procList[i - 1]] = procList[j]
        BY <1>2, <2>2, <4>1 DEF TreeOK
      <4>3. procList[i - 1] # p /\ procList[i - 1] \in Pid
        BY <1>2, <4>1 DEF ListOK, Live
      <4>4. parent'[procList'[i]] = procList'[j + 1]
        BY <1>2, <1>5, <4>1, <4>2, <4>3 DEF TypeOK
      <4>5. j + 1 \in i + 1 .. Len(procList')
        BY <1>5, <4>1
      <4> QED BY <4>4, <4>5
    <3> QED BY <3>1, <3>2
  <2>3. \A q \in Live' \ {idle, init} : state'[parent'[q]] # "ZOMBIE"
    BY <1>2, <1>3, <1>6 DEF TreeOK, TypeOK, Live
  <2> QED BY <2>1, <2>2, <2>3 DEF TreeOK
<1>11. SleepersAreOwed'
  <2> SUFFICES ASSUME NEW q \in Live', state'[q] = "SLEEPING"
               PROVE  /\ pc'[q] = "woken" /\ q \in waiting'
                      /\ Awaited(q)' # {}
                      /\ \A c \in Awaited(q)' : state'[c] # "ZOMBIE"
    BY DEF SleepersAreOwed
  <2>1. q # p /\ q # current /\ q \in Live /\ state[q] = "SLEEPING"
    BY <1>2, <1>3, <1>6 DEF TypeOK
  <2>2. Awaited(q)' = Awaited(q)
    BY <1>1, <1>2, <1>3, <1>6, <2>1 DEF Awaited, Children, TypeOK, Live
  <2>3. \A c \in Awaited(q) : c \in Live /\ state'[c] = state[c]
    BY <1>2 DEF Awaited, Children, Live, TypeOK
  <2>4. /\ pc[q] = "woken" /\ q \in waiting /\ Awaited(q) # {}
        /\ \A c \in Awaited(q) : state[c] # "ZOMBIE"
    BY <1>2, <2>1 DEF SleepersAreOwed
  <2>5. pc'[q] = pc[q] /\ waiting' = waiting
    BY <1>1, <1>2, <2>1 DEF TypeOK, Live
  <2> QED BY <2>2, <2>3, <2>4, <2>5
<1>12. IdleNeverReturns' /\ RunningIsRunnable' /\ NoProtocolPanic'
  BY <1>1, <1>2, <1>3, <1>4 DEF IdleNeverReturns, RunningIsRunnable,
     NoProtocolPanic, ProtocolPanics, TypeOK
<1> QED BY <1>7, <1>8, <1>9, <1>10, <1>11, <1>12 DEF IInv

\* When the parts of the invariant that do not speak of `current' hold after
\* a step that ends in schedule(), the rest does too.
LEMMA Dispatch ==
  ASSUME TypeOK, ListOK, state' \in [Pid -> States], procList' = procList,
         Bookkeeping', ListOK', TreeOK', SleepersAreOwed',
         current' = NextProc(state')
  PROVE  current' \in Pid /\ current' # idle /\ IdleNeverReturns' /\ RunningIsRunnable'
<1> USE PidFacts
<1>1. Owed(state', parent')
  <2> SUFFICES ASSUME NEW p \in Pid \ {idle}, state'[p] = "SLEEPING"
               PROVE  \E c \in Pid : parent'[c] = p /\ state'[c] \notin {"FREE", "ZOMBIE"}
    BY DEF Owed
  <2>1. p \in Live'
    BY DEF Live
  <2>2. PICK c \in Awaited(p)' : state'[c] # "ZOMBIE"
    BY <2>1 DEF SleepersAreOwed
  <2> QED BY <2>2 DEF Awaited, Children, Live
<1>2. Ordered(state', procList, parent')
  BY DEF Ordered, ListOK, TreeOK, Live
<1>3. \E i \in 1 .. Len(procList) : state'[procList[i]] = "RUNNABLE"
  <2>1. state'[init] \notin {"FREE", "ZOMBIE"}
    BY DEF Bookkeeping
  <2>2. procList \in Seq(Pid)
    BY DEF TypeOK
  <2> QED BY <1>1, <1>2, <2>1, <2>2, SomeoneIsRunnable
<1>4. current' \in Live \ {idle} /\ state'[current'] = "RUNNABLE"
  BY <1>3, NextProcRuns
<1>5. current' \in Pid
  BY <1>4 DEF Live
<1>6. pc'[current'] # "dead"
  BY <1>4, <1>5 DEF Bookkeeping
<1> QED BY <1>4, <1>5, <1>6 DEF IdleNeverReturns, RunningIsRunnable

\* init is the last entry of proc_list.
LEMMA InitIsLast ==
  ASSUME TypeOK, ListOK, TreeOK
  PROVE  Len(procList) \in Nat \ {0} /\ procList[Len(procList)] = init
<1> USE PidFacts
<1>1. Len(procList) \in Nat
  BY DEF TypeOK
<1>2. PICK i \in 1 .. Len(procList) : procList[i] = init
  BY DEF ListOK, TreeOK
<1>3. ASSUME procList[Len(procList)] # init PROVE FALSE
  <2>1. Len(procList) \in 1 .. Len(procList)
    BY <1>1, <1>2
  <2>2. PICK j \in Len(procList) + 1 .. Len(procList) : TRUE
    BY <1>3, <2>1 DEF TreeOK
  <2> QED BY <1>1, <2>2
<1> QED BY <1>1, <1>2, <1>3

\* do_exit: those who sleep for the exiting process are woken, and so is init
\* when it inherits a zombie; init is last in proc_list, after every orphan.
LEMMA ExitKeeps ==
  ASSUME IInv, panic = "none", current # idle,
         current = init => init \in exiting,
         DoExit
  PROVE  IInv'
<1> USE PidFacts
<1>1. /\ TypeOK /\ Bookkeeping /\ ListOK /\ TreeOK /\ SleepersAreOwed
      /\ IdleNeverReturns /\ RunningIsRunnable /\ NoProtocolPanic
  BY DEF IInv
<1>2. CASE current = init
  <2>1. /\ panic' = "initproc exit"
        /\ UNCHANGED <<current, state, parent, procList, nr_process, exiting,
                       waiting, needResched, pc, waitPid>>
    BY <1>2 DEF DoExit, Stops
  <2>2. TypeOK' /\ Bookkeeping'
    BY <1>1, <2>1 DEF TypeOK, Bookkeeping, Panics
  <2> Live' = Live
    BY <2>1 DEF Live
  <2>3. ListOK'
    BY <1>1, <2>1 DEF ListOK
  <2>6. TreeOK'
    BY <1>1, <2>1 DEF TreeOK
  <2>4. SleepersAreOwed'
    BY <1>1, <2>1 DEF SleepersAreOwed, Awaited, Children, Live
  <2>5. IdleNeverReturns' /\ RunningIsRunnable' /\ NoProtocolPanic'
    BY <1>1, <1>2, <2>1 DEF IdleNeverReturns, RunningIsRunnable, NoProtocolPanic,
       ProtocolPanics
  <2> QED BY <2>2, <2>3, <2>4, <2>5, <2>6 DEF IInv
<1>3. CASE current # init
  <2> DEFINE W == WokenByExit
  <2>1. current \in Pid /\ state[current] = "RUNNABLE" /\ current \notin waiting
    BY <1>1 DEF TypeOK, RunningIsRunnable, Bookkeeping
  <2>2. /\ W \subseteq waiting /\ W \subseteq Pid /\ current \notin W
        /\ \A q \in W : state[q] = "SLEEPING"
    BY <1>1, <2>1 DEF WokenByExit, TypeOK, Bookkeeping
  <2>3. Woken(W) = W
    BY <2>2 DEF Woken
  <2>4. state' = [p \in Pid |-> IF p \in W THEN "RUNNABLE"
                                ELSE IF p = current THEN "ZOMBIE" ELSE state[p]]
    BY <1>1, <1>3, <2>1, <2>3 DEF DoExit, Wakeup, TypeOK
  <2>5. /\ panic' = panic /\ waiting' = waiting \ W
        /\ parent' = [p \in Pid |-> IF p \in Children(current) THEN init ELSE parent[p]]
        /\ pc' = [pc EXCEPT ![current] = "dead"]
        /\ current' = NextProc(state') /\ needResched' = needResched \ {current}
        /\ UNCHANGED <<procList, nr_process, exiting, waitPid>>
    BY <1>1, <1>3, <2>1, <2>2, <2>3 DEF DoExit, AdoptedByInit, Schedule, TypeOK
  <2> HIDE DEF W
  <2>6. Live' = Live /\ current \in Live /\ W \subseteq Live
    BY <2>1, <2>2, <2>4 DEF Live
  <2>7. state' \in [Pid -> States] /\ parent' \in [Pid -> Pid \cup {NULL}]
    BY <1>1, <2>4, <2>5 DEF TypeOK, States
  <2>8. Bookkeeping'
    BY <1>1, <1>3, <2>1, <2>2, <2>4, <2>5 DEF Bookkeeping, TypeOK
  <2>9. ListOK'
    BY <1>1, <2>5, <2>6 DEF ListOK
  <2>10. TreeOK'
    <3>1. idle \notin Children(current) /\ init \notin Children(current)
      BY <1>1, <2>1 DEF Children, TreeOK
    <3>2. {idle, init} \subseteq Live' /\ parent'[idle] = NULL /\ parent'[init] = idle
      BY <1>1, <2>5, <2>6, <3>1 DEF TreeOK
    <3>3. ASSUME NEW i \in 1 .. Len(procList), procList[i] # init
          PROVE  \E j \in i + 1 .. Len(procList) : parent'[procList[i]] = procList[j]
      <4>1. procList[i] \in Pid
        BY <1>1 DEF ListOK, Live
      <4>2. CASE procList[i] \in Children(current)
        BY <1>1, <2>5, <3>3, <4>1, <4>2, InitIsLast
      <4>3. CASE procList[i] \notin Children(current)
        BY <1>1, <2>5, <3>3, <4>1, <4>3 DEF TreeOK
      <4> QED BY <4>2, <4>3
    <3>4. ASSUME NEW p \in Live \ {idle, init}
          PROVE  state'[parent'[p]] # "ZOMBIE"
      <4>1. state'[init] # "ZOMBIE"
        BY <1>1, <1>3, <2>4 DEF Bookkeeping
      <4>2. p \in Pid
        BY DEF Live
      <4>3. CASE p \in Children(current)
        BY <2>5, <4>1, <4>2, <4>3
      <4>4. CASE p \notin Children(current)
        <5>1. parent'[p] = parent[p] /\ parent[p] # current
          BY <2>5, <4>2, <4>4 DEF Children
        <5>2. state[parent[p]] # "ZOMBIE"
          BY <1>1 DEF TreeOK
        <5>3. parent[p] \in Pid
          <6>1. PICK i \in 1 .. Len(procList) : procList[i] = p
            BY <1>1 DEF ListOK
          <6>2. PICK j \in i + 1 .. Len(procList) : parent[p] = procList[j]
            BY <1>1, <6>1 DEF TreeOK
          <6>3. j \in 1 .. Len(procList)
            OBVIOUS
          <6> QED BY <1>1, <6>2, <6>3 DEF ListOK, Live
        <5> QED BY <2>4, <5>1, <5>2, <5>3
      <4> QED BY <4>3, <4>4
    <3> QED BY <2>5, <2>6, <3>2, <3>3, <3>4 DEF TreeOK
  <2>11. SleepersAreOwed'
    <3> SUFFICES ASSUME NEW q \in Live', state'[q] = "SLEEPING"
                 PROVE  /\ pc'[q] = "woken" /\ q \in waiting'
                        /\ Awaited(q)' # {}
                        /\ \A c \in Awaited(q)' : state'[c] # "ZOMBIE"
      BY DEF SleepersAreOwed
    <3>1. q \in Pid /\ q \in Live /\ q \notin W /\ q # current /\ state[q] = "SLEEPING"
      BY <2>4, <2>6 DEF Live
    <3>2. /\ pc[q] = "woken" /\ q \in waiting /\ Awaited(q) # {}
          /\ \A c \in Awaited(q) : state[c] # "ZOMBIE"
      BY <1>1, <3>1 DEF SleepersAreOwed
    <3>3. current \notin Awaited(q)
      BY <3>1, <3>2 DEF W, WokenByExit, Awaited, Children
    <3>4. pc'[q] = pc[q] /\ q \in waiting'
      BY <1>1, <2>5, <3>1, <3>2 DEF TypeOK
    <3>5. Awaited(q) \subseteq Awaited(q)'
      <4> SUFFICES ASSUME NEW c \in Awaited(q) PROVE c \in Awaited(q)'
        OBVIOUS
      <4>1. c \in Pid /\ c \in Live /\ parent[c] = q /\ waitPid[q] \in {0, c}
        BY DEF Awaited, Children, Live
      <4>2. c \notin Children(current)
        BY <3>1, <4>1 DEF Children
      <4> QED BY <2>5, <2>6, <4>1, <4>2 DEF Awaited, Children
    <3>6. ASSUME NEW c \in Awaited(q)' PROVE state'[c] # "ZOMBIE"
      <4>1. c \in Pid /\ c \in Live /\ parent'[c] = q /\ waitPid[q] \in {0, c}
        BY <2>5, <2>6 DEF Awaited, Children, Live
      <4>2. CASE c \in Children(current)
        <5>1. q = init
          BY <2>5, <4>1, <4>2
        <5>2. state[c] # "ZOMBIE"
          BY <3>1, <3>2, <4>2, <5>1 DEF W, WokenByExit
        <5>3. c # current
          <6>1. PICK i \in 1 .. Len(procList) : procList[i] = current
            BY <1>1, <2>6 DEF ListOK
          <6>2. PICK j \in i + 1 .. Len(procList) : parent[current] = procList[j]
            BY <1>1, <1>3, <6>1 DEF TreeOK
          <6>3. j \in 1 .. Len(procList) /\ j # i
            OBVIOUS
          <6>4. parent[current] # current
            BY <1>1, <6>1, <6>2, <6>3 DEF ListOK
          <6> QED BY <4>2, <6>4 DEF Children
        <5> QED BY <2>4, <4>1, <5>2, <5>3
      <4>3. CASE c \notin Children(current)
        <5>1. c \in Awaited(q)
          BY <2>5, <4>1, <4>3 DEF Awaited, Children
        <5>2. state[c] # "ZOMBIE" /\ c # current
          BY <3>2, <3>3, <5>1
        <5> QED BY <2>4, <4>1, <5>2
      <4> QED BY <4>2, <4>3
    <3> QED BY <3>2, <3>4, <3>5, <3>6
  <2>12. current' \in Pid /\ IdleNeverReturns' /\ RunningIsRunnable'
    BY <1>1, <2>5, <2>7, <2>8, <2>9, <2>10, <2>11, Dispatch
  <2>13. TypeOK'
    BY <1>1, <2>1, <2>5, <2>7, <2>12 DEF TypeOK, Labels
  <2>14. NoProtocolPanic'
    BY <1>1, <2>5 DEF NoProtocolPanic
  <2> QED BY <2>8, <2>9, <2>10, <2>11, <2>12, <2>13, <2>14 DEF IInv
<1> QED BY <1>2, <1>3

\* do_wait's `found': a zombie has no children, and its removal from the list
\* moves nobody past another.
LEMMA ReapKeeps ==
  ASSUME IInv, panic = "none", current # idle,
         NEW z \in Children(current), state[z] = "ZOMBIE", NEW return \in Labels,
         \/ current = init /\ return = "init_sched"
         \/ current # init /\ return = "trapret",
         Reap(z, return)
  PROVE  IInv'
<1> USE PidFacts
<1> DEFINE k == Position(z)
<1>1. /\ TypeOK /\ Bookkeeping /\ ListOK /\ TreeOK /\ SleepersAreOwed
      /\ IdleNeverReturns /\ RunningIsRunnable /\ NoProtocolPanic
  BY DEF IInv
<1>2. /\ z \in Pid /\ z \in Live /\ z # idle /\ z # init /\ z # current
      /\ z \notin waiting /\ parent[z] = current
  BY <1>1 DEF Children, Live, TreeOK, RunningIsRunnable, Bookkeeping
<1>3. /\ state' = [state EXCEPT ![z] = "FREE"]
      /\ parent' = [parent EXCEPT ![z] = NULL]
      /\ procList' = RemoveAt(procList, k)
      /\ nr_process' = nr_process - 1
      /\ exiting' = exiting \ {z} /\ waiting' = waiting /\ panic' = panic
      /\ needResched' = needResched \ {z}
      /\ pc' = [pc EXCEPT ![z] = "none", ![current] = return]
      /\ waitPid' = [waitPid EXCEPT ![z] = 0, ![current] = 0]
      /\ current' = current
  BY <1>2 DEF Reap, Unlinked
<1>4. current \in Pid /\ state[current] = "RUNNABLE" /\ current \in Live
  BY <1>1 DEF TypeOK, RunningIsRunnable, Live
<1>5. k \in 1 .. Len(procList) /\ procList[k] = z
  <2>1. \E i \in 1 .. Len(procList) : procList[i] = z
    BY <1>1, <1>2 DEF ListOK
  <2> QED BY <2>1 DEF Position
<1> HIDE DEF k
<1>6. /\ procList' \in Seq(Pid) /\ Len(procList') = Len(procList) - 1
      /\ Len(procList) \in Nat
      /\ \A i \in 1 .. k - 1 : procList'[i] = procList[i]
      /\ \A i \in k .. Len(procList) - 1 : procList'[i] = procList[i + 1]
  <2>1. procList \in Seq(Pid) /\ Len(procList) \in Nat
    BY <1>1 DEF TypeOK
  <2>2. /\ RemoveAt(procList, k) \in Seq(Pid)
        /\ Len(RemoveAt(procList, k)) = Len(procList) - 1
        /\ \A i \in 1 .. k - 1 : RemoveAt(procList, k)[i] = procList[i]
        /\ \A i \in k .. Len(procList) - 1 :
             RemoveAt(procList, k)[i] = procList[i + 1]
    BY <2>1, <1>5, DeleteAt
  <2> QED BY <2>1, <2>2, <1>3
<1>7. Live' = Live \ {z}
  BY <1>1, <1>3 DEF Live, TypeOK
<1>8. Bookkeeping'
  BY <1>1, <1>2, <1>3, <1>4 DEF Bookkeeping, TypeOK
<1>9. \A i \in 1 .. Len(procList') :
        \E h \in 1 .. Len(procList) :
          /\ h # k /\ procList'[i] = procList[h]
          /\ h = IF i < k THEN i ELSE i + 1
  <2> SUFFICES ASSUME NEW i \in 1 .. Len(procList')
               PROVE  LET h == IF i < k THEN i ELSE i + 1
                      IN  /\ h \in 1 .. Len(procList) /\ h # k
                          /\ procList'[i] = procList[h]
    OBVIOUS
  <2>1. CASE i < k
    BY <1>5, <1>6, <2>1
  <2>2. CASE i >= k
    BY <1>5, <1>6, <2>2
  <2> QED BY <1>5, <2>1, <2>2
<1>10. \A h \in 1 .. Len(procList) : h # k =>
        \E i \in 1 .. Len(procList') :
          /\ procList'[i] = procList[h]
          /\ i = IF h < k THEN h ELSE h - 1
  <2> SUFFICES ASSUME NEW h \in 1 .. Len(procList), h # k
               PROVE  LET i == IF h < k THEN h ELSE h - 1
                      IN  /\ i \in 1 .. Len(procList')
                          /\ procList'[i] = procList[h]
    OBVIOUS
  <2>1. CASE h < k
    BY <1>5, <1>6, <2>1
  <2>2. CASE h > k
    <3>1. h - 1 \in k .. Len(procList) - 1 /\ (h - 1) + 1 = h
      BY <1>5, <1>6, <2>2
    <3> QED BY <1>5, <1>6, <2>2, <3>1
  <2> QED BY <1>5, <2>1, <2>2
<1>11. ListOK'
  <2>1. \A i \in 1 .. Len(procList') : procList'[i] \in Live' \ {idle}
    BY <1>1, <1>5, <1>7, <1>9 DEF ListOK
  <2>2. \A p \in Live' \ {idle} : \E i \in 1 .. Len(procList') : procList'[i] = p
    <3> SUFFICES ASSUME NEW p \in Live \ {idle}, p # z
                 PROVE  \E i \in 1 .. Len(procList') : procList'[i] = p
      BY <1>7
    <3>1. PICK h \in 1 .. Len(procList) : procList[h] = p
      BY <1>1 DEF ListOK
    <3> QED BY <1>5, <1>10, <3>1
  <2>3. \A i, j \in 1 .. Len(procList') : procList'[i] = procList'[j] => i = j
    <3> SUFFICES ASSUME NEW i \in 1 .. Len(procList'), NEW j \in 1 .. Len(procList'),
                        procList'[i] = procList'[j]
                 PROVE  i = j
      OBVIOUS
    <3>1. PICK h \in 1 .. Len(procList) :
            /\ procList'[i] = procList[h] /\ h = IF i < k THEN i ELSE i + 1
      BY <1>9
    <3>2. PICK g \in 1 .. Len(procList) :
            /\ procList'[j] = procList[g] /\ g = IF j < k THEN j ELSE j + 1
      BY <1>9
    <3>3. h = g
      BY <1>1, <3>1, <3>2 DEF ListOK
    <3> QED BY <1>5, <1>6, <3>1, <3>2, <3>3
  <2>4. nr_process' = Len(procList') + 1
    BY <1>1, <1>3, <1>6 DEF ListOK
  <2> QED BY <2>1, <2>2, <2>3, <2>4 DEF ListOK
<1>12. TreeOK'
  <2>1. {idle, init} \subseteq Live' /\ parent'[idle] = NULL /\ parent'[init] = idle
    BY <1>1, <1>2, <1>3, <1>7 DEF TreeOK
  <2>2. ASSUME NEW i \in 1 .. Len(procList'), procList'[i] # init
        PROVE  \E j \in i + 1 .. Len(procList') : parent'[procList'[i]] = procList'[j]
    <3>1. PICK h \in 1 .. Len(procList) :
            h # k /\ procList'[i] = procList[h] /\ h = IF i < k THEN i ELSE i + 1
      BY <1>9
    <3>2. PICK j \in h + 1 .. Len(procList) : parent[procList[h]] = procList[j]
      BY <1>1, <2>2, <3>1 DEF TreeOK
    <3>3. procList[h] \in Live \ {idle, init} /\ procList[h] # z
      BY <1>1, <1>5, <2>2, <3>1 DEF ListOK
    <3>4. j # k
      BY <1>1, <1>5, <3>2, <3>3 DEF TreeOK
    <3>5. j \in 1 .. Len(procList)
      OBVIOUS
    <3>6. PICK m \in 1 .. Len(procList') :
            procList'[m] = procList[j] /\ m = IF j < k THEN j ELSE j - 1
      BY <1>10, <3>4, <3>5
    <3>7. m \in i + 1 .. Len(procList')
      BY <1>5, <1>6, <3>1, <3>4, <3>6
    <3>8. parent'[procList'[i]] = parent[procList[h]]
      BY <1>1, <1>3, <3>1, <3>3 DEF TypeOK, Live
    <3> QED BY <3>2, <3>6, <3>7, <3>8
  <2>3. ASSUME NEW p \in Live' \ {idle, init} PROVE state'[parent'[p]] # "ZOMBIE"
    <3>1. p \in Live /\ p # z /\ p \in Pid /\ state[parent[p]] # "ZOMBIE"
      BY <1>1, <1>7 DEF TreeOK, Live
    <3>2. parent'[p] = parent[p] /\ parent[p] # z
      BY <1>1, <1>3, <3>1 DEF TypeOK
    <3>3. state'[parent[p]] = state[parent[p]]
      BY <1>3, <3>2
    <3> QED BY <3>1, <3>2, <3>3
  <2> QED BY <2>1, <2>2, <2>3 DEF TreeOK
<1>13. SleepersAreOwed'
  <2> SUFFICES ASSUME NEW q \in Live', state'[q] = "SLEEPING"
               PROVE  /\ pc'[q] = "woken" /\ q \in waiting'
                      /\ Awaited(q)' # {}
                      /\ \A c \in Awaited(q)' : state'[c] # "ZOMBIE"
    BY DEF SleepersAreOwed
  <2>1. q \in Pid /\ q # z /\ q # current /\ q \in Live /\ state[q] = "SLEEPING"
    BY <1>1, <1>3, <1>4, <1>7 DEF TypeOK, Live
  <2>2. /\ pc[q] = "woken" /\ q \in waiting /\ Awaited(q) # {}
        /\ \A c \in Awaited(q) : state[c] # "ZOMBIE"
    BY <1>1, <2>1 DEF SleepersAreOwed
  <2>3. Awaited(q)' = Awaited(q)
    BY <1>1, <1>2, <1>3, <1>7, <2>1 DEF Awaited, Children, TypeOK, Live
  <2>4. z \notin Awaited(q)
    BY <2>2
  <2>5. \A c \in Awaited(q) : state'[c] = state[c]
    BY <1>1, <1>3, <2>4 DEF Awaited, Children, Live, TypeOK
  <2>6. pc'[q] = pc[q] /\ waiting' = waiting
    BY <1>1, <1>3, <2>1 DEF TypeOK
  <2> QED BY <2>2, <2>3, <2>5, <2>6
<1>14. IdleNeverReturns' /\ RunningIsRunnable'
  BY <1>1, <1>2, <1>3, <1>4 DEF IdleNeverReturns, RunningIsRunnable, TypeOK
<1>15. NoProtocolPanic'
  BY <1>3 DEF NoProtocolPanic, ProtocolPanics
<1>16. TypeOK'
  <2>1. nr_process' \in 2 .. MAX_PROCESS
    <3>1. init \in Live' \ {idle}
      BY <1>1, <1>2, <1>7 DEF TreeOK
    <3>2. PICK i \in 1 .. Len(procList') : procList'[i] = init
      BY <1>11, <3>1 DEF ListOK
    <3> QED BY <1>1, <1>3, <1>6, <1>11, <3>2, PidAssumption DEF TypeOK, ListOK
  <2> QED BY <1>1, <1>2, <1>3, <1>4, <1>6, <2>1 DEF TypeOK, States, Labels
<1> QED BY <1>8, <1>11, <1>12, <1>13, <1>14, <1>15, <1>16 DEF IInv

\* The list is in order as long as it and the set of processes stay the same.
LEMMA SameList ==
  ASSUME ListOK, Live' = Live, procList' = procList, nr_process' = nr_process
  PROVE  ListOK'
BY DEF ListOK

\* do_wait's sleep: whoever goes to sleep is owed a wakeup by the child it saw.
LEMMA SleepKeeps ==
  ASSUME IInv, panic = "none", current # idle,
         NEW pid \in Pid, current = init => pid = 0,
         Candidates(pid) # {},
         \A c \in Candidates(pid) : state[c] # "ZOMBIE",
         pc[current] # "init_main",
         Sleep(pid)
  PROVE  IInv'
<1> USE PidFacts
<1>1. /\ TypeOK /\ Bookkeeping /\ ListOK /\ TreeOK /\ SleepersAreOwed
      /\ IdleNeverReturns /\ RunningIsRunnable /\ NoProtocolPanic
  BY DEF IInv
<1>2. current \in Pid /\ state[current] = "RUNNABLE" /\ current \in Live
  BY <1>1 DEF TypeOK, RunningIsRunnable, Live
<1>3. /\ state' = [state EXCEPT ![current] = "SLEEPING"]
      /\ waiting' = waiting \cup {current}
      /\ pc' = [pc EXCEPT ![current] = "woken"]
      /\ waitPid' = [waitPid EXCEPT ![current] = pid]
      /\ current' = NextProc(state') /\ needResched' = needResched \ {current}
      /\ UNCHANGED <<parent, procList, nr_process, exiting, panic>>
  BY DEF Sleep, Schedule
<1>4. Live' = Live /\ state' \in [Pid -> States]
  BY <1>1, <1>2, <1>3 DEF Live, TypeOK, States
<1>5. Bookkeeping'
  BY <1>1, <1>2, <1>3 DEF Bookkeeping, TypeOK
<1>6. ListOK'
  <2>1. ListOK /\ procList' = procList /\ nr_process' = nr_process
    BY <1>1, <1>3
  <2> QED BY <1>4, <2>1, SameList
<1>7. TreeOK'
  <2>1. \A p \in Pid : state'[p] = "ZOMBIE" => state[p] = "ZOMBIE"
    BY <1>1, <1>2, <1>3 DEF TypeOK
  <2>2. \A p \in Live \ {idle, init} : parent[p] \in Pid
    <3> SUFFICES ASSUME NEW p \in Live \ {idle, init} PROVE parent[p] \in Pid
      OBVIOUS
    <3>1. PICK i \in 1 .. Len(procList) : procList[i] = p
      BY <1>1 DEF ListOK
    <3>2. PICK j \in i + 1 .. Len(procList) : parent[p] = procList[j]
      BY <1>1, <3>1 DEF TreeOK
    <3>3. j \in 1 .. Len(procList)
      OBVIOUS
    <3> QED BY <1>1, <3>2, <3>3 DEF ListOK, Live
  <2>3. \A p \in Live \ {idle, init} : state'[parent[p]] # "ZOMBIE"
    BY <1>1, <2>1, <2>2 DEF TreeOK
  <2> QED BY <1>1, <1>3, <1>4, <2>3 DEF TreeOK
<1>8. SleepersAreOwed'
  <2> SUFFICES ASSUME NEW q \in Live', state'[q] = "SLEEPING"
               PROVE  /\ pc'[q] = "woken" /\ q \in waiting'
                      /\ Awaited(q)' # {}
                      /\ \A c \in Awaited(q)' : state'[c] # "ZOMBIE"
    BY DEF SleepersAreOwed
  <2>1. q \in Pid /\ q \in Live
    BY <1>4 DEF Live
  <2>2. \A c \in Live : state'[c] = "ZOMBIE" => state[c] = "ZOMBIE"
    BY <1>1, <1>2, <1>3 DEF TypeOK, Live
  <2>3. CASE q = current
    <3>1. Awaited(q)' = Candidates(pid)
      <4>1. idle \notin Children(current)
        BY <1>1, <1>2 DEF Children, TreeOK
      <4>2. waitPid'[q] = pid /\ Children(q)' = Children(current)
        BY <1>1, <1>2, <1>3, <1>4, <2>3 DEF TypeOK, Children
      <4>3. Awaited(q)' = {c \in Children(current) : pid \in {0, c}}
        BY <4>2 DEF Awaited
      <4>4. CASE pid = 0
        BY <4>3, <4>4 DEF Candidates
      <4>5. CASE pid # 0
        BY <4>1, <4>3, <4>5 DEF Candidates
      <4> QED BY <4>4, <4>5
    <3>2. Candidates(pid) \subseteq Live
      BY DEF Candidates, Children
    <3> QED BY <1>1, <1>2, <1>3, <2>2, <2>3, <3>1, <3>2 DEF TypeOK
  <2>4. CASE q # current
    <3>1. state[q] = "SLEEPING"
      BY <1>1, <1>3, <2>1, <2>4 DEF TypeOK
    <3>2. /\ pc[q] = "woken" /\ q \in waiting /\ Awaited(q) # {}
          /\ \A c \in Awaited(q) : state[c] # "ZOMBIE"
      BY <1>1, <2>1, <3>1 DEF SleepersAreOwed
    <3>3. Awaited(q)' = Awaited(q) /\ Awaited(q) \subseteq Live
      BY <1>1, <1>3, <1>4, <2>1, <2>4 DEF Awaited, Children, TypeOK
    <3>4. pc'[q] = pc[q] /\ q \in waiting'
      BY <1>1, <1>3, <2>1, <2>4, <3>2 DEF TypeOK
    <3> QED BY <2>2, <3>2, <3>3, <3>4
  <2> QED BY <2>3, <2>4
<1>9. current' \in Pid /\ IdleNeverReturns' /\ RunningIsRunnable'
  BY <1>1, <1>3, <1>4, <1>5, <1>6, <1>7, <1>8, Dispatch
<1>10. TypeOK'
  BY <1>1, <1>2, <1>3, <1>4, <1>9 DEF TypeOK, Labels
<1>11. NoProtocolPanic'
  BY <1>1, <1>3 DEF NoProtocolPanic
<1> QED BY <1>5, <1>6, <1>7, <1>8, <1>9, <1>10, <1>11 DEF IInv

\* A step that leaves the processes and their family alone, and moves current
\* to another label of the same kind, keeps the parts of the invariant that do
\* not speak of the CPU.
LEMMA StaysKeeps ==
  ASSUME IInv, current # idle \/ pc' = pc,
         UNCHANGED <<state, parent, procList, nr_process, waiting>>,
         waitPid' = waitPid \/ waitPid' = [waitPid EXCEPT ![current] = 0],
         \/ pc' = pc
         \/ /\ current # init
            /\ \E l \in {"user", "trapret"} : pc' = [pc EXCEPT ![current] = l]
         \/ current = init /\ pc' = [pc EXCEPT ![current] = "init_wait"]
  PROVE  /\ Bookkeeping' /\ ListOK' /\ TreeOK' /\ SleepersAreOwed'
         /\ pc' \in [Pid -> Labels] /\ waitPid' \in [Pid -> Pid]
<1> USE PidFacts
<1>1. /\ TypeOK /\ Bookkeeping /\ ListOK /\ TreeOK /\ SleepersAreOwed
      /\ RunningIsRunnable
  BY DEF IInv
<1>2. current \in Pid /\ state[current] = "RUNNABLE"
  BY <1>1 DEF TypeOK, RunningIsRunnable
<1>3. Bookkeeping'
  BY <1>1, <1>2 DEF Bookkeeping, TypeOK
<1> Live' = Live
  BY DEF Live
<1>4. ListOK'
  BY <1>1 DEF ListOK
<1>5. TreeOK'
  BY <1>1 DEF TreeOK
<1>6. SleepersAreOwed'
  <2>1. \A q \in Live : state[q] = "SLEEPING" => pc'[q] = pc[q]
    BY <1>1, <1>2 DEF Live, TypeOK
  <2>2. \A q \in Live : state[q] = "SLEEPING" =>
           q \in Pid /\ q # current /\ waitPid'[q] = waitPid[q]
    BY <1>1, <1>2 DEF Live, TypeOK
  <2>3. \A q \in Live : state[q] = "SLEEPING" => Awaited(q)' = Awaited(q)
    BY <2>2 DEF Awaited, Children
  <2> QED BY <1>1, <2>1, <2>3 DEF SleepersAreOwed
<1>7. pc' \in [Pid -> Labels] /\ waitPid' \in [Pid -> Pid]
  BY <1>1, <1>2 DEF TypeOK, Labels
<1> QED BY <1>3, <1>4, <1>5, <1>6, <1>7

\* schedule() called with the processes as they are.
LEMMA SwitchKeeps ==
  ASSUME IInv, Schedule(state), current # idle \/ pc' = pc,
         UNCHANGED <<state, parent, procList, nr_process, exiting, waiting,
                     waitPid, panic>>,
         \/ pc' = pc
         \/ current # init /\ pc' = [pc EXCEPT ![current] = "user"]
         \/ current = init /\ pc' = [pc EXCEPT ![current] = "init_wait"]
  PROVE  IInv'
<1>1. /\ Bookkeeping' /\ ListOK' /\ TreeOK' /\ SleepersAreOwed'
      /\ pc' \in [Pid -> Labels]
  BY StaysKeeps
<1>2. TypeOK /\ ListOK /\ NoProtocolPanic
  BY DEF IInv
<1>3. current' = NextProc(state') /\ needResched' = needResched \ {current}
  BY DEF Schedule
<1>4. state' \in [Pid -> States]
  BY <1>2 DEF TypeOK
<1>5. current' \in Pid /\ IdleNeverReturns' /\ RunningIsRunnable'
  BY <1>1, <1>2, <1>3, <1>4, Dispatch
<1>6. TypeOK'
  BY <1>1, <1>2, <1>3, <1>5 DEF TypeOK
<1>7. NoProtocolPanic'
  BY <1>2 DEF NoProtocolPanic
<1> QED BY <1>1, <1>5, <1>6, <1>7 DEF IInv

\* The same process keeps the CPU, at another label.
LEMMA ResumeKeeps ==
  ASSUME IInv, current # idle,
         UNCHANGED <<current, state, parent, procList, nr_process, exiting,
                     waiting, panic>>,
         waitPid' = waitPid \/ waitPid' = [waitPid EXCEPT ![current] = 0],
         needResched' \subseteq Pid,
         \/ pc' = pc
         \/ /\ current # init
            /\ \E l \in {"user", "trapret"} : pc' = [pc EXCEPT ![current] = l]
  PROVE  IInv'
<1> USE PidFacts
<1>1. /\ Bookkeeping' /\ ListOK' /\ TreeOK' /\ SleepersAreOwed'
      /\ pc' \in [Pid -> Labels] /\ waitPid' \in [Pid -> Pid]
  BY StaysKeeps
<1>2. TypeOK /\ RunningIsRunnable /\ NoProtocolPanic
  BY DEF IInv
<1>3. TypeOK'
  BY <1>1, <1>2 DEF TypeOK
<1>4. IdleNeverReturns' /\ RunningIsRunnable' /\ NoProtocolPanic'
  BY <1>1, <1>2, <1>3 DEF IdleNeverReturns, RunningIsRunnable, NoProtocolPanic,
                    TypeOK, Bookkeeping
<1> QED BY <1>1, <1>3, <1>4 DEF IInv

\* init_main stops only when init is all that is left besides idle.
LEMMA LastChildGone ==
  ASSUME TypeOK, ListOK, TreeOK, Children(init) = {}
  PROVE  procList = <<init>> /\ nr_process = 2
<1> USE PidFacts
<1> DEFINE n == Len(procList)
<1>1. n \in Nat \ {0} /\ procList[n] = init
  BY InitIsLast
<1>2. ASSUME n # 1 PROVE FALSE
  <2>1. n - 1 \in 1 .. n /\ n \in 1 .. n /\ n - 1 # n
    <3>1. n \in Nat /\ n # 0 /\ n # 1
      BY <1>1, <1>2
    <3> HIDE DEF n
    <3> QED BY <3>1
  <2>2. procList[n - 1] # init
    BY <1>1, <2>1 DEF ListOK
  <2>3. PICK j \in (n - 1) + 1 .. n : parent[procList[n - 1]] = procList[j]
    BY <2>1, <2>2 DEF TreeOK
  <2>4. parent[procList[n - 1]] = init
    BY <1>1, <2>3
  <2>5. procList[n - 1] \in Live
    BY <2>1 DEF ListOK
  <2> QED BY <2>4, <2>5 DEF Children
<1> QED BY <1>1, <1>2 DEF TypeOK, ListOK

\* do_wait, from `repeat' to its return or its schedule().
LEMMA WaitKeeps ==
  ASSUME IInv, panic = "none", current # idle, pc[current] # "init_main",
         NEW pid \in Pid, current = init => pid = 0, DoWait(pid)
  PROVE  IInv'
<1> USE PidFacts
<1>1. TypeOK /\ ListOK /\ TreeOK
  BY DEF IInv
<1>2. CASE WaitReaps(pid)
  <2>1. PICK z \in Candidates(pid) :
          /\ state[z] = "ZOMBIE"
          /\ Reap(z, IF current = init THEN "init_sched" ELSE "trapret")
    BY <1>2 DEF WaitReaps
  <2>2. z \in Children(current)
    BY DEF Candidates
  <2>3. CASE current = init
    BY <2>1, <2>2, <2>3, ReapKeeps DEF Labels
  <2>4. CASE current # init
    BY <2>1, <2>2, <2>4, ReapKeeps DEF Labels
  <2> QED BY <2>3, <2>4
<1>3. CASE WaitSleeps(pid)
  BY <1>3, SleepKeeps DEF WaitSleeps
<1>4. CASE WaitNoChild(pid)
  <2>1. UNCHANGED <<current, state, parent, procList, nr_process, exiting,
                    waiting, needResched>>
    BY <1>4 DEF WaitNoChild
  <2>2. CASE current = init
    <3>1. procList = <<init>> /\ nr_process = 2
      BY <1>1, <1>4, <2>2, LastChildGone DEF WaitNoChild, Candidates
    <3>2. panic' = "initproc exit" /\ UNCHANGED <<pc, waitPid>>
      BY <1>4, <2>2, <3>1 DEF WaitNoChild
    <3>3. /\ Bookkeeping' /\ ListOK' /\ TreeOK' /\ SleepersAreOwed'
          /\ pc' \in [Pid -> Labels]
      BY <2>1, <3>2, StaysKeeps
    <3>4. TypeOK' /\ IdleNeverReturns' /\ RunningIsRunnable' /\ NoProtocolPanic'
      BY <2>1, <3>1, <3>2 DEF IInv, TypeOK, Panics, IdleNeverReturns,
                              RunningIsRunnable, NoProtocolPanic, ProtocolPanics
    <3> QED BY <3>3, <3>4 DEF IInv
  <2>3. CASE current # init
    <3>1. /\ pc' = [pc EXCEPT ![current] = "trapret"] /\ panic' = panic
          /\ waitPid' = [waitPid EXCEPT ![current] = 0]
      BY <1>4, <2>3 DEF WaitNoChild
    <3>2. needResched' \subseteq Pid
      BY <1>1, <2>1 DEF TypeOK
    <3> QED BY <2>1, <2>3, <3>1, <3>2, ResumeKeeps
  <2> QED BY <2>2, <2>3
<1> QED BY <1>2, <1>3, <1>4 DEF DoWait

\* sys_kill: the flag, and a wakeup for a process that sleeps in do_wait.
LEMMA KillKeeps ==
  ASSUME IInv, NEW pid \in Pid, SysKill(pid)
  PROVE  IInv'
<1> USE PidFacts
<1>1. /\ TypeOK /\ Bookkeeping /\ ListOK /\ TreeOK /\ SleepersAreOwed
      /\ IdleNeverReturns /\ RunningIsRunnable /\ NoProtocolPanic
  BY DEF IInv
<1>2. /\ current \in Pid /\ state[current] = "RUNNABLE" /\ pc[current] = "user"
      /\ current # idle /\ current # init
  BY <1>1 DEF TypeOK, RunningIsRunnable, Bookkeeping, SysKill, At
<1> DEFINE W == KillWakes(pid)
<1>3. /\ W \subseteq Pid /\ W \subseteq waiting /\ current \notin W
      /\ \A q \in W : state[q] = "SLEEPING"
  BY <1>1, <1>2 DEF Bookkeeping, KillWakes
<1>4. Woken(W) = W
  BY <1>3 DEF Woken
<1>5. state' = [p \in Pid |-> IF p \in W THEN "RUNNABLE" ELSE state[p]]
  BY <1>4 DEF SysKill, Wakeup
<1>6. /\ exiting' = exiting \cup {pid} /\ waiting' = waiting \ W /\ panic' = panic
      /\ pc' = [pc EXCEPT ![current] = "trapret"]
      /\ UNCHANGED <<current, parent, procList, nr_process, needResched, waitPid>>
  BY <1>1, <1>3, <1>4 DEF SysKill, Bookkeeping, KillWakes
<1> HIDE DEF W
<1>7. Live' = Live /\ \A p \in Pid : state'[p] = "ZOMBIE" <=> state[p] = "ZOMBIE"
  BY <1>3, <1>5 DEF Live
<1>8. TypeOK'
  BY <1>1, <1>2, <1>5, <1>6 DEF TypeOK, States, Labels
<1>9. Bookkeeping'
  BY <1>1, <1>2, <1>3, <1>5, <1>6 DEF Bookkeeping, TypeOK
<1>10. ListOK'
  <2>1. UNCHANGED <<procList, nr_process>> /\ Live' = Live
    BY <1>6, <1>7
  <2> QED BY <1>1, <2>1 DEF ListOK
<1>11. TreeOK'
  <2>1. \A p \in Live \ {idle, init} : state'[parent[p]] # "ZOMBIE"
    <3> SUFFICES ASSUME NEW p \in Live \ {idle, init}
                 PROVE  state'[parent[p]] # "ZOMBIE"
      OBVIOUS
    <3>1. PICK i \in 1 .. Len(procList) : procList[i] = p
      BY <1>1 DEF ListOK
    <3>2. PICK j \in i + 1 .. Len(procList) : parent[p] = procList[j]
      BY <1>1, <3>1 DEF TreeOK
    <3>3. j \in 1 .. Len(procList)
      OBVIOUS
    <3>4. parent[p] \in Pid
      BY <1>1, <3>2, <3>3 DEF ListOK, Live
    <3> QED BY <1>1, <1>7, <3>4 DEF TreeOK
  <2> QED BY <1>1, <1>6, <1>7, <2>1 DEF TreeOK
<1>12. SleepersAreOwed'
  <2> SUFFICES ASSUME NEW q \in Live', state'[q] = "SLEEPING"
               PROVE  /\ pc'[q] = "woken" /\ q \in waiting'
                      /\ Awaited(q)' # {}
                      /\ \A c \in Awaited(q)' : state'[c] # "ZOMBIE"
    BY DEF SleepersAreOwed
  <2>1. q \in Pid /\ q \in Live /\ q \notin W /\ q # current /\ state[q] = "SLEEPING"
    BY <1>2, <1>3, <1>5, <1>7 DEF Live
  <2>2. /\ pc[q] = "woken" /\ q \in waiting /\ Awaited(q) # {}
        /\ \A c \in Awaited(q) : state[c] # "ZOMBIE"
    BY <1>1, <2>1 DEF SleepersAreOwed
  <2>3. Awaited(q)' = Awaited(q) /\ Awaited(q) \subseteq Pid
    BY <1>6, <1>7 DEF Awaited, Children, Live
  <2>4. pc'[q] = pc[q] /\ q \in waiting'
    BY <1>1, <1>6, <2>1, <2>2 DEF TypeOK
  <2> QED BY <1>7, <2>2, <2>3, <2>4
<1>13. IdleNeverReturns' /\ RunningIsRunnable' /\ NoProtocolPanic'
  BY <1>1, <1>2, <1>3, <1>5, <1>6 DEF IdleNeverReturns, RunningIsRunnable,
     NoProtocolPanic, TypeOK
<1> QED BY <1>8, <1>9, <1>10, <1>11, <1>12, <1>13 DEF IInv

\* A kernel short of memory stops and changes nothing else.
LEMMA ShortageKeeps ==
  ASSUME IInv, NEW what \in MemoryPanics, Stops(what)
  PROVE  IInv'
<1>1. /\ TypeOK /\ Bookkeeping /\ ListOK /\ TreeOK /\ SleepersAreOwed
      /\ IdleNeverReturns /\ RunningIsRunnable
  BY DEF IInv
<1>2. /\ panic' = what
      /\ UNCHANGED <<current, state, parent, procList, nr_process, exiting,
                     waiting, needResched, pc, waitPid>>
  BY DEF Stops
<1>3. TypeOK' /\ Bookkeeping'
  BY <1>1, <1>2 DEF TypeOK, Bookkeeping, Panics
<1> Live' = Live
  BY <1>2 DEF Live
<1>4. ListOK'
  BY <1>1, <1>2 DEF ListOK
<1>5. TreeOK'
  BY <1>1, <1>2 DEF TreeOK
<1>6. SleepersAreOwed'
  BY <1>1, <1>2 DEF SleepersAreOwed, Awaited, Children, Live
<1>7. IdleNeverReturns' /\ RunningIsRunnable'
  BY <1>1, <1>2 DEF IdleNeverReturns, RunningIsRunnable
<1>8. NoProtocolPanic'
  BY <1>2 DEF NoProtocolPanic, ProtocolPanics, MemoryPanics
<1> QED BY <1>3, <1>4, <1>5, <1>6, <1>7, <1>8 DEF IInv

\* do_execve by a process other than init: it goes on, exits, or stops the kernel.
LEMMA ExecKeeps ==
  ASSUME IInv, panic = "none", current # idle, current # init,
         NEW return \in {"user", "trapret"}, DoExecve(return)
  PROVE  IInv'
<1>1. CASE DoExit
  BY <1>1, ExitKeeps
<1>2. CASE Stops("load_icode: no stack page")
  BY <1>2, ShortageKeeps DEF MemoryPanics
<1>3. CASE /\ pc' = [pc EXCEPT ![current] = return]
           /\ UNCHANGED <<current, state, parent, procList, nr_process, exiting,
                          waiting, needResched, waitPid, panic>>
  <2>1. needResched \subseteq Pid
    BY DEF IInv, TypeOK
  <2> QED BY <1>3, <2>1, ResumeKeeps
<1> QED BY <1>1, <1>2, <1>3 DEF DoExecve

-----------------------------------------------------------------------------
(* The invariant holds, and what follows from it.                          *)

\* At the end of proc_init.
LEMMA InitHolds == Init => IInv
<1> SUFFICES ASSUME Init PROVE IInv
  OBVIOUS
<1> USE PidFacts DEF Init
<1>1. TypeOK
  BY PidAssumption DEF TypeOK, States, Labels, Panics, Pid
<1>2. Live = {idle, init}
  BY DEF Live
<1>3. Bookkeeping
  BY DEF Bookkeeping
<1>4. ListOK
  BY <1>2 DEF ListOK
<1>5. TreeOK
  BY <1>2 DEF TreeOK
<1>6. SleepersAreOwed /\ IdleNeverReturns /\ RunningIsRunnable /\ NoProtocolPanic
  BY <1>2 DEF SleepersAreOwed, IdleNeverReturns, RunningIsRunnable, NoProtocolPanic,
     ProtocolPanics
<1> QED BY <1>1, <1>3, <1>4, <1>5, <1>6 DEF IInv

\* Every step of the kernel and of the user processes.
LEMMA NextKeeps == IInv /\ [Next]_vars => IInv'
<1> SUFFICES ASSUME IInv, [Next]_vars PROVE IInv'
  OBVIOUS
<1> USE PidFacts
<1>1. TypeOK /\ Bookkeeping /\ RunningIsRunnable
  BY DEF IInv
<1>2. /\ \A l \in Labels \ {"idle"} : pc[current] = l => current # idle
      /\ pc[current] \in {"init_main", "init_wait", "init_sched"} => current = init
      /\ pc[current] \in {"user_main", "user", "trapret"} => current # init
      /\ current = init => waitPid[current] = 0
      /\ waitPid[current] \in Pid /\ needResched \subseteq Pid
  BY <1>1 DEF TypeOK, Bookkeeping
<1>3. CASE CpuIdle
  BY <1>3, SwitchKeeps DEF CpuIdle
<1>4. CASE InitMain
  <2>1. CASE DoFork("user_main", "init_wait")
    BY <1>2, <1>4, <2>1, ForkKeeps DEF InitMain, At, Labels
  <2>2. CASE Stops("create user_main failed")
    BY <2>2, ShortageKeeps DEF MemoryPanics
  <2> QED BY <1>4, <2>1, <2>2 DEF InitMain
<1>5. CASE InitWait
  BY <1>2, <1>5, WaitKeeps DEF InitWait, At, Labels
<1>6. CASE InitSched
  BY <1>2, <1>6, SwitchKeeps DEF InitSched, At, Labels
<1>7. CASE UserMain
  BY <1>2, <1>7, ExecKeeps DEF UserMain, At, Labels
<1>8. CASE KernelTimer
  <2>1. current # idle /\ current \in Pid
    BY <1>1, <1>2, <1>8 DEF KernelTimer, KernelThread, Labels, TypeOK
  <2> QED BY <1>2, <1>8, <2>1, ResumeKeeps DEF KernelTimer
<1>9. CASE SysFork
  BY <1>2, <1>9, ForkKeeps DEF SysFork, At, Labels
<1>10. CASE SysExit
  BY <1>2, <1>10, ExitKeeps DEF SysExit, At, Labels
<1>11. CASE EndSlice \/ OtherTrap
  <2>1. current \in Pid
    BY <1>1 DEF TypeOK
  <2> QED BY <1>2, <1>11, <2>1, ResumeKeeps DEF EndSlice, OtherTrap, TrapReturns, At, Labels
<1>12. ASSUME NEW pid \in Pid, SysWait(pid) PROVE IInv'
  BY <1>2, <1>12, WaitKeeps DEF SysWait, At, Labels
<1>13. ASSUME NEW pid \in Pid, SysKill(pid) PROVE IInv'
  BY <1>13, KillKeeps
<1>14. CASE TrapRet
  <2>0. panic = "none" /\ current # idle /\ current # init
    BY <1>2, <1>14 DEF TrapRet, At, Labels
  <2>1. CASE TrapExits
    BY <2>0, <2>1, ExitKeeps DEF TrapExits
  <2>2. CASE TrapSwitches
    BY <2>0, <2>2, SwitchKeeps DEF TrapSwitches
  <2>3. CASE TrapResumes
    BY <1>2, <2>0, <2>3, ResumeKeeps DEF TrapResumes
  <2> QED BY <1>14, <2>1, <2>2, <2>3 DEF TrapRet
<1>15. CASE WaitResumes
  <2>1. panic = "none" /\ current # idle /\ pc[current] = "woken"
    BY <1>2, <1>15 DEF WaitResumes, At, Labels
  <2>2. CASE current \in exiting /\ DoExit
    BY <2>1, <2>2, ExitKeeps
  <2>3. CASE DoWait(waitPid[current])
    BY <1>2, <2>1, <2>3, WaitKeeps
  <2> QED BY <1>15, <2>2, <2>3 DEF WaitResumes
<1>16. CASE SysExec
  BY <1>2, <1>16, ExecKeeps DEF SysExec, At, Labels
<1>17. CASE UNCHANGED vars
  <2>1. UNCHANGED vars
    BY <1>17
  <2>2. TypeOK' /\ Bookkeeping'
    BY <1>1, <2>1 DEF vars, TypeOK, Bookkeeping
  <2> Live' = Live
    BY <2>1 DEF vars, Live
  <2>3. ListOK'
    BY <2>1 DEF vars, IInv, ListOK
  <2>4. TreeOK'
    BY <2>1 DEF vars, IInv, TreeOK
  <2>5. \A p : Awaited(p)' = Awaited(p)
    BY <2>1 DEF vars, Awaited, Children
  <2>6. SleepersAreOwed'
    BY <2>1, <2>5 DEF vars, IInv, SleepersAreOwed
  <2>7. IdleNeverReturns' /\ RunningIsRunnable' /\ NoProtocolPanic'
    BY <2>1 DEF vars, IInv, IdleNeverReturns, RunningIsRunnable, NoProtocolPanic
  <2> QED BY <2>2, <2>3, <2>4, <2>6, <2>7 DEF IInv
<1> QED BY <1>3, <1>4, <1>5, <1>6, <1>7, <1>8, <1>9, <1>10, <1>11, <1>12,
           <1>13, <1>14, <1>15, <1>16, <1>17
        DEF Next, KernelStep, UserStep, Halted

\* proc.c and sched.c, whatever the user processes do: IInv holds in every
\* state.
THEOREM Invariance == Spec => []IInv
<1>1. Init => IInv
  BY InitHolds
<1>2. IInv /\ [Next]_vars => IInv'
  BY NextKeeps
<1> QED BY <1>1, <1>2, PTL DEF Spec

\* alloc_proc, do_fork and do_wait keep every field of every proc_struct within
\* its type.
THEOREM TypeCorrect == Spec => []TypeOK
<1>1. IInv => TypeOK
  BY DEF IInv
<1> QED BY <1>1, Invariance, PTL

\* set_links, remove_links and do_exit's handing over of the children keep
\* proc_list and the family tree consistent.
THEOREM FamilyCorrect == Spec => [](ListOK /\ TreeOK)
<1>1. IInv => ListOK /\ TreeOK
  BY DEF IInv
<1> QED BY <1>1, Invariance, PTL

\* schedule() never runs a process that sleeps or has exited, so do_exit's last
\* panic is not reached.
THEOREM OnlyRunnableRuns == Spec => []RunningIsRunnable
<1>1. IInv => RunningIsRunnable
  BY DEF IInv
<1> QED BY <1>1, Invariance, PTL

\* All of this together: the process table that every system call starts from.
THEOREM TableCorrect == Spec => []TableOK
<1>1. IInv => TableOK
  BY DEF IInv, TableOK
<1> QED BY <1>1, Invariance, PTL

\* do_wait and do_exit lose no wakeup.
THEOREM NoLostWakeup == Spec => []SleepersAreOwed
<1>1. IInv => SleepersAreOwed
  BY DEF IInv
<1> QED BY <1>1, Invariance, PTL

\* Once idleproc has given the CPU to init, schedule() always finds a runnable
\* process: the system cannot fall back to cpu_idle, from which it would not
\* return.
THEOREM NeverStuckInIdle == Spec => []IdleNeverReturns
<1>1. IInv => IdleNeverReturns
  BY DEF IInv
<1> QED BY <1>1, Invariance, PTL

\* However the processes fork, wait, kill and exit, they reach none of the panics
\* and assertions about their protocol in do_fork, do_exit, wakeup_proc, do_wait
\* and init_main; and init exits only when killed or when it is alone.
THEOREM ProtocolNeverPanics == Spec => []NoProtocolPanic
<1>1. IInv => NoProtocolPanic
  BY DEF IInv
<1> QED BY <1>1, Invariance, PTL

\* wakeup_proc and do_wait leave a zombie to its parent.
THEOREM ZombiesAreReaped == Spec => ZombieOnlyReaped
<1> DEFINE Kept == \A p \in Pid : state[p] = "ZOMBIE" /\ state'[p] # "ZOMBIE" =>
                     state'[p] = "FREE" /\ parent[p] = current
<1>1. IInv /\ [Next]_vars => Kept
  <2> SUFFICES ASSUME IInv, [Next]_vars,
                      NEW p \in Pid, state[p] = "ZOMBIE", state'[p] # "ZOMBIE"
               PROVE  state'[p] = "FREE" /\ parent[p] = current
    OBVIOUS
  <2> USE PidFacts
  <2>1. /\ p # current /\ p \notin waiting /\ p \in Live /\ state \in [Pid -> States]
        /\ state[p] # "FREE"
    BY DEF IInv, RunningIsRunnable, Bookkeeping, Live, TypeOK
  <2>2. ASSUME NEW entry, NEW return, DoFork(entry, return) PROVE FALSE
    BY <2>1, <2>2 DEF DoFork
  <2>3. ASSUME DoExit PROVE FALSE
    BY <2>1, <2>3 DEF DoExit, Stops, Wakeup, Woken, WokenByExit
  <2>4. ASSUME NEW pid, DoWait(pid) PROVE state'[p] = "FREE" /\ parent[p] = current
    <3>1. CASE WaitReaps(pid)
      BY <2>1, <3>1 DEF WaitReaps, Reap, Candidates, Children
    <3>2. CASE WaitSleeps(pid)
      BY <2>1, <3>2 DEF WaitSleeps, Sleep
    <3>3. CASE WaitNoChild(pid)
      BY <3>3 DEF WaitNoChild
    <3> QED BY <2>4, <3>1, <3>2, <3>3 DEF DoWait
  <2>5. ASSUME NEW pid \in Pid, SysKill(pid) PROVE FALSE
    BY <2>1, <2>5 DEF SysKill, KillWakes, Wakeup, Woken
  <2>6. ASSUME state' = state PROVE FALSE
    BY <2>6
  <2>7. CASE KernelStep
    <3>1. CASE CpuIdle \/ InitSched
      BY <2>6, <3>1 DEF CpuIdle, InitSched
    <3>2. CASE InitMain
      BY <2>2, <2>6, <3>2 DEF InitMain, Stops
    <3>3. CASE InitWait \/ WaitResumes
      BY <2>3, <2>4, <3>3 DEF InitWait, WaitResumes
    <3>4. CASE UserMain
      BY <2>3, <2>6, <3>4 DEF UserMain, DoExecve, Stops
    <3>5. CASE TrapRet
      BY <2>3, <2>6, <3>5 DEF TrapRet, TrapExits, TrapSwitches, TrapResumes
    <3> QED BY <2>7, <3>1, <3>2, <3>3, <3>4, <3>5 DEF KernelStep
  <2>8. CASE UserStep
    <3>1. CASE SysFork \/ SysExit
      BY <2>2, <2>3, <3>1 DEF SysFork, SysExit
    <3>2. CASE EndSlice \/ OtherTrap \/ SysExec
      BY <2>3, <2>6, <3>2 DEF EndSlice, OtherTrap, TrapReturns, SysExec, DoExecve, Stops
    <3>3. CASE \E pid \in Pid : SysWait(pid) \/ SysKill(pid)
      BY <2>4, <2>5, <3>3 DEF SysWait
    <3> QED BY <2>8, <3>1, <3>2, <3>3 DEF UserStep
  <2>9. CASE KernelTimer \/ Halted \/ UNCHANGED vars
    BY <2>6, <2>9 DEF KernelTimer, Halted, vars
  <2> QED BY <2>7, <2>8, <2>9 DEF Next
<1> HIDE DEF Kept
<1>2. Spec => [][Kept]_vars
  BY <1>1, Invariance, PTL DEF Spec
<1> QED BY <1>2 DEF Kept, ZombieOnlyReaped

\* do_exit's loop hands every child of the process that exits to init, and nothing
\* else changes who the parent is.
THEOREM OrphansAreAdopted == Spec => OrphansGoToInit
<1> DEFINE Kept == \A p \in Live : state'[p] # "FREE" /\ parent'[p] # parent[p] =>
                     parent'[p] = init /\ parent[p] = current /\ state'[current] = "ZOMBIE"
<1>1. IInv /\ [Next]_vars => Kept
  <2> SUFFICES ASSUME IInv, [Next]_vars,
                      NEW p \in Live, state'[p] # "FREE", parent'[p] # parent[p]
               PROVE  /\ parent'[p] = init /\ parent[p] = current
                      /\ state'[current] = "ZOMBIE"
    OBVIOUS
  <2> USE PidFacts
  <2>1. /\ p \in Pid /\ current \in Pid /\ current \notin waiting
        /\ parent \in [Pid -> Pid \cup {NULL}] /\ state \in [Pid -> States]
    BY DEF IInv, RunningIsRunnable, Bookkeeping, Live, TypeOK
  <2>2. ASSUME NEW entry, NEW return, DoFork(entry, return) PROVE FALSE
    BY <2>1, <2>2 DEF DoFork
  <2>3. ASSUME DoExit
        PROVE  parent'[p] = init /\ parent[p] = current /\ state'[current] = "ZOMBIE"
    <3>1. current \notin {idle, init}
      BY <2>3 DEF DoExit, Stops
    <3>2. parent'[p] = init /\ p \in Children(current)
      BY <2>1, <2>3, <3>1 DEF DoExit, AdoptedByInit
    <3>3. state'[current] = "ZOMBIE"
      BY <2>1, <2>3, <3>1 DEF DoExit, Wakeup, Woken, WokenByExit
    <3> QED BY <3>2, <3>3 DEF Children
  <2>4. ASSUME NEW pid, DoWait(pid) PROVE FALSE
    <3>1. CASE WaitReaps(pid)
      BY <2>1, <3>1 DEF WaitReaps, Reap
    <3>2. CASE WaitSleeps(pid) \/ WaitNoChild(pid)
      BY <3>2 DEF WaitSleeps, Sleep, WaitNoChild
    <3> QED BY <2>4, <3>1, <3>2 DEF DoWait
  <2>5. ASSUME parent' = parent PROVE FALSE
    BY <2>5
  <2>6. CASE KernelStep
    <3>1. CASE CpuIdle \/ InitSched
      BY <2>5, <3>1 DEF CpuIdle, InitSched
    <3>2. CASE InitMain
      BY <2>2, <2>5, <3>2 DEF InitMain, Stops
    <3>3. CASE InitWait \/ WaitResumes
      BY <2>3, <2>4, <3>3 DEF InitWait, WaitResumes
    <3>4. CASE UserMain
      BY <2>3, <2>5, <3>4 DEF UserMain, DoExecve, Stops
    <3>5. CASE TrapRet
      BY <2>3, <2>5, <3>5 DEF TrapRet, TrapExits, TrapSwitches, TrapResumes
    <3> QED BY <2>6, <3>1, <3>2, <3>3, <3>4, <3>5 DEF KernelStep
  <2>7. CASE UserStep
    <3>1. CASE SysFork \/ SysExit
      BY <2>2, <2>3, <3>1 DEF SysFork, SysExit
    <3>2. CASE EndSlice \/ OtherTrap \/ SysExec
      BY <2>3, <2>5, <3>2 DEF EndSlice, OtherTrap, TrapReturns, SysExec, DoExecve, Stops
    <3>3. CASE \E pid \in Pid : SysWait(pid) \/ SysKill(pid)
      BY <2>4, <2>5, <3>3 DEF SysWait, SysKill
    <3> QED BY <2>7, <3>1, <3>2, <3>3 DEF UserStep
  <2>8. CASE KernelTimer \/ Halted \/ UNCHANGED vars
    BY <2>5, <2>8 DEF KernelTimer, Halted, vars
  <2> QED BY <2>6, <2>7, <2>8 DEF Next
<1> HIDE DEF Kept
<1>2. Spec => [][Kept]_vars
  BY <1>1, Invariance, PTL DEF Spec
<1> QED BY <1>2 DEF Kept, OrphansGoToInit

\* A process keeps its parent until one of them exits, and a zombie waits for its
\* parent: do_exit and do_wait together.
THEOREM LineageCorrect == Spec => LineageKept
<1> QED BY ZombiesAreReaped, OrphansAreAdopted DEF LineageKept
=============================================================================
