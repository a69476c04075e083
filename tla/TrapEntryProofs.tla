--------------------------- MODULE TrapEntryProofs ---------------------------
(***************************************************************************)
(* Proofs about TrapEntry: for any number of processes, programs of any    *)
(* length and time slices of any length, the kernel runs on the stack of   *)
(* the current process and finds on it what it left there, interrupts are  *)
(* on just where they should be, no process sleeps in do_wait beside a     *)
(* zombie it waits for, and no user program sees the traps taken under it. *)
(*                                                                         *)
(* The inductive invariant says what lies on a kernel stack, item by item, *)
(* when the code it belongs to is at a given place.  It is a predicate on  *)
(* the process p, its stack s, its trap frame pointer t and the number n   *)
(* of items that are looked at, so that one statement serves the running   *)
(* process, the ones that are switched out, and code below an interrupt.   *)
(***************************************************************************)
EXTENDS TrapEntry, SequenceTheorems, FiniteSetTheorems, TLAPS

-----------------------------------------------------------------------------
(* The items of a kernel stack.                                            *)

UserPlace == {User(n) : n \in 0 .. NPC - 1}
KernelPlace == {K(l) : l \in OpenCode}
UserCauses == {"timer", "ecall", "fault", "misaligned", "other"}

\* Frames of traps from a user program, or of a program that begins; frames of
\* interrupts and breakpoints in the kernel, or of a kernel thread that begins.
UFrames == [kind : {"frame"}, spp : {FALSE}, spie : BOOLEAN, sie : {FALSE},
            epc : UserPlace, cause : UserCauses \cup {"none"}, sp : {UserSp},
            regs : Registers]
KFrames == [kind : {"frame"}, spp : {TRUE}, spie : {TRUE}, sie : {FALSE},
            epc : KernelPlace, cause : {"timer", "ebreak", "none"}, sp : Address,
            regs : Registers]
UTraps == [kind : {"trap"}, otf : Address, in_kernel : {FALSE}]
KTraps == [kind : {"trap"}, otf : Address, in_kernel : {TRUE}]
Scheds == [kind : {"schedule"}, intr_flag : BOOLEAN,
           ret : {"cpu_idle", "init_wait", "woken", "dead", "trapret"}]
Runs == [kind : {"proc_run"}, intr_flag : {FALSE}]
DoWaits == [kind : {"do_wait"}, pid : Task \cup {Null}, ret : {"init_next", "trapend"}]
Items == UFrames \cup KFrames \cup KTraps \cup UTraps \cup Scheds \cup Runs \cup DoWaits

-----------------------------------------------------------------------------
(* What lies on a stack.                                                   *)

InitCode == {"init_main", "init_wait", "init_next", "init_end"}
OwnPlaces == InitCode \cup {"syscall", "do_exit", "proc_init", "clock_init", "intr_enable",
                           "cpu_idle", "user_main"}

\* Under p's own code.
Bottom(p, s, t, n, at) ==
  \/ p = idleproc /\ n = 0 /\ at \in {"proc_init", "clock_init", "intr_enable", "cpu_idle"}
  \/ p = initproc /\ n = 1 /\ s[1] \in KFrames /\ at \in InitCode
  \/ p \in Task /\ n = 1 /\ s[1] \in KFrames /\ at = "user_main"
  \/ p \in Task /\ n = 1 /\ s[1] \in UFrames /\ at = "trapret"
  \/ /\ p \in Task /\ n = 2 /\ s[1] \in UFrames /\ s[2] \in UTraps
     /\ t = <<p, 1>> /\ at \in {"syscall", "do_exit", "trapend"}
  \/ /\ p \in Task /\ n = 3 /\ s[1] \in KFrames /\ s[2] \in KFrames /\ s[3] \in KTraps
     /\ s[2].cause = "ebreak"
     /\ t = <<p, 2>> /\ at \in {"syscall", "do_exit"}

\* In do_wait, in schedule(), after it has saved the interrupt flag, and in proc_run.
InWait(p, s, t, n) ==
  /\ n >= 2 /\ s[n] \in DoWaits /\ Bottom(p, s, t, n - 1, s[n].ret)
  /\ s[n].ret = "trapend" => s[1].cause = "ecall"
InSchedule(p, s, t, n) ==
  /\ n >= 1 /\ s[n] \in Scheds
  /\ \/ s[n].ret \in {"cpu_idle", "init_wait", "trapret"} /\ Bottom(p, s, t, n - 1, s[n].ret)
     \/ s[n].ret = "woken" /\ InWait(p, s, t, n - 1)
     \/ s[n].ret = "dead" /\ Bottom(p, s, t, n - 1, "do_exit")
FlagSaved(p, s, t, n) ==
  InSchedule(p, s, t, n) /\ (s[n].intr_flag <=> p \notin Task)
InProcRun(p, s, t, n) ==
  n >= 2 /\ s[n] \in Runs /\ FlagSaved(p, s, t, n - 1)

\* In code that runs with interrupts on, and when it has been interrupted.
Open(p, s, t, n, at) ==
  \/ at \in {"cpu_idle", "user_main"} \cup InitCode /\ Bottom(p, s, t, n, at)
  \/ at \in {"repeat", "sleep", "woken"} /\ p \notin Task /\ InWait(p, s, t, n)
  \/ at = "schedule" /\ p \notin Task /\ InSchedule(p, s, t, n)
Resumes(p, s, t, n, place) == \E l \in OpenCode : place = K(l) /\ Open(p, s, t, n, l)
Interrupted(p, s, t, n) ==
  /\ n >= 1 /\ s[n] \in KFrames
  /\ s[n].sp = <<p, n - 1>>
  /\ Resumes(p, s, t, n - 1, s[n].epc)
  /\ s[n].cause = "timer" \/ (s[n].cause = "ebreak" /\ s[n].epc = K("user_main"))

\* Before the first return of a new process.
NewThread(p, s) ==
  /\ s[1] \in KFrames /\ s[1].sp = <<p, 1>>
  /\ s[1].epc = K(IF p = initproc THEN "init_main" ELSE "user_main")
New(p, s, t, n) ==
  /\ n = 1 /\ t = <<p, 1>> /\ p # idleproc
  /\ NewThread(p, s) \/ (p \in Task /\ s[1] \in UFrames)

-----------------------------------------------------------------------------
(* The running process.                                                    *)

OnUserSide == mode = "U" \/ (pc \in {K("alltraps"), K("sret")} /\ ~csr.spp)

\* Where the hart comes from, or returns to, around a trap.
TrapState(p, s, t, n) ==
  /\ IF csr.spp THEN csr.spie /\ Resumes(p, s, t, n, csr.sepc) ELSE csr.sepc \in UserPlace
  /\ pc = K("alltraps") =>
       IF csr.spp THEN csr.cause = "timer" \/ (csr.cause = "ebreak" /\ csr.sepc = K("user_main"))
       ELSE csr.cause \in UserCauses

\* The stack of the running process suits the place `at' in the kernel.
Suits(p, s, t, n, at) ==
  \/ /\ at = "trap"
     /\ \/ p \in Task /\ n = 1 /\ s[1] \in UFrames /\ s[1].cause \in UserCauses
        \/ Interrupted(p, s, t, n)
  \/ /\ at = "trapend"
     /\ \/ Bottom(p, s, t, n, "trapend")
        \/ n >= 2 /\ s[n] \in KTraps /\ Interrupted(p, s, t, n - 1)
  \/ /\ at = "trapret"
     /\ \/ Bottom(p, s, t, n, "trapret") \/ Interrupted(p, s, t, n)
        \/ p # idleproc /\ n = 1 /\ NewThread(p, s)
  \/ at = "forkret" /\ New(p, s, t, n)
  \/ /\ at = "execve_ret" /\ p \in Task /\ n = 3 /\ t = <<p, 2>>
     /\ s[1] \in KFrames /\ s[2] \in UFrames /\ s[2].cause = "none" /\ s[3] \in KTraps
  \/ at = "monitor" /\ (Bottom(p, s, t, n, "syscall") \/ Bottom(p, s, t, n, "init_end"))
  \/ at \in OwnPlaces /\ Bottom(p, s, t, n, at)
  \/ at \in {"repeat", "sleep", "woken"} /\ InWait(p, s, t, n)
  \/ at = "schedule" /\ InSchedule(p, s, t, n)
  \/ at \in {"pick", "picked"} /\ FlagSaved(p, s, t, n)
  \/ at = "switched" /\ InProcRun(p, s, t, n)
  \/ at = "idt_init" /\ p = idleproc /\ n = 0

\* Where interrupts are on.
SieOn(p, at) ==
  \/ at \in {"cpu_idle", "user_main"} \cup InitCode
  \/ at \in {"repeat", "sleep", "woken", "schedule"} /\ p \notin Task

HartOK ==
  /\ IF OnUserSide
     THEN /\ current \in Task /\ stack[current] = <<>> /\ sp = UserSp
          /\ csr.sscratch = <<current, 0>>
     ELSE /\ sp = <<current, Len(stack[current])>>
          /\ pc # K("idt_init") => csr.sscratch = Zero
  /\ IF mode = "U" THEN pc \in UserPlace
     ELSE /\ pc = K(pc[1])
          /\ IF pc[1] \in {"alltraps", "sret"}
             THEN TrapState(current, stack[current], tf[current], Len(stack[current]))
             ELSE Suits(current, stack[current], tf[current], Len(stack[current]), pc[1])
          /\ csr.sie <=> SieOn(current, pc[1])

\* The place of the running process's own code, also below an interrupt.
OwnCode ==
  IF mode = "S" /\ pc[1] \in {"alltraps", "sret"} /\ csr.spp THEN csr.sepc[1]
  ELSE IF mode = "S" /\ pc[1] \in {"trap", "trapret"} /\ Top.spp THEN Top.epc[1]
  ELSE IF mode = "S" /\ pc[1] = "trapend" /\ Top.in_kernel
       THEN stack[current][Len(stack[current]) - 1].epc[1]
  ELSE pc[1]

-----------------------------------------------------------------------------
(* The other processes, and the family.                                    *)

SwitchedOut(q) ==
  LET s == stack[q]
      n == Len(s)
  IN  /\ saved[q].sp = <<q, n>>
      /\ \/ saved[q].ra = "forkret" /\ New(q, s, tf[q], n) /\ state[q] # "zombie"
         \/ /\ saved[q].ra = "switched" /\ InProcRun(q, s, tf[q], n)
            /\ state[q] = "zombie" <=> s[n - 1].ret = "dead"
OthersOK ==
  \A q \in Proc \ {current} : IF state[q] = "none" THEN stack[q] = <<>> ELSE SwitchedOut(q)

FamilyOK ==
  /\ state[idleproc] = "runnable" /\ state[initproc] # "zombie"
  /\ state[current] # "runnable" => OwnCode \in {"schedule", "pick"}
  /\ state[current] # "none"
  /\ pc \in {K("schedule"), K("pick")} => (state[current] = "zombie" <=> Top.ret = "dead")
  /\ pc = K("picked") => Top.ret # "dead"
  /\ pc = K("switched") => stack[current][Len(stack[current]) - 1].ret # "dead"
  /\ state[current] = "zombie" => pc \in {K("schedule"), K("pick")}
  /\ \A q \in Task : parent[q] # q

NoZombieAwaited(p) ==
  \A k \in DOMAIN stack[p] : stack[p][k].kind = "do_wait" =>
     \A c \in Awaited(p, stack[p][k].pid) : state[c] # "zombie"
FallsAsleep == OwnCode = "sleep" => NoZombieAwaited(current)

CSRs == [sie : BOOLEAN, spie : BOOLEAN, spp : BOOLEAN, cause : UserCauses \cup {"ebreak", "none"},
         sepc : UserPlace \cup KernelPlace \cup {K("none")}, sscratch : Address, stvec : BOOLEAN]
Types ==
  /\ mode \in {"U", "S"} /\ regs \in Registers
  /\ csr \in CSRs
  /\ timer \in {"off", "armed", "pending"} /\ ticks \in 0 .. TICK_NUM - 1
  /\ current \in Proc
  /\ state \in [Proc -> {"none", "runnable", "waiting", "zombie"}]
  /\ parent \in [Proc -> Proc] /\ need_resched \in [Proc -> BOOLEAN]
  /\ tf \in [Proc -> Address]
  /\ saved \in [Proc -> [ra : {"none", "forkret", "switched"}, sp : Address]]
  /\ stack \in [Proc -> Seq(Items)]

IInv == Types /\ HartOK /\ OthersOK /\ FamilyOK /\ FallsAsleep /\ NoLostWakeup

-----------------------------------------------------------------------------
(* Facts about stacks.                                                     *)

\* Who the processes are: the boot thread, init, and the others.
LEMMA Processes ==
  /\ idleproc \in Proc /\ initproc \in Proc /\ Task \subseteq Proc /\ Null \notin Proc
  /\ idleproc # initproc /\ idleproc \notin Task /\ initproc \notin Task
BY TrapEntryAssumption DEF Proc

\* What a push leaves on a stack.
LEMMA Pushed ==
  ASSUME NEW s \in Seq(Items), NEW e \in Items
  PROVE  LET s2 == Append(SubSeq(s, 1, Len(s)), e)
         IN  /\ s2 \in Seq(Items) /\ Len(s2) = Len(s) + 1 /\ s2[Len(s) + 1] = e
             /\ \A k \in 1 .. Len(s) : s2[k] = s[k]
OBVIOUS

\* What a pop down to n items leaves.
LEMMA Popped ==
  ASSUME NEW s \in Seq(Items), NEW n \in 0 .. Len(s)
  PROVE  LET s2 == SubSeq(s, 1, n)
         IN  /\ s2 \in Seq(Items) /\ Len(s2) = n
             /\ \A k \in 1 .. n : s2[k] = s[k]
OBVIOUS

\* What a store to one item leaves.
LEMMA Stored ==
  ASSUME NEW s \in Seq(Items), NEW n \in 1 .. Len(s), NEW e \in Items
  PROVE  LET s2 == [s EXCEPT ![n] = e]
         IN  /\ s2 \in Seq(Items) /\ Len(s2) = Len(s) /\ s2[n] = e
             /\ \A k \in 1 .. Len(s) : k # n => s2[k] = s[k]
OBVIOUS

\* What lies on a stack depends on the items that are looked at only, and for
\* code that may be interrupted not on the trap frame pointer.
LEMMA SameBottom ==
  ASSUME NEW p, NEW s, NEW s2, NEW t, NEW n \in Nat, NEW at,
         \A k \in 1 .. n : s2[k] = s[k], Bottom(p, s, t, n, at)
  PROVE  Bottom(p, s2, t, n, at)
<1>1. /\ n >= 1 => s2[1] = s[1]
      /\ n >= 2 => s2[2] = s[2]
      /\ n >= 3 => s2[3] = s[3]
  OBVIOUS
<1> QED BY <1>1 DEF Bottom

\* The same of a process inside do_wait.
LEMMA SameInWait ==
  ASSUME NEW p, NEW s, NEW s2, NEW t, NEW n \in Nat,
         \A k \in 1 .. n : s2[k] = s[k], InWait(p, s, t, n)
  PROVE  InWait(p, s2, t, n)
<1>1. s2[1] = s[1] /\ s2[n] = s[n] /\ n - 1 \in Nat /\ \A k \in 1 .. n - 1 : s2[k] = s[k]
  BY DEF InWait
<1> QED BY <1>1, SameBottom DEF InWait

\* The same of a process inside schedule().
LEMMA SameInSchedule ==
  ASSUME NEW p, NEW s, NEW s2, NEW t, NEW n \in Nat,
         \A k \in 1 .. n : s2[k] = s[k], InSchedule(p, s, t, n)
  PROVE  InSchedule(p, s2, t, n)
<1>1. s2[n] = s[n] /\ n - 1 \in Nat /\ \A k \in 1 .. n - 1 : s2[k] = s[k]
  BY DEF InSchedule
<1> QED BY <1>1, SameBottom, SameInWait DEF InSchedule

\* The same of a process switched out in proc_run.
LEMMA SameInProcRun ==
  ASSUME NEW p, NEW s, NEW s2, NEW t, NEW n \in Nat,
         \A k \in 1 .. n : s2[k] = s[k], InProcRun(p, s, t, n)
  PROVE  InProcRun(p, s2, t, n)
<1>1. s2[n] = s[n] /\ s2[n - 1] = s[n - 1] /\ n - 1 \in Nat /\ \A k \in 1 .. n - 1 : s2[k] = s[k]
  BY DEF InProcRun
<1> QED BY <1>1, SameInSchedule DEF InProcRun, FlagSaved

\* The same of code with interrupts on, which never looks at its trap frame pointer.
LEMMA SameOpen ==
  ASSUME NEW p, NEW s, NEW s2, NEW t, NEW t2, NEW n \in Nat, NEW at,
         \A k \in 1 .. n : s2[k] = s[k], Open(p, s, t, n, at)
  PROVE  Open(p, s2, t2, n, at)
<1>1. ASSUME NEW m \in 0 .. n, NEW l \in {"cpu_idle", "user_main"} \cup InitCode, Bottom(p, s, t, m, l)
      PROVE  Bottom(p, s2, t2, m, l)
  <2>1. m >= 1 => s2[1] = s[1]
    OBVIOUS
  <2> QED BY <1>1, <2>1 DEF Bottom, InitCode
<1>2. ASSUME NEW m \in 0 .. n, p \notin Task, InWait(p, s, t, m) PROVE InWait(p, s2, t2, m)
  <2>1. s2[m] = s[m] /\ m - 1 \in 0 .. n
    BY <1>2 DEF InWait
  <2>2. s[m].ret = "init_next"
    <3>1. s[m].ret \in {"init_next", "trapend"}
      BY <1>2 DEF InWait, DoWaits
    <3>2. ~Bottom(p, s, t, m - 1, "trapend")
      BY <1>2 DEF Bottom, InitCode
    <3> QED BY <1>2, <3>1, <3>2 DEF InWait
  <2> QED BY <1>1, <1>2, <2>1, <2>2 DEF InWait, InitCode
<1>3. ASSUME p \notin Task, InSchedule(p, s, t, n) PROVE InSchedule(p, s2, t2, n)
  <2>1. s2[n] = s[n] /\ n - 1 \in 0 .. n
    BY <1>3 DEF InSchedule
  <2>2. s[n].ret \in {"cpu_idle", "init_wait", "woken"}
    <3>1. s[n].ret \in {"cpu_idle", "init_wait", "woken", "dead", "trapret"}
      BY <1>3 DEF InSchedule, Scheds
    <3>2. ~Bottom(p, s, t, n - 1, "trapret") /\ ~Bottom(p, s, t, n - 1, "do_exit")
      BY <1>3 DEF Bottom, InitCode
    <3> QED BY <1>3, <3>1, <3>2 DEF InSchedule
  <2> QED BY <1>1, <1>2, <1>3, <2>1, <2>2 DEF InSchedule, InitCode
<1>4. CASE at \in {"cpu_idle", "user_main"} \cup InitCode /\ Bottom(p, s, t, n, at)
  BY <1>1, <1>4 DEF Open
<1>5. CASE at \in {"repeat", "sleep", "woken"} /\ p \notin Task /\ InWait(p, s, t, n)
  BY <1>2, <1>5 DEF Open
<1>6. CASE at = "schedule" /\ p \notin Task /\ InSchedule(p, s, t, n)
  BY <1>3, <1>6 DEF Open
<1> QED BY <1>4, <1>5, <1>6 DEF Open

\* The same of a stack with the frame of an interrupt on top.
LEMMA SameInterrupted ==
  ASSUME NEW p, NEW s, NEW s2, NEW t, NEW t2, NEW n \in Nat,
         \A k \in 1 .. n : s2[k] = s[k], Interrupted(p, s, t, n)
  PROVE  Interrupted(p, s2, t2, n)
<1>1. s2[n] = s[n] /\ n - 1 \in Nat /\ \A k \in 1 .. n - 1 : s2[k] = s[k]
  BY DEF Interrupted
<1>2. ASSUME NEW l, Open(p, s, t, n - 1, l) PROVE Open(p, s2, t2, n - 1, l)
  BY <1>1, <1>2, SameOpen
<1> QED BY <1>1, <1>2 DEF Interrupted, Resumes

\* How high a stack is.
LEMMA BottomHeight ==
  ASSUME NEW p, NEW s, NEW t, NEW n \in Nat, NEW at, Bottom(p, s, t, n, at)
  PROVE  n <= 3
BY DEF Bottom

\* A do_wait lies on at most a frame and a trap().
LEMMA WaitHeight ==
  ASSUME NEW p, NEW s, NEW t, NEW n \in Nat, InWait(p, s, t, n)
  PROVE  n <= 3
<1>1. n - 1 \in Nat /\ s[n].ret \in {"init_next", "trapend"} /\ Bottom(p, s, t, n - 1, s[n].ret)
  BY DEF InWait, DoWaits
<1> QED BY <1>1 DEF Bottom

\* A schedule() lies at most on a do_wait or on an exit from a program that began in the kernel.
LEMMA ScheduleHeight ==
  ASSUME NEW p, NEW s, NEW t, NEW n \in Nat, InSchedule(p, s, t, n)
  PROVE  n <= 4
<1>1. n - 1 \in Nat
  BY DEF InSchedule
<1> QED BY <1>1, BottomHeight, WaitHeight DEF InSchedule

\* proc_run lies on a schedule().
LEMMA RunHeight ==
  ASSUME NEW p, NEW s, NEW t, NEW n \in Nat, InProcRun(p, s, t, n)
  PROVE  n <= 5
<1>1. n - 1 \in Nat /\ InSchedule(p, s, t, n - 1)
  BY DEF InProcRun, FlagSaved
<1> QED BY <1>1, ScheduleHeight

\* Code that may be interrupted leaves room for the frame and the trap() above it.
LEMMA OpenHeight ==
  ASSUME NEW p, NEW s, NEW t, NEW n \in Nat, NEW at, Open(p, s, t, n, at)
  PROVE  n <= 4
BY BottomHeight, WaitHeight, ScheduleHeight DEF Open

\* The addresses of a stack of that height are addresses of the model.
LEMMA AddressOf ==
  ASSUME NEW p \in Proc, NEW n \in 0 .. 6
  PROVE  <<p, n>> \in Address /\ Zero \in Address /\ UserSp \in Address
BY DEF Address, Zero, UserSp

-----------------------------------------------------------------------------
(* The frame of the proofs.                                                *)

\* What the running process's place in the kernel says of its stack.
LEMMA InKernel ==
  ASSUME IInv, NEW l, l \notin {"alltraps", "sret", "idt_init"}, At(l)
  PROVE  /\ mode = "S" /\ pc = K(l) /\ pc[1] = l
         /\ stack[current] \in Seq(Items) /\ Len(stack[current]) \in Nat
         /\ sp = <<current, Len(stack[current])>> /\ csr.sscratch = Zero
         /\ Suits(current, stack[current], tf[current], Len(stack[current]), l)
         /\ csr.sie <=> SieOn(current, l)
         /\ Top = stack[current][Len(stack[current])]
         /\ current \in Proc
<1>1. mode = "S" /\ pc = K(l) /\ pc[1] = l
  BY DEF At, K
<1>2. pc # K("idt_init") /\ pc \notin {K("alltraps"), K("sret")}
  BY <1>1 DEF K
<1>3. current \in Proc /\ stack[current] \in Seq(Items)
  BY DEF IInv, Types
<1> QED BY <1>1, <1>2, <1>3 DEF IInv, HartOK, OnUserSide, Top

\* And the other way round.
LEMMA NowAt ==
  ASSUME NEW l, l \notin {"alltraps", "sret"}, mode' = "S", pc' = K(l),
         sp' = <<current', Len(stack'[current'])>>, csr'.sscratch = Zero,
         Suits(current', stack'[current'], tf'[current'], Len(stack'[current']), l),
         csr'.sie <=> SieOn(current', l)
  PROVE  HartOK'
<1>1. pc'[1] = l /\ pc' \notin {K("alltraps"), K("sret")} /\ mode' # "U"
  BY DEF K
<1> QED BY <1>1 DEF HartOK, OnUserSide

\* The processes that are switched out are kept when nothing of theirs changes.
LEMMA OthersStay ==
  ASSUME OthersOK, current' = current, UNCHANGED <<state, saved>>,
         \A q \in Proc \ {current} : stack'[q] = stack[q] /\ tf'[q] = tf[q]
  PROVE  OthersOK'
BY DEF OthersOK, SwitchedOut

\* No call of do_wait is on the running process's stack that was not there.
NoNewWait ==
  \A k \in DOMAIN stack'[current] : stack'[current][k].kind = "do_wait" =>
     k \in DOMAIN stack[current] /\ stack'[current][k] = stack[current][k]

\* A step of the running process that changes neither the family nor anything
\* of the others.
LEMMA LocalStep ==
  ASSUME IInv, current' = current, UNCHANGED <<state, parent, saved>>,
         \A q \in Proc \ {current} : stack'[q] = stack[q] /\ tf'[q] = tf[q],
         Types', HartOK',
         state[current] = "runnable" \/ (NoNewWait /\ OwnCode' \in {"schedule", "pick"}),
         OwnCode' = "sleep" => OwnCode = "sleep" /\ NoNewWait,
         pc' \in {K("schedule"), K("pick")} => (state[current] = "zombie" <=> Top'.ret = "dead"),
         pc' = K("picked") => Top'.ret # "dead",
         pc' = K("switched") => stack'[current][Len(stack'[current]) - 1].ret # "dead",
         state[current] = "zombie" => pc' \in {K("schedule"), K("pick")}
  PROVE  IInv'
<1>1. OthersOK'
  BY OthersStay DEF IInv
<1>2. FamilyOK'
  BY DEF IInv, FamilyOK
<1>3. ASSUME NoNewWait, NoZombieAwaited(current) PROVE NoZombieAwaited(current)'
  BY <1>3 DEF NoZombieAwaited, NoNewWait, Awaited
<1>4. FallsAsleep'
  BY <1>3 DEF IInv, FallsAsleep
<1>5. NoLostWakeup'
  <2> SUFFICES ASSUME NEW p \in Proc, state'[p] = "waiting" PROVE NoZombieAwaited(p)'
    BY DEF NoLostWakeup, NoZombieAwaited
  <2>1. NoZombieAwaited(p)
    BY DEF IInv, NoLostWakeup, NoZombieAwaited
  <2>2. CASE p = current
    BY <1>3, <2>1, <2>2
  <2>3. CASE p # current
    BY <2>1, <2>3 DEF NoZombieAwaited, Awaited
  <2> QED BY <2>2, <2>3
<1> QED BY <1>1, <1>2, <1>4, <1>5 DEF IInv

\* Code with interrupts on may be interrupted, and an interrupt returns to it.
LEMMA OpenIsOn ==
  ASSUME NEW p \in Proc, NEW s, NEW t, NEW n, NEW l
  PROVE  Suits(p, s, t, n, l) /\ SieOn(p, l) <=> l \in OpenCode /\ Open(p, s, t, n, l)
<1>1. ASSUME Suits(p, s, t, n, l), SieOn(p, l) PROVE l \in OpenCode /\ Open(p, s, t, n, l)
  BY <1>1 DEF Suits, SieOn, OpenCode, Open, InitCode, OwnPlaces
<1>2. ASSUME l \in OpenCode, Open(p, s, t, n, l) PROVE Suits(p, s, t, n, l) /\ SieOn(p, l)
  BY <1>2 DEF Suits, SieOn, OpenCode, Open, InitCode, OwnPlaces
<1> QED BY <1>1, <1>2

\* What runs with interrupts on is not exiting.
LEMMA OpenIsAlive ==
  ASSUME IInv, mode = "S", csr.sie
  PROVE  state[current] # "zombie"
<1>1. SieOn(current, pc[1]) /\ pc = K(pc[1])
  BY DEF IInv, HartOK
<1>2. current \in {idleproc, initproc} \/ state[current] # "zombie"
  BY <1>1 DEF IInv, FamilyOK, SieOn, Types, Proc, K, InitCode
<1> QED BY <1>2 DEF IInv, FamilyOK

-----------------------------------------------------------------------------
(* The hart: traps and sret.                                               *)

\* A trap of the hart, from a program or from kernel code with interrupts on.
LEMMA TakeTrapStep ==
  ASSUME IInv, NEW cause, TakeTrap(cause),
         \/ mode = "U" /\ cause \in UserCauses
         \/ mode = "S" /\ csr.sie /\ cause = "timer"
         \/ mode = "S" /\ csr.sie /\ cause = "ebreak" /\ pc = K("user_main")
  PROVE  IInv'
<1> USE DEF TakeTrap, K
<1>1. CASE mode = "U"
  <2>5. /\ csr'.spp = FALSE /\ csr'.sie = FALSE /\ csr'.sepc = pc /\ csr'.cause = cause
        /\ csr'.sscratch = csr.sscratch
    BY <1>1 DEF IInv, Types, CSRs
  <2>6. pc \in UserPlace /\ OnUserSide /\ OnUserSide' /\ ~SieOn(current, "alltraps")
    BY <1>1, <2>5 DEF IInv, HartOK, OnUserSide, SieOn, InitCode
  <2>1. HartOK'
    BY <1>1, <2>5, <2>6 DEF IInv, HartOK, TrapState, procs, family
  <2>2. Types'
    BY <1>1 DEF IInv, HartOK, Types, CSRs, UserCauses, procs, clock, family
  <2>3. state[current] = "runnable"
    BY <1>1 DEF IInv, HartOK, FamilyOK, OwnCode, UserPlace, User
  <2>4. OwnCode' = "alltraps"
    BY <1>1, <2>5 DEF OwnCode
  <2> QED BY <2>1, <2>2, <2>3, <2>4, LocalStep DEF procs, family
<1>2. CASE mode = "S"
  <2> DEFINE l == pc[1]
  <2>1. /\ pc = K(l) /\ l \in OpenCode /\ current \in Proc
        /\ Open(current, stack[current], tf[current], Len(stack[current]), l)
        /\ sp = <<current, Len(stack[current])>> /\ csr.sscratch = Zero
        /\ csr.sie /\ l \notin {"alltraps", "sret", "idt_init"}
    <3>1. csr.sie /\ pc = K(l) /\ current \in Proc
      BY <1>2 DEF IInv, HartOK, Types
    <3>2. SieOn(current, l)
      BY <1>2, <3>1 DEF IInv, HartOK
    <3>3. l \notin {"alltraps", "sret", "idt_init"}
      BY <3>2 DEF SieOn, InitCode
    <3>4. Suits(current, stack[current], tf[current], Len(stack[current]), l)
      BY <1>2, <3>3 DEF IInv, HartOK
    <3>5. l \in OpenCode /\ Open(current, stack[current], tf[current], Len(stack[current]), l)
      BY <3>1, <3>2, <3>4, OpenIsOn
    <3>6. ~OnUserSide
      BY <1>2, <3>3 DEF OnUserSide
    <3> QED BY <1>2, <3>1, <3>3, <3>5, <3>6 DEF IInv, HartOK
  <2>2. HartOK'
    <3>1. Resumes(current, stack[current], tf[current], Len(stack[current]), pc)
      BY <2>1 DEF Resumes
    <3>2. csr' = [csr EXCEPT !.sepc = pc, !.cause = cause, !.spp = TRUE, !.spie = TRUE, !.sie = FALSE]
      BY <1>2, <2>1
    <3>3. csr'.spp /\ csr'.spie /\ ~csr'.sie /\ csr'.sepc = pc /\ csr'.cause = cause /\ csr'.sscratch = Zero
      BY <3>2, <2>1 DEF IInv, Types, CSRs
    <3>4. TrapState(current, stack[current], tf[current], Len(stack[current]))'
      BY <1>2, <3>1, <3>3 DEF TrapState, procs, family
    <3>5. ~SieOn(current, "alltraps")
      BY DEF SieOn, InitCode
    <3> QED BY <1>2, <2>1, <3>3, <3>4, <3>5 DEF HartOK, OnUserSide, procs, family
  <2>3. Types'
    BY <1>2, <2>1 DEF IInv, Types, CSRs, UserCauses, procs, clock, family, KernelPlace
  <2>4. OwnCode = l /\ OwnCode' = l
    BY <1>2, <2>1 DEF OwnCode, OpenCode, IInv, Types, CSRs
  <2>5. NoNewWait
    BY DEF NoNewWait, procs
  <2>6. state[current] # "zombie"
    BY <1>2, <2>1, OpenIsAlive
  <2>7. state[current] # "runnable" => l \in {"schedule", "pick"}
    BY <2>4 DEF IInv, FamilyOK
  <2> QED BY <1>2, <2>2, <2>3, <2>4, <2>5, <2>6, <2>7, LocalStep DEF procs, family
<1> QED BY <1>1, <1>2

\* A pending timer interrupt taken in the kernel.
LEMMA TimerInterruptStep == ASSUME IInv, TimerInterrupt PROVE IInv'
<1>1. mode \in {"U", "S"}
  BY DEF IInv, Types
<1> QED BY <1>1, TakeTrapStep DEF TimerInterrupt, InterruptDue, UserCauses

\* kernel_execve's breakpoint in user_main.
LEMMA EbreakStep == ASSUME IInv, Ebreak PROVE IInv'
<1>1. mode = "S" /\ pc = K("user_main")
  BY DEF Ebreak, At
<1>2. csr.sie
  BY <1>1 DEF IInv, HartOK, SieOn, K
<1> QED BY <1>1, <1>2, TakeTrapStep DEF Ebreak

\* The clock sets the timer's interrupt pending.
LEMMA TimerFiresStep == ASSUME IInv, TimerFires PROVE IInv'
<1>1. Types'
  BY DEF IInv, Types, TimerFires, hart, procs, family
<1>2. HartOK'
  BY DEF IInv, HartOK, OnUserSide, TrapState, TimerFires, hart, procs, family
<1>3. OthersOK' /\ NoLostWakeup'
  BY DEF IInv, OthersOK, SwitchedOut, NoLostWakeup, Awaited, TimerFires, hart, procs, family
<1>4. OwnCode' = OwnCode /\ (Top.ret)' = Top.ret
  BY DEF OwnCode, Top, TimerFires, hart, procs, family
<1>5. FamilyOK' /\ FallsAsleep'
  BY <1>4 DEF IInv, FamilyOK, FallsAsleep, NoZombieAwaited, Awaited, TimerFires, hart, procs, family
<1> QED BY <1>1, <1>2, <1>3, <1>5 DEF IInv

\* The hart at the first and the last instruction of a trap.
LEMMA AtEdge ==
  ASSUME IInv, NEW l \in {"alltraps", "sret"}, At(l)
  PROVE  /\ mode = "S" /\ pc = K(l) /\ pc[1] = l /\ ~csr.sie
         /\ current \in Proc /\ stack[current] \in Seq(Items) /\ Len(stack[current]) \in Nat
         /\ IF csr.spp
            THEN /\ sp = <<current, Len(stack[current])>> /\ csr.sscratch = Zero /\ csr.spie
                 /\ OwnCode = csr.sepc[1] /\ OwnCode \in OpenCode /\ csr.sepc = K(OwnCode)
                 /\ Open(current, stack[current], tf[current], Len(stack[current]), OwnCode)
            ELSE /\ current \in Task /\ stack[current] = <<>> /\ sp = UserSp
                 /\ csr.sscratch = <<current, 0>> /\ csr.sepc \in UserPlace
                 /\ OwnCode = l /\ state[current] = "runnable"
         /\ state[current] # "zombie"
         /\ state[current] = "runnable" \/ OwnCode \in {"schedule", "pick"}
<1>1. mode = "S" /\ pc = K(l) /\ pc[1] = l /\ current \in Proc /\ stack[current] \in Seq(Items)
  BY DEF At, K, IInv, Types
<1>2. ~csr.sie /\ TrapState(current, stack[current], tf[current], Len(stack[current]))
  BY <1>1 DEF IInv, HartOK, SieOn, InitCode
<1>3. state[current] # "zombie" /\ (state[current] = "runnable" \/ OwnCode \in {"schedule", "pick"})
  BY <1>1 DEF IInv, FamilyOK, K
<1>4. CASE csr.spp
  <2>1. ~OnUserSide /\ pc # K("idt_init")
    BY <1>1, <1>4 DEF OnUserSide, K
  <2>2. PICK k \in OpenCode :
          csr.sepc = K(k) /\ Open(current, stack[current], tf[current], Len(stack[current]), k)
    BY <1>2, <1>4 DEF TrapState, Resumes
  <2>3. OwnCode = csr.sepc[1] /\ csr.sepc[1] = k
    BY <1>1, <1>4, <2>2 DEF OwnCode, K
  <2> QED BY <1>1, <1>2, <1>3, <1>4, <2>1, <2>2, <2>3 DEF IInv, HartOK, TrapState
<1>5. CASE ~csr.spp
  <2>1. OnUserSide /\ OwnCode = l
    BY <1>1, <1>5 DEF OnUserSide, OwnCode
  <2> QED BY <1>1, <1>2, <1>3, <1>5, <2>1 DEF IInv, HartOK, TrapState
<1> QED BY <1>4, <1>5

\* sret goes back to the program, or to the interrupted kernel code.
LEMMA SretStep == ASSUME IInv, Sret PROVE IInv'
<1>1. At("sret") /\ UNCHANGED <<sp, regs, clock, procs, stack>>
  BY DEF Sret
<1>2. /\ mode' = IF csr.spp THEN "S" ELSE "U"
      /\ pc' = csr.sepc /\ csr'.sie = csr.spie /\ csr'.sscratch = csr.sscratch
  BY DEF Sret, IInv, Types
<1>3. Types'
  BY <1>1 DEF Sret, IInv, Types, CSRs, procs, clock, family
<1>4. NoNewWait
  BY <1>1 DEF NoNewWait, procs
<1>5. CASE csr.spp
  <2> DEFINE l == OwnCode
  <2>1. /\ l \in OpenCode /\ pc' = K(l) /\ mode' = "S" /\ current \in Proc
        /\ Open(current, stack[current], tf[current], Len(stack[current]), l)
    BY <1>1, <1>2, <1>5, AtEdge
  <2>2. Suits(current, stack[current], tf[current], Len(stack[current]), l) /\ SieOn(current, l)
    BY <2>1, OpenIsOn
  <2> HIDE DEF l
  <2>3. HartOK'
    BY <1>1, <1>2, <1>5, <2>1, <2>2, AtEdge, NowAt DEF OpenCode, procs
  <2>4. OwnCode' = l
    BY <2>1 DEF OwnCode, K, OpenCode
  <2>5. pc' = K("schedule") => Top'.ret # "dead"
    <3>1. SUFFICES ASSUME l = "schedule" PROVE Top'.ret # "dead"
      BY <2>1 DEF K
    <3>2. /\ current \notin Task
          /\ InSchedule(current, stack[current], tf[current], Len(stack[current]))
      BY <2>1, <3>1 DEF Open, InitCode
    <3>3. ~Bottom(current, stack[current], tf[current], Len(stack[current]) - 1, "do_exit")
      BY <3>2 DEF Bottom, InitCode
    <3>4. Top' = stack[current][Len(stack[current])]
      BY <1>1, <1>5, AtEdge DEF Top
    <3> QED BY <3>2, <3>3, <3>4 DEF InSchedule
  <2>6. pc' \notin {K("pick"), K("picked"), K("switched")}
    BY <2>1 DEF OpenCode, K
  <2> QED BY <1>1, <1>3, <1>4, <2>3, <2>4, <2>5, <2>6, AtEdge, LocalStep DEF procs, family, l
<1>6. CASE ~csr.spp
  <2>1. HartOK'
    BY <1>1, <1>2, <1>6, AtEdge DEF HartOK, OnUserSide, procs
  <2>2. pc' \in UserPlace /\ mode' = "U" /\ state[current] = "runnable"
    BY <1>1, <1>2, <1>6, AtEdge
  <2>3. OwnCode' = "user" /\ pc'[1] = "user"
    BY <2>2 DEF OwnCode, UserPlace, User
  <2>4. pc' \notin {K("schedule"), K("pick"), K("picked"), K("switched")}
    BY <2>3 DEF K
  <2> QED BY <1>1, <1>3, <2>1, <2>2, <2>3, <2>4, LocalStep DEF procs, family
<1> QED BY <1>5, <1>6

\* SAVE_ALL pushes the frame on the kernel stack of the process that trapped.
LEMMA SaveAllStep == ASSUME IInv, SAVE_ALL PROVE IInv'
<1> DEFINE s == stack[current]
           n == Len(s)
           frame == [kind |-> "frame", spp |-> csr.spp, spie |-> csr.spie, sie |-> csr.sie,
                     epc |-> csr.sepc, cause |-> csr.cause, sp |-> sp, regs |-> regs]
           s2 == Append(SubSeq(s, 1, n), frame)
<1>1. At("alltraps") /\ mode = "S" /\ UNCHANGED <<mode, clock, procs>> /\ pc' = K("trap")
  BY DEF SAVE_ALL, At
<1>2. /\ regs' = KernelRegs /\ csr'.sie = FALSE /\ csr'.sscratch = Zero
      /\ csr' = [csr EXCEPT !.sscratch = Zero]
  BY <1>1, AtEdge DEF SAVE_ALL, IInv, Types
<1>3. StackForTrap = <<current, n>>
  <2>1. CASE csr.spp
    BY <1>1, <2>1, AtEdge DEF StackForTrap, Zero
  <2>2. CASE ~csr.spp
    BY <1>1, <2>2, AtEdge, Processes DEF StackForTrap, Zero
  <2> QED BY <2>1, <2>2
<1>4. stack' = [stack EXCEPT ![current] = s2] /\ sp' = <<current, n + 1>>
  BY <1>3 DEF SAVE_ALL, Above
<1>5. /\ TrapState(current, s, tf[current], n) /\ csr.cause \in UserCauses \cup {"ebreak"}
      /\ csr.spie \in BOOLEAN /\ csr.sie = FALSE /\ regs \in Registers
  BY <1>1, AtEdge DEF IInv, HartOK, Types, CSRs, TrapState, K, UserCauses
<1>6. /\ frame \in IF csr.spp THEN KFrames ELSE UFrames
      /\ IF csr.spp THEN frame.cause = "timer" \/ (frame.cause = "ebreak" /\ frame.epc = K("user_main"))
                    ELSE frame.cause \in UserCauses
  <2>1. pc = K("alltraps")
    BY <1>1 DEF At
  <2>2. CASE csr.spp
    <3>1. csr.cause \in {"timer", "ebreak"} /\ csr.spie = TRUE
      BY <1>5, <2>1, <2>2 DEF TrapState
    <3>2. csr.sepc \in KernelPlace /\ sp = <<current, n>> /\ current \in Proc /\ n \in Nat
      BY <1>1, <2>2, AtEdge DEF KernelPlace
    <3>3. n <= 4
      BY <1>1, <2>2, AtEdge, OpenHeight
    <3>4. sp \in Address
      BY <3>2, <3>3 DEF Address
    <3>5. csr.spp = TRUE
      BY <2>2 DEF IInv, Types
    <3>6. frame \in KFrames
      BY <1>5, <3>1, <3>2, <3>4, <3>5 DEF KFrames
    <3>7. csr.cause = "timer" \/ (csr.cause = "ebreak" /\ csr.sepc = K("user_main"))
      BY <1>5, <2>1, <2>2 DEF TrapState
    <3> QED BY <2>2, <3>6, <3>7
  <2>3. CASE ~csr.spp
    <3>1. csr.spp = FALSE
      BY <2>3 DEF IInv, Types
    <3>2. csr.sepc \in UserPlace /\ sp = UserSp /\ csr.cause \in UserCauses
      BY <1>1, <1>5, <2>1, <2>3, AtEdge DEF TrapState
    <3> QED BY <1>5, <3>1, <3>2 DEF UFrames
  <2> QED BY <2>2, <2>3
<1>7. /\ s2 \in Seq(Items) /\ Len(s2) = n + 1 /\ s2[n + 1] = frame
      /\ \A k \in 1 .. n : s2[k] = s[k]
  <2>1. frame \in Items /\ s \in Seq(Items)
    BY <1>1, <1>6, AtEdge DEF Items
  <2> HIDE DEF frame
  <2> QED BY <2>1, Pushed
<1>8. Types'
  <2>1. KernelRegs \in Registers
    BY TrapEntryAssumption DEF Registers, KernelRegs
  <2>2. Zero \in Address
    BY DEF Address, Zero
  <2>3. stack' \in [Proc -> Seq(Items)]
    BY <1>4, <1>7 DEF IInv, Types
  <2>4. csr' \in CSRs
    BY <1>2, <2>2 DEF IInv, Types, CSRs
  <2> QED BY <1>1, <1>2, <2>1, <2>3, <2>4 DEF IInv, Types, procs, clock, family
<1>9. /\ stack'[current] = s2 /\ current' = current /\ UNCHANGED <<tf, state, parent, saved>>
      /\ \A q \in Proc \ {current} : stack'[q] = stack[q]
      /\ Top' = frame
  BY <1>1, <1>4, <1>7, AtEdge DEF procs, family, IInv, Types, Top
<1>10. Suits(current, s2, tf[current], n + 1, "trap")
  <2>1. CASE csr.spp
    <3>1. Open(current, s2, tf[current], n, OwnCode)
      BY <1>1, <1>7, <2>1, AtEdge, SameOpen
    <3>2. s2[n + 1].sp = <<current, n>> /\ s2[n + 1].epc = K(OwnCode) /\ OwnCode \in OpenCode
      BY <1>1, <1>7, <2>1, AtEdge
    <3>3. Interrupted(current, s2, tf[current], n + 1)
      <4> HIDE DEF s2, frame
      <4>1. n \in Nat /\ (n + 1) - 1 = n
        BY <1>1, AtEdge
      <4> QED BY <1>6, <1>7, <2>1, <3>1, <3>2, <4>1 DEF Interrupted, Resumes
    <3> QED BY <3>3 DEF Suits
  <2>2. CASE ~csr.spp
    <3>1. n = 0 /\ current \in Task
      BY <1>1, <2>2, AtEdge
    <3> HIDE DEF s2, frame
    <3> QED BY <1>6, <1>7, <2>2, <3>1 DEF Suits
  <2> QED BY <2>1, <2>2
<1>11. HartOK'
  <2>1. ~SieOn(current, "trap")
    BY DEF SieOn, InitCode
  <2> QED BY <1>1, <1>2, <1>4, <1>7, <1>9, <1>10, <2>1, NowAt
<1>12. OwnCode' = IF csr.spp THEN OwnCode ELSE "trap"
  BY <1>1, <1>9, AtEdge DEF OwnCode, K
<1>13. NoNewWait
  <2> HIDE DEF s2
  <2>1. frame.kind = "frame" /\ n \in Nat
    BY <1>1, AtEdge
  <2> QED BY <1>1, <1>7, <1>9, <2>1, AtEdge DEF NoNewWait
<1> QED BY <1>1, <1>8, <1>9, <1>11, <1>12, <1>13, AtEdge, LocalStep DEF K

-----------------------------------------------------------------------------
(* trap().                                                                 *)

\* What trap() finds on the stack.
LEMMA AtTrap ==
  ASSUME IInv, At("trap")
  PROVE  LET s == stack[current]
             n == Len(s)
         IN  /\ n >= 1 /\ Top = s[n] /\ Top.spp \in BOOLEAN /\ tf[current] \in Address
             /\ IF Top.spp
                THEN /\ Interrupted(current, s, tf[current], n) /\ Top \in KFrames /\ n <= 5
                     /\ OwnCode = Top.epc[1] /\ Top.epc = K(OwnCode)
                     /\ Top.cause = "ebreak" =>
                          /\ current \in Task /\ n = 2 /\ s[1] \in KFrames
                          /\ Top.epc = K("user_main")
                     /\ Top.cause \in {"timer", "ebreak"}
                ELSE /\ current \in Task /\ n = 1 /\ Top \in UFrames
                     /\ Top.cause \in UserCauses /\ OwnCode = "trap"
             /\ state[current] # "zombie"
             /\ state[current] = "runnable" \/ OwnCode \in {"schedule", "pick"}
<1> DEFINE s == stack[current]
           n == Len(s)
<1>1. /\ mode = "S" /\ pc = K("trap") /\ pc[1] = "trap" /\ n \in Nat /\ current \in Proc
      /\ Suits(current, s, tf[current], n, "trap") /\ Top = s[n]
  BY InKernel
<1>2. \/ Interrupted(current, s, tf[current], n)
      \/ current \in Task /\ n = 1 /\ s[1] \in UFrames /\ s[1].cause \in UserCauses
  BY <1>1 DEF Suits, OwnPlaces, InitCode
<1>3. /\ tf[current] \in Address /\ state[current] # "zombie"
      /\ state[current] = "runnable" \/ OwnCode \in {"schedule", "pick"}
  BY <1>1 DEF IInv, Types, FamilyOK, K
<1>4. CASE Interrupted(current, s, tf[current], n)
  <2>1. Top \in KFrames /\ Top.spp = TRUE /\ n >= 1
    BY <1>1, <1>4 DEF Interrupted, KFrames
  <2>2. OwnCode = Top.epc[1]
    BY <1>1, <2>1 DEF OwnCode
  <2>3. PICK l \in OpenCode : Top.epc = K(l) /\ Open(current, s, tf[current], n - 1, l)
    BY <1>1, <1>4 DEF Interrupted, Resumes
  <2>4. OwnCode = l
    BY <2>2, <2>3 DEF K
  <2>5. n <= 5
    <3>1. n - 1 \in Nat
      BY <1>1, <2>1
    <3>2. n - 1 <= 4
      BY <3>1, <2>3, OpenHeight
    <3> QED BY <1>1, <3>2
  <2>6. Top.cause \in {"timer", "ebreak"} /\ (Top.cause = "ebreak" => Top.epc = K("user_main"))
    BY <1>1, <1>4 DEF Interrupted
  <2>7. ASSUME Top.cause = "ebreak" PROVE current \in Task /\ n = 2 /\ s[1] \in KFrames
    <3>1. l = "user_main"
      BY <2>3, <2>6, <2>7 DEF K
    <3>2. Bottom(current, s, tf[current], n - 1, "user_main")
      BY <2>3, <3>1 DEF Open
    <3> QED BY <1>1, <3>2 DEF Bottom, InitCode
  <2> QED BY <1>1, <1>3, <1>4, <2>1, <2>2, <2>3, <2>4, <2>5, <2>6, <2>7
<1>5. CASE current \in Task /\ n = 1 /\ s[1] \in UFrames /\ s[1].cause \in UserCauses
  <2>1. Top.spp = FALSE /\ Top \in UFrames
    BY <1>1, <1>5 DEF UFrames
  <2>2. OwnCode = "trap"
    BY <1>1, <2>1 DEF OwnCode
  <2>3. n = 1 /\ current \in Task /\ Top.cause \in UserCauses
    BY <1>1, <1>5
  <2>4. Top.spp \in BOOLEAN /\ ~Top.spp
    BY <2>1
  <2>5. n >= 1 /\ Top = s[n]
    BY <1>1, <2>3
  <2> QED BY <1>3, <2>1, <2>2, <2>3, <2>4, <2>5
<1> QED BY <1>2, <1>4, <1>5

\* trap() puts its own item on the frame, which it may have changed.
LEMMA TrapPushed ==
  ASSUME IInv, At("trap"), NEW base \in Seq(Items), Len(base) = Len(stack[current]),
         base[Len(base)] \in IF Top.spp THEN KFrames ELSE UFrames,
         \A k \in 1 .. Len(base) - 1 : base[k] = stack[current][k],
         stack' = [stack EXCEPT ![sp[1]] = Append(base, TrapFrame)],
         tf' = [tf EXCEPT ![current] = sp], sp' = <<sp[1], sp[2] + 1>>
  PROVE  LET s == stack[current]
             s2 == stack'[current]
             n == Len(s)
         IN  /\ Len(s2) = n + 1 /\ s2[n] = base[n] /\ s2[n + 1] = TrapFrame
             /\ TrapFrame \in IF Top.spp THEN KTraps ELSE UTraps
             /\ \A k \in 1 .. n - 1 : s2[k] = s[k]
             /\ stack' \in [Proc -> Seq(Items)] /\ tf' \in [Proc -> Address]
             /\ tf'[current] = <<current, n>> /\ sp' = <<current, n + 1>>
             /\ \A q \in Proc \ {current} : stack'[q] = stack[q] /\ tf'[q] = tf[q]
<1> DEFINE s == stack[current]
           n == Len(s)
<1>1. /\ n \in Nat /\ sp = <<current, n>> /\ current \in Proc
  BY InKernel
<1>2. n >= 1 /\ n <= 5 /\ Top.spp \in BOOLEAN /\ tf[current] \in Address
  BY <1>1, AtTrap
<1>3. TrapFrame \in IF Top.spp THEN KTraps ELSE UTraps
  BY <1>2 DEF TrapFrame, KTraps, UTraps
<1>4. TrapFrame \in Items
  BY <1>3 DEF Items
<1>5. /\ Append(base, TrapFrame) \in Seq(Items) /\ Len(Append(base, TrapFrame)) = n + 1
      /\ Append(base, TrapFrame)[n + 1] = TrapFrame
      /\ \A k \in 1 .. n : Append(base, TrapFrame)[k] = base[k]
  BY <1>1, <1>4
<1>6. stack'[current] = Append(base, TrapFrame) /\ stack \in [Proc -> Seq(Items)]
  BY <1>1 DEF IInv, Types
<1>7. stack' \in [Proc -> Seq(Items)] /\ \A q \in Proc \ {current} : stack'[q] = stack[q]
  BY <1>1, <1>5, <1>6
<1>8. sp \in Address
  BY <1>1, <1>2 DEF Address
<1>9. /\ tf' \in [Proc -> Address] /\ tf'[current] = <<current, n>>
      /\ \A q \in Proc \ {current} : tf'[q] = tf[q]
  BY <1>1, <1>8 DEF IInv, Types
<1> QED BY <1>1, <1>2, <1>3, <1>5, <1>6, <1>7, <1>9

\* From there trap() goes to the tail, or to a handler for what the running
\* process did itself.
LEMMA DispatchDone ==
  ASSUME IInv, At("trap"), NEW base \in Seq(Items), Len(base) = Len(stack[current]),
         base[Len(base)] \in IF Top.spp THEN KFrames ELSE UFrames,
         \A k \in 1 .. Len(base) - 1 : base[k] = stack[current][k],
         stack' = [stack EXCEPT ![sp[1]] = Append(base, TrapFrame)],
         tf' = [tf EXCEPT ![current] = sp], sp' = <<sp[1], sp[2] + 1>>,
         UNCHANGED <<csr, current, state, parent, saved>>,
         NEW l \in {"trapend", "syscall", "do_exit", "monitor"}, Goto(l),
         timer' \in {"off", "armed", "pending"}, ticks' \in 0 .. TICK_NUM - 1,
         need_resched' \in [Proc -> BOOLEAN],
         Top.spp => \/ l = "trapend" /\ base[Len(base)] = Top
                    \/ l = "syscall" /\ Top.cause = "ebreak" /\ base[Len(base)].cause = "ebreak"
  PROVE  IInv'
<1> DEFINE s == stack[current]
           n == Len(s)
           s2 == stack'[current]
           t2 == tf'[current]
<1>1. /\ n \in Nat /\ sp = <<current, n>> /\ current \in Proc /\ csr.sscratch = Zero
      /\ mode = "S" /\ pc[1] = "trap" /\ ~csr.sie
  BY InKernel DEF SieOn, InitCode
<1>2. /\ Len(s2) = n + 1 /\ s2[n] = base[n] /\ s2[n + 1] = TrapFrame
      /\ TrapFrame \in IF Top.spp THEN KTraps ELSE UTraps
      /\ \A k \in 1 .. n - 1 : s2[k] = s[k]
      /\ stack' \in [Proc -> Seq(Items)] /\ tf' \in [Proc -> Address]
      /\ t2 = <<current, n>> /\ sp' = <<current, n + 1>>
      /\ \A q \in Proc \ {current} : stack'[q] = stack[q] /\ tf'[q] = tf[q]
  BY TrapPushed
<1>3. n >= 1 /\ Top = s[n] /\ Top.spp \in BOOLEAN
  BY AtTrap
<1>4. pc' = K(l) /\ mode' = "S" /\ regs' = regs
  BY <1>1 DEF Goto
<1>5. Types'
  BY <1>2, <1>4 DEF IInv, Types
<1> HIDE DEF s, n, s2, t2
<1>6. Suits(current, s2, t2, n + 1, l)
  <2>1. CASE Top.spp /\ l = "trapend"
    <3>1. Interrupted(current, s, tf[current], n) /\ s2[n] = s[n]
      BY <1>2, <1>3, <2>1, AtTrap DEF s, n
    <3>2. \A k \in 1 .. n : s2[k] = s[k]
      BY <1>1, <1>2, <3>1
    <3>3. Interrupted(current, s2, t2, n)
      BY <1>1, <3>1, <3>2, SameInterrupted
    <3>4. (n + 1) - 1 = n /\ n + 1 >= 2 /\ s2[n + 1] \in KTraps
      BY <1>1, <1>2, <1>3, <2>1
    <3> QED BY <2>1, <3>3, <3>4 DEF Suits
  <2>2. CASE Top.spp /\ l = "syscall"
    <3>1. current \in Task /\ n = 2 /\ s[1] \in KFrames /\ s2[1] = s[1]
      BY <1>2, <2>2, AtTrap DEF s, n
    <3>2. s2[2] \in KFrames /\ s2[2].cause = "ebreak" /\ s2[3] \in KTraps /\ t2 = <<current, 2>>
      BY <1>2, <2>2, <3>1 DEF s, n
    <3>3. Bottom(current, s2, t2, 3, "syscall")
      BY <3>1, <3>2 DEF Bottom
    <3> QED BY <2>2, <3>1, <3>3 DEF Suits, OwnPlaces
  <2>3. CASE ~Top.spp
    <3>1. current \in Task /\ n = 1
      BY <2>3, AtTrap DEF s, n
    <3>2. s2[1] \in UFrames /\ s2[2] \in UTraps /\ t2 = <<current, 1>>
      BY <1>2, <2>3, <3>1 DEF s, n
    <3>3. Bottom(current, s2, t2, 2, IF l = "monitor" THEN "syscall" ELSE l)
      BY <3>1, <3>2 DEF Bottom
    <3> QED BY <3>1, <3>3 DEF Suits, OwnPlaces
  <2> QED BY <2>1, <2>2, <2>3
<1>7. HartOK'
  <2>1. ~SieOn(current, l)
    BY DEF SieOn, InitCode
  <2> QED BY <1>1, <1>2, <1>4, <1>6, <2>1, NowAt DEF s2, t2
<1>8. NoNewWait
  <2>1. \A k \in DOMAIN s2 : s2[k].kind = "do_wait" => k \in 1 .. n - 1
    <3>1. s2[n] \in KFrames \cup UFrames /\ s2[n + 1] \in KTraps \cup UTraps
      BY <1>1, <1>2, <1>3 DEF s, n
    <3>2. s2[n].kind = "frame" /\ s2[n + 1].kind = "trap"
      BY <3>1 DEF KFrames, UFrames, KTraps, UTraps
    <3>3. DOMAIN s2 = 1 .. n + 1
      BY <1>1, <1>2 DEF s2
    <3> QED BY <1>1, <1>3, <3>2, <3>3
  <2>2. DOMAIN s = 1 .. n
    BY <1>1 DEF IInv, Types, s, n
  <2> QED BY <1>1, <1>2, <2>1, <2>2 DEF NoNewWait, s, s2
<1>9. /\ state[current] # "zombie"
      /\ state[current] = "runnable" \/ OwnCode \in {"schedule", "pick"}
      /\ IF Top.spp THEN OwnCode = Top.epc[1] ELSE OwnCode = "trap"
      /\ Top.cause = "ebreak" /\ Top.spp => Top.epc = K("user_main")
  BY AtTrap
<1>10. OwnCode' = OwnCode \/ (state[current] = "runnable" /\ OwnCode' # "sleep")
  <2>1. Top' = TrapFrame /\ pc'[1] = l
    BY <1>1, <1>2, <1>4 DEF Top, K, s2
  <2>2. CASE Top.spp /\ l = "trapend"
    <3>1. Top'.in_kernel = TRUE
      BY <1>2, <2>1, <2>2 DEF KTraps
    <3>2. OwnCode' = stack'[current'][Len(stack'[current']) - 1].epc[1]
      BY <1>4, <2>1, <2>2, <3>1 DEF OwnCode
    <3>3. stack'[current'][Len(stack'[current']) - 1] = Top
      BY <1>1, <1>2, <1>3, <2>2 DEF s2, s, n
    <3> QED BY <1>9, <2>2, <3>2, <3>3
  <2>3. CASE Top.spp /\ l = "syscall"
    <3>1. OwnCode = "user_main" /\ OwnCode' = "syscall"
      BY <1>4, <1>9, <2>1, <2>3 DEF OwnCode, K
    <3> QED BY <1>9, <3>1
  <2>4. CASE ~Top.spp
    <3>1. Top'.in_kernel = FALSE
      BY <1>2, <2>1, <2>4 DEF UTraps
    <3>2. OwnCode' = l
      BY <1>4, <2>1, <3>1 DEF OwnCode
    <3> QED BY <1>9, <2>4, <3>2
  <2> QED BY <2>2, <2>3, <2>4
<1> QED BY <1>2, <1>4, <1>5, <1>7, <1>8, <1>9, <1>10, LocalStep DEF K

\* interrupt_handler counts a tick, and asks for rescheduling at the slice's end.
LEMMA DispatchTimerStep == ASSUME IInv, DispatchTimer PROVE IInv'
<1>1. /\ At("trap") /\ tf' = [tf EXCEPT ![current] = sp] /\ sp' = <<sp[1], sp[2] + 1>>
      /\ Goto("trapend") /\ UNCHANGED <<csr, current, state, parent, saved>>
      /\ stack' = [stack EXCEPT ![sp[1]] = Append(stack[sp[1]], TrapFrame)]
  BY InKernel DEF DispatchTimer, Dispatch, family, IInv, Types
<1>2. /\ timer' \in {"off", "armed", "pending"} /\ ticks' \in 0 .. TICK_NUM - 1
      /\ need_resched' \in [Proc -> BOOLEAN]
  BY TrapEntryAssumption DEF DispatchTimer, clock_set_next_event, IInv, Types
<1>3. /\ sp = <<current, Len(stack[current])>> /\ stack[current] \in Seq(Items)
      /\ Top = stack[current][Len(stack[current])]
      /\ stack[current][Len(stack[current])] \in IF Top.spp THEN KFrames ELSE UFrames
  BY <1>1, InKernel, AtTrap
<1>4. stack' = [stack EXCEPT ![sp[1]] = Append(stack[current], TrapFrame)]
  BY <1>1, <1>3
<1> QED BY <1>1, <1>2, <1>3, <1>4, DispatchDone

\* exception_handler at a fault of a program: it exits.
LEMMA DispatchFaultStep == ASSUME IInv, DispatchFault PROVE IInv'
<1>1. /\ At("trap") /\ tf' = [tf EXCEPT ![current] = sp] /\ sp' = <<sp[1], sp[2] + 1>>
      /\ UNCHANGED <<csr, timer, ticks, current, state, parent, need_resched, saved>>
      /\ stack' = [stack EXCEPT ![sp[1]] = Append(stack[sp[1]], TrapFrame)]
      /\ Top.cause \in {"fault", "misaligned", "other"}
  BY InKernel DEF DispatchFault, Dispatch, clock, family, IInv, Types
<1>2. ~Top.spp
  BY <1>1, AtTrap
<1>3. /\ sp = <<current, Len(stack[current])>> /\ stack[current] \in Seq(Items)
      /\ Top = stack[current][Len(stack[current])]
      /\ stack[current][Len(stack[current])] \in IF Top.spp THEN KFrames ELSE UFrames
  BY <1>1, InKernel, AtTrap
<1>4. stack' = [stack EXCEPT ![sp[1]] = Append(stack[current], TrapFrame)]
  BY <1>1, <1>3
<1>5. /\ timer' \in {"off", "armed", "pending"} /\ ticks' \in 0 .. TICK_NUM - 1
      /\ need_resched' \in [Proc -> BOOLEAN]
  BY <1>1 DEF IInv, Types
<1>6. PICK l \in {"trapend", "do_exit", "monitor"} : Goto(l)
  BY <1>1 DEF DispatchFault
<1> QED BY <1>1, <1>2, <1>3, <1>4, <1>5, <1>6, DispatchDone

\* Behind a call, or behind kernel_execve's breakpoint.
LEMMA AfterIsPlace ==
  /\ \A at \in UserPlace : After(at) \in UserPlace
  /\ After(K("user_main")) = K("user_main")
<1>1. ASSUME NEW n \in 0 .. NPC - 1 PROVE (n + 1) % NPC \in 0 .. NPC - 1
  BY TrapEntryAssumption
<1> QED BY <1>1 DEF After, UserPlace, User, K

\* exception_handler at an ecall or ebreak: the epc moves on, and syscall() is called.
LEMMA DispatchCallStep == ASSUME IInv, DispatchCall PROVE IInv'
<1> DEFINE s == stack[current]
           n == Len(s)
           f == [Top EXCEPT !.epc = After(Top.epc)]
           base == [s EXCEPT ![n] = f]
<1>1. /\ At("trap") /\ tf' = [tf EXCEPT ![current] = sp] /\ sp' = <<sp[1], sp[2] + 1>>
      /\ UNCHANGED <<csr, timer, ticks, current, state, parent, need_resched, saved>>
      /\ Top.cause \in {"ecall", "ebreak"} /\ Goto("syscall")
  BY DEF DispatchCall, Dispatch, clock, family
<1>2. /\ sp = <<current, n>> /\ s \in Seq(Items) /\ Top = s[n] /\ current \in Proc /\ n >= 1
      /\ n \in Nat
  BY <1>1, InKernel, AtTrap
<1>3. stack' = [stack EXCEPT ![sp[1]] = Append(base, TrapFrame)]
  BY <1>2 DEF DispatchCall, Top
<1>4. /\ f \in IF Top.spp THEN KFrames ELSE UFrames
      /\ Top.spp => Top.cause = "ebreak" /\ f.cause = "ebreak"
  <2>1. CASE Top.spp
    <3>1. Top \in KFrames /\ Top.cause = "ebreak" /\ Top.epc = K("user_main")
      BY <1>1, <2>1, AtTrap
    <3>2. f \in KFrames /\ f.cause = "ebreak"
      BY <3>1, AfterIsPlace DEF KFrames
    <3> QED BY <2>1, <3>1, <3>2
  <2>2. CASE ~Top.spp
    <3>1. Top \in UFrames
      BY <1>1, <2>2, AtTrap
    <3>2. f \in UFrames
      BY <3>1, AfterIsPlace DEF UFrames
    <3> QED BY <2>2, <3>2
  <2> QED BY <2>1, <2>2
<1>5. f \in Items
  BY <1>4 DEF Items
<1> HIDE DEF f
<1>6. /\ base \in Seq(Items) /\ Len(base) = n /\ base[n] = f
      /\ \A k \in 1 .. n : k # n => base[k] = s[k]
  <2>1. s \in Seq(Items) /\ n \in 1 .. Len(s)
    BY <1>2
  <2> HIDE DEF s
  <2> QED BY <1>5, <2>1, Stored
<1>7. /\ timer' \in {"off", "armed", "pending"} /\ ticks' \in 0 .. TICK_NUM - 1
      /\ need_resched' \in [Proc -> BOOLEAN]
  BY <1>1 DEF IInv, Types
<1>8. \A k \in 1 .. n - 1 : base[k] = s[k]
  BY <1>2, <1>6
<1> HIDE DEF base
<1> QED BY <1>1, <1>3, <1>4, <1>6, <1>7, <1>8, DispatchDone

-----------------------------------------------------------------------------
(* Steps of the running process's own code.                                *)

\* Outside schedule() and traps the running process is runnable.
LEMMA OwnIsRunnable ==
  ASSUME IInv, NEW l, At(l),
         l \notin {"alltraps", "sret", "idt_init", "trap", "trapret", "trapend", "schedule", "pick"}
  PROVE  state[current] = "runnable" /\ OwnCode = l
<1>1. pc[1] = l
  BY InKernel
<1>2. OwnCode = l
  BY <1>1 DEF OwnCode
<1> QED BY <1>2 DEF IInv, FamilyOK

\* A step of its own code from a place where it is runnable, to any place but the
\* middle of schedule(): what has to be shown is where it has come to.
LEMMA OwnStep ==
  ASSUME IInv, NEW l2, l2 \notin {"alltraps", "sret", "pick", "switched"}, Goto(l2), mode = "S",
         state[current] = "runnable",
         UNCHANGED <<current, state, parent, saved>>,
         stack' \in [Proc -> Seq(Items)], tf' \in [Proc -> Address],
         \A q \in Proc \ {current} : stack'[q] = stack[q] /\ tf'[q] = tf[q],
         sp' = <<current, Len(stack'[current])>>,
         csr' \in CSRs, csr'.sscratch = Zero, csr'.sie <=> SieOn(current, l2),
         timer' \in {"off", "armed", "pending"}, ticks' \in 0 .. TICK_NUM - 1,
         need_resched' \in [Proc -> BOOLEAN],
         Suits(current, stack'[current], tf'[current], Len(stack'[current]), l2),
         l2 \in {"schedule", "picked"} => Top'.ret # "dead",
         OwnCode' # "sleep"
  PROVE  IInv'
<1>1. pc' = K(l2) /\ mode' = "S" /\ regs' = regs
  BY DEF Goto
<1>2. Types'
  BY <1>1 DEF IInv, Types
<1>3. HartOK'
  BY <1>1, NowAt
<1>4. pc' \in {K("schedule"), K("picked")} => Top'.ret # "dead"
  BY <1>1 DEF K
<1> QED BY <1>1, <1>2, <1>3, <1>4, LocalStep DEF K

\* The end of trap().
LEMMA TrapEndsStep == ASSUME IInv, TrapEnds PROVE IInv'
<1> DEFINE s == stack[current]
           n == Len(s)
<1>1. /\ At("trapend") /\ mode = "S" /\ pc[1] = "trapend"
      /\ tf' = [tf EXCEPT ![current] = Top.otf]
      /\ UNCHANGED <<csr, timer, ticks, current, state, parent, need_resched, saved>>
  BY DEF TrapEnds, clock, family, At, K
<1>2. /\ sp = <<current, n>> /\ s \in Seq(Items) /\ n \in Nat /\ Top = s[n] /\ current \in Proc
      /\ Suits(current, s, tf[current], n, "trapend") /\ csr.sscratch = Zero /\ ~csr.sie
  BY <1>1, InKernel DEF SieOn, InitCode
<1>3. \/ Bottom(current, s, tf[current], n, "trapend")
      \/ n >= 2 /\ s[n] \in KTraps /\ Interrupted(current, s, tf[current], n - 1)
  BY <1>2 DEF Suits, OwnPlaces, InitCode
<1>4. /\ csr \in CSRs /\ timer \in {"off", "armed", "pending"} /\ ticks \in 0 .. TICK_NUM - 1
      /\ need_resched \in [Proc -> BOOLEAN] /\ tf \in [Proc -> Address]
      /\ stack \in [Proc -> Seq(Items)]
  BY DEF IInv, Types
<1> HIDE DEF s, n
<1>5. CASE Bottom(current, s, tf[current], n, "trapend")
  <2>1. /\ current \in Task /\ n = 2 /\ s[1] \in UFrames /\ s[2] \in UTraps
    BY <1>2, <1>5 DEF Bottom, InitCode
  <2>2. Top.otf \in Address /\ Top.in_kernel = FALSE
    BY <1>2, <2>1 DEF UTraps
  <2>3. /\ tf' \in [Proc -> Address] /\ tf'[current] = Top.otf
        /\ \A q \in Proc \ {current} : tf'[q] = tf[q]
    BY <1>1, <1>2, <1>4, <2>2
  <2>4. OwnCode = "trapend"
    BY <1>1, <2>2 DEF OwnCode
  <2>5. state[current] = "runnable"
    BY <2>4 DEF IInv, FamilyOK
  <2>6. CASE MustYield
    <3> DEFINE e == SchedFrame("trapret")
               s2 == [s EXCEPT ![2] = e]
    <3>1. stack' = [stack EXCEPT ![current] = s2] /\ Goto("schedule") /\ UNCHANGED sp
      BY <1>2, <1>4, <2>1, <2>6 DEF TrapEnds, s, n
    <3>2. e \in Scheds /\ e.ret = "trapret" /\ e \in Items
      BY DEF SchedFrame, Scheds, Items
    <3>3. s2 \in Seq(Items) /\ Len(s2) = 2 /\ s2[1] = s[1] /\ s2[2] = e
      <4>1. 2 \in 1 .. Len(s) /\ Len(s) = 2
        BY <2>1 DEF n
      <4> HIDE DEF e
      <4> QED BY <1>2, <3>2, <4>1, Stored
    <3> HIDE DEF e, s2
    <3>9. /\ stack'[current] = s2 /\ stack' \in [Proc -> Seq(Items)]
          /\ \A q \in Proc \ {current} : stack'[q] = stack[q]
      BY <1>2, <1>4, <3>1, <3>3
    <3>10. Top' = e
      BY <1>2, <2>1, <3>1, <3>3, <3>9 DEF Top
    <3>4. Bottom(current, s2, Top.otf, 1, "trapret")
      BY <2>1, <3>3 DEF Bottom
    <3>5. InSchedule(current, s2, Top.otf, 2)
      BY <3>2, <3>3, <3>4 DEF InSchedule
    <3>6. Suits(current, s2, Top.otf, 2, "schedule")
      BY <3>5 DEF Suits
    <3>7. ~SieOn(current, "schedule")
      BY <2>1 DEF SieOn, InitCode
    <3>8. OwnCode' = "schedule"
      BY <3>1 DEF OwnCode, Goto, K
    <3> QED BY <1>1, <1>2, <1>4, <2>1, <2>3, <2>5, <3>1, <3>2, <3>3, <3>6, <3>7, <3>8, <3>9, <3>10,
               OwnStep
  <2>7. CASE ~MustYield
    <3> DEFINE s2 == SubSeq(s, 1, 1)
    <3>1. stack' = [stack EXCEPT ![current] = s2] /\ Goto("trapret") /\ sp' = <<current, 1>>
      BY <1>2, <1>4, <2>1, <2>7 DEF TrapEnds, Pop, Above, s, n
    <3>2. s2 \in Seq(Items) /\ Len(s2) = 1 /\ s2[1] = s[1]
      BY <1>2, <2>1, Popped DEF n
    <3> HIDE DEF s2
    <3>7. /\ stack'[current] = s2 /\ stack' \in [Proc -> Seq(Items)]
          /\ \A q \in Proc \ {current} : stack'[q] = stack[q]
      BY <1>2, <1>4, <3>1, <3>2
    <3>3. Bottom(current, s2, Top.otf, 1, "trapret")
      BY <2>1, <3>2 DEF Bottom
    <3>4. Suits(current, s2, Top.otf, 1, "trapret")
      BY <3>3 DEF Suits
    <3>5. ~SieOn(current, "trapret")
      BY DEF SieOn, InitCode
    <3>6. OwnCode' = "trapret"
      <4>1. Top' = s2[1] /\ s2[1].spp = FALSE
        BY <1>2, <1>4, <2>1, <3>1, <3>2 DEF Top, UFrames
      <4> QED BY <3>1, <4>1 DEF OwnCode, Goto, K
    <3> QED BY <1>1, <1>2, <1>4, <2>3, <2>5, <3>1, <3>2, <3>4, <3>5, <3>6, <3>7, OwnStep
  <2> QED BY <2>6, <2>7
<1>6. CASE n >= 2 /\ s[n] \in KTraps /\ Interrupted(current, s, tf[current], n - 1)
  <2> DEFINE s2 == SubSeq(s, 1, n - 1)
  <2>1. Top.otf \in Address /\ Top.in_kernel = TRUE
    BY <1>2, <1>6 DEF KTraps
  <2>2. /\ tf' \in [Proc -> Address] /\ tf'[current] = Top.otf
        /\ \A q \in Proc \ {current} : tf'[q] = tf[q]
    BY <1>1, <1>2, <1>4, <2>1
  <2>3. ~MustYield
    BY <2>1 DEF MustYield
  <2>4. stack' = [stack EXCEPT ![current] = s2] /\ Goto("trapret") /\ sp' = <<current, n - 1>>
    BY <1>2, <1>4, <2>3 DEF TrapEnds, Pop, Above, s, n
  <2>5. n - 1 \in 0 .. Len(s) /\ n - 1 \in Nat /\ Len(s) = n
    BY <1>2, <1>6 DEF n
  <2>6. s2 \in Seq(Items) /\ Len(s2) = n - 1 /\ \A k \in 1 .. n - 1 : s2[k] = s[k]
    BY <1>2, <2>5, Popped
  <2> HIDE DEF s2
  <2>7. /\ stack'[current] = s2 /\ stack' \in [Proc -> Seq(Items)]
        /\ \A q \in Proc \ {current} : stack'[q] = stack[q]
    BY <1>2, <1>4, <2>4, <2>6
  <2>8. Interrupted(current, s2, Top.otf, n - 1)
    BY <1>6, <2>5, <2>6, SameInterrupted
  <2>9. Suits(current, s2, Top.otf, n - 1, "trapret")
    BY <2>8 DEF Suits
  <2>10. HartOK'
    <3>1. ~SieOn(current, "trapret")
      BY DEF SieOn, InitCode
    <3>2. pc' = K("trapret") /\ mode' = "S"
      BY <1>1, <2>4 DEF Goto
    <3> QED BY <1>1, <1>2, <2>2, <2>4, <2>6, <2>7, <2>9, <3>1, <3>2, NowAt
  <2>11. Types'
    BY <1>1, <1>4, <2>2, <2>4, <2>7 DEF IInv, Types, Goto
  <2>12. Top' = s[n - 1] /\ s[n - 1].spp = TRUE /\ s[n - 1] = stack[current][Len(stack[current]) - 1]
    <3>1. s2[n - 1] = s[n - 1] /\ s[n - 1] \in KFrames
      BY <1>6, <2>5, <2>6 DEF Interrupted
    <3> QED BY <2>4, <2>7, <3>1 DEF Top, KFrames, s, n
  <2>13. OwnCode' = OwnCode
    BY <1>1, <2>1, <2>4, <2>12 DEF OwnCode, Goto, K
  <2>14. NoNewWait
    BY <1>2, <2>5, <2>6, <2>7 DEF NoNewWait, s
  <2>15. /\ state[current] # "zombie"
         /\ state[current] = "runnable" \/ OwnCode \in {"schedule", "pick"}
    BY <1>1 DEF IInv, FamilyOK, K
  <2>16. pc' = K("trapret")
    BY <2>4 DEF Goto
  <2> QED BY <1>1, <2>2, <2>7, <2>10, <2>11, <2>13, <2>14, <2>15, <2>16, LocalStep DEF K
<1> QED BY <1>3, <1>5, <1>6

-----------------------------------------------------------------------------
(* The way back: RESTORE_ALL, forkret, kernel_execve's return.             *)

\* What RESTORE_ALL finds on the stack: a user's frame, or a kernel frame that says
\* where the stack of the code it returns to ends.
LEMMA AtTrapret ==
  ASSUME IInv, At("trapret")
  PROVE  LET s == stack[current]
             n == Len(s)
         IN  \/ current \in Task /\ n = 1 /\ Top \in UFrames
             \/ /\ Top \in KFrames /\ n >= 1
                /\ \E m \in {n - 1, n}, l \in OpenCode :
                     Top.sp = <<current, m>> /\ Top.epc = K(l) /\ Open(current, s, tf[current], m, l)
<1> DEFINE s == stack[current]
           n == Len(s)
<1>1. /\ Suits(current, s, tf[current], n, "trapret") /\ n \in Nat /\ Top = s[n] /\ current \in Proc
  BY InKernel
<1> HIDE DEF s, n
<1>2. \/ Bottom(current, s, tf[current], n, "trapret") \/ Interrupted(current, s, tf[current], n)
      \/ current # idleproc /\ n = 1 /\ NewThread(current, s)
  BY <1>1 DEF Suits, OwnPlaces, InitCode
<1>3. CASE Bottom(current, s, tf[current], n, "trapret")
  BY <1>1, <1>3 DEF Bottom, InitCode, s, n
<1>4. CASE Interrupted(current, s, tf[current], n)
  BY <1>1, <1>4 DEF Interrupted, Resumes, s, n
<1>5. CASE current # idleproc /\ n = 1 /\ NewThread(current, s)
  <2> DEFINE l == IF current = initproc THEN "init_main" ELSE "user_main"
  <2>1. Top \in KFrames /\ Top.sp = <<current, n>> /\ Top.epc = K(l) /\ l \in OpenCode
    BY <1>1, <1>5 DEF NewThread, OpenCode
  <2>2. Bottom(current, s, tf[current], n, l)
    BY <1>1, <1>5, <2>1, Processes DEF Bottom, InitCode, Proc
  <2>3. Open(current, s, tf[current], n, l)
    BY <2>2 DEF Open, InitCode
  <2> QED BY <1>1, <1>5, <2>1, <2>3 DEF s, n
<1> QED BY <1>2, <1>3, <1>4, <1>5

\* RESTORE_ALL pops the frame into the registers.
LEMMA RestoreAllStep == ASSUME IInv, RESTORE_ALL PROVE IInv'
<1> DEFINE s == stack[current]
           n == Len(s)
           m == IF Top.sp[1] = sp[1] THEN Top.sp[2] ELSE sp[2] - 1
           s2 == SubSeq(s, 1, m)
<1>1. /\ At("trapret") /\ UNCHANGED <<mode, timer, ticks, current, state, parent, need_resched,
                                     tf, saved>>
      /\ csr' = [csr EXCEPT !.sscratch = ScratchFor(Top), !.sepc = Top.epc,
                            !.spp = Top.spp, !.spie = Top.spie, !.sie = Top.sie]
      /\ regs' = Top.regs /\ sp' = Top.sp /\ pc' = K("sret")
  BY DEF RESTORE_ALL, clock, procs, family
<1>2. /\ sp = <<current, n>> /\ s \in Seq(Items) /\ n \in Nat /\ Top = s[n] /\ current \in Proc
      /\ csr.sscratch = Zero /\ mode = "S" /\ pc = K("trapret") /\ pc[1] = "trapret"
  BY <1>1, InKernel
<1>3. stack' = [stack EXCEPT ![current] = s2]
  BY <1>2 DEF RESTORE_ALL, Above
<1>4. csr \in CSRs /\ stack \in [Proc -> Seq(Items)]
  BY DEF IInv, Types
<1>5. /\ csr'.sscratch = ScratchFor(Top) /\ csr'.sepc = Top.epc /\ csr'.spp = Top.spp
      /\ csr'.spie = Top.spie /\ csr'.sie = Top.sie
  BY <1>1, <1>4 DEF CSRs
<1>6. /\ state[current] # "zombie"
      /\ state[current] = "runnable" \/ OwnCode \in {"schedule", "pick"}
  BY <1>2 DEF IInv, FamilyOK, K
<1>7. ~SieOn(current, "sret")
  BY DEF SieOn, InitCode
<1>8. CASE current \in Task /\ n = 1 /\ Top \in UFrames
  <2>1. /\ Top.spp = FALSE /\ Top.spie \in BOOLEAN /\ Top.sie = FALSE /\ Top.epc \in UserPlace
        /\ Top.sp = UserSp /\ Top.regs \in Registers
    BY <1>8 DEF UFrames
  <2>2. m = 0 /\ ScratchFor(Top) = <<current, 0>>
    BY <1>2, <1>8, <2>1, Processes DEF UserSp, ScratchFor
  <2>3. stack'[current] = <<>> /\ stack' \in [Proc -> Seq(Items)]
        /\ \A q \in Proc \ {current} : stack'[q] = stack[q]
    <3>1. s2 = <<>>
      BY <1>2, <2>2
    <3> HIDE DEF s2
    <3> QED BY <1>2, <1>3, <1>4, <3>1
  <2>4. Types'
    <3>1. ScratchFor(Top) \in Address
      BY <1>2, <2>2 DEF Address
    <3>2. csr' \in CSRs
      BY <1>1, <1>4, <2>1, <3>1 DEF CSRs
    <3> QED BY <1>1, <2>1, <2>3, <3>2 DEF IInv, Types
  <2>5. HartOK'
    BY <1>1, <1>2, <1>5, <1>7, <1>8, <2>1, <2>2, <2>3 DEF HartOK, OnUserSide, TrapState, K
  <2>6. OwnCode = "trapret" /\ OwnCode' = "sret"
    BY <1>1, <1>2, <1>5, <2>1 DEF OwnCode, K
  <2> QED BY <1>1, <1>6, <2>3, <2>4, <2>5, <2>6, LocalStep DEF K
<1>9. ASSUME Top \in KFrames, n >= 1, NEW j \in {n - 1, n}, NEW l \in OpenCode,
             Top.sp = <<current, j>>, Top.epc = K(l), Open(current, s, tf[current], j, l)
      PROVE  IInv'
  <2>1. /\ Top.spp = TRUE /\ Top.spie = TRUE /\ Top.sie = FALSE /\ Top.epc \in KernelPlace
        /\ Top.regs \in Registers /\ ScratchFor(Top) = Zero
    BY <1>2, <1>9 DEF KFrames, ScratchFor
  <2>2. m = j /\ j \in 0 .. Len(s) /\ j \in Nat
    BY <1>2, <1>9
  <2>3. s2 \in Seq(Items) /\ Len(s2) = j /\ \A k \in 1 .. j : s2[k] = s[k]
    BY <1>2, <2>2, Popped
  <2> HIDE DEF s2, m
  <2>4. stack'[current] = s2 /\ stack' \in [Proc -> Seq(Items)]
        /\ \A q \in Proc \ {current} : stack'[q] = stack[q]
    BY <1>2, <1>3, <1>4, <2>3
  <2>5. Open(current, s2, tf[current], j, l)
    BY <1>9, <2>2, <2>3, SameOpen
  <2>6. Types'
    <3>1. Zero \in Address
      BY DEF Address, Zero
    <3>2. csr' \in CSRs
      BY <1>1, <1>4, <2>1, <3>1 DEF CSRs
    <3> QED BY <1>1, <2>1, <2>4, <3>2 DEF IInv, Types
  <2>7. HartOK'
    <3>1. Resumes(current, s2, tf[current], j, Top.epc)
      BY <1>9, <2>5 DEF Resumes
    <3>2. TrapState(current, stack[current], tf[current], Len(stack[current]))'
      BY <1>1, <1>5, <2>1, <2>3, <2>4, <3>1 DEF TrapState, K
    <3> QED BY <1>1, <1>2, <1>5, <1>7, <1>9, <2>1, <2>3, <2>4, <3>2 DEF HartOK, OnUserSide, K
  <2>8. OwnCode = l /\ OwnCode' = l
    BY <1>1, <1>2, <1>5, <1>9, <2>1 DEF OwnCode, K
  <2>9. NoNewWait
    BY <1>2, <2>2, <2>3, <2>4 DEF NoNewWait
  <2> QED BY <1>1, <1>6, <2>4, <2>6, <2>7, <2>8, <2>9, LocalStep DEF K
<1>10. \/ current \in Task /\ n = 1 /\ Top \in UFrames
       \/ /\ Top \in KFrames /\ n >= 1
          /\ \E j \in {n - 1, n}, l \in OpenCode :
               Top.sp = <<current, j>> /\ Top.epc = K(l) /\ Open(current, s, tf[current], j, l)
  BY <1>1, AtTrapret
<1> QED BY <1>8, <1>9, <1>10

\* forkret puts a new process on its first frame.
LEMMA ForkretsStep == ASSUME IInv, forkrets PROVE IInv'
<1> DEFINE s == stack[current]
           n == Len(s)
<1>1. /\ At("forkret") /\ Goto("trapret") /\ mode = "S" /\ sp' = tf[current]
      /\ UNCHANGED <<csr, timer, ticks, current, state, parent, need_resched, tf, saved, stack>>
  BY DEF forkrets, At, clock, procs, family
<1>2. /\ New(current, s, tf[current], n) /\ csr.sscratch = Zero /\ ~csr.sie /\ n = Len(stack[current])
      /\ current \in Proc
  BY <1>1, InKernel DEF SieOn, InitCode, Suits, OwnPlaces
<1>3. state[current] = "runnable"
  BY <1>1, OwnIsRunnable
<1>4. n = 1 /\ tf[current] = <<current, n>>
  BY <1>2 DEF New
<1>5. Suits(current, s, tf[current], n, "trapret")
  BY <1>2 DEF Suits, New, Bottom
<1>6. ~SieOn(current, "trapret")
  BY DEF SieOn, InitCode
<1>7. OwnCode' # "sleep"
  <2>1. Top' = s[1]
    BY <1>1, <1>4 DEF Top
  <2>2. s[1] \in UFrames \/ s[1].epc[1] \in {"init_main", "user_main"}
    BY <1>2 DEF New, NewThread, K
  <2>3. s[1] \in UFrames => s[1].spp = FALSE
    BY DEF UFrames
  <2> QED BY <1>1, <2>1, <2>2, <2>3 DEF OwnCode, Goto, K
<1>8. /\ csr \in CSRs /\ timer \in {"off", "armed", "pending"} /\ ticks \in 0 .. TICK_NUM - 1
      /\ need_resched \in [Proc -> BOOLEAN] /\ tf \in [Proc -> Address]
      /\ stack \in [Proc -> Seq(Items)]
  BY DEF IInv, Types
<1> QED BY <1>1, <1>2, <1>3, <1>4, <1>5, <1>6, <1>7, <1>8, OwnStep

\* kernel_execve_ret moves the program's frame to the bottom of the stack.
LEMMA ExecveRetStep == ASSUME IInv, kernel_execve_ret PROVE IInv'
<1> DEFINE s == stack[current]
           n == Len(s)
           s2 == <<s[2]>>
<1>1. /\ At("execve_ret") /\ Goto("trapret") /\ mode = "S" /\ sp' = <<current, 1>>
      /\ UNCHANGED <<csr, timer, ticks, current, state, parent, need_resched, tf, saved>>
  BY DEF kernel_execve_ret, At, clock, procs, family
<1>2. /\ current \in Task /\ n = 3 /\ tf[current] = <<current, 2>> /\ s[2] \in UFrames
      /\ csr.sscratch = Zero /\ ~csr.sie /\ current \in Proc
  BY <1>1, InKernel DEF SieOn, InitCode, Suits, OwnPlaces
<1>3. state[current] = "runnable"
  BY <1>1, OwnIsRunnable
<1>4. stack' = [stack EXCEPT ![current] = s2]
  BY <1>2 DEF kernel_execve_ret
<1>8. /\ csr \in CSRs /\ timer \in {"off", "armed", "pending"} /\ ticks \in 0 .. TICK_NUM - 1
      /\ need_resched \in [Proc -> BOOLEAN] /\ tf \in [Proc -> Address]
      /\ stack \in [Proc -> Seq(Items)]
  BY DEF IInv, Types
<1>5. s2 \in Seq(Items) /\ Len(s2) = 1 /\ s2[1] \in UFrames
  BY <1>2 DEF Items
<1> HIDE DEF s2
<1>6. /\ stack'[current] = s2 /\ stack' \in [Proc -> Seq(Items)]
      /\ \A q \in Proc \ {current} : stack'[q] = stack[q]
  BY <1>2, <1>4, <1>5, <1>8
<1>7. Suits(current, s2, tf[current], 1, "trapret")
  BY <1>2, <1>5 DEF Suits, Bottom
<1>9. ~SieOn(current, "trapret")
  BY DEF SieOn, InitCode
<1>10. OwnCode' = "trapret"
  <2>1. Top' = s2[1] /\ s2[1].spp = FALSE
    BY <1>1, <1>5, <1>6 DEF Top, UFrames
  <2> QED BY <1>1, <2>1 DEF OwnCode, Goto, K
<1> QED BY <1>1, <1>2, <1>3, <1>5, <1>6, <1>7, <1>8, <1>9, <1>10, OwnStep

-----------------------------------------------------------------------------
(* Steps that push, pop or store an item on the running process's stack.   *)

\* The types of what most steps leave alone.
LEMMA Typed ==
  ASSUME IInv
  PROVE  /\ csr \in CSRs /\ timer \in {"off", "armed", "pending"} /\ ticks \in 0 .. TICK_NUM - 1
         /\ need_resched \in [Proc -> BOOLEAN] /\ tf \in [Proc -> Address]
         /\ stack \in [Proc -> Seq(Items)] /\ current \in Proc
         /\ state \in [Proc -> {"none", "runnable", "waiting", "zombie"}]
         /\ parent \in [Proc -> Proc] /\ regs \in Registers
         /\ saved \in [Proc -> [ra : {"none", "forkret", "switched"}, sp : Address]]
BY DEF IInv, Types

\* A call of a C function.
LEMMA PushStep ==
  ASSUME IInv, NEW e \in Items, Push(e), current' = current,
         sp = <<current, Len(stack[current])>>
  PROVE  /\ stack' \in [Proc -> Seq(Items)]
         /\ \A q \in Proc \ {current} : stack'[q] = stack[q]
         /\ Len(stack[current]) \in Nat
         /\ Len(stack'[current]) = Len(stack[current]) + 1
         /\ stack'[current][Len(stack[current]) + 1] = e
         /\ \A k \in 1 .. Len(stack[current]) : stack'[current][k] = stack[current][k]
         /\ sp' = <<current, Len(stack'[current])>> /\ Top' = e
<1> DEFINE s == stack[current]
           s2 == Append(SubSeq(s, 1, Len(s)), e)
<1>1. stack' = [stack EXCEPT ![current] = s2] /\ sp' = <<current, Len(s) + 1>>
  BY DEF Push, Above
<1>2. s \in Seq(Items) /\ stack \in [Proc -> Seq(Items)] /\ current \in Proc /\ Len(s) \in Nat
  BY Typed
<1>3. /\ s2 \in Seq(Items) /\ Len(s2) = Len(s) + 1 /\ s2[Len(s) + 1] = e
      /\ \A k \in 1 .. Len(s) : s2[k] = s[k]
  BY <1>2, Pushed
<1> HIDE DEF s2
<1> QED BY <1>1, <1>2, <1>3 DEF Top

\* Its return.
LEMMA PopStep ==
  ASSUME IInv, Pop, current' = current, Len(stack[current]) >= 1,
         sp = <<current, Len(stack[current])>>
  PROVE  /\ stack' \in [Proc -> Seq(Items)]
         /\ \A q \in Proc \ {current} : stack'[q] = stack[q]
         /\ Len(stack'[current]) = Len(stack[current]) - 1
         /\ \A k \in 1 .. Len(stack[current]) - 1 : stack'[current][k] = stack[current][k]
         /\ sp' = <<current, Len(stack'[current])>>
<1> DEFINE s == stack[current]
           s2 == SubSeq(s, 1, Len(s) - 1)
<1>1. stack' = [stack EXCEPT ![current] = s2] /\ sp' = <<current, Len(s) - 1>>
  BY DEF Pop, Above
<1>2. s \in Seq(Items) /\ stack \in [Proc -> Seq(Items)] /\ current \in Proc
  BY Typed
<1>3. s2 \in Seq(Items) /\ Len(s2) = Len(s) - 1 /\ \A k \in 1 .. Len(s) - 1 : s2[k] = s[k]
  <2>1. Len(s) - 1 \in 0 .. Len(s)
    BY <1>2
  <2> QED BY <1>2, <2>1, Popped
<1> HIDE DEF s2
<1> QED BY <1>1, <1>2, <1>3

\* A store to an item.
LEMMA StoreStep ==
  ASSUME IInv, NEW e \in Items, NEW j \in 1 .. Len(stack[current]),
         stack' = [stack EXCEPT ![current] = [stack[current] EXCEPT ![j] = e]]
  PROVE  /\ stack' \in [Proc -> Seq(Items)]
         /\ \A q \in Proc \ {current} : stack'[q] = stack[q]
         /\ Len(stack'[current]) = Len(stack[current]) /\ stack'[current][j] = e
         /\ \A k \in 1 .. Len(stack[current]) : k # j => stack'[current][k] = stack[current][k]
<1> DEFINE s == stack[current]
           s2 == [s EXCEPT ![j] = e]
<1>1. s \in Seq(Items) /\ stack \in [Proc -> Seq(Items)] /\ current \in Proc
  BY Typed
<1>2. /\ s2 \in Seq(Items) /\ Len(s2) = Len(s) /\ s2[j] = e
      /\ \A k \in 1 .. Len(s) : k # j => s2[k] = s[k]
  BY <1>1, Stored
<1> HIDE DEF s2
<1> QED BY <1>1, <1>2

-----------------------------------------------------------------------------
(* syscall().                                                              *)

\* What syscall() finds: the frame of a user program's call, or of kernel_execve's
\* breakpoint.
LEMMA AtSyscall ==
  ASSUME IInv, NEW cause, CalledIn(cause)
  PROVE  LET s == stack[current]
             n == Len(s)
         IN  /\ current \in Task /\ n \in Nat /\ sp = <<current, n>> /\ mode = "S"
             /\ csr.sscratch = Zero /\ ~csr.sie /\ state[current] = "runnable"
             /\ Bottom(current, s, tf[current], n, "syscall")
             /\ cause = "ecall" =>
                  /\ n = 2 /\ s[1] \in UFrames /\ s[2] \in UTraps /\ tf[current] = <<current, 1>>
                  /\ TheFrame = s[1]
             /\ cause = "ebreak" =>
                  /\ n = 3 /\ s[1] \in KFrames /\ s[2] \in KFrames /\ s[3] \in KTraps
                  /\ s[2].cause = "ebreak" /\ tf[current] = <<current, 2>> /\ TheFrame = s[2]
<1> DEFINE s == stack[current]
           n == Len(s)
<1>1. At("syscall") /\ TheFrame.cause = cause
  BY DEF CalledIn
<1>2. /\ Suits(current, s, tf[current], n, "syscall") /\ mode = "S" /\ n \in Nat /\ sp = <<current, n>>
      /\ csr.sscratch = Zero /\ ~csr.sie /\ state[current] = "runnable"
  BY <1>1, InKernel, OwnIsRunnable DEF SieOn, InitCode
<1>3. Bottom(current, s, tf[current], n, "syscall")
  BY <1>2 DEF Suits
<1>4. /\ current \in Task
      /\ \/ n = 2 /\ s[1] \in UFrames /\ s[2] \in UTraps /\ tf[current] = <<current, 1>>
         \/ /\ n = 3 /\ s[1] \in KFrames /\ s[2] \in KFrames /\ s[3] \in KTraps
            /\ s[2].cause = "ebreak" /\ tf[current] = <<current, 2>>
  BY <1>3 DEF Bottom, InitCode
<1>5. \A f \in UFrames : f.cause # "ebreak"
  BY DEF UFrames, UserCauses
<1> QED BY <1>1, <1>2, <1>3, <1>4, <1>5 DEF TheFrame, FrameAt

\* The answer in the caller's frame.
LEMMA AnswerStep ==
  ASSUME IInv, CalledIn("ecall"), NEW v \in {0, 1}, NEW st, st = WithAnswer(v)
  PROVE  LET s == stack[current]
             e == [s[1] EXCEPT !.regs = v]
         IN  /\ e \in UFrames /\ e \in Items
             /\ st = [stack EXCEPT ![current] = [s EXCEPT ![1] = e]]
<1>1. stack[current][1] \in UFrames /\ tf[current] = <<current, 1>>
  BY AtSyscall
<1>2. [stack[current][1] EXCEPT !.regs = v] \in UFrames
  <2>1. v \in Registers
    BY TrapEntryAssumption DEF Registers
  <2> QED BY <1>1, <2>1 DEF UFrames
<1>3. st = [stack EXCEPT ![current] = [stack[current] EXCEPT ![1] = [stack[current][1] EXCEPT !.regs = v]]]
  BY <1>1, Typed DEF WithAnswer
<1> QED BY <1>2, <1>3 DEF Items

\* A caller whose frame has its answer goes on at the end of trap().
LEMMA AnsweredStep ==
  ASSUME IInv, CalledIn("ecall"), NEW e \in UFrames, Goto("trapend"),
         stack' = [stack EXCEPT ![current] = [stack[current] EXCEPT ![1] = e]],
         UNCHANGED <<sp, csr, timer, ticks, current, state, parent, tf, saved>>,
         need_resched' \in [Proc -> BOOLEAN]
  PROVE  IInv'
<1>1. /\ e \in Items /\ 1 \in 1 .. Len(stack[current]) /\ Len(stack[current]) = 2
  BY AtSyscall DEF Items
<1>2. /\ stack' \in [Proc -> Seq(Items)]
      /\ \A q \in Proc \ {current} : stack'[q] = stack[q]
      /\ Len(stack'[current]) = 2 /\ stack'[current][1] = e
      /\ stack'[current][2] = stack[current][2]
  <2>1. /\ stack' \in [Proc -> Seq(Items)]
        /\ \A q \in Proc \ {current} : stack'[q] = stack[q]
        /\ Len(stack'[current]) = Len(stack[current]) /\ stack'[current][1] = e
        /\ \A k \in 1 .. Len(stack[current]) : k # 1 => stack'[current][k] = stack[current][k]
    BY <1>1, StoreStep
  <2> QED BY <1>1, <2>1
<1>3. Bottom(current, stack'[current], tf[current], 2, "trapend")
  BY <1>2, AtSyscall DEF Bottom
<1>4. Suits(current, stack'[current], tf[current], 2, "trapend")
  BY <1>3 DEF Suits
<1>5. OwnCode' = "trapend"
  <2>1. stack[current][2].in_kernel = FALSE
    BY AtSyscall DEF UTraps
  <2>2. Top' = stack[current][2]
    BY <1>1, <1>2, AtSyscall DEF Top
  <2> QED BY <2>1, <2>2, AtSyscall DEF OwnCode, Goto, K
<1>6. ~SieOn(current, "trapend")
  BY DEF SieOn, InitCode
<1>7. sp' = <<current, Len(stack'[current])>>
  BY <1>1, <1>2, AtSyscall
<1> QED BY <1>2, <1>4, <1>5, <1>6, <1>7, AtSyscall, Typed, OwnStep

\* System calls that change nothing of the processes.
LEMMA SysSimpleStep == ASSUME IInv, SysSimple PROVE IInv'
<1>1. /\ CalledIn("ecall") /\ Goto("trapend")
      /\ UNCHANGED <<sp, csr, timer, ticks, current, state, parent, tf, saved, need_resched>>
  BY DEF SysSimple, procs, clock, family
<1>2. PICK v \in {0, 1} : stack' = WithAnswer(v)
  BY DEF SysSimple
<1> QED BY <1>1, <1>2, AnswerStep, AnsweredStep, Typed

\* do_yield asks for rescheduling.
LEMMA SysYieldStep == ASSUME IInv, SysYield PROVE IInv'
<1>1. /\ CalledIn("ecall") /\ Goto("trapend") /\ stack' = WithAnswer(0)
      /\ UNCHANGED <<sp, csr, timer, ticks, current, state, parent, tf, saved>>
      /\ need_resched' = [need_resched EXCEPT ![current] = TRUE]
  BY DEF SysYield, clock, family
<1>2. need_resched' \in [Proc -> BOOLEAN]
  BY <1>1, Typed
<1> QED BY <1>1, <1>2, AnswerStep, AnsweredStep

\* The frame of a program that begins, from that of its caller.
LEMMA UserFrameIs ==
  ASSUME NEW f \in UFrames \cup KFrames
  PROVE  LET e == UserFrame(f)
         IN  e \in UFrames /\ e.cause = "none" /\ e.epc = User(0) /\ e.regs = 0
<1>1. User(0) \in UserPlace /\ 0 \in Registers
  BY TrapEntryAssumption DEF UserPlace, Registers
<1>2. CASE f \in UFrames
  BY <1>1, <1>2 DEF UserFrame, UserStatus, UFrames
<1>3. CASE f \in KFrames
  BY <1>1, <1>3 DEF UserFrame, UserStatus, UFrames, KFrames
<1> QED BY <1>2, <1>3

\* do_execve rewrites the frame it returns through.
LEMMA SysExecStep == ASSUME IInv, SysExec PROVE IInv'
<1> DEFINE s == stack[current]
<1>1. /\ UNCHANGED <<sp, csr, timer, ticks, current, state, parent, need_resched, tf, saved>>
  BY DEF SysExec, clock, procs, family
<1>2. PICK cause \in {"ecall", "ebreak"} : CalledIn(cause)
  BY DEF SysExec
<1>4. CASE /\ stack' = [stack EXCEPT ![tf[current][1]][tf[current][2]] = UserFrame(@)]
           /\ Goto(IF TheFrame.cause = "ebreak" THEN "execve_ret" ELSE "trapend")
  <2>1. CASE cause = "ecall"
    <3>1. TheFrame.cause = "ecall" /\ tf[current] = <<current, 1>> /\ s[1] \in UFrames
      BY <1>2, <2>1, AtSyscall DEF CalledIn
    <3>2. stack' = [stack EXCEPT ![current] = [s EXCEPT ![1] = UserFrame(s[1])]]
      BY <1>4, <3>1, Typed
    <3> QED BY <1>1, <1>2, UserFrameIs, <1>4, <2>1, <3>1, <3>2, AnsweredStep, Typed
  <2>2. CASE cause = "ebreak"
    <3>1. /\ TheFrame.cause = "ebreak" /\ tf[current] = <<current, 2>> /\ s[2] \in KFrames
          /\ s[1] \in KFrames /\ s[3] \in KTraps /\ Len(s) = 3 /\ current \in Task
      BY <1>2, <2>2, AtSyscall DEF CalledIn
    <3> DEFINE e == UserFrame(s[2])
    <3>2. stack' = [stack EXCEPT ![current] = [s EXCEPT ![2] = e]]
      BY <1>4, <3>1, Typed
    <3>3. e \in UFrames /\ e.cause = "none"
      BY <3>1, UserFrameIs
    <3>8. e \in Items
      BY <3>3 DEF Items
    <3>9. 2 \in 1 .. Len(s)
      BY <3>1
    <3> HIDE DEF e
    <3>4. /\ stack' \in [Proc -> Seq(Items)]
          /\ \A q \in Proc \ {current} : stack'[q] = stack[q]
          /\ Len(stack'[current]) = 3 /\ stack'[current][2] = e
          /\ stack'[current][1] = s[1] /\ stack'[current][3] = s[3]
      <4>1. PICK j \in 1 .. Len(s) : j = 2
        BY <3>9
      <4>2. stack' = [stack EXCEPT ![current] = [s EXCEPT ![j] = e]]
        BY <3>2, <4>1
      <4>3. /\ stack' \in [Proc -> Seq(Items)]
            /\ \A q \in Proc \ {current} : stack'[q] = stack[q]
            /\ Len(stack'[current]) = Len(s) /\ stack'[current][j] = e
            /\ \A k \in 1 .. Len(s) : k # j => stack'[current][k] = s[k]
        BY <3>8, <4>2, StoreStep
      <4> QED BY <3>1, <4>1, <4>3
    <3>5. Suits(current, stack'[current], tf[current], 3, "execve_ret")
      BY <3>1, <3>3, <3>4 DEF Suits
    <3>6. Goto("execve_ret") /\ OwnCode' = "execve_ret"
      BY <1>4, <3>1 DEF OwnCode, Goto, K
    <3>7. ~SieOn(current, "execve_ret") /\ sp' = <<current, Len(stack'[current])>>
      BY <1>1, <1>2, <3>1, <3>4, AtSyscall DEF SieOn, InitCode
    <3> QED BY <1>1, <1>2, <3>4, <3>5, <3>6, <3>7, AtSyscall, Typed, OwnStep
  <2> QED BY <2>1, <2>2
<1>5. CASE Goto("do_exit") /\ UNCHANGED stack
  <2>1. Bottom(current, s, tf[current], Len(s), "do_exit")
    BY <1>2, AtSyscall DEF Bottom, InitCode
  <2>2. Suits(current, s, tf[current], Len(s), "do_exit")
    BY <2>1 DEF Suits, OwnPlaces
  <2>3. ~SieOn(current, "do_exit") /\ OwnCode' = "do_exit"
    BY <1>5 DEF SieOn, InitCode, OwnCode, Goto, K
  <2> QED BY <1>1, <1>2, <1>5, <2>2, <2>3, AtSyscall, Typed, OwnStep
<1> QED BY <1>4, <1>5 DEF SysExec

\* do_wait is called.
LEMMA SysWaitStep == ASSUME IInv, SysWait PROVE IInv'
<1> DEFINE s == stack[current]
<1>1. /\ CalledIn("ecall") /\ Goto("repeat")
      /\ UNCHANGED <<csr, timer, ticks, current, state, parent, need_resched, tf, saved>>
  BY DEF SysWait, clock, procs, family
<1>2. PICK pid \in Task \cup {Null} : Push(WaitFrame(pid, "trapend"))
  BY DEF SysWait
<1> DEFINE e == WaitFrame(pid, "trapend")
<1>3. e \in DoWaits /\ e \in Items /\ e.ret = "trapend"
  BY DEF WaitFrame, DoWaits, Items
<1> HIDE DEF e
<1>4. /\ stack' \in [Proc -> Seq(Items)]
      /\ \A q \in Proc \ {current} : stack'[q] = stack[q]
      /\ Len(stack'[current]) = 3 /\ stack'[current][3] = e
      /\ stack'[current][1] = s[1] /\ stack'[current][2] = s[2]
      /\ sp' = <<current, Len(stack'[current])>> /\ Top' = e
  <2>1. sp = <<current, Len(s)>> /\ Len(s) = 2 /\ Push(e)
    BY <1>1, <1>2, AtSyscall DEF e
  <2>2. /\ stack' \in [Proc -> Seq(Items)]
        /\ \A q \in Proc \ {current} : stack'[q] = stack[q]
        /\ Len(stack'[current]) = Len(s) + 1
        /\ stack'[current][Len(s) + 1] = e
        /\ \A k \in 1 .. Len(s) : stack'[current][k] = s[k]
        /\ sp' = <<current, Len(stack'[current])>> /\ Top' = e
    BY <1>1, <1>3, <2>1, PushStep
  <2> QED BY <2>1, <2>2
<1>5. Bottom(current, stack'[current], tf[current], 2, "trapend")
  BY <1>1, <1>4, AtSyscall DEF Bottom
<1>6. InWait(current, stack'[current], tf[current], 3)
  <2>1. s[1].cause = "ecall"
    BY <1>1, AtSyscall DEF CalledIn
  <2> QED BY <1>3, <1>4, <1>5, <2>1 DEF InWait
<1>7. Suits(current, stack'[current], tf[current], 3, "repeat")
  BY <1>6 DEF Suits
<1>8. ~SieOn(current, "repeat") /\ OwnCode' = "repeat"
  BY <1>1, AtSyscall DEF SieOn, InitCode, OwnCode, Goto, K
<1> QED BY <1>1, <1>4, <1>7, <1>8, AtSyscall, Typed, OwnStep

\* panic() stops the kernel where it is.
LEMMA PanicStep ==
  ASSUME IInv, NEW l \in {"syscall", "init_main", "init_end"}, At(l), Panic PROVE IInv'
<1>1. /\ Goto("monitor") /\ csr' = [csr EXCEPT !.sie = FALSE]
      /\ UNCHANGED <<sp, timer, ticks, current, state, parent, need_resched, tf, saved, stack>>
  BY DEF Panic, intr_disable, clock, procs, family
<1>2. /\ mode = "S" /\ sp = <<current, Len(stack[current])>> /\ csr.sscratch = Zero
      /\ Suits(current, stack[current], tf[current], Len(stack[current]), l)
  BY InKernel
<1>3. Bottom(current, stack[current], tf[current], Len(stack[current]), l)
  BY <1>2 DEF Suits
<1>4. Suits(current, stack[current], tf[current], Len(stack[current]), "monitor")
  BY <1>3 DEF Suits, Bottom, InitCode
<1>5. csr' \in CSRs /\ csr'.sscratch = Zero
  BY <1>1, <1>2, Typed DEF CSRs
<1>6. csr'.sie = FALSE
  BY <1>1, Typed DEF CSRs
<1>7. ~SieOn(current, "monitor") /\ OwnCode' = "monitor"
  BY <1>1 DEF SieOn, InitCode, OwnCode, Goto, K
<1>8. state[current] = "runnable"
  BY OwnIsRunnable
<1> QED BY <1>1, <1>2, <1>4, <1>5, <1>6, <1>7, <1>8, Typed, OwnStep

\* An undefined system call panics.
LEMMA SysUndefinedStep == ASSUME IInv, SysUndefined PROVE IInv'
BY PanicStep DEF SysUndefined, CalledIn

-----------------------------------------------------------------------------
(* Steps that change the family.                                           *)

\* The switched-out processes after a step: as they were, given up, or put in order.
LEMMA OthersAfter ==
  ASSUME OthersOK, current' = current,
         \A q \in Proc \ {current} :
            \/ /\ stack'[q] = stack[q] /\ tf'[q] = tf[q] /\ saved'[q] = saved[q]
               /\ state'[q] = "none" <=> state[q] = "none"
               /\ state'[q] = "zombie" <=> state[q] = "zombie"
            \/ state'[q] = "none" /\ stack'[q] = <<>>
            \/ state'[q] # "none" /\ SwitchedOut(q)'
  PROVE  OthersOK'
<1> SUFFICES ASSUME NEW q \in Proc \ {current}
             PROVE  IF state'[q] = "none" THEN stack'[q] = <<>> ELSE SwitchedOut(q)'
  BY DEF OthersOK
<1>1. CASE /\ stack'[q] = stack[q] /\ tf'[q] = tf[q] /\ saved'[q] = saved[q]
           /\ state'[q] = "none" <=> state[q] = "none"
           /\ state'[q] = "zombie" <=> state[q] = "zombie"
  BY <1>1 DEF OthersOK, SwitchedOut
<1> QED BY <1>1

\* The end of a process.
LEMMA DoExitStep ==
  ASSUME IInv, NEW l \in {"syscall", "do_exit", "init_end"}, At(l), DoExit
  PROVE  IInv'
<1> DEFINE s == stack[current]
           n == Len(s)
           e == SchedFrame("dead")
<1>1. /\ mode = "S" /\ sp = <<current, n>> /\ csr.sscratch = Zero
      /\ csr.sie <=> SieOn(current, l)
      /\ Bottom(current, s, tf[current], n, l) /\ n \in Nat /\ state[current] = "runnable"
      /\ pc[1] = l
  BY InKernel, OwnIsRunnable DEF Suits, OwnPlaces, InitCode
<1>2. CASE current = initproc
  <2>1. l = "init_end"
    BY <1>1, <1>2, Processes DEF Bottom, InitCode
  <2> QED BY <1>2, <2>1, PanicStep DEF DoExit
<1>3. CASE current # initproc
  <2> DEFINE orphans == {p \in Proc : state[p] # "none" /\ parent[p] = current}
             adopts == \E p \in orphans : state[p] = "zombie"
             woken == {p \in Proc : /\ state[p] = "waiting"
                                    /\ p = parent[current] \/ (p = initproc /\ adopts)}
  <2>1. /\ state' = [p \in Proc |-> IF p = current THEN "zombie"
                                    ELSE IF p \in woken THEN "runnable" ELSE state[p]]
        /\ parent' = [p \in Proc |-> IF p \in orphans THEN initproc ELSE parent[p]]
        /\ Push(e) /\ Goto("schedule")
        /\ UNCHANGED <<csr, timer, ticks, current, need_resched, tf, saved>>
    BY <1>3 DEF DoExit, CallSchedule, clock
  <2>2. current \in Task /\ Bottom(current, s, tf[current], n, "do_exit") /\ n >= 2 /\ ~csr.sie
    <3>1. l \in {"syscall", "do_exit"}
      BY <1>1, <1>3 DEF Bottom, InitCode
    <3>2. current \in Task /\ Bottom(current, s, tf[current], n, "do_exit") /\ n >= 2
      BY <1>1, <3>1 DEF Bottom, InitCode
    <3>3. ~csr.sie
      BY <1>1, <3>1 DEF SieOn, InitCode
    <3> QED BY <3>2, <3>3
  <2>3. e \in Scheds /\ e \in Items /\ e.ret = "dead" /\ e.kind = "schedule"
    BY DEF SchedFrame, Scheds, Items
  <2> HIDE DEF e
  <2>4. /\ stack' \in [Proc -> Seq(Items)]
        /\ \A q \in Proc \ {current} : stack'[q] = stack[q]
        /\ Len(stack'[current]) = n + 1 /\ stack'[current][n + 1] = e
        /\ \A k \in 1 .. n : stack'[current][k] = s[k]
        /\ sp' = <<current, Len(stack'[current])>> /\ Top' = e
    <3>1. Push(e) /\ current' = current /\ sp = <<current, Len(stack[current])>> /\ e \in Items
      BY <1>1, <2>1, <2>3
    <3> QED BY <3>1, PushStep
  <2>5. /\ state' \in [Proc -> {"none", "runnable", "waiting", "zombie"}]
        /\ parent' \in [Proc -> Proc]
    BY <2>1, Typed, Processes
  <2>6. Types'
    BY <2>1, <2>4, <2>5, Typed DEF Types, Goto, IInv
  <2>7. HartOK'
    <3>1. Bottom(current, stack'[current], tf[current], n, "do_exit")
      BY <1>1, <2>2, <2>4, SameBottom
    <3>2. InSchedule(current, stack'[current], tf[current], n + 1)
      <4>1. (n + 1) - 1 = n /\ n + 1 >= 1
        BY <1>1
      <4> QED BY <2>3, <2>4, <3>1, <4>1 DEF InSchedule
    <3>3. Suits(current, stack'[current], tf[current], n + 1, "schedule")
      BY <3>2 DEF Suits
    <3>4. ~SieOn(current, "schedule")
      BY <2>2 DEF SieOn, InitCode
    <3>5. mode' = "S" /\ pc' = K("schedule") /\ csr'.sscratch = Zero /\ ~csr'.sie /\ current' = current
      BY <1>1, <2>1, <2>2 DEF Goto
    <3>6. Suits(current', stack'[current'], tf'[current'], Len(stack'[current']), "schedule")
      BY <2>1, <2>4, <3>3
    <3> QED BY <2>4, <3>4, <3>5, <3>6, NowAt
  <2>8. /\ state'[current] = "zombie"
        /\ \A q \in Proc \ {current} : /\ state'[q] = "none" <=> state[q] = "none"
                                       /\ state'[q] = "zombie" <=> state[q] = "zombie"
                                       /\ state'[q] = "waiting" => state[q] = "waiting" /\ q \notin woken
    BY <2>1, Typed
  <2> HIDE DEF woken
  <2>9. OthersOK'
    BY <2>1, <2>4, <2>8, OthersAfter DEF IInv
  <2>10. pc' = K("schedule") /\ OwnCode' = "schedule"
    BY <2>1 DEF Goto, K, OwnCode
  <2>11. FamilyOK'
    <3>1. state'[idleproc] = "runnable"
      BY <2>1, <2>2, Processes DEF IInv, FamilyOK
    <3>2. state'[initproc] # "zombie"
      BY <1>3, <2>8, Processes DEF IInv, FamilyOK
    <3>3. \A q \in Task : parent'[q] # q
      BY <2>1, Processes DEF IInv, FamilyOK
    <3> QED BY <2>1, <2>3, <2>4, <2>8, <2>10, <3>1, <3>2, <3>3 DEF FamilyOK, K
  <2>12. FallsAsleep'
    BY <2>10 DEF FallsAsleep
  <2>13. NoLostWakeup'
    <3> SUFFICES ASSUME NEW p \in Proc, state'[p] = "waiting", NEW k \in DOMAIN stack'[p],
                        stack'[p][k].kind = "do_wait", NEW c \in Awaited(p, stack[p][k].pid)',
                        state'[c] = "zombie"
                 PROVE  FALSE
      BY DEF NoLostWakeup
    <3>1. p # current /\ state[p] = "waiting" /\ p \notin woken /\ stack'[p] = stack[p]
      BY <2>4, <2>8
    <3>2. c \in Proc /\ parent'[c] = p /\ stack[p][k].pid \in {Null, c}
      BY <3>1 DEF Awaited
    <3>3. CASE c = current
      BY <2>1, <2>2, <3>1, <3>2, <3>3 DEF IInv, FamilyOK, woken
    <3>4. CASE c # current /\ c \in orphans
      BY <2>1, <2>8, <3>1, <3>2, <3>4 DEF woken
    <3>5. CASE c # current /\ c \notin orphans
      <4>1. parent[c] = p /\ state[c] = "zombie"
        BY <2>1, <2>8, <3>2, <3>5
      <4>2. c \in Awaited(p, stack[p][k].pid)
        BY <3>2, <4>1 DEF Awaited
      <4> QED BY <3>1, <4>1, <4>2 DEF IInv, NoLostWakeup
    <3> QED BY <3>3, <3>4, <3>5
  <2> QED BY <2>6, <2>7, <2>9, <2>11, <2>12, <2>13 DEF IInv
<1> QED BY <1>2, <1>3

\* do_exit after a fault.
LEMMA ExitCalledStep == ASSUME IInv, ExitCalled PROVE IInv'
BY DoExitStep DEF ExitCalled

\* do_exit of a program that calls exit.
LEMMA SysExitStep == ASSUME IInv, SysExit PROVE IInv'
BY DoExitStep DEF SysExit, CalledIn

\* init_main returns when it has no children left: the last assertions, and the panic of do_exit.
LEMMA InitEndsStep == ASSUME IInv, InitEnds PROVE IInv'
BY DoExitStep DEF InitEnds

\* A new process, with the frame it starts from.
LEMMA ForkStep ==
  ASSUME IInv, NEW child \in Proc \ {idleproc}, do_fork(child), NEW frame,
         stack'[child] = <<frame>>,
         \/ child \in Task /\ frame \in UFrames
         \/ /\ frame \in KFrames /\ frame.sp = <<child, 1>>
            /\ frame.epc = K(IF child = initproc THEN "init_main" ELSE "user_main"),
         \A q \in Proc \ {current, child} : stack'[q] = stack[q],
         stack' \in [Proc -> Seq(Items)],
         NEW l2 \in {"trapend", "init_wait", "clock_init"}, Goto(l2), mode = "S",
         sp' = <<current, Len(stack'[current])>>,
         Suits(current, stack'[current], tf'[current], Len(stack'[current]), l2),
         OwnCode' # "sleep", UNCHANGED <<csr, timer, ticks>>, csr.sscratch = Zero,
         csr.sie <=> SieOn(current, l2), state[current] = "runnable",
         need_resched' \in [Proc -> BOOLEAN]
  PROVE  IInv'
<1>1. /\ state[child] = "none" /\ child # current /\ current' = current
      /\ state' = [state EXCEPT ![child] = "runnable"]
      /\ parent' = [parent EXCEPT ![child] = current]
      /\ tf' = [tf EXCEPT ![child] = <<child, 1>>]
      /\ saved' = [saved EXCEPT ![child] = [ra |-> "forkret", sp |-> <<child, 1>>]]
  BY DEF do_fork
<1>2. pc' = K(l2) /\ mode' = "S" /\ regs' = regs
  BY DEF Goto
<1>3. Types'
  <2>1. <<child, 1>> \in Address
    BY DEF Address
  <2>2. /\ state' \in [Proc -> {"none", "runnable", "waiting", "zombie"}]
        /\ parent' \in [Proc -> Proc] /\ tf' \in [Proc -> Address]
        /\ saved' \in [Proc -> [ra : {"none", "forkret", "switched"}, sp : Address]]
    BY <1>1, <2>1, Typed
  <2> QED BY <1>1, <1>2, <2>2, Typed DEF Types
<1>4. HartOK'
  BY <1>1, <1>2, NowAt
<1>5. OthersOK'
  <2>1. New(child, stack'[child], tf'[child], 1) /\ Len(stack'[child]) = 1
    BY <1>1, Typed DEF New, NewThread
  <2>2. /\ saved'[child].ra = "forkret" /\ saved'[child].sp = <<child, 1>>
        /\ state'[child] = "runnable"
    BY <1>1, Typed
  <2>3. SwitchedOut(child)'
    BY <2>1, <2>2 DEF SwitchedOut
  <2>4. \A q \in Proc \ {current, child} :
           /\ stack'[q] = stack[q] /\ tf'[q] = tf[q] /\ saved'[q] = saved[q]
           /\ state'[q] = state[q]
    BY <1>1, Typed
  <2> QED BY <1>1, <2>2, <2>3, <2>4, OthersAfter DEF IInv
<1>6. \A q \in Proc : q # child => state'[q] = state[q] /\ parent'[q] = parent[q]
  BY <1>1, Typed
<1>7. state'[child] = "runnable" /\ parent'[child] = current
  BY <1>1, Typed
<1>8. FamilyOK'
  <2>1. pc' \notin {K("schedule"), K("pick"), K("picked"), K("switched")}
    BY <1>2 DEF K
  <2>2. state'[idleproc] = "runnable" /\ state'[initproc] # "zombie"
    BY <1>6, <1>7, Processes DEF IInv, FamilyOK
  <2>3. state'[current] = "runnable"
    BY <1>1, <1>6, Typed
  <2>4. \A q \in Task : parent'[q] # q
    BY <1>1, <1>6, <1>7, Processes DEF IInv, FamilyOK
  <2> QED BY <1>1, <2>1, <2>2, <2>3, <2>4 DEF FamilyOK
<1>9. FallsAsleep'
  BY DEF FallsAsleep
<1>10. NoLostWakeup'
  <2> SUFFICES ASSUME NEW p \in Proc, state'[p] = "waiting", NEW k \in DOMAIN stack'[p],
                      stack'[p][k].kind = "do_wait", NEW c \in Awaited(p, stack[p][k].pid)',
                      state'[c] = "zombie"
               PROVE  FALSE
    BY DEF NoLostWakeup
  <2>1. p # child /\ p # current /\ state[p] = "waiting" /\ stack'[p] = stack[p]
    BY <1>1, <1>6, <1>7, Typed
  <2>2. c \in Proc /\ c # child /\ state[c] = "zombie" /\ parent[c] = p
        /\ stack[p][k].pid \in {Null, c}
    BY <1>6, <1>7, <2>1 DEF Awaited
  <2>3. c \in Awaited(p, stack[p][k].pid)
    BY <2>2 DEF Awaited
  <2> QED BY <2>1, <2>2, <2>3 DEF IInv, NoLostWakeup
<1> QED BY <1>3, <1>4, <1>5, <1>8, <1>9, <1>10 DEF IInv

\* do_fork of a program: copy_thread puts a copy of the frame on the child's stack.
LEMMA SysForkStep == ASSUME IInv, SysFork PROVE IInv'
<1> DEFINE s == stack[current]
           e == [s[1] EXCEPT !.regs = 1]
<1>1. /\ CalledIn("ecall") /\ Goto("trapend") /\ UNCHANGED <<sp, csr, timer, ticks, need_resched>>
  BY DEF SysFork, clock
<1>2. PICK child \in Task :
        /\ do_fork(child)
        /\ stack' = [WithAnswer(1) EXCEPT ![child] = <<Copied(child, TheFrame, TheFrame.sp)>>]
  BY DEF SysFork
<1>3. child # current /\ child \in Proc \ {idleproc}
  BY <1>1, <1>2, AtSyscall, Processes DEF do_fork
<1> DEFINE f == Copied(child, TheFrame, TheFrame.sp)
           w == [stack EXCEPT ![current] = [s EXCEPT ![1] = e]]
<1>4. e \in UFrames /\ e \in Items /\ WithAnswer(1) = w
  BY <1>1, AnswerStep
<1>5. f \in UFrames
  <2>1. TheFrame \in UFrames /\ TheFrame.sp = UserSp
    BY <1>1, AtSyscall DEF UFrames
  <2>2. f = [TheFrame EXCEPT !.regs = 0, !.sp = UserSp]
    BY <2>1 DEF Copied, UserSp, Zero
  <2>3. 0 \in Registers
    BY TrapEntryAssumption DEF Registers
  <2> QED BY <2>1, <2>2, <2>3 DEF UFrames
<1> HIDE DEF f, e
<1>6. /\ Len(s) = 2 /\ s \in Seq(Items) /\ s[2] \in UTraps /\ tf[current] = <<current, 1>>
      /\ current \in Task /\ current \in Proc /\ sp = <<current, 2>> /\ mode = "S"
      /\ csr.sscratch = Zero /\ ~csr.sie /\ state[current] = "runnable"
  BY <1>1, AtSyscall, Typed
<1> DEFINE s2 == [s EXCEPT ![1] = e]
<1>7. s2 \in Seq(Items) /\ Len(s2) = 2 /\ s2[1] = e /\ s2[2] = s[2]
  <2>1. PICK j \in 1 .. Len(s) : j = 1
    BY <1>6
  <2>2. s2 = [s EXCEPT ![j] = e]
    BY <2>1
  <2>3. /\ s2 \in Seq(Items) /\ Len(s2) = Len(s) /\ s2[j] = e
        /\ \A k \in 1 .. Len(s) : k # j => s2[k] = s[k]
    BY <1>4, <1>6, <2>2, Stored
  <2> QED BY <1>6, <2>1, <2>3
<1>8. stack' = [[stack EXCEPT ![current] = s2] EXCEPT ![child] = <<f>>]
  BY <1>2, <1>4 DEF f
<1> HIDE DEF s2
<1>9. /\ stack'[current] = s2 /\ stack'[child] = <<f>>
      /\ \A q \in Proc \ {current, child} : stack'[q] = stack[q]
      /\ stack' \in [Proc -> Seq(Items)]
  <2>1. <<f>> \in Seq(Items)
    BY <1>5 DEF Items
  <2> QED BY <1>3, <1>6, <1>7, <1>8, <2>1, Typed
<1>10. tf'[current] = <<current, 1>>
  BY <1>2, <1>3, <1>6, Typed DEF do_fork
<1>11. Suits(current, stack'[current], tf'[current], Len(stack'[current]), "trapend")
  <2>1. Bottom(current, s2, tf'[current], 2, "trapend")
    BY <1>4, <1>6, <1>7, <1>10 DEF Bottom
  <2> QED BY <1>7, <1>9, <2>1 DEF Suits
<1>12. sp' = <<current, Len(stack'[current])>> /\ ~SieOn(current, "trapend")
  BY <1>1, <1>6, <1>7, <1>9 DEF SieOn, InitCode
<1>13. OwnCode' = "trapend"
  <2>1. sp' = <<current, 2>> /\ s2[2].in_kernel = FALSE
    BY <1>1, <1>6, <1>7 DEF UTraps
  <2>2. Top' = s2[2]
    BY <1>9, <2>1 DEF Top
  <2> QED BY <1>1, <2>1, <2>2 DEF OwnCode, Goto, K
<1>14. csr.sie <=> SieOn(current, "trapend")
  BY <1>6, <1>12
<1> QED BY <1>1, <1>2, <1>3, <1>5, <1>6, <1>9, <1>11, <1>12, <1>13, <1>14, ForkStep, Typed

\* The frame of a kernel thread.
LEMMA ThreadFrameIs ==
  ASSUME NEW child \in Proc \ {idleproc}, NEW fn \in {"init_main", "user_main"}
  PROVE  LET f == Copied(child, ThreadFrame(fn), Zero)
         IN  f \in KFrames /\ f \in Items /\ f.sp = <<child, 1>> /\ f.epc = K(fn)
<1> DEFINE f == Copied(child, ThreadFrame(fn), Zero)
<1> DEFINE g == ThreadFrame(fn)
<1>1. <<child, 1>> \in Address /\ Zero \in Address /\ 0 \in Registers /\ K(fn) \in KernelPlace
  BY TrapEntryAssumption DEF Address, Zero, Registers, KernelPlace, OpenCode
<1>2. ThreadStatus.spp = TRUE /\ ThreadStatus.spie = TRUE /\ ThreadStatus.sie = FALSE
  BY Zenon DEF ThreadStatus
<1>3. g \in KFrames /\ g.epc = K(fn)
  BY <1>1, <1>2 DEF ThreadFrame, KFrames
<1>4. f = [g EXCEPT !.regs = 0, !.sp = <<child, 1>>]
  BY DEF Copied
<1> HIDE DEF g, f
<1>5. f \in KFrames /\ f.sp = <<child, 1>> /\ f.epc = K(fn)
  BY <1>1, <1>3, <1>4 DEF KFrames
<1> QED BY <1>5 DEF Items, f

\* kernel_thread of user_main by init.
LEMMA InitMainStep == ASSUME IInv, InitMain PROVE IInv'
<1> DEFINE s == stack[current]
<1> SUFFICES ASSUME ~Panic PROVE IInv'
  BY PanicStep DEF InitMain
<1>1. /\ At("init_main") /\ Goto("init_wait") /\ UNCHANGED <<sp, csr, timer, ticks, need_resched>>
  BY DEF InitMain, clock, kernel_thread
<1>2. PICK child \in Task : kernel_thread(child, "user_main")
  BY DEF InitMain
<1> DEFINE f == Copied(child, ThreadFrame("user_main"), Zero)
<1>3. do_fork(child) /\ stack' = [stack EXCEPT ![child] = <<f>>]
  BY <1>2 DEF kernel_thread
<1>4. /\ mode = "S" /\ sp = <<current, Len(s)>> /\ csr.sscratch = Zero
      /\ Suits(current, s, tf[current], Len(s), "init_main") /\ state[current] = "runnable"
      /\ csr.sie <=> SieOn(current, "init_main")
  BY <1>1, InKernel, OwnIsRunnable
<1>5. child # current /\ child \in Proc \ {idleproc} /\ child # initproc
  BY <1>2, <1>3, <1>4, Processes DEF do_fork
<1>6. f \in KFrames /\ f \in Items /\ f.sp = <<child, 1>> /\ f.epc = K("user_main")
  BY <1>5, ThreadFrameIs
<1> HIDE DEF f
<1>7. /\ stack'[child] = <<f>> /\ stack' \in [Proc -> Seq(Items)] /\ stack'[current] = s
      /\ \A q \in Proc \ {current, child} : stack'[q] = stack[q]
  <2>1. <<f>> \in Seq(Items)
    BY <1>6
  <2> QED BY <1>3, <1>5, <2>1, Typed
<1>8. tf'[current] = tf[current]
  BY <1>3, <1>5, Typed DEF do_fork
<1>9. Suits(current, stack'[current], tf'[current], Len(stack'[current]), "init_wait")
  <2>1. Bottom(current, s, tf[current], Len(s), "init_wait")
    BY <1>4 DEF Suits, OwnPlaces, InitCode, Bottom
  <2> QED BY <1>7, <1>8, <2>1 DEF Suits, OwnPlaces, InitCode
<1>10. SieOn(current, "init_main") /\ SieOn(current, "init_wait")
  BY DEF SieOn, InitCode
<1>11. OwnCode' = "init_wait"
  BY <1>1 DEF OwnCode, Goto, K
<1>12. csr.sie <=> SieOn(current, "init_wait")
  BY <1>4, <1>10
<1> QED BY <1>1, <1>3, <1>4, <1>5, <1>6, <1>7, <1>9, <1>11, <1>12, ForkStep, Typed

\* proc_init makes the first kernel thread.
LEMMA ProcInitStep == ASSUME IInv, proc_init PROVE IInv'
<1> DEFINE s == stack[current]
           f == Copied(initproc, ThreadFrame("init_main"), Zero)
<1>1. /\ At("proc_init") /\ Goto("clock_init") /\ UNCHANGED <<sp, csr, timer, ticks>>
      /\ do_fork(initproc) /\ stack' = [stack EXCEPT ![initproc] = <<f>>]
      /\ need_resched' = [need_resched EXCEPT ![idleproc] = TRUE]
  BY DEF proc_init, clock, kernel_thread
<1>2. /\ mode = "S" /\ sp = <<current, Len(s)>> /\ csr.sscratch = Zero
      /\ Suits(current, s, tf[current], Len(s), "proc_init") /\ state[current] = "runnable"
      /\ csr.sie <=> SieOn(current, "proc_init")
  BY <1>1, InKernel, OwnIsRunnable
<1>3. initproc # current /\ initproc \in Proc \ {idleproc}
  BY <1>1, <1>2, Processes DEF do_fork
<1>4. f \in KFrames /\ f \in Items /\ f.sp = <<initproc, 1>> /\ f.epc = K("init_main")
  BY <1>3, ThreadFrameIs
<1> HIDE DEF f
<1>5. /\ stack'[initproc] = <<f>> /\ stack' \in [Proc -> Seq(Items)] /\ stack'[current] = s
      /\ \A q \in Proc \ {current, initproc} : stack'[q] = stack[q]
  <2>1. <<f>> \in Seq(Items)
    BY <1>4
  <2> QED BY <1>1, <1>3, <2>1, Typed
<1>6. tf'[current] = tf[current] /\ need_resched' \in [Proc -> BOOLEAN]
  BY <1>1, <1>3, Typed DEF do_fork
<1>7. Suits(current, stack'[current], tf'[current], Len(stack'[current]), "clock_init")
  <2>1. Bottom(current, s, tf[current], Len(s), "clock_init")
    BY <1>2 DEF Suits, OwnPlaces, InitCode, Bottom
  <2> QED BY <1>5, <1>6, <2>1 DEF Suits, OwnPlaces, InitCode
<1>8. ~SieOn(current, "proc_init") /\ ~SieOn(current, "clock_init")
  BY DEF SieOn, InitCode
<1>9. OwnCode' = "clock_init"
  BY <1>1 DEF OwnCode, Goto, K
<1>10. csr.sie <=> SieOn(current, "clock_init")
  BY <1>2, <1>8
<1> QED BY <1>1, <1>2, <1>3, <1>4, <1>5, <1>6, <1>7, <1>9, <1>10, ForkStep

-----------------------------------------------------------------------------
(* The boot and the kernel threads.                                        *)

\* idt_init clears sscratch and sets stvec.
LEMMA IdtInitStep == ASSUME IInv, idt_init PROVE IInv'
<1>1. /\ At("idt_init") /\ mode = "S" /\ pc = K("idt_init") /\ pc[1] = "idt_init"
      /\ Goto("proc_init")
      /\ csr' = [csr EXCEPT !.sscratch = Zero, !.stvec = TRUE]
      /\ UNCHANGED <<sp, timer, ticks, current, state, parent, need_resched, tf, saved, stack>>
  BY DEF idt_init, At, K, clock, procs, family
<1>2. csr' \in CSRs /\ csr'.sscratch = Zero /\ csr'.sie = csr.sie
  <2>1. Zero \in Address
    BY DEF Address, Zero
  <2> QED BY <1>1, <2>1, Typed DEF CSRs
<1>3. /\ Suits(current, stack[current], tf[current], Len(stack[current]), "idt_init")
      /\ csr.sie <=> SieOn(current, "idt_init")
      /\ sp = <<current, Len(stack[current])>>
  <2>1. ~OnUserSide
    BY <1>1 DEF OnUserSide, K
  <2> QED BY <1>1, <2>1 DEF IInv, HartOK
<1>4. current = idleproc /\ Len(stack[current]) = 0
  BY <1>3 DEF Suits, OwnPlaces, InitCode
<1>5. state[current] = "runnable"
  BY <1>4 DEF IInv, FamilyOK
<1>6. Suits(current, stack[current], tf[current], Len(stack[current]), "proc_init")
  BY <1>4 DEF Suits, OwnPlaces, Bottom
<1>7. ~SieOn(current, "idt_init") /\ ~SieOn(current, "proc_init")
  BY DEF SieOn, InitCode
<1>8. OwnCode' = "proc_init"
  BY <1>1 DEF OwnCode, Goto, K
<1>9. csr'.sie <=> SieOn(current, "proc_init")
  BY <1>2, <1>3, <1>7
<1> QED BY <1>1, <1>2, <1>3, <1>5, <1>6, <1>8, <1>9, OwnStep, Typed

\* clock_init arms the timer.
LEMMA ClockInitStep == ASSUME IInv, clock_init PROVE IInv'
<1>1. /\ At("clock_init") /\ mode = "S" /\ Goto("intr_enable") /\ timer' = "armed" /\ ticks' = 0
      /\ UNCHANGED <<sp, csr, current, state, parent, need_resched, tf, saved, stack>>
  BY DEF clock_init, clock_set_next_event, At, procs, family
<1>2. /\ sp = <<current, Len(stack[current])>> /\ csr.sscratch = Zero
      /\ Suits(current, stack[current], tf[current], Len(stack[current]), "clock_init")
      /\ state[current] = "runnable"
      /\ csr.sie <=> SieOn(current, "clock_init")
  BY <1>1, InKernel, OwnIsRunnable
<1>3. Suits(current, stack[current], tf[current], Len(stack[current]), "intr_enable")
  BY <1>2 DEF Suits, OwnPlaces, Bottom, InitCode
<1>4. ~SieOn(current, "clock_init") /\ ~SieOn(current, "intr_enable")
  BY DEF SieOn, InitCode
<1>5. OwnCode' = "intr_enable"
  BY <1>1 DEF OwnCode, Goto, K
<1>6. ticks' \in 0 .. TICK_NUM - 1
  BY <1>1, TrapEntryAssumption
<1>7. csr'.sie <=> SieOn(current, "intr_enable")
  BY <1>1, <1>2, <1>4
<1> QED BY <1>1, <1>2, <1>3, <1>5, <1>6, <1>7, OwnStep, Typed

\* kern_init sets interrupts on.
LEMMA BootEndsStep == ASSUME IInv, BootEnds PROVE IInv'
<1>1. /\ At("intr_enable") /\ mode = "S" /\ Goto("cpu_idle") /\ csr' = [csr EXCEPT !.sie = TRUE]
      /\ UNCHANGED <<sp, timer, ticks, current, state, parent, need_resched, tf, saved, stack>>
  BY DEF BootEnds, intr_enable, At, clock, procs, family
<1>2. /\ sp = <<current, Len(stack[current])>> /\ csr.sscratch = Zero
      /\ Suits(current, stack[current], tf[current], Len(stack[current]), "intr_enable")
      /\ state[current] = "runnable"
  BY <1>1, InKernel, OwnIsRunnable
<1>3. Suits(current, stack[current], tf[current], Len(stack[current]), "cpu_idle")
  BY <1>2 DEF Suits, OwnPlaces, Bottom, InitCode
<1>4. SieOn(current, "cpu_idle")
  BY DEF SieOn
<1>5. OwnCode' = "cpu_idle"
  BY <1>1 DEF OwnCode, Goto, K
<1>6. csr' \in CSRs /\ csr'.sscratch = Zero
  BY <1>1, <1>2, Typed DEF CSRs
<1>7. csr'.sie = TRUE
  BY <1>1, Typed DEF CSRs
<1>8. csr'.sie <=> SieOn(current, "cpu_idle")
  BY <1>4, <1>7
<1> QED BY <1>1, <1>2, <1>3, <1>5, <1>6, <1>8, OwnStep, Typed

\* A kernel thread calls do_wait or schedule().
LEMMA ThreadCallsStep ==
  ASSUME IInv, NEW l \in {"cpu_idle", "init_wait", "init_next"}, At(l),
         NEW l2 \in {"repeat", "schedule"}, NEW e \in Items, Push(e), Goto(l2),
         UNCHANGED <<csr, timer, ticks, current, state, parent, need_resched, tf, saved>>,
         IF l2 = "repeat" THEN e \in DoWaits /\ l = "init_wait" /\ e.ret = "init_next"
         ELSE e \in Scheds /\ e.ret = IF l = "cpu_idle" THEN "cpu_idle" ELSE "init_wait"
  PROVE  IInv'
<1> DEFINE s == stack[current]
           n == Len(s)
           s2 == stack'[current]
<1>1. /\ mode = "S" /\ sp = <<current, n>> /\ csr.sscratch = Zero /\ n \in Nat
      /\ Suits(current, s, tf[current], n, l) /\ state[current] = "runnable"
      /\ csr.sie <=> SieOn(current, l)
  BY InKernel, OwnIsRunnable
<1>2. current' = current /\ sp = <<current, Len(stack[current])>>
  BY <1>1
<1>3. /\ stack' \in [Proc -> Seq(Items)]
      /\ \A q \in Proc \ {current} : stack'[q] = stack[q]
      /\ Len(s2) = n + 1 /\ s2[n + 1] = e
      /\ \A k \in 1 .. n : s2[k] = s[k]
      /\ sp' = <<current, Len(s2)>> /\ Top' = e
  BY <1>2, PushStep
<1> HIDE DEF s2
<1>4. /\ Bottom(current, s, tf[current], n, l)
      /\ l \in InitCode => Bottom(current, s, tf[current], n, "init_wait")
                           /\ Bottom(current, s, tf[current], n, "init_next")
  BY <1>1 DEF Suits, Bottom, InitCode
<1>5. SieOn(current, l) /\ SieOn(current, l2) /\ csr.sie
  <2>1. current \notin Task
    BY <1>4, Processes DEF Bottom, InitCode
  <2> QED BY <1>1, <2>1 DEF SieOn, InitCode
<1>6. (n + 1) - 1 = n /\ n + 1 >= 1
  BY <1>1
<1>7. Suits(current, s2, tf[current], n + 1, l2)
  <2>1. CASE l2 = "repeat"
    <3>1. Bottom(current, s2, tf[current], n, "init_next") /\ n >= 1
      <4>1. Bottom(current, s, tf[current], n, "init_next")
        BY <1>4, <2>1 DEF InitCode
      <4> QED BY <1>1, <1>3, <4>1, SameBottom DEF Bottom, InitCode
    <3>2. InWait(current, s2, tf[current], n + 1)
      BY <1>1, <1>3, <1>6, <2>1, <3>1 DEF InWait
    <3> QED BY <2>1, <3>2 DEF Suits
  <2>2. CASE l2 = "schedule"
    <3>1. Bottom(current, s, tf[current], n, e.ret) /\ e.ret \in {"cpu_idle", "init_wait"} /\ e \in Scheds
      BY <1>4, <2>2 DEF InitCode
    <3>2. Bottom(current, s2, tf[current], n, e.ret)
      BY <1>1, <1>3, <3>1, SameBottom
    <3>3. InSchedule(current, s2, tf[current], n + 1)
      BY <1>3, <1>6, <3>1, <3>2 DEF InSchedule
    <3> QED BY <2>2, <3>3 DEF Suits
  <2> QED BY <2>1, <2>2
<1>8. OwnCode' = l2
  BY <1>1 DEF OwnCode, Goto, K
<1>9. l2 \in {"schedule", "picked"} => Top'.ret # "dead"
  BY <1>3
<1>10. csr'.sie <=> SieOn(current, l2)
  BY <1>5
<1>11. Suits(current, stack'[current], tf'[current], Len(stack'[current]), l2)
  BY <1>3, <1>7 DEF s2
<1>12. sp' = <<current, Len(stack'[current])>> /\ csr'.sscratch = Zero
  BY <1>1, <1>3 DEF s2
<1> QED BY <1>1, <1>3, <1>8, <1>9, <1>10, <1>11, <1>12, OwnStep, Typed

\* init_main calls do_wait.
LEMMA InitWaitsStep == ASSUME IInv, InitWaits PROVE IInv'
<1>1. /\ At("init_wait") /\ Push(WaitFrame(Null, "init_next")) /\ Goto("repeat")
      /\ UNCHANGED <<csr, timer, ticks, current, state, parent, need_resched, tf, saved>>
  BY DEF InitWaits, clock, procs, family
<1>2. WaitFrame(Null, "init_next") \in DoWaits /\ WaitFrame(Null, "init_next").ret = "init_next"
  BY DEF WaitFrame, DoWaits
<1>3. WaitFrame(Null, "init_next") \in Items
  BY <1>2 DEF Items
<1> QED BY <1>1, <1>2, <1>3, ThreadCallsStep

\* init_main calls schedule() between two waits.
LEMMA InitNextStep == ASSUME IInv, InitNext PROVE IInv'
<1>1. /\ At("init_next") /\ Push(SchedFrame("init_wait")) /\ Goto("schedule")
      /\ UNCHANGED <<csr, timer, ticks, current, state, parent, need_resched, tf, saved>>
  BY DEF InitNext, CallSchedule, clock, procs, family
<1>2. SchedFrame("init_wait") \in Scheds /\ SchedFrame("init_wait").ret = "init_wait"
  BY DEF SchedFrame, Scheds
<1>3. SchedFrame("init_wait") \in Items
  BY <1>2 DEF Items
<1> QED BY <1>1, <1>2, <1>3, ThreadCallsStep

\* cpu_idle calls schedule() when it is asked for.
LEMMA CpuIdleStep == ASSUME IInv, cpu_idle PROVE IInv'
<1>1. /\ At("cpu_idle") /\ Push(SchedFrame("cpu_idle")) /\ Goto("schedule")
      /\ UNCHANGED <<csr, timer, ticks, current, state, parent, need_resched, tf, saved>>
  BY DEF cpu_idle, CallSchedule, clock, procs, family
<1>2. SchedFrame("cpu_idle") \in Scheds /\ SchedFrame("cpu_idle").ret = "cpu_idle"
  BY DEF SchedFrame, Scheds
<1>3. SchedFrame("cpu_idle") \in Items
  BY <1>2 DEF Items
<1> QED BY <1>1, <1>2, <1>3, ThreadCallsStep

-----------------------------------------------------------------------------
(* schedule() and proc_run().                                              *)

\* A stack that schedule() is on, and what a store to its flag changes.
LEMMA ScheduleSavesStep == ASSUME IInv, ScheduleSaves PROVE IInv'
<1> DEFINE s == stack[current]
           n == Len(s)
           e == [s[n] EXCEPT !.intr_flag = csr.sie]
<1>1. /\ At("schedule") /\ Goto("pick") /\ csr' = [csr EXCEPT !.sie = FALSE]
      /\ UNCHANGED <<sp, timer, ticks, current, state, parent, need_resched, tf, saved>>
  BY DEF ScheduleSaves, intr_disable, clock, procs, family
<1>2. /\ mode = "S" /\ sp = <<current, n>> /\ csr.sscratch = Zero /\ n \in Nat /\ pc = K("schedule")
      /\ Suits(current, s, tf[current], n, "schedule") /\ Top = s[n] /\ current \in Proc
      /\ csr.sie <=> SieOn(current, "schedule")
  BY <1>1, InKernel
<1>3. InSchedule(current, s, tf[current], n) /\ n >= 1 /\ s[n] \in Scheds /\ n \in 1 .. n
  BY <1>2 DEF Suits, OwnPlaces, InitCode, InSchedule
<1>4. stack' = [stack EXCEPT ![current] = [s EXCEPT ![n] = e]]
  BY <1>2, Typed DEF ScheduleSaves
<1>5. e \in Scheds /\ e.ret = s[n].ret /\ e.intr_flag = csr.sie /\ e.kind = "schedule"
  BY <1>3, Typed DEF Scheds, CSRs
<1>6. e \in Items
  BY <1>5 DEF Items
<1> HIDE DEF e
<1>7. /\ stack' \in [Proc -> Seq(Items)]
      /\ \A q \in Proc \ {current} : stack'[q] = stack[q]
      /\ Len(stack'[current]) = n /\ stack'[current][n] = e
      /\ \A k \in 1 .. n : k # n => stack'[current][k] = s[k]
  BY <1>3, <1>4, <1>6, StoreStep
<1>8. csr' \in CSRs /\ csr'.sscratch = Zero
  BY <1>1, <1>2, Typed DEF CSRs
<1>9. csr'.sie = FALSE
  BY <1>1, Typed DEF CSRs
<1>10. Types'
  BY <1>1, <1>7, <1>8, Typed DEF Types, Goto, IInv
<1>11. HartOK'
  <2>1. InSchedule(current, stack'[current], tf[current], n)
    <3>1. n - 1 \in Nat /\ \A k \in 1 .. n - 1 : stack'[current][k] = s[k]
      BY <1>2, <1>3, <1>7
    <3>2. \A l : Bottom(current, s, tf[current], n - 1, l)
                   => Bottom(current, stack'[current], tf[current], n - 1, l)
      BY <3>1, SameBottom
    <3>3. InWait(current, s, tf[current], n - 1) => InWait(current, stack'[current], tf[current], n - 1)
      BY <3>1, SameInWait
    <3>4. stack'[current][n] \in Scheds /\ stack'[current][n].ret = s[n].ret
      BY <1>5, <1>7
    <3> QED BY <1>3, <3>2, <3>3, <3>4 DEF InSchedule
  <2>2. csr.sie <=> current \notin Task
    BY <1>2 DEF SieOn, InitCode
  <2>3. FlagSaved(current, stack'[current], tf[current], n)
    BY <1>5, <1>7, <2>1, <2>2 DEF FlagSaved
  <2>4. Suits(current, stack'[current], tf[current], n, "pick")
    BY <2>3 DEF Suits
  <2>5. ~SieOn(current, "pick")
    BY DEF SieOn, InitCode
  <2>6. mode' = "S" /\ pc' = K("pick")
    BY <1>1, <1>2 DEF Goto
  <2>7. Suits(current', stack'[current'], tf'[current'], Len(stack'[current']), "pick")
    BY <1>1, <1>7, <2>4
  <2>8. sp' = <<current', Len(stack'[current'])>>
    BY <1>1, <1>2, <1>7
  <2>9. csr'.sie <=> SieOn(current', "pick")
    BY <1>1, <1>9, <2>5
  <2> QED BY <1>8, <2>6, <2>7, <2>8, <2>9, NowAt
<1>12. Top' = e /\ pc' = K("pick") /\ OwnCode' = "pick"
  BY <1>1, <1>2, <1>7 DEF Top, OwnCode, Goto, K
<1>13. NoNewWait
  <2>1. DOMAIN s = 1 .. n /\ DOMAIN stack'[current] = 1 .. n
    BY <1>2, <1>7, Typed
  <2> QED BY <1>5, <1>7, <2>1 DEF NoNewWait
<1>14. state[current] = "zombie" <=> Top'.ret = "dead"
  BY <1>2, <1>5, <1>12 DEF IInv, FamilyOK
<1> QED BY <1>1, <1>7, <1>10, <1>11, <1>12, <1>13, <1>14, LocalStep DEF K

\* switch_to: the running process is left in proc_run, the next one goes on where
\* it was left, or begins.
LEMMA SwitchStep ==
  ASSUME IInv, At("pick"), NEW next \in Proc \ {current}, state[next] = "runnable",
         switch_to(next), UNCHANGED <<timer, ticks, state, parent, tf>>,
         need_resched' \in [Proc -> BOOLEAN]
  PROVE  IInv'
<1> DEFINE s == stack[current]
           n == Len(s)
           e == [kind |-> "proc_run", intr_flag |-> csr.sie]
           s2 == Append(SubSeq(s, 1, n), e)
<1>1. /\ mode = "S" /\ sp = <<current, n>> /\ csr.sscratch = Zero /\ n \in Nat /\ pc = K("pick")
      /\ Suits(current, s, tf[current], n, "pick") /\ Top = s[n] /\ current \in Proc
      /\ ~csr.sie
  BY InKernel DEF SieOn, InitCode
<1>2. FlagSaved(current, s, tf[current], n) /\ n <= 4
  BY <1>1, ScheduleHeight DEF Suits, FlagSaved, OwnPlaces, InitCode
<1>3. /\ stack' = [stack EXCEPT ![current] = s2]
      /\ saved' = [saved EXCEPT ![current] = [ra |-> "switched", sp |-> <<current, n + 1>>]]
      /\ current' = next /\ sp' = saved[next].sp /\ Goto(saved[next].ra)
      /\ csr' = [csr EXCEPT !.sie = FALSE]
  BY <1>1 DEF switch_to, Above, intr_disable
<1>4. e \in Runs /\ e.kind = "proc_run"
  <2>1. csr.sie = FALSE
    BY <1>1, Typed DEF CSRs
  <2> QED BY <2>1 DEF Runs
<1>5. e \in Items
  BY <1>4 DEF Items
<1> HIDE DEF e
<1>6. /\ s2 \in Seq(Items) /\ Len(s2) = n + 1 /\ s2[n + 1] = e
      /\ \A k \in 1 .. n : s2[k] = s[k]
  <2>1. s \in Seq(Items)
    BY Typed
  <2> QED BY <1>5, <2>1, Pushed
<1> HIDE DEF s2
<1>7. /\ stack' \in [Proc -> Seq(Items)] /\ stack'[current] = s2
      /\ \A q \in Proc \ {current} : stack'[q] = stack[q]
  BY <1>1, <1>3, <1>6, Typed
<1>8. /\ saved' \in [Proc -> [ra : {"none", "forkret", "switched"}, sp : Address]]
      /\ saved'[current].ra = "switched" /\ saved'[current].sp = <<current, n + 1>>
      /\ \A q \in Proc \ {current} : saved'[q] = saved[q]
  <2>1. <<current, n + 1>> \in Address
    BY <1>1, <1>2 DEF Address
  <2> QED BY <1>1, <1>3, <2>1, Typed
<1>9. csr' \in CSRs /\ csr'.sscratch = Zero
  BY <1>1, <1>3, Typed DEF CSRs
<1>10. csr'.sie = FALSE
  BY <1>3, Typed DEF CSRs
<1>11. Types'
  BY <1>3, <1>7, <1>8, <1>9, Typed DEF Types, Goto, IInv
<1>12. SwitchedOut(next)
  BY DEF IInv, OthersOK
<1>13. saved[next].ra \in {"forkret", "switched"} /\ sp' = <<next, Len(stack[next])>>
  BY <1>3, <1>12 DEF SwitchedOut
<1>14. HartOK'
  <2>1. ~SieOn(next, saved[next].ra)
    BY <1>13 DEF SieOn, InitCode
  <2>2. Suits(next, stack[next], tf[next], Len(stack[next]), saved[next].ra)
    BY <1>12 DEF SwitchedOut, Suits
  <2>3. mode' = "S" /\ pc' = K(saved[next].ra)
    BY <1>1, <1>3 DEF Goto
  <2>4. Suits(current', stack'[current'], tf'[current'], Len(stack'[current']), saved[next].ra)
    BY <1>3, <1>7, <2>2
  <2>5. sp' = <<current', Len(stack'[current'])>>
    BY <1>3, <1>7, <1>13
  <2>6. csr'.sie <=> SieOn(current', saved[next].ra)
    BY <1>3, <1>10, <2>1
  <2>7. saved[next].ra \notin {"alltraps", "sret"}
    BY <1>13
  <2> QED BY <1>9, <2>3, <2>4, <2>5, <2>6, <2>7, NowAt
<1>15. OthersOK'
  <2> SUFFICES ASSUME NEW q \in Proc \ {next}
               PROVE  IF state'[q] = "none" THEN stack'[q] = <<>> ELSE SwitchedOut(q)'
    BY <1>3 DEF OthersOK
  <2>1. CASE q # current
    <3>1. stack'[q] = stack[q] /\ saved'[q] = saved[q] /\ state'[q] = state[q] /\ tf'[q] = tf[q]
      BY <1>7, <1>8, <2>1
    <3>2. SwitchedOut(q) => SwitchedOut(q)'
      BY <3>1 DEF SwitchedOut
    <3> QED BY <2>1, <3>1, <3>2 DEF IInv, OthersOK
  <2>2. CASE q = current
    <3>1. state[current] # "none" /\ (state[current] = "zombie" <=> s[n].ret = "dead")
      BY <1>1 DEF IInv, FamilyOK
    <3>2. FlagSaved(current, s2, tf[current], n) /\ s2[n] = s[n] /\ n >= 1
      <4>1. InSchedule(current, s, tf[current], n) /\ n >= 1
        BY <1>2 DEF FlagSaved, InSchedule
      <4>2. InSchedule(current, s2, tf[current], n) /\ s2[n] = s[n]
        BY <1>1, <1>6, <4>1, SameInSchedule
      <4> QED BY <1>2, <4>1, <4>2 DEF FlagSaved
    <3>3. InProcRun(current, s2, tf[current], n + 1)
      <4>1. (n + 1) - 1 = n /\ n + 1 >= 2
        BY <1>1, <3>2
      <4> QED BY <1>4, <1>6, <3>2, <4>1 DEF InProcRun
    <3>4. s2[Len(s2) - 1].ret = s[n].ret
      BY <1>1, <1>6, <3>2
    <3>5. stack'[q] = s2 /\ tf'[q] = tf[current] /\ state'[q] = state[current]
      BY <1>7, <2>2
    <3>6. saved'[q].ra = "switched" /\ saved'[q].sp = <<q, Len(stack'[q])>>
      BY <1>6, <1>8, <2>2, <3>5
    <3>7. InProcRun(q, stack'[q], tf'[q], Len(stack'[q]))
      BY <1>6, <2>2, <3>3, <3>5
    <3>8. state'[q] = "zombie" <=> stack'[q][Len(stack'[q]) - 1].ret = "dead"
      BY <3>1, <3>4, <3>5
    <3>9. SwitchedOut(q)'
      BY <3>6, <3>7, <3>8 DEF SwitchedOut
    <3> QED BY <3>1, <3>5, <3>9
  <2> QED BY <2>1, <2>2
<1>16. pc' \in {K("forkret"), K("switched")} /\ OwnCode' \in {"forkret", "switched"}
  BY <1>1, <1>3, <1>13 DEF Goto, K, OwnCode
<1>17. FamilyOK'
  <2>1. pc' = K("switched") => stack'[next][Len(stack'[next]) - 1].ret # "dead"
    <3>1. pc' = K("switched") => saved[next].ra = "switched"
      BY <1>3 DEF Goto, K
    <3> QED BY <1>7, <1>12, <3>1 DEF SwitchedOut
  <2> QED BY <1>3, <1>16, <2>1 DEF IInv, FamilyOK, K
<1>18. FallsAsleep'
  BY <1>16 DEF FallsAsleep
<1>19. NoLostWakeup'
  <2> SUFFICES ASSUME NEW p \in Proc, state[p] = "waiting", NEW k \in DOMAIN stack'[p],
                      stack'[p][k].kind = "do_wait", NEW c \in Awaited(p, stack'[p][k].pid),
                      state[c] = "zombie"
               PROVE  FALSE
    BY DEF NoLostWakeup, Awaited
  <2>1. k \in DOMAIN stack[p] /\ stack'[p][k] = stack[p][k]
    <3>1. CASE p # current
      BY <1>7, <3>1
    <3>2. CASE p = current
      <4>1. DOMAIN s = 1 .. n /\ DOMAIN s2 = 1 .. n + 1
        BY <1>1, <1>6, Typed
      <4>2. k \in 1 .. n + 1 /\ s2[k].kind = "do_wait"
        BY <1>7, <3>2, <4>1
      <4>3. k \in 1 .. n
        BY <1>1, <1>4, <1>6, <4>2
      <4> QED BY <1>6, <1>7, <3>2, <4>1, <4>3
    <3> QED BY <3>1, <3>2
  <2> QED BY <2>1 DEF IInv, NoLostWakeup
<1> QED BY <1>11, <1>14, <1>15, <1>17, <1>18, <1>19 DEF IInv

\* schedule() picks the next process, and proc_run switches to it unless it runs already.
LEMMA SchedulePicksStep == ASSUME IInv, SchedulePicks PROVE IInv'
<1> DEFINE s == stack[current]
           n == Len(s)
<1>1. /\ At("pick") /\ need_resched' = [need_resched EXCEPT ![current] = FALSE]
      /\ UNCHANGED <<timer, ticks, state, parent, tf>>
  BY DEF SchedulePicks, clock, family
<1>2. need_resched' \in [Proc -> BOOLEAN]
  BY <1>1, Typed
<1>3. PICK next \in Next4Run :
         IF next = current
         THEN Goto("picked") /\ UNCHANGED <<sp, csr, stack, saved, current>>
         ELSE switch_to(next)
  BY DEF SchedulePicks
<1>4. next \in Proc /\ state[next] = "runnable"
  BY <1>3, Processes DEF Next4Run, Runnable, IInv, FamilyOK
<1>5. CASE next # current
  BY <1>1, <1>2, <1>3, <1>4, <1>5, SwitchStep
<1>6. CASE next = current
  <2>1. /\ mode = "S" /\ sp = <<current, n>> /\ csr.sscratch = Zero /\ pc = K("pick")
        /\ Suits(current, s, tf[current], n, "pick") /\ Top = s[n]
        /\ ~csr.sie
    BY <1>1, InKernel DEF SieOn, InitCode
  <2>2. Suits(current, s, tf[current], n, "picked")
    BY <2>1 DEF Suits, OwnPlaces, InitCode
  <2>3. Goto("picked") /\ UNCHANGED <<sp, csr, stack, saved, current>> /\ state[current] = "runnable"
    BY <1>3, <1>4, <1>6
  <2>4. Top'.ret # "dead"
    <3>1. Top' = Top
      BY <2>3 DEF Top
    <3> QED BY <2>1, <2>3, <3>1 DEF IInv, FamilyOK
  <2>5. ~SieOn(current, "picked") /\ OwnCode' = "picked"
    BY <2>1, <2>3 DEF SieOn, InitCode, OwnCode, Goto, K
  <2> QED BY <1>1, <1>2, <2>1, <2>2, <2>3, <2>4, <2>5, Typed, OwnStep
<1> QED BY <1>5, <1>6

\* proc_run, switched back to, restores the interrupt flag it saved.
LEMMA RunRestoresStep == ASSUME IInv, RunRestores PROVE IInv'
<1> DEFINE s == stack[current]
           n == Len(s)
<1>1. /\ At("switched") /\ Goto("picked") /\ Pop /\ local_intr_restore(Top.intr_flag)
      /\ UNCHANGED <<timer, ticks, current, state, parent, need_resched, tf, saved>>
  BY DEF RunRestores, clock, procs, family
<1>2. /\ mode = "S" /\ sp = <<current, n>> /\ csr.sscratch = Zero /\ pc = K("switched") /\ n \in Nat
      /\ Suits(current, s, tf[current], n, "switched") /\ Top = s[n] /\ state[current] = "runnable"
      /\ ~csr.sie
  BY <1>1, InKernel, OwnIsRunnable DEF SieOn, InitCode
<1>3. /\ InProcRun(current, s, tf[current], n) /\ n >= 2 /\ Top.intr_flag = FALSE
      /\ FlagSaved(current, s, tf[current], n - 1) /\ s[n - 1].ret # "dead"
  BY <1>2 DEF Suits, OwnPlaces, InitCode, InProcRun, Runs, IInv, FamilyOK
<1>4. csr' = csr
  BY <1>1, <1>3 DEF local_intr_restore
<1>5. /\ stack' \in [Proc -> Seq(Items)]
      /\ \A q \in Proc \ {current} : stack'[q] = stack[q]
      /\ Len(stack'[current]) = n - 1
      /\ \A k \in 1 .. n - 1 : stack'[current][k] = s[k]
      /\ sp' = <<current, Len(stack'[current])>>
  <2>1. Pop /\ current' = current /\ Len(stack[current]) >= 1 /\ sp = <<current, Len(stack[current])>>
    BY <1>1, <1>2, <1>3
  <2> QED BY <2>1, PopStep
<1>6. n - 1 \in Nat /\ stack'[current][n - 1] = s[n - 1] /\ Top' = s[n - 1]
  BY <1>1, <1>2, <1>3, <1>5 DEF Top
<1>7. FlagSaved(current, stack'[current], tf[current], n - 1)
  BY <1>3, <1>5, <1>6, SameInSchedule DEF FlagSaved
<1>8. Suits(current, stack'[current], tf'[current], Len(stack'[current]), "picked")
  BY <1>1, <1>5, <1>7 DEF Suits
<1>9. ~SieOn(current, "picked") /\ OwnCode' = "picked"
  BY <1>1, <1>2 DEF SieOn, InitCode, OwnCode, Goto, K
<1> QED BY <1>1, <1>2, <1>3, <1>4, <1>5, <1>6, <1>8, <1>9, Typed, OwnStep

\* schedule() returns with the interrupt flag it was called with.
LEMMA ScheduleRestoresStep == ASSUME IInv, ScheduleRestores PROVE IInv'
<1> DEFINE s == stack[current]
           n == Len(s)
           l == Top.ret
<1>1. /\ At("picked") /\ Goto(l) /\ Pop /\ local_intr_restore(Top.intr_flag)
      /\ UNCHANGED <<timer, ticks, current, state, parent, need_resched, tf, saved>>
  BY DEF ScheduleRestores, clock, procs, family
<1>2. /\ mode = "S" /\ sp = <<current, n>> /\ csr.sscratch = Zero /\ pc = K("picked") /\ n \in Nat
      /\ Suits(current, s, tf[current], n, "picked") /\ Top = s[n] /\ state[current] = "runnable"
      /\ ~csr.sie
  BY <1>1, InKernel, OwnIsRunnable DEF SieOn, InitCode
<1>3. /\ n >= 1 /\ s[n] \in Scheds /\ (Top.intr_flag <=> current \notin Task)
      /\ \/ l \in {"cpu_idle", "init_wait", "trapret"} /\ Bottom(current, s, tf[current], n - 1, l)
         \/ l = "woken" /\ InWait(current, s, tf[current], n - 1)
  BY <1>2 DEF Suits, OwnPlaces, InitCode, FlagSaved, InSchedule, IInv, FamilyOK
<1>4. l \in {"cpu_idle", "init_wait", "woken", "trapret"}
  BY <1>3
<1> HIDE DEF l
<1>5. /\ stack' \in [Proc -> Seq(Items)]
      /\ \A q \in Proc \ {current} : stack'[q] = stack[q]
      /\ Len(stack'[current]) = n - 1
      /\ \A k \in 1 .. n - 1 : stack'[current][k] = s[k]
      /\ sp' = <<current, Len(stack'[current])>>
  <2>1. Pop /\ current' = current /\ Len(stack[current]) >= 1 /\ sp = <<current, Len(stack[current])>>
    BY <1>1, <1>2, <1>3
  <2> QED BY <2>1, PopStep
<1>6. n - 1 \in Nat
  BY <1>2, <1>3
<1>7. Suits(current, stack'[current], tf'[current], Len(stack'[current]), l)
  <2>1. CASE l = "woken"
    <3>1. InWait(current, stack'[current], tf[current], n - 1)
      BY <1>3, <1>5, <1>6, <2>1, SameInWait
    <3> QED BY <1>1, <1>5, <2>1, <3>1 DEF Suits
  <2>2. CASE l # "woken"
    <3>1. Bottom(current, stack'[current], tf[current], n - 1, l)
      BY <1>3, <1>5, <1>6, <2>2, SameBottom
    <3> QED BY <1>1, <1>4, <1>5, <2>2, <3>1 DEF Suits, OwnPlaces, InitCode
  <2> QED BY <2>1, <2>2
<1>8. SieOn(current, l) <=> current \notin Task
  <2>1. CASE l = "woken"
    BY <2>1 DEF SieOn, InitCode
  <2>2. CASE l # "woken"
    <3>1. Bottom(current, s, tf[current], n - 1, l) /\ l \in {"cpu_idle", "init_wait", "trapret"}
      BY <1>3, <2>2
    <3> QED BY <3>1, Processes DEF SieOn, InitCode, Bottom
  <2> QED BY <2>1, <2>2
<1>9. csr' \in CSRs /\ csr'.sscratch = Zero
  BY <1>1, <1>2, Typed DEF local_intr_restore, intr_enable, CSRs
<1>10. csr'.sie <=> SieOn(current, l)
  <2>1. CASE Top.intr_flag
    <3>1. csr' = [csr EXCEPT !.sie = TRUE]
      BY <1>1, <2>1 DEF local_intr_restore, intr_enable
    <3>2. csr'.sie = TRUE
      BY <3>1, Typed DEF CSRs
    <3> QED BY <1>3, <1>8, <2>1, <3>2
  <2>2. CASE ~Top.intr_flag
    <3>1. csr' = csr
      BY <1>1, <2>2 DEF local_intr_restore
    <3> QED BY <1>2, <1>3, <1>8, <2>2, <3>1
  <2> QED BY <2>1, <2>2
<1>11. OwnCode' # "sleep"
  <2>1. CASE l # "trapret"
    BY <1>1, <1>2, <1>4, <2>1 DEF OwnCode, Goto, K
  <2>2. CASE l = "trapret"
    <3>1. n - 1 = 1 /\ s[1] \in UFrames
      BY <1>3, <2>2 DEF Bottom, InitCode
    <3>2. s[1].spp = FALSE
      BY <3>1 DEF UFrames
    <3>3. sp' = <<current, 1>> /\ stack'[current][1] = s[1]
      <4>1. Len(stack'[current]) = 1 /\ 1 \in 1 .. n - 1
        BY <1>2, <1>5, <3>1
      <4> QED BY <1>5, <4>1
    <3>4. Top' = s[1]
      BY <3>3 DEF Top
    <3> QED BY <1>1, <1>2, <2>2, <3>2, <3>4 DEF OwnCode, Goto, K
  <2> QED BY <2>1, <2>2
<1> QED BY <1>1, <1>2, <1>4, <1>5, <1>7, <1>9, <1>10, <1>11, Typed, OwnStep

-----------------------------------------------------------------------------
(* do_wait.                                                                *)

\* What lies on the stack in do_wait: init's call of it, or a program's.
LEMMA AtWait ==
  ASSUME IInv, NEW l \in {"repeat", "sleep", "woken"}, At(l)
  PROVE  LET s == stack[current]
             n == Len(s)
         IN  /\ mode = "S" /\ sp = <<current, n>> /\ csr.sscratch = Zero /\ Top = s[n]
             /\ csr.sie <=> SieOn(current, l)
             /\ s \in Seq(Items) /\ n \in Nat /\ state[current] = "runnable" /\ OwnCode = l
             /\ InWait(current, s, tf[current], n) /\ Top \in DoWaits
             /\ \/ /\ current = initproc /\ n = 2 /\ s[1] \in KFrames /\ Top.ret = "init_next"
                \/ /\ current \in Task /\ n = 3 /\ s[1] \in UFrames /\ s[2] \in UTraps
                   /\ Top.ret = "trapend" /\ tf[current] = <<current, 1>>
                   /\ s[1].cause = "ecall"
<1> DEFINE s == stack[current]
           n == Len(s)
<1>1. /\ mode = "S" /\ sp = <<current, n>> /\ csr.sscratch = Zero /\ Top = s[n]
      /\ csr.sie <=> SieOn(current, l)
      /\ s \in Seq(Items) /\ n \in Nat /\ state[current] = "runnable" /\ OwnCode = l
      /\ Suits(current, s, tf[current], n, l)
  BY InKernel, OwnIsRunnable
<1>2. InWait(current, s, tf[current], n)
  BY <1>1 DEF Suits, OwnPlaces, InitCode
<1>3. Top \in DoWaits /\ Bottom(current, s, tf[current], n - 1, Top.ret) /\ n >= 2
  BY <1>1, <1>2 DEF InWait
<1>4. Top.ret \in {"init_next", "trapend"}
  BY <1>3 DEF DoWaits
<1>5. \/ /\ current = initproc /\ n = 2 /\ s[1] \in KFrames /\ Top.ret = "init_next"
      \/ /\ current \in Task /\ n = 3 /\ s[1] \in UFrames /\ s[2] \in UTraps
         /\ Top.ret = "trapend" /\ tf[current] = <<current, 1>>
         /\ s[1].cause = "ecall"
  <2>1. n - 1 = 1 => n = 2
    BY <1>1
  <2>2. n - 1 = 2 => n = 3
    BY <1>1
  <2>3. Top.ret = "trapend" => s[1].cause = "ecall"
    BY <1>1, <1>2 DEF InWait
  <2> QED BY <1>3, <1>4, <2>1, <2>2, <2>3 DEF Bottom, InitCode
<1> QED BY <1>1, <1>2, <1>3, <1>5

\* do_wait returns, with a reaped child's stack given up.
LEMMA WaitReturned ==
  ASSUME IInv, At("repeat"), NEW v \in {0, 1}, NEW freed \in SUBSET (Task \ {current}),
         WaitReturns(v, freed), current' = current, tf'[current] = tf[current]
  PROVE  /\ stack' \in [Proc -> Seq(Items)]
         /\ \A q \in Proc \ {current} : stack'[q] = IF q \in freed THEN <<>> ELSE stack[q]
         /\ sp' = <<current, Len(stack'[current])>>
         /\ \E l2 \in {"init_next", "init_end", "trapend"} :
              /\ Goto(l2) /\ OwnCode' = l2
              /\ Suits(current, stack'[current], tf'[current], Len(stack'[current]), l2)
              /\ SieOn(current, l2) <=> SieOn(current, "repeat")
         /\ current \in Task =>
              /\ Goto("trapend") /\ Len(stack'[current]) = 2
              /\ stack'[current][1] = [stack[current][1] EXCEPT !.regs = v]
              /\ stack'[current][2] = stack[current][2]
<1> DEFINE s == stack[current]
           n == Len(s)
           popped == [stack EXCEPT ![current] = Above(current, sp[2] - 1)]
           answered == IF Top.ret = "init_next" THEN popped
                       ELSE [popped EXCEPT ![current][tf[current][2]].regs = v]
           b == SubSeq(s, 1, n - 1)
<1>1. /\ mode = "S" /\ sp = <<current, n>> /\ s \in Seq(Items) /\ n \in Nat
      /\ \/ /\ current = initproc /\ n = 2 /\ s[1] \in KFrames /\ Top.ret = "init_next"
         \/ /\ current \in Task /\ n = 3 /\ s[1] \in UFrames /\ s[2] \in UTraps
            /\ Top.ret = "trapend" /\ tf[current] = <<current, 1>>
  BY AtWait
<1>2. /\ stack' = [p \in Proc |-> IF p \in freed THEN <<>> ELSE answered[p]]
      /\ sp' = <<current, n - 1>>
      /\ Goto(IF Top.ret = "init_next" /\ v # 0 THEN "init_end" ELSE Top.ret)
  BY <1>1 DEF WaitReturns
<1>3. popped = [stack EXCEPT ![current] = b]
  BY <1>1 DEF Above
<1>4. b \in Seq(Items) /\ Len(b) = n - 1 /\ \A k \in 1 .. n - 1 : b[k] = s[k]
  <2>1. n - 1 \in 0 .. Len(s)
    BY <1>1
  <2> QED BY <1>1, <2>1, Popped
<1> HIDE DEF b, popped
<1>5. CASE current = initproc /\ n = 2 /\ s[1] \in KFrames /\ Top.ret = "init_next"
  <2> DEFINE l2 == IF v # 0 THEN "init_end" ELSE "init_next"
  <2>1. answered = popped /\ Goto(l2)
    BY <1>2, <1>5
  <2>2. /\ stack' \in [Proc -> Seq(Items)] /\ stack'[current] = b
        /\ \A q \in Proc \ {current} : stack'[q] = IF q \in freed THEN <<>> ELSE stack[q]
    <3>1. <<>> \in Seq(Items)
      OBVIOUS
    <3>2. popped \in [Proc -> Seq(Items)] /\ popped[current] = b
          /\ \A q \in Proc \ {current} : popped[q] = stack[q]
      BY <1>3, <1>4, Typed
    <3> HIDE DEF answered
    <3> QED BY <1>2, <2>1, <3>1, <3>2, Typed
  <2>3. b[1] = s[1] /\ Len(b) = 1
    <3>1. 1 \in 1 .. n - 1 /\ n - 1 = 1
      BY <1>5
    <3> QED BY <1>4, <3>1
  <2>4. Bottom(current, b, tf[current], 1, l2)
    BY <1>5, <2>3 DEF Bottom, InitCode
  <2>5. Suits(current, b, tf[current], 1, l2)
    BY <2>4 DEF Suits, OwnPlaces, InitCode
  <2>6. OwnCode' = l2
    BY <2>1 DEF OwnCode, Goto, K
  <2>7. SieOn(current, l2) /\ SieOn(current, "repeat")
    BY <1>5, Processes DEF SieOn, InitCode
  <2>8. l2 \in {"init_next", "init_end", "trapend"} /\ sp' = <<current, Len(stack'[current])>>
    BY <1>2, <1>5, <2>2, <2>3
  <2>9. Suits(current, stack'[current], tf'[current], Len(stack'[current]), l2)
    BY <2>2, <2>3, <2>5
  <2>10. current \notin Task
    BY <1>5, Processes
  <2> HIDE DEF l2
  <2> QED BY <2>1, <2>2, <2>6, <2>7, <2>8, <2>9, <2>10
<1>6. CASE /\ current \in Task /\ n = 3 /\ s[1] \in UFrames /\ s[2] \in UTraps
           /\ Top.ret = "trapend" /\ tf[current] = <<current, 1>>
  <2> DEFINE e == [s[1] EXCEPT !.regs = v]
             b2 == [b EXCEPT ![1] = e]
  <2>1. b[1] = s[1] /\ b[2] = s[2] /\ Len(b) = 2
    <3>1. 1 \in 1 .. n - 1 /\ 2 \in 1 .. n - 1 /\ n - 1 = 2
      BY <1>6
    <3> QED BY <1>4, <3>1
  <2>2. e \in UFrames /\ e \in Items
    <3>1. v \in Registers
      BY TrapEntryAssumption DEF Registers
    <3>2. e \in UFrames
      BY <1>6, <3>1 DEF UFrames
    <3> QED BY <3>2 DEF Items
  <2>3. popped \in [Proc -> Seq(Items)] /\ popped[current] = b
        /\ \A q \in Proc \ {current} : popped[q] = stack[q]
    BY <1>3, <1>4, Typed
  <2>4. answered = [popped EXCEPT ![current] = b2] /\ Goto("trapend")
    <3>1. answered = [popped EXCEPT ![current][1].regs = v]
      BY <1>6
    <3>2. [popped EXCEPT ![current][1].regs = v]
            = [popped EXCEPT ![current] = [popped[current] EXCEPT ![1] = [popped[current][1] EXCEPT !.regs = v]]]
      BY <2>3
    <3>3. [popped EXCEPT ![current][1].regs = v] = [popped EXCEPT ![current] = b2]
      BY <2>1, <2>3, <3>2
    <3>4. Goto("trapend")
      BY <1>2, <1>6
    <3> QED BY <3>1, <3>3, <3>4
  <2> HIDE DEF e
  <2>5. b2 \in Seq(Items) /\ Len(b2) = 2 /\ b2[1] = e /\ b2[2] = s[2]
    <3>1. PICK j \in 1 .. Len(b) : j = 1
      BY <2>1
    <3>2. b2 = [b EXCEPT ![j] = e]
      BY <3>1
    <3>3. /\ b2 \in Seq(Items) /\ Len(b2) = Len(b) /\ b2[j] = e
          /\ \A k \in 1 .. Len(b) : k # j => b2[k] = b[k]
      BY <1>4, <2>2, <3>2, Stored
    <3> QED BY <2>1, <3>1, <3>3
  <2> HIDE DEF b2, answered
  <2>6. /\ stack' \in [Proc -> Seq(Items)] /\ stack'[current] = b2
        /\ \A q \in Proc \ {current} : stack'[q] = IF q \in freed THEN <<>> ELSE stack[q]
    <3>1. <<>> \in Seq(Items)
      OBVIOUS
    <3>2. answered \in [Proc -> Seq(Items)] /\ answered[current] = b2
          /\ \A q \in Proc \ {current} : answered[q] = stack[q]
      BY <2>3, <2>4, <2>5, Typed
    <3> QED BY <1>2, <3>1, <3>2, Typed
  <2>7. Bottom(current, b2, tf[current], 2, "trapend")
    BY <1>6, <2>2, <2>5 DEF Bottom
  <2>8. Suits(current, b2, tf[current], 2, "trapend")
    BY <2>7 DEF Suits
  <2>9. sp' = <<current, 2>> /\ s[2].in_kernel = FALSE
    <3>1. s[2].in_kernel = FALSE
      BY <1>6 DEF UTraps
    <3>2. sp' = <<current, 2>>
      BY <1>2, <1>6
    <3> QED BY <3>1, <3>2
  <2>10. OwnCode' = "trapend"
    <3>1. Top' = s[2]
      BY <2>5, <2>6, <2>9 DEF Top
    <3> QED BY <2>4, <2>9, <3>1 DEF OwnCode, Goto, K
  <2>11. ~SieOn(current, "trapend") /\ ~SieOn(current, "repeat")
    BY <1>6 DEF SieOn, InitCode
  <2>12. sp' = <<current, Len(stack'[current])>>
    BY <2>5, <2>6, <2>9
  <2>13. Suits(current, stack'[current], tf'[current], Len(stack'[current]), "trapend")
    BY <2>5, <2>6, <2>8
  <2>14. /\ Len(stack'[current]) = 2 /\ stack'[current][2] = s[2]
         /\ stack'[current][1] = [s[1] EXCEPT !.regs = v]
    BY <2>5, <2>6 DEF e
  <2> QED BY <2>4, <2>6, <2>10, <2>11, <2>12, <2>13, <2>14
<1> QED BY <1>1, <1>5, <1>6

\* do_wait looks for a zombie to reap, with interrupts as they were at the call.
LEMMA WaitLooksStep == ASSUME IInv, WaitLooks PROVE IInv'
<1> DEFINE s == stack[current]
           n == Len(s)
           children == Awaited(current, Top.pid)
           zombies == {c \in children : state[c] = "zombie"}
<1>1. At("repeat") /\ UNCHANGED <<csr, timer, ticks, current, need_resched>>
  BY DEF WaitLooks, clock
<1>2. CASE zombies # {}
  <2>1. PICK c \in zombies :
          /\ WaitReturns(0, {c})
          /\ state' = [state EXCEPT ![c] = "none"]
          /\ parent' = [parent EXCEPT ![c] = idleproc]
          /\ tf' = [tf EXCEPT ![c] = Zero]
          /\ saved' = [saved EXCEPT ![c] = NoContextSaved]
    BY <1>2 DEF WaitLooks
  <2>2. c \in Proc /\ state[c] = "zombie"
    BY DEF Awaited
  <2>3. c # current /\ c \in Task /\ c # idleproc
    BY <1>1, <2>2, AtWait, Processes DEF Proc, IInv, FamilyOK
  <2>4. tf'[current] = tf[current] /\ {c} \in SUBSET (Task \ {current})
    BY <2>1, <2>3, Typed
  <2>5. /\ stack' \in [Proc -> Seq(Items)]
        /\ \A q \in Proc \ {current} : stack'[q] = IF q \in {c} THEN <<>> ELSE stack[q]
        /\ sp' = <<current, Len(stack'[current])>>
        /\ \E l2 \in {"init_next", "init_end", "trapend"} :
             /\ Goto(l2) /\ OwnCode' = l2
             /\ Suits(current, stack'[current], tf'[current], Len(stack'[current]), l2)
             /\ SieOn(current, l2) <=> SieOn(current, "repeat")
    BY <1>1, <2>1, <2>4, WaitReturned
  <2>6. PICK l2 \in {"init_next", "init_end", "trapend"} :
             /\ Goto(l2) /\ OwnCode' = l2
             /\ Suits(current, stack'[current], tf'[current], Len(stack'[current]), l2)
             /\ SieOn(current, l2) <=> SieOn(current, "repeat")
    BY <2>5
  <2>7. /\ state'[c] = "none"
        /\ \A q \in Proc : q # c => /\ state'[q] = state[q] /\ parent'[q] = parent[q]
                                    /\ tf'[q] = tf[q] /\ saved'[q] = saved[q]
    BY <2>1, <2>2, Typed
  <2>8. Types'
    <3>1. Zero \in Address /\ NoContextSaved \in [ra : {"none", "forkret", "switched"}, sp : Address]
      BY DEF Address, Zero, NoContextSaved
    <3>2. /\ state' \in [Proc -> {"none", "runnable", "waiting", "zombie"}]
          /\ parent' \in [Proc -> Proc] /\ tf' \in [Proc -> Address]
          /\ saved' \in [Proc -> [ra : {"none", "forkret", "switched"}, sp : Address]]
      BY <2>1, <2>2, <3>1, Typed, Processes
    <3> QED BY <1>1, <2>5, <2>6, <3>2, Typed DEF Types, Goto, IInv
  <2>9. HartOK'
    <3>1. /\ mode' = "S" /\ pc' = K(l2) /\ csr'.sscratch = Zero
          /\ csr'.sie <=> SieOn(current, l2)
      BY <1>1, <2>6, AtWait DEF Goto
    <3> QED BY <1>1, <2>5, <2>6, <3>1, NowAt
  <2>10. OthersOK'
    <3>1. stack'[c] = <<>>
      BY <2>2, <2>3, <2>5
    <3>2. \A q \in Proc \ {current} : q # c =>
             /\ stack'[q] = stack[q] /\ tf'[q] = tf[q] /\ saved'[q] = saved[q]
             /\ state'[q] = state[q]
      BY <2>5, <2>7
    <3> QED BY <1>1, <2>7, <3>1, <3>2, OthersAfter DEF IInv
  <2>11. FamilyOK'
    <3>1. pc' \notin {K("schedule"), K("pick"), K("picked"), K("switched")}
      BY <2>6 DEF Goto, K
    <3>2. state'[current] = "runnable"
      BY <1>1, <2>3, <2>7, AtWait, Typed
    <3>3. state'[idleproc] = "runnable" /\ state'[initproc] # "zombie"
      BY <2>3, <2>7, Processes DEF IInv, FamilyOK
    <3>4. \A q \in Task : parent'[q] # q
      <4>1. parent'[c] = idleproc
        BY <2>1, <2>2, Typed
      <4> QED BY <2>7, <4>1, Processes DEF IInv, FamilyOK
    <3> QED BY <1>1, <3>1, <3>2, <3>3, <3>4 DEF FamilyOK
  <2>12. FallsAsleep'
    BY <2>6 DEF FallsAsleep
  <2>13. NoLostWakeup'
    <3> SUFFICES ASSUME NEW p \in Proc, state'[p] = "waiting", NEW k \in DOMAIN stack'[p],
                        stack'[p][k].kind = "do_wait", NEW d \in Awaited(p, stack[p][k].pid)',
                        state'[d] = "zombie"
                 PROVE  FALSE
      BY DEF NoLostWakeup
    <3>1. p # current /\ p # c /\ state[p] = "waiting" /\ stack'[p] = stack[p]
      BY <1>1, <2>5, <2>7, AtWait
    <3>2. d \in Proc /\ d # c /\ parent[d] = p /\ state[d] = "zombie" /\ stack[p][k].pid \in {Null, d}
      BY <2>7, <3>1 DEF Awaited
    <3>3. d \in Awaited(p, stack[p][k].pid)
      BY <3>2 DEF Awaited
    <3> QED BY <3>1, <3>2, <3>3 DEF IInv, NoLostWakeup
  <2> QED BY <2>8, <2>9, <2>10, <2>11, <2>12, <2>13 DEF IInv
<1>3. CASE zombies = {}
  <2>1. UNCHANGED <<state, parent, tf, saved>>
    BY <1>3 DEF WaitLooks, family
  <2>2. CASE children # {}
    <3>1. Goto("sleep") /\ UNCHANGED <<sp, stack>>
      BY <1>3, <2>2 DEF WaitLooks
    <3>2. /\ mode = "S" /\ sp = <<current, n>> /\ csr.sscratch = Zero /\ Top = s[n]
          /\ csr.sie <=> SieOn(current, "repeat")
          /\ s \in Seq(Items) /\ n \in Nat /\ state[current] = "runnable"
          /\ InWait(current, s, tf[current], n)
          /\ \/ current = initproc /\ n = 2 /\ s[1] \in KFrames
             \/ current \in Task /\ n = 3 /\ s[1] \in UFrames /\ s[2] \in UTraps
      BY <1>1, AtWait
    <3>3. pc' = K("sleep") /\ OwnCode' = "sleep" /\ mode' = "S"
      BY <3>1, <3>2 DEF OwnCode, Goto, K
    <3>4. NoZombieAwaited(current)
      <4> SUFFICES ASSUME NEW k \in DOMAIN s, s[k].kind = "do_wait",
                          NEW c \in Awaited(current, s[k].pid), state[c] = "zombie"
                   PROVE  FALSE
        BY DEF NoZombieAwaited
      <4>1. s[1].kind # "do_wait" /\ (n = 3 => s[2].kind # "do_wait")
        <5>1. \A f \in KFrames \cup UFrames \cup UTraps : f.kind # "do_wait"
          BY DEF KFrames, UFrames, UTraps
        <5> HIDE DEF s, n
        <5> QED BY <3>2, <5>1
      <4>2. k \in 1 .. n /\ k \in Nat
        BY <3>2
      <4>3. k = n
        <5>1. CASE n = 2
          BY <4>1, <4>2, <5>1
        <5>2. CASE n = 3
          BY <4>1, <4>2, <5>2
        <5> QED BY <3>2, <5>1, <5>2
      <4> QED BY <1>3, <3>2, <4>3
    <3>5. NoZombieAwaited(current)'
      BY <1>1, <2>1, <3>1, <3>4 DEF NoZombieAwaited, Awaited
    <3>6. Types'
      BY <1>1, <2>1, <3>1, Typed DEF Types, Goto, IInv
    <3>7. HartOK'
      <4>1. Suits(current, s, tf[current], n, "sleep")
        BY <3>2 DEF Suits
      <4>2. SieOn(current, "repeat") <=> SieOn(current, "sleep")
        BY DEF SieOn, InitCode
      <4>3. Suits(current', stack'[current'], tf'[current'], Len(stack'[current']), "sleep")
        BY <1>1, <2>1, <3>1, <4>1
      <4>4. csr'.sie <=> SieOn(current', "sleep")
        BY <1>1, <3>2, <4>2
      <4>5. sp' = <<current', Len(stack'[current'])>> /\ csr'.sscratch = Zero
        BY <1>1, <3>1, <3>2
      <4> QED BY <3>3, <4>3, <4>4, <4>5, NowAt
    <3>8. OthersOK'
      BY <1>1, <2>1, <3>1, OthersStay DEF IInv
    <3>9. FamilyOK'
      BY <1>1, <2>1, <3>2, <3>3 DEF IInv, FamilyOK, K
    <3>10. FallsAsleep'
      BY <3>5 DEF FallsAsleep
    <3>11. NoLostWakeup'
      BY <1>1, <2>1, <3>1 DEF IInv, NoLostWakeup, Awaited
    <3> QED BY <3>6, <3>7, <3>8, <3>9, <3>10, <3>11 DEF IInv
  <2>3. CASE children = {}
    <3>1. WaitReturns(1, {})
      BY <1>3, <2>3 DEF WaitLooks
    <3>2. {} \in SUBSET (Task \ {current}) /\ tf'[current] = tf[current] /\ current' = current
      BY <1>1, <2>1
    <3>3. /\ stack' \in [Proc -> Seq(Items)]
          /\ \A q \in Proc \ {current} : stack'[q] = IF q \in {} THEN <<>> ELSE stack[q]
          /\ sp' = <<current, Len(stack'[current])>>
          /\ \E l2 \in {"init_next", "init_end", "trapend"} :
               /\ Goto(l2) /\ OwnCode' = l2
               /\ Suits(current, stack'[current], tf'[current], Len(stack'[current]), l2)
               /\ SieOn(current, l2) <=> SieOn(current, "repeat")
      BY <1>1, <3>1, <3>2, WaitReturned
    <3>4. PICK l2 \in {"init_next", "init_end", "trapend"} :
               /\ Goto(l2) /\ OwnCode' = l2
               /\ Suits(current, stack'[current], tf'[current], Len(stack'[current]), l2)
               /\ SieOn(current, l2) <=> SieOn(current, "repeat")
      BY <3>3
    <3>5. csr'.sie <=> SieOn(current, l2)
      BY <1>1, <3>4, AtWait
    <3>6. \A q \in Proc \ {current} : stack'[q] = stack[q] /\ tf'[q] = tf[q]
      BY <2>1, <3>3
    <3>7. mode = "S" /\ csr'.sscratch = Zero /\ state[current] = "runnable"
      BY <1>1, AtWait
    <3> QED BY <1>1, <2>1, <3>3, <3>4, <3>5, <3>6, <3>7, OwnStep, Typed
  <2> QED BY <2>2, <2>3
<1> QED BY <1>2, <1>3

\* do_wait falls asleep: it becomes waiting and calls schedule().
LEMMA WaitSleepsStep == ASSUME IInv, WaitSleeps PROVE IInv'
<1> DEFINE s == stack[current]
           n == Len(s)
           e == SchedFrame("woken")
<1>1. /\ At("sleep") /\ Push(e) /\ Goto("schedule")
      /\ state' = [state EXCEPT ![current] = "waiting"]
      /\ UNCHANGED <<csr, timer, ticks, current, parent, need_resched, tf, saved>>
  BY DEF WaitSleeps, CallSchedule, clock
<1>2. /\ mode = "S" /\ sp = <<current, n>> /\ csr.sscratch = Zero
      /\ csr.sie <=> SieOn(current, "sleep")
      /\ s \in Seq(Items) /\ n \in Nat /\ OwnCode = "sleep" /\ state[current] = "runnable"
      /\ InWait(current, s, tf[current], n)
      /\ current = initproc \/ current \in Task
  BY <1>1, AtWait
<1>3. e \in Scheds /\ e.ret = "woken" /\ e.kind = "schedule"
  BY DEF SchedFrame, Scheds
<1>4. e \in Items
  BY <1>3 DEF Items
<1> HIDE DEF e
<1>5. /\ stack' \in [Proc -> Seq(Items)]
      /\ \A q \in Proc \ {current} : stack'[q] = stack[q]
      /\ Len(stack'[current]) = n + 1 /\ stack'[current][n + 1] = e
      /\ \A k \in 1 .. n : stack'[current][k] = s[k]
      /\ sp' = <<current, Len(stack'[current])>> /\ Top' = e
  <2>1. Push(e) /\ current' = current /\ sp = <<current, Len(stack[current])>>
    BY <1>1, <1>2
  <2> QED BY <1>4, <2>1, PushStep
<1>6. pc' = K("schedule") /\ mode' = "S" /\ OwnCode' = "schedule"
  BY <1>1, <1>2 DEF Goto, K, OwnCode
<1>7. /\ state'[current] = "waiting"
      /\ \A q \in Proc \ {current} : state'[q] = state[q]
      /\ state' \in [Proc -> {"none", "runnable", "waiting", "zombie"}]
  BY <1>1, Typed
<1>8. Types'
  BY <1>1, <1>5, <1>7, Typed DEF Types, Goto, IInv
<1>9. HartOK'
  <2>1. (n + 1) - 1 = n /\ n + 1 >= 1
    BY <1>2
  <2>2. InWait(current, stack'[current], tf[current], n)
    BY <1>2, <1>5, SameInWait
  <2>3. InSchedule(current, stack'[current], tf[current], n + 1)
    BY <1>3, <1>5, <2>1, <2>2 DEF InSchedule
  <2>4. Suits(current', stack'[current'], tf'[current'], Len(stack'[current']), "schedule")
    BY <1>1, <1>5, <2>3 DEF Suits
  <2>5. SieOn(current, "sleep") <=> SieOn(current, "schedule")
    BY DEF SieOn, InitCode
  <2>6. csr'.sie <=> SieOn(current', "schedule")
    BY <1>1, <1>2, <2>5
  <2>7. sp' = <<current', Len(stack'[current'])>> /\ csr'.sscratch = Zero
    BY <1>1, <1>2, <1>5
  <2> QED BY <1>6, <2>4, <2>6, <2>7, NowAt
<1>10. OthersOK'
  BY <1>1, <1>5, <1>7, OthersAfter DEF IInv
<1>11. FamilyOK'
  <2>1. state'[idleproc] = "runnable" /\ state'[initproc] # "zombie"
    BY <1>2, <1>7, Processes DEF IInv, FamilyOK
  <2>2. Top'.ret # "dead" /\ state'[current'] = "waiting"
    BY <1>1, <1>3, <1>5, <1>7
  <2>3. \A q \in Task : parent'[q] # q
    BY <1>1 DEF IInv, FamilyOK
  <2> QED BY <1>6, <2>1, <2>2, <2>3 DEF FamilyOK, K
<1>12. FallsAsleep'
  BY <1>6 DEF FallsAsleep
<1>13. NoLostWakeup'
  <2> SUFFICES ASSUME NEW p \in Proc, state'[p] = "waiting", NEW k \in DOMAIN stack'[p],
                      stack'[p][k].kind = "do_wait", NEW c \in Awaited(p, stack[p][k].pid)',
                      state'[c] = "zombie"
               PROVE  FALSE
    BY DEF NoLostWakeup
  <2>1. c \in Proc /\ c # current /\ state[c] = "zombie" /\ parent[c] = p
        /\ stack'[p][k].pid \in {Null, c}
    BY <1>1, <1>7 DEF Awaited
  <2>2. CASE p # current
    <3>1. stack'[p] = stack[p] /\ state[p] = "waiting"
      BY <1>5, <1>7, <2>2
    <3>2. c \in Awaited(p, stack[p][k].pid)
      BY <2>1, <3>1 DEF Awaited
    <3> QED BY <2>1, <3>1, <3>2 DEF IInv, NoLostWakeup
  <2>3. CASE p = current
    <3>1. NoZombieAwaited(current)
      BY <1>2 DEF IInv, FallsAsleep
    <3>2. k \in 1 .. n + 1 /\ DOMAIN s = 1 .. n
      BY <1>2, <1>5, <2>3
    <3>3. k \in 1 .. n
      BY <1>2, <1>3, <1>5, <2>3, <3>2
    <3>4. stack'[p][k] = s[k]
      BY <1>5, <2>3, <3>3
    <3>5. c \in Awaited(current, s[k].pid)
      BY <2>1, <2>3, <3>4 DEF Awaited
    <3> QED BY <2>1, <2>3, <3>1, <3>2, <3>3, <3>4, <3>5 DEF NoZombieAwaited
  <2> QED BY <2>2, <2>3
<1> QED BY <1>8, <1>9, <1>10, <1>11, <1>12, <1>13 DEF IInv

\* do_wait woken goes back to look.
LEMMA WaitWokenStep == ASSUME IInv, WaitWoken PROVE IInv'
<1> DEFINE s == stack[current]
           n == Len(s)
<1>1. /\ At("woken") /\ Goto("repeat")
      /\ UNCHANGED <<sp, csr, timer, ticks, current, state, parent, need_resched, tf, saved, stack>>
  BY DEF WaitWoken, clock, procs, family
<1>2. /\ mode = "S" /\ sp = <<current, n>> /\ csr.sscratch = Zero
      /\ csr.sie <=> SieOn(current, "woken")
      /\ state[current] = "runnable" /\ InWait(current, s, tf[current], n)
  BY <1>1, AtWait
<1>3. Suits(current, s, tf[current], n, "repeat")
  BY <1>2 DEF Suits
<1>4. SieOn(current, "woken") <=> SieOn(current, "repeat")
  BY DEF SieOn, InitCode
<1>5. OwnCode' = "repeat"
  BY <1>1, <1>2 DEF OwnCode, Goto, K
<1>6. csr'.sie <=> SieOn(current, "repeat")
  BY <1>1, <1>2, <1>4
<1> QED BY <1>1, <1>2, <1>3, <1>5, <1>6, OwnStep, Typed

-----------------------------------------------------------------------------
(* User programs.                                                          *)

\* An instruction of a program, which may trap.
LEMMA UserStepStep == ASSUME IInv, UserStep PROVE IInv'
<1>1. mode = "U"
  BY DEF UserStep
<1>2. CASE /\ pc' = After(pc) /\ regs' = pc[2]
           /\ UNCHANGED <<mode, sp, csr, clock, procs, stack>>
  <2>1. pc \in UserPlace /\ current \in Task
    BY <1>1 DEF IInv, HartOK, OnUserSide
  <2>2. pc' \in UserPlace /\ regs' \in Registers
    <3>1. PICK m \in 0 .. NPC - 1 : pc = User(m)
      BY <2>1 DEF UserPlace
    <3>2. pc[2] = m
      BY <3>1 DEF User
    <3>3. m \in Registers
      BY TrapEntryAssumption DEF Registers
    <3> QED BY <1>2, <2>1, <3>2, <3>3, AfterIsPlace
  <2>3. Types'
    BY <1>2, <2>2, Typed DEF IInv, Types, clock, procs, family
  <2>4. HartOK'
    BY <1>1, <1>2, <2>1, <2>2 DEF IInv, HartOK, OnUserSide, procs
  <2>5. pc'[1] = "user" /\ pc[1] = "user"
    BY <2>1, <2>2 DEF UserPlace, User
  <2>6. state[current] = "runnable"
    BY <1>1, <2>5 DEF IInv, FamilyOK, OwnCode
  <2>7. OwnCode' = "user"
    BY <1>1, <1>2, <2>5 DEF OwnCode
  <2> QED BY <1>2, <2>3, <2>4, <2>5, <2>6, <2>7, LocalStep DEF clock, procs, family, K
<1>3. CASE \E cause \in {"ecall", "fault", "misaligned", "other"} : TakeTrap(cause)
  BY <1>1, <1>3, TakeTrapStep DEF UserCauses
<1> QED BY <1>2, <1>3 DEF UserStep

-----------------------------------------------------------------------------
(* The invariant is inductive.                                             *)

\* The machine at idt_init.
LEMMA InitHolds == Init => IInv
<1> SUFFICES ASSUME Init PROVE IInv
  OBVIOUS
<1> USE DEF Init
<1>1. Types
  <2>1. KernelRegs \in Registers /\ 0 \in 0 .. TICK_NUM - 1
    BY TrapEntryAssumption DEF Registers, KernelRegs
  <2>2. UserSp \in Address /\ Zero \in Address
    BY DEF Address, UserSp, Zero
  <2>3. csr \in CSRs
    BY <2>2 DEF CSRs
  <2>4. <<>> \in Seq(Items)
    OBVIOUS
  <2>5. NoContextSaved \in [ra : {"none", "forkret", "switched"}, sp : Address]
    BY <2>2 DEF NoContextSaved
  <2> QED BY <2>1, <2>2, <2>3, <2>4, <2>5, Processes DEF Types
<1>2. stack[current] = <<>> /\ Len(stack[current]) = 0 /\ pc[1] = "idt_init" /\ ~csr.sie
  BY Processes DEF K
<1>3. HartOK
  <2>1. ~OnUserSide
    BY DEF OnUserSide, K
  <2>2. ~SieOn(current, "idt_init")
    BY DEF SieOn, InitCode
  <2>3. Suits(current, stack[current], tf[current], Len(stack[current]), "idt_init")
    BY <1>2 DEF Suits
  <2> QED BY <1>2, <2>1, <2>2, <2>3 DEF HartOK, K
<1>4. OthersOK
  BY DEF OthersOK
<1>5. OwnCode = "idt_init"
  BY <1>2 DEF OwnCode
<1>6. FamilyOK
  BY <1>2, Processes DEF FamilyOK, K
<1>7. FallsAsleep
  BY <1>5 DEF FallsAsleep
<1>8. NoLostWakeup
  BY DEF NoLostWakeup
<1> QED BY <1>1, <1>3, <1>4, <1>6, <1>7, <1>8 DEF IInv

\* A step that changes nothing.
LEMMA StutterHolds == ASSUME IInv, UNCHANGED vars PROVE IInv'
<1> USE DEF vars, hart, clock, procs, family
<1>1. Types'
  BY DEF IInv, Types
<1>2. HartOK'
  BY DEF IInv, HartOK, OnUserSide, TrapState
<1>3. OthersOK' /\ NoLostWakeup'
  BY DEF IInv, OthersOK, SwitchedOut, NoLostWakeup, Awaited
<1>4. OwnCode' = OwnCode /\ (Top.ret)' = Top.ret
  BY DEF OwnCode, Top
<1>5. FamilyOK' /\ FallsAsleep'
  BY <1>4 DEF IInv, FamilyOK, FallsAsleep, NoZombieAwaited, Awaited
<1> QED BY <1>1, <1>2, <1>3, <1>5 DEF IInv

\* Every step keeps the invariant: the handlers, one by one.
LEMMA StepHolds == IInv /\ [Next]_vars => IInv'
<1> SUFFICES ASSUME IInv, [Next]_vars PROVE IInv'
  OBVIOUS
<1>1. CASE Boot
  BY <1>1, IdtInitStep, ProcInitStep, ClockInitStep, BootEndsStep DEF Boot
<1>2. CASE Scheduling
  BY <1>2, ScheduleSavesStep, SchedulePicksStep, RunRestoresStep, ScheduleRestoresStep DEF Scheduling
<1>3. CASE Trap
  BY <1>3, SaveAllStep, DispatchTimerStep, DispatchCallStep, DispatchFaultStep, ExitCalledStep,
     TrapEndsStep, RestoreAllStep, SretStep, ForkretsStep, ExecveRetStep DEF Trap
<1>4. CASE Syscall
  BY <1>4, SysSimpleStep, SysYieldStep, SysForkStep, SysExecStep, SysExitStep, SysWaitStep,
     SysUndefinedStep DEF Syscall
<1>5. CASE Threads
  BY <1>5, InitMainStep, InitWaitsStep, InitNextStep, InitEndsStep, EbreakStep, CpuIdleStep
     DEF Threads
<1>6. CASE Waiting
  BY <1>6, WaitLooksStep, WaitSleepsStep, WaitWokenStep DEF Waiting
<1>7. CASE TimerInterrupt
  BY <1>7, TimerInterruptStep
<1>8. CASE UserStep
  BY <1>8, UserStepStep
<1>9. CASE TimerFires
  BY <1>9, TimerFiresStep
<1>10. CASE UNCHANGED vars
  BY <1>10, StutterHolds
<1> QED BY <1>1, <1>2, <1>3, <1>4, <1>5, <1>6, <1>7, <1>8, <1>9, <1>10 DEF Next, KernelStep

\* What lies on the kernel stacks suits the code that uses them, in every reachable state.
THEOREM Invariant == Spec => []IInv
BY InitHolds, StepHolds, PTL DEF Spec

\* Nobody sleeps in do_wait beside a zombie it waits for (do_wait, do_exit): between
\* the look and the sleep nothing else runs, though interrupts are on.
THEOREM NoWakeupIsLost == Spec => []NoLostWakeup
<1>1. IInv => NoLostWakeup
  BY DEF IInv
<1> QED BY <1>1, Invariant, PTL

-----------------------------------------------------------------------------
(* What the properties say of the stacks follows from the invariant.       *)

\* Code that runs with interrupts on has no trap above it, and no frame but the one
\* its kernel thread began with.
Plain(s, n) ==
  \A k \in 1 .. n : s[k].kind # "trap" /\ (s[k].kind = "frame" => k = 1 /\ s[k].spp)

\* The kinds of the items of a stack.
LEMMA Kinds ==
  /\ \A f \in KFrames : f.kind = "frame" /\ f.spp
  /\ \A f \in UFrames : f.kind = "frame" /\ ~f.spp
  /\ \A f \in UTraps \cup KTraps : f.kind = "trap"
  /\ \A f \in DoWaits : f.kind = "do_wait"
  /\ \A f \in Scheds : f.kind = "schedule"
  /\ \A f \in Runs : f.kind = "proc_run"
BY DEF KFrames, UFrames, UTraps, KTraps, DoWaits, Scheds, Runs

\* Code that may be interrupted is not inside a trap.
LEMMA OpenIsPlain ==
  ASSUME NEW p \in Proc, NEW s, NEW t, NEW n \in Nat, NEW l, Open(p, s, t, n, l)
  PROVE  Plain(s, n)
<1>1. ASSUME NEW m \in 0 .. n, NEW at \in {"cpu_idle", "user_main"} \cup InitCode,
             Bottom(p, s, t, m, at)
      PROVE  m <= 1 /\ Plain(s, m)
  <2>1. m = 0 \/ (m = 1 /\ s[1] \in KFrames)
    BY <1>1 DEF Bottom, InitCode
  <2> QED BY <2>1, Kinds DEF Plain
<1>2. ASSUME p \notin Task, NEW m \in 0 .. n, InWait(p, s, t, m) PROVE Plain(s, m)
  <2>1. s[m] \in DoWaits /\ m - 1 \in 0 .. n /\ m >= 2 /\ Bottom(p, s, t, m - 1, s[m].ret)
    BY <1>2 DEF InWait
  <2>2. s[m].ret = "init_next"
    <3>1. s[m].ret \in {"init_next", "trapend"}
      BY <2>1 DEF DoWaits
    <3> QED BY <1>2, <2>1, <3>1 DEF Bottom, InitCode
  <2>3. Plain(s, m - 1)
    BY <1>1, <2>1, <2>2 DEF InitCode
  <2>4. s[m].kind = "do_wait"
    BY <2>1, Kinds
  <2> QED BY <2>1, <2>3, <2>4 DEF Plain
<1>3. ASSUME p \notin Task, InSchedule(p, s, t, n) PROVE Plain(s, n)
  <2>1. s[n].kind = "schedule" /\ n - 1 \in 0 .. n /\ n >= 1
    BY <1>3, Kinds DEF InSchedule
  <2>2. \/ s[n].ret \in {"cpu_idle", "init_wait"} /\ Bottom(p, s, t, n - 1, s[n].ret)
        \/ InWait(p, s, t, n - 1)
    <3>1. ~Bottom(p, s, t, n - 1, "trapret") /\ ~Bottom(p, s, t, n - 1, "do_exit")
      BY <1>3 DEF Bottom, InitCode
    <3> QED BY <1>3, <3>1 DEF InSchedule
  <2>3. Plain(s, n - 1)
    BY <1>1, <1>2, <1>3, <2>1, <2>2 DEF InitCode
  <2> QED BY <2>1, <2>3 DEF Plain
<1>4. n \in 0 .. n
  OBVIOUS
<1> HIDE DEF Plain
<1> QED BY <1>1, <1>2, <1>3, <1>4 DEF Open

\* The other code of a process serves a trap.
LEMMA TaskServes ==
  ASSUME NEW p \in Task, NEW s, NEW t, NEW n \in Nat,
         InWait(p, s, t, n) \/ InSchedule(p, s, t, n)
  PROVE  \E k \in 1 .. n : (s[k].kind = "frame" /\ ~s[k].spp) \/ s[k].kind = "trap"
<1>1. ASSUME NEW m \in 1 .. n, NEW l \in {"trapret", "do_exit", "trapend"}, Bottom(p, s, t, m, l)
      PROVE  \E k \in 1 .. n : (s[k].kind = "frame" /\ ~s[k].spp) \/ s[k].kind = "trap"
  <2>1. s[1] \in UFrames \/ (m = 3 /\ s[3] \in KTraps)
    BY <1>1, Processes DEF Bottom, InitCode
  <2>2. 1 \in 1 .. n /\ (m = 3 => 3 \in 1 .. n)
    BY <1>1
  <2> QED BY <2>1, <2>2, Kinds
<1>2. ASSUME NEW m \in 1 .. n, InWait(p, s, t, m)
      PROVE  \E k \in 1 .. n : (s[k].kind = "frame" /\ ~s[k].spp) \/ s[k].kind = "trap"
  <2>1. m - 1 \in 1 .. n /\ Bottom(p, s, t, m - 1, s[m].ret) /\ s[m].ret \in {"init_next", "trapend"}
    BY <1>2 DEF InWait, DoWaits
  <2>2. s[m].ret = "trapend"
    BY <2>1, Processes DEF Bottom, InitCode
  <2> QED BY <1>1, <2>1, <2>2
<1>3. CASE InWait(p, s, t, n)
  <2>1. n \in 1 .. n
    BY <1>3 DEF InWait
  <2> QED BY <1>2, <1>3, <2>1
<1>4. CASE InSchedule(p, s, t, n)
  <2>1. n - 1 \in 0 .. n /\ n >= 1
    BY <1>4 DEF InSchedule
  <2>2. CASE InWait(p, s, t, n - 1)
    <3>1. n - 1 \in 1 .. n
      BY <2>1, <2>2 DEF InWait
    <3> QED BY <1>2, <2>2, <3>1
  <2>3. CASE ~InWait(p, s, t, n - 1)
    <3>1. \E l \in {"trapret", "do_exit"} : Bottom(p, s, t, n - 1, l)
      <4>1. ~Bottom(p, s, t, n - 1, "cpu_idle") /\ ~Bottom(p, s, t, n - 1, "init_wait")
        BY Processes DEF Bottom, InitCode
      <4> QED BY <1>4, <2>3, <4>1 DEF InSchedule
    <3>2. n - 1 \in 1 .. n
      BY <2>1, <3>1, Processes DEF Bottom, InitCode
    <3> QED BY <1>1, <3>1, <3>2
  <2> QED BY <2>2, <2>3
<1> QED BY <1>3, <1>4

\* The interrupt flag at each place, from what lies on the stack there.
LEMMA InterruptsFollow == ASSUME IInv PROVE InterruptsAsIntended
<1> SUFFICES ASSUME mode = "S" PROVE csr.sie <=> pc[1] \in OpenCode /\ ~Serving(current)
  BY DEF InterruptsAsIntended
<1> DEFINE s == stack[current]
           n == Len(s)
           l == pc[1]
<1>1. /\ pc = K(l) /\ current \in Proc /\ s \in Seq(Items) /\ n \in Nat /\ DOMAIN s = 1 .. n
      /\ csr.sie <=> SieOn(current, l)
  BY Typed DEF IInv, HartOK
<1>2. Serving(current) <=> \E k \in 1 .. n : (s[k].kind = "frame" /\ ~s[k].spp) \/ s[k].kind = "trap"
  BY <1>1 DEF Serving, UserFrames
<1> HIDE DEF l
<1>3. CASE l \in {"alltraps", "sret"}
  BY <1>1, <1>3 DEF SieOn, InitCode, OpenCode, l
<1>4. CASE l \notin {"alltraps", "sret"}
  <2>1. Suits(current, s, tf[current], n, l)
    BY <1>4 DEF IInv, HartOK, l
  <2> HIDE DEF s, n
  <2>2. CASE SieOn(current, l)
    <3>1. l \in OpenCode /\ Open(current, s, tf[current], n, l)
      BY <1>1, <2>1, <2>2, OpenIsOn
    <3>2. Plain(s, n)
      BY <1>1, <3>1, OpenIsPlain
    <3>3. ~Serving(current)
      BY <1>2, <3>2 DEF Plain
    <3> QED BY <1>1, <2>2, <3>1, <3>3 DEF l
  <2>3. CASE ~SieOn(current, l)
    <3> SUFFICES ASSUME l \in OpenCode PROVE Serving(current)
      BY <1>1, <2>3 DEF l
    <3>1. current \in Task /\ l \in {"repeat", "sleep", "woken", "schedule"}
      BY <2>3 DEF SieOn, OpenCode, InitCode
    <3>2. InWait(current, s, tf[current], n) \/ InSchedule(current, s, tf[current], n)
      BY <2>1, <3>1 DEF Suits, OwnPlaces, InitCode
    <3> QED BY <1>1, <1>2, <3>1, <3>2, TaskServes
  <2> QED BY <2>2, <2>3
<1> QED BY <1>3, <1>4

\* Interrupts are on exactly in the code of kernel threads outside schedule(): no
\* sequence of traps, switches and forks loses or leaks the flag (local_intr_save,
\* local_intr_restore, SAVE_ALL, RESTORE_ALL, proc_run).
THEOREM InterruptsAreAsIntended == Spec => []InterruptsAsIntended
BY Invariant, InterruptsFollow, PTL

\* Of the first n items of a stack at most one is a trap() and at most two are frames.
Few(s, n) ==
  /\ \E j : \A k \in 1 .. n : s[k].kind = "trap" => k = j
  /\ \E i, j : \A k \in 1 .. n : s[k].kind = "frame" => k \in {i, j}

\* A do_wait, schedule or proc_run more changes neither.
LEMMA FewMore ==
  ASSUME NEW s, NEW n \in Nat, Few(s, n), s[n + 1].kind \notin {"trap", "frame"}
  PROVE  Few(s, n + 1)
<1>1. \A k \in 1 .. n + 1 : s[k].kind \in {"trap", "frame"} => k \in 1 .. n
  OBVIOUS
<1>2. PICK j : \A k \in 1 .. n : s[k].kind = "trap" => k = j
  BY DEF Few
<1>3. PICK a, b : \A k \in 1 .. n : s[k].kind = "frame" => k \in {a, b}
  BY DEF Few
<1>4. \A k \in 1 .. n + 1 : s[k].kind = "trap" => k = j
  BY <1>1, <1>2
<1>5. \A k \in 1 .. n + 1 : s[k].kind = "frame" => k \in {a, b}
  BY <1>1, <1>3
<1> QED BY <1>4, <1>5 DEF Few

\* A stack of one item.
LEMMA ShortIsFew ==
  ASSUME NEW s, NEW n \in Nat, n <= 1
  PROVE  n <= 6 /\ Few(s, n)
<1>1. \A k \in 1 .. n : k = 1
  OBVIOUS
<1> QED BY <1>1 DEF Few

\* Under a process's own code.
LEMMA BottomIsFew ==
  ASSUME NEW p, NEW s, NEW t, NEW n \in Nat, NEW at, Bottom(p, s, t, n, at)
  PROVE  Few(s, n)
<1>1. \/ n = 0
      \/ n = 1 /\ s[1].kind = "frame"
      \/ n = 2 /\ s[1].kind = "frame" /\ s[2].kind = "trap"
      \/ n = 3 /\ s[1].kind = "frame" /\ s[2].kind = "frame" /\ s[3].kind = "trap"
  BY Kinds DEF Bottom
<1>2. \A k \in 1 .. n : (s[k].kind = "trap" => k = n) /\ (s[k].kind = "frame" => k \in {1, 2})
  BY <1>1
<1> QED BY <1>2 DEF Few

\* In do_wait.
LEMMA WaitIsFew ==
  ASSUME NEW p, NEW s, NEW t, NEW n \in Nat, InWait(p, s, t, n)
  PROVE  Few(s, n)
<1>1. n - 1 \in Nat /\ s[(n - 1) + 1].kind = "do_wait" /\ Bottom(p, s, t, n - 1, s[n].ret)
  BY Kinds DEF InWait
<1> QED BY <1>1, BottomIsFew, FewMore

\* In schedule().
LEMMA ScheduleIsFew ==
  ASSUME NEW p, NEW s, NEW t, NEW n \in Nat, InSchedule(p, s, t, n)
  PROVE  Few(s, n)
<1>1. n - 1 \in Nat /\ (n - 1) + 1 = n /\ s[n].kind = "schedule"
  BY Kinds DEF InSchedule
<1>2. Few(s, n - 1)
  <2>1. CASE InWait(p, s, t, n - 1)
    BY <1>1, <2>1, WaitIsFew
  <2>2. CASE ~InWait(p, s, t, n - 1)
    <3>1. \E l : Bottom(p, s, t, n - 1, l)
      BY <2>2 DEF InSchedule
    <3> QED BY <1>1, <3>1, BottomIsFew
  <2> QED BY <2>1, <2>2
<1> QED BY <1>1, <1>2, FewMore

\* In proc_run.
LEMMA RunIsFew ==
  ASSUME NEW p, NEW s, NEW t, NEW n \in Nat, InProcRun(p, s, t, n)
  PROVE  Few(s, n)
<1>1. n - 1 \in Nat /\ s[(n - 1) + 1].kind = "proc_run" /\ InSchedule(p, s, t, n - 1)
  BY Kinds DEF InProcRun, FlagSaved
<1> QED BY <1>1, ScheduleIsFew, FewMore

\* An interrupted stack, also with trap() on it.
LEMMA InterruptedIsFew ==
  ASSUME NEW p \in Proc, NEW s, NEW t, NEW n \in Nat, Interrupted(p, s, t, n)
  PROVE  Few(s, n) /\ n <= 5 /\ (s[n + 1].kind = "trap" => Few(s, n + 1))
<1>1. n - 1 \in Nat /\ n >= 1 /\ \E l : Open(p, s, t, n - 1, l)
  BY DEF Interrupted, Resumes
<1>2. Plain(s, n - 1) /\ n <= 5
  BY <1>1, OpenIsPlain, OpenHeight
<1>3. s[n].kind = "frame"
  BY Kinds DEF Interrupted
<1>4. \A k \in 1 .. n : s[k].kind # "trap" /\ (s[k].kind = "frame" => k \in {1, n})
  BY <1>1, <1>2, <1>3 DEF Plain
<1>5. Few(s, n)
  BY <1>4 DEF Few
<1>6. ASSUME s[n + 1].kind = "trap" PROVE Few(s, n + 1)
  <2>1. \A k \in 1 .. n + 1 : (s[k].kind = "trap" => k = n + 1) /\ (s[k].kind = "frame" => k \in {1, n})
    BY <1>4, <1>6
  <2> QED BY <2>1 DEF Few
<1> QED BY <1>2, <1>5, <1>6

\* How high the running process's stack is, and what is on it.
LEMMA SuitsIsFew ==
  ASSUME NEW p \in Proc, NEW s, NEW t, NEW n \in Nat, NEW l, Suits(p, s, t, n, l)
  PROVE  n <= 6 /\ Few(s, n)
<1>1. ASSUME NEW at, Bottom(p, s, t, n, at) PROVE n <= 6 /\ Few(s, n)
  BY <1>1, BottomHeight, BottomIsFew
<1>2. ASSUME n <= 1 PROVE n <= 6 /\ Few(s, n)
  BY <1>2, ShortIsFew
<1>3. CASE l = "trap"
  BY <1>2, <1>3, InterruptedIsFew DEF Suits, OwnPlaces, InitCode
<1>4. CASE l = "trapend"
  <2>1. CASE n >= 2 /\ s[n] \in KTraps /\ Interrupted(p, s, t, n - 1)
    <3>1. n - 1 \in Nat /\ (n - 1) + 1 = n /\ s[n].kind = "trap"
      BY <2>1, Kinds
    <3> QED BY <2>1, <3>1, InterruptedIsFew
  <2> QED BY <1>1, <1>4, <2>1 DEF Suits, OwnPlaces, InitCode
<1>5. CASE l = "trapret"
  BY <1>1, <1>2, <1>5, InterruptedIsFew DEF Suits, OwnPlaces, InitCode
<1>6. CASE l = "forkret"
  BY <1>2, <1>6 DEF Suits, New, OwnPlaces, InitCode
<1>7. CASE l = "execve_ret"
  <2>1. n = 3 /\ s[1].kind = "frame" /\ s[2].kind = "frame" /\ s[3].kind = "trap"
    BY <1>7, Kinds DEF Suits, OwnPlaces, InitCode
  <2>2. \A k \in 1 .. n : (s[k].kind = "trap" => k = 3) /\ (s[k].kind = "frame" => k \in {1, 2})
    BY <2>1
  <2> QED BY <2>1, <2>2 DEF Few
<1>8. CASE l = "monitor"
  BY <1>1, <1>8 DEF Suits, OwnPlaces, InitCode
<1>9. CASE l \in OwnPlaces
  BY <1>1, <1>9 DEF Suits, OwnPlaces, InitCode
<1>10. CASE l \in {"repeat", "sleep", "woken"}
  BY <1>10, WaitIsFew, WaitHeight DEF Suits, OwnPlaces, InitCode
<1>11. CASE l \in {"schedule", "pick", "picked"}
  BY <1>11, ScheduleIsFew, ScheduleHeight DEF Suits, FlagSaved, OwnPlaces, InitCode
<1>12. CASE l = "switched"
  BY <1>12, RunIsFew, RunHeight DEF Suits, OwnPlaces, InitCode
<1>13. CASE l = "idt_init"
  BY <1>2, <1>13 DEF Suits, OwnPlaces, InitCode
<1> QED BY <1>3, <1>4, <1>5, <1>6, <1>7, <1>8, <1>9, <1>10, <1>11, <1>12, <1>13 DEF Suits

\* Every kernel stack.
LEMMA StackIsFew ==
  ASSUME IInv, NEW p \in Proc
  PROVE  Len(stack[p]) \in 0 .. 6 /\ Few(stack[p], Len(stack[p]))
<1> DEFINE s == stack[p]
           n == Len(s)
<1>1. s \in Seq(Items) /\ n \in Nat /\ (s = <<>> => n = 0)
  BY Typed
<1>5. \A m \in Nat : m <= 6 => m \in 0 .. 6
  OBVIOUS
<1> SUFFICES n <= 6 /\ Few(s, n)
  BY <1>1, <1>5, Zenon
<1> HIDE DEF n
<1>2. ASSUME n <= 1 PROVE n <= 6 /\ Few(s, n)
  BY <1>1, <1>2, ShortIsFew
<1>3. CASE p = current
  <2>1. CASE OnUserSide
    <3>1. s = <<>>
      BY <1>3, <2>1 DEF IInv, HartOK
    <3> QED BY <1>1, <1>2, <3>1
  <2>2. CASE ~OnUserSide /\ pc[1] \in {"alltraps", "sret"}
    <3>1. mode = "S" /\ pc = K(pc[1])
      BY <2>2 DEF IInv, HartOK, OnUserSide, Types
    <3>2. csr.spp /\ TrapState(p, s, tf[p], n)
      BY <1>3, <2>2, <3>1 DEF IInv, HartOK, OnUserSide, n
    <3>3. PICK l : Open(p, s, tf[p], n, l)
      BY <3>2 DEF TrapState, Resumes
    <3> HIDE DEF s
    <3>4. Plain(s, n) /\ n <= 4
      BY <1>1, <3>3, OpenIsPlain, OpenHeight
    <3>5. \A k \in 1 .. n : (s[k].kind = "trap" => k = 1) /\ (s[k].kind = "frame" => k \in {1})
      BY <3>4 DEF Plain
    <3>6. Few(s, n)
      BY <3>5 DEF Few
    <3> QED BY <1>1, <3>4, <3>6
  <2>3. CASE ~OnUserSide /\ pc[1] \notin {"alltraps", "sret"}
    <3>1. Suits(p, s, tf[p], n, pc[1])
      BY <1>3, <2>3 DEF IInv, HartOK, OnUserSide, Types, n
    <3> HIDE DEF s
    <3> QED BY <1>1, <3>1, SuitsIsFew
  <2> QED BY <2>1, <2>2, <2>3
<1>4. CASE p # current
  <2>1. CASE state[p] = "none"
    <3>1. s = <<>>
      BY <1>4, <2>1 DEF IInv, OthersOK
    <3> QED BY <1>1, <1>2, <3>1
  <2>2. CASE state[p] # "none"
    <3>1. New(p, s, tf[p], n) \/ InProcRun(p, s, tf[p], n)
      BY <1>4, <2>2 DEF IInv, OthersOK, SwitchedOut, n
    <3> HIDE DEF s
    <3>2. n <= 1 \/ InProcRun(p, s, tf[p], n)
      BY <3>1 DEF New
    <3> QED BY <1>1, <1>2, <3>2, RunIsFew, RunHeight
  <2> QED BY <2>1, <2>2
<1> QED BY <1>3, <1>4

\* The type invariant, with the bound on the height of the stacks.
LEMMA TypesFollow == ASSUME IInv PROVE TypeOK
<1>1. sp \in Address /\ csr.sscratch \in Address
  <2>1. Len(stack[current]) \in 0 .. 6 /\ current \in Proc
    BY Typed, StackIsFew
  <2>2. <<current, Len(stack[current])>> \in Address /\ UserSp \in Address
    BY <2>1, AddressOf
  <2>3. sp = UserSp \/ sp = <<current, Len(stack[current])>>
    BY DEF IInv, HartOK
  <2>4. csr.sscratch \in Address
    BY Typed DEF CSRs
  <2> QED BY <2>2, <2>3, <2>4
<1>2. (mode = "U") => pc \in {User(n) : n \in 0 .. NPC - 1}
  BY DEF IInv, HartOK, UserPlace
<1>3. {csr.sie, csr.spie, csr.spp, csr.stvec} \subseteq BOOLEAN
  BY Typed DEF CSRs
<1>4. \A p \in Proc : saved[p].sp \in Address /\ Len(stack[p]) \in 0 .. 6
  BY Typed, StackIsFew
<1> QED BY <1>1, <1>2, <1>3, <1>4 DEF IInv, Types, TypeOK

\* sp and sscratch are the current process's.
LEMMA CurrentFollows == ASSUME IInv PROVE StackIsCurrents
<1>1. pc # K("idt_init") =>
        /\ csr.sscratch = IF OnUserSide THEN <<current, 0>> ELSE Zero
        /\ IF OnUserSide THEN sp = UserSp /\ stack[current] = <<>>
           ELSE sp = <<current, Len(stack[current])>>
  BY DEF IInv, HartOK
<1> QED BY <1>1 DEF StackIsCurrents, OnUserSide, IInv, FamilyOK

\* The top of the stack is what the code at pc left there.
LEMMA CodeFollows == ASSUME IInv PROVE StackMatchesCode
<1> DEFINE s == stack[current]
           n == Len(s)
           l == pc[1]
<1>1. current \in Proc /\ mode \in {"U", "S"} /\ n \in Nat
  BY Typed DEF IInv, Types
<1>2. ASSUME mode = "S", l \notin {"alltraps", "sret"}
      PROVE  /\ pc = K(l) /\ sp = <<current, n>> /\ Top = s[n]
             /\ Suits(current, s, tf[current], n, l)
  <2>1. ~OnUserSide
    BY <1>2 DEF OnUserSide, K
  <2> QED BY <1>2, <2>1 DEF IInv, HartOK, Top
<1>3. mode = "U" => l = "user"
  BY DEF IInv, HartOK, UserPlace, User
<1> HIDE DEF s, n, l
<1>4. ASSUME mode = "S", l \in DOMAIN Locals PROVE Top.kind = Locals[l]
  <2>1. l \in {"repeat", "sleep", "woken", "schedule", "pick", "picked", "switched", "trap", "trapret",
               "syscall", "trapend"}
    BY <1>4 DEF Locals
  <2>2. Top = s[n] /\ Suits(current, s, tf[current], n, l)
    BY <1>2, <1>4, <2>1
  <2>3. CASE l \in {"repeat", "sleep", "woken"}
    BY <2>2, <2>3, Kinds DEF Suits, InWait, OwnPlaces, InitCode, Locals
  <2>4. CASE l \in {"schedule", "pick", "picked"}
    BY <2>2, <2>4, Kinds DEF Suits, InSchedule, FlagSaved, OwnPlaces, InitCode, Locals
  <2>5. CASE l = "switched"
    BY <2>2, <2>5, Kinds DEF Suits, InProcRun, OwnPlaces, InitCode, Locals
  <2>6. CASE l \in {"trap", "trapret"}
    <3>1. s[n].kind = "frame"
      <4>1. \/ n = 1 /\ s[1] \in UFrames \cup KFrames
            \/ Interrupted(current, s, tf[current], n)
        BY <2>2, <2>6 DEF Suits, Bottom, NewThread, OwnPlaces, InitCode
      <4> QED BY <4>1, Kinds DEF Interrupted
    <3> QED BY <2>2, <2>6, <3>1 DEF Locals
  <2>7. CASE l \in {"syscall", "trapend"}
    <3>1. s[n].kind = "trap"
      <4>1. \/ Bottom(current, s, tf[current], n, "syscall") \/ Bottom(current, s, tf[current], n, "trapend")
            \/ s[n] \in KTraps
        BY <2>2, <2>7 DEF Suits, OwnPlaces, InitCode
      <4> QED BY <4>1, Kinds DEF Bottom, InitCode
    <3> QED BY <2>2, <2>7, <3>1 DEF Locals
  <2> QED BY <2>1, <2>3, <2>4, <2>5, <2>6, <2>7
<1>5. ASSUME mode = "S", l = "cpu_idle" PROVE sp[2] = 0
  <2>1. sp = <<current, n>> /\ Suits(current, s, tf[current], n, l)
    BY <1>2, <1>5
  <2> QED BY <1>5, <2>1 DEF Suits, Bottom, InitCode
<1>6. ASSUME mode = "S", l \in {"init_main", "init_wait", "init_next", "user_main"} PROVE sp[2] = 1
  <2>1. sp = <<current, n>> /\ Suits(current, s, tf[current], n, l)
    BY <1>2, <1>6
  <2> QED BY <1>6, <2>1 DEF Suits, Bottom, OwnPlaces, InitCode
<1>7. pc = K("cpu_idle") => l = "cpu_idle"
  BY DEF K, l
<1>8. ASSUME NEW p \in Proc \ {current}, state[p] \in {"runnable", "waiting"}
      PROVE  /\ saved[p].sp = <<p, Len(stack[p])>>
             /\ saved[p].ra = IF Len(stack[p]) = 1 THEN "forkret" ELSE "switched"
  <2>1. SwitchedOut(p)
    BY <1>8 DEF IInv, OthersOK
  <2> QED BY <2>1 DEF SwitchedOut, New, InProcRun
<1> QED BY <1>1, <1>3, <1>4, <1>5, <1>6, <1>7, <1>8 DEF StackMatchesCode, l

\* A set within a singleton.
LEMMA AtMostOne ==
  ASSUME NEW S, NEW a, S \subseteq {a}
  PROVE  Cardinality(S) <= 1
<1>1. IsFiniteSet({a}) /\ Cardinality({a}) = 1
  BY FS_Singleton
<1> QED BY <1>1, FS_Subset

\* A set within a pair.
LEMMA AtMostTwo ==
  ASSUME NEW S, NEW a, NEW b, S \subseteq {a, b}
  PROVE  Cardinality(S) <= 2
<1>1. IsFiniteSet({a}) /\ Cardinality({a}) = 1
  BY FS_Singleton
<1>2. IsFiniteSet({a} \cup {b}) /\ Cardinality({a} \cup {b}) \in {1, 2}
  BY <1>1, FS_AddElement
<1>3. {a} \cup {b} = {a, b}
  OBVIOUS
<1>4. S \in SUBSET ({a} \cup {b})
  OBVIOUS
<1>5. IsFiniteSet(S) /\ Cardinality(S) <= Cardinality({a} \cup {b})
  BY <1>2, <1>4, FS_Subset
<1>6. Cardinality(S) \in Nat
  BY <1>5, FS_CardinalityType
<1> QED BY <1>2, <1>5, <1>6

\* No trap nests in a trap.
LEMMA DepthFollows == ASSUME IInv PROVE OneTrapDeep
<1> SUFFICES ASSUME NEW p \in Proc
             PROVE  /\ Cardinality({k \in DOMAIN stack[p] : stack[p][k].kind = "trap"}) <= 1
                    /\ Cardinality({k \in DOMAIN stack[p] : stack[p][k].kind = "frame"}) <= 2
  BY DEF OneTrapDeep
<1>1. DOMAIN stack[p] = 1 .. Len(stack[p]) /\ Few(stack[p], Len(stack[p]))
  BY Typed, StackIsFew
<1>2. PICK j : \A k \in DOMAIN stack[p] : stack[p][k].kind = "trap" => k = j
  BY <1>1 DEF Few
<1>3. PICK a, b : \A k \in DOMAIN stack[p] : stack[p][k].kind = "frame" => k \in {a, b}
  BY <1>1 DEF Few
<1>4. {k \in DOMAIN stack[p] : stack[p][k].kind = "trap"} \subseteq {j}
  BY <1>2
<1>5. {k \in DOMAIN stack[p] : stack[p][k].kind = "frame"} \subseteq {a, b}
  BY <1>3
<1> QED BY <1>4, <1>5, AtMostOne, AtMostTwo

\* Every trap finds the stack of the current process and every function what it left
\* there, through any interleaving of traps, switches, forks and exits (SAVE_ALL,
\* RESTORE_ALL, switch_to, forkret, kernel_execve).
THEOREM StacksAreOK == Spec => []StacksOK
<1>1. IInv => StacksOK
  BY TypesFollow, CurrentFollows, CodeFollows, DepthFollows DEF StacksOK
<1> QED BY <1>1, Invariant, PTL

-----------------------------------------------------------------------------
(* The refinement of UserMachine: no user program sees the traps taken     *)
(* under it, for any number of processes and programs of any length.       *)
(*                                                                         *)
(* What is seen of a program depends on the frames of user mode on its     *)
(* kernel stack, and on whether trap() lies on one.  The invariant above   *)
(* says what else may lie there, so most steps are unseen because what     *)
(* they push, pop or store is none of a program's; the steps of the user   *)
(* machine are an instruction, the start of a system call, and what        *)
(* answers or ends it.                                                     *)

-----------------------------------------------------------------------------
(* What is seen of a process.                                              *)

\* The frames of a user program on a stack, and whether the trap of one is being served.
Frames(s) == {k \in DOMAIN s : s[k].kind = "frame" /\ ~s[k].spp}
Called(s, k) == k < Len(s) /\ s[k + 1].kind = "trap"
SameFrames(s, s2) ==
  Frames(s2) = Frames(s) /\ \A k \in Frames(s) : s2[k] = s[k] /\ (Called(s2, k) <=> Called(s, k))

\* t's program sees nothing of a step.
SameView(t) == ContextOf(t)' = ContextOf(t) /\ (InCall(t)' <=> InCall(t))

Alive(t) == state[t] \notin {"none", "zombie"}
AtTrapsEnd(t) == current = t /\ pc = K("trapend")

Chosen(S) == CHOOSE k \in S : TRUE
View(t) ==
  /\ ~Alive(t) => ContextOf(t) = NoContext /\ ~InCall(t)
  /\ Alive(t) /\ Running(t) => ContextOf(t) = Seen(IF mode = "U" THEN pc ELSE csr.sepc, regs)
  /\ Alive(t) /\ ~Running(t) /\ Frames(stack[t]) = {} => ContextOf(t) = NoContext
  /\ Frames(stack[t]) = {} => ~InCall(t)
  /\ Alive(t) /\ ~Running(t) /\ Frames(stack[t]) # {} =>
       LET k == Chosen(Frames(stack[t])) IN ContextOf(t) = Seen(stack[t][k].epc, stack[t][k].regs)
  /\ InCall(t) <=> /\ Alive(t) /\ ~AtTrapsEnd(t)
                   /\ \E k \in Frames(stack[t]) : stack[t][k].cause = "ecall" /\ Called(stack[t], k)

\* What is seen of a process that is in the kernel.
LEMMA InFrame == ASSUME NEW t PROVE View(t)
BY DEF View, ContextOf, InCall, Alive, Chosen, Frames, UserFrames, AtTrapsEnd, Called

\* The same after a step.
LEMMA InFrameNext == ASSUME NEW t PROVE View(t)'
BY DEF View, ContextOf, InCall, Alive, Chosen, Frames, UserFrames, AtTrapsEnd, Called

\* A choice is a member of the set.
LEMMA ChosenIn == ASSUME NEW S, S # {} PROVE Chosen(S) \in S
BY DEF Chosen

\* The choice from a set of one.
LEMMA ChosenOne == ASSUME NEW k PROVE Chosen({k}) = k
BY DEF Chosen

SeesFrame(t, k) ==
  /\ ContextOf(t) = Seen(stack[t][k].epc, stack[t][k].regs)
  /\ InCall(t) <=> ~AtTrapsEnd(t) /\ stack[t][k].cause = "ecall" /\ Called(stack[t], k)

\* With one frame on its stack, a program in the kernel is what the frame says.
LEMMA OneFrame ==
  ASSUME NEW t, NEW k, Alive(t), ~Running(t), Frames(stack[t]) = {k}
  PROVE  SeesFrame(t, k)
BY InFrame, ChosenOne DEF View, SeesFrame

\* The same after a step.
LEMMA OneFrameNext ==
  ASSUME NEW t, NEW k, Alive(t)', ~Running(t)', Frames(stack'[t]) = {k}
  PROVE  SeesFrame(t, k)'
BY InFrameNext, ChosenOne DEF View, SeesFrame

\* A process that is in the kernel before and after, with its frames as they were, sees nothing.
LEMMA Unseen ==
  ASSUME NEW t, Alive(t)' <=> Alive(t), ~Running(t), ~Running(t)', ~AtTrapsEnd(t), ~AtTrapsEnd(t)',
         SameFrames(stack[t], stack'[t])
  PROVE  SameView(t)
<1>1. Chosen(Frames(stack[t])) \in Frames(stack[t]) \/ Frames(stack[t]) = {}
  BY ChosenIn
<1> QED BY <1>1, InFrame, InFrameNext DEF SameView, SameFrames, View

Stutters == UNCHANGED Users!vars

\* What nobody sees is a stutter of the user machine.
LEMMA AllUnseen ==
  ASSUME \A t \in Task : SameView(t)
  PROVE  Stutters
<1>1. [t \in Task |-> ContextOf(t)]' = [t \in Task |-> ContextOf(t)]
  BY DEF SameView
<1>2. {t \in Task : InCall(t)}' = {t \in Task : InCall(t)}
  BY DEF SameView
<1> QED BY <1>1, <1>2 DEF Stutters, Users!vars

\* An item that is neither a trap() nor a frame of a user program.
Harmless(e) == e.kind # "trap" /\ (e.kind = "frame" => e.spp)

\* The frames of kernel code and the locals of C functions are no program's.
LEMMA HarmlessItems ==
  ASSUME NEW e \in KFrames \cup DoWaits \cup Scheds \cup Runs PROVE Harmless(e)
BY Kinds DEF Harmless

\* Stacks that are the same up to n, with nothing of a program's above, show the same frames.
LEMMA SamePrefix ==
  ASSUME NEW s \in Seq(Items), NEW s2 \in Seq(Items), NEW n \in Nat,
         n <= Len(s), n <= Len(s2), \A k \in 1 .. n : s2[k] = s[k],
         \A k \in n + 1 .. Len(s) : Harmless(s[k]), \A k \in n + 1 .. Len(s2) : Harmless(s2[k])
  PROVE  SameFrames(s, s2)
<1>1. DOMAIN s = 1 .. Len(s) /\ DOMAIN s2 = 1 .. Len(s2) /\ Len(s) \in Nat /\ Len(s2) \in Nat
  OBVIOUS
<1>2. Frames(s) = {k \in 1 .. n : s[k].kind = "frame" /\ ~s[k].spp}
  BY <1>1 DEF Frames, Harmless
<1>3. Frames(s2) = {k \in 1 .. n : s[k].kind = "frame" /\ ~s[k].spp}
  BY <1>1 DEF Frames, Harmless
<1>4. ASSUME NEW k \in 1 .. n PROVE Called(s2, k) <=> Called(s, k)
  <2>1. CASE k < n
    BY <1>1, <2>1 DEF Called
  <2>2. CASE k = n
    BY <1>1, <2>2 DEF Called, Harmless
  <2> QED BY <2>1, <2>2
<1> QED BY <1>2, <1>3, <1>4 DEF SameFrames

\* A stack that did not change shows the same frames.
LEMMA SameStack == ASSUME NEW s PROVE SameFrames(s, s)
BY DEF SameFrames

\* A step in the kernel that touches only harmless items of the running process's stack.
Quiet(l) == l \notin {"alltraps", "sret", "trapend"}
InTheKernel == mode = "S" /\ pc # K("trapend") /\ (pc \in {K("alltraps"), K("sret")} => csr.spp)

\* A step of the kernel that keeps the frames of every stack is seen by nobody.
LEMMA KernelStepUnseen ==
  ASSUME InTheKernel, InTheKernel',
         \A t \in Task : (Alive(t)' <=> Alive(t)) /\ SameFrames(stack[t], stack'[t])
  PROVE  Stutters
<1>1. ASSUME NEW t \in Task PROVE SameView(t)
  <2>1. ~Running(t) /\ ~Running(t)' /\ ~AtTrapsEnd(t) /\ ~AtTrapsEnd(t)'
    BY DEF Running, AtTrapsEnd, InTheKernel
  <2> QED BY <2>1, Unseen
<1> QED BY <1>1, AllUnseen

\* From one quiet place to the next.
LEMMA GoesOn ==
  ASSUME NEW l, NEW l2, At(l), Goto(l2), Quiet(l), Quiet(l2)
  PROVE  InTheKernel /\ InTheKernel'
BY DEF At, Goto, K, Quiet, InTheKernel

\* The stack of the running process is the same up to n.
LEMMA OnTop ==
  ASSUME IInv, IInv', InTheKernel, InTheKernel', current' = current,
         \A t \in Task : Alive(t)' <=> Alive(t),
         \A q \in Proc \ {current} : stack'[q] = stack[q],
         NEW n \in Nat, n <= Len(stack[current]), n <= Len(stack'[current]),
         \A k \in 1 .. n : stack'[current][k] = stack[current][k],
         \A k \in n + 1 .. Len(stack[current]) : Harmless(stack[current][k]),
         \A k \in n + 1 .. Len(stack'[current]) : Harmless(stack'[current][k])
  PROVE  Stutters
<1>1. stack[current] \in Seq(Items) /\ stack'[current] \in Seq(Items)
  BY DEF IInv, Types
<1>2. SameFrames(stack[current], stack'[current])
  BY <1>1, SamePrefix
<1>3. ASSUME NEW t \in Task PROVE SameFrames(stack[t], stack'[t])
  BY <1>2, SameStack, Processes
<1> QED BY <1>3, KernelStepUnseen

\* A step that leaves all stacks alone.
LEMMA StacksSame ==
  ASSUME InTheKernel, InTheKernel', \A t \in Task : Alive(t)' <=> Alive(t), stack' = stack
  PROVE  Stutters
BY SameStack, KernelStepUnseen

\* A call of a C function.
LEMMA PushUnseen ==
  ASSUME IInv, IInv', NEW l, NEW l2, At(l), Goto(l2), Quiet(l), Quiet(l2), l # "idt_init",
         NEW e \in Items, Push(e), Harmless(e), current' = current,
         \A t \in Task : Alive(t)' <=> Alive(t)
  PROVE  Stutters
<1>1. sp = <<current, Len(stack[current])>>
  BY InKernel DEF Quiet
<1>2. /\ \A q \in Proc \ {current} : stack'[q] = stack[q]
      /\ Len(stack[current]) \in Nat
      /\ Len(stack'[current]) = Len(stack[current]) + 1
      /\ stack'[current][Len(stack[current]) + 1] = e
      /\ \A k \in 1 .. Len(stack[current]) : stack'[current][k] = stack[current][k]
  BY <1>1, PushStep
<1>3. InTheKernel /\ InTheKernel'
  BY GoesOn
<1> QED BY <1>2, <1>3, OnTop

\* The return of one.
LEMMA PopUnseen ==
  ASSUME IInv, IInv', NEW l, NEW l2, At(l), Goto(l2), Quiet(l), Quiet(l2), l # "idt_init",
         Pop, Len(stack[current]) >= 1, Harmless(Top), current' = current,
         \A t \in Task : Alive(t)' <=> Alive(t)
  PROVE  Stutters
<1>1. sp = <<current, Len(stack[current])>> /\ Top = stack[current][Len(stack[current])]
      /\ Len(stack[current]) \in Nat
  BY InKernel DEF Quiet
<1>2. /\ \A q \in Proc \ {current} : stack'[q] = stack[q]
      /\ Len(stack'[current]) = Len(stack[current]) - 1
      /\ \A k \in 1 .. Len(stack[current]) - 1 : stack'[current][k] = stack[current][k]
  BY <1>1, PopStep
<1>3. InTheKernel /\ InTheKernel'
  BY GoesOn
<1> DEFINE n == Len(stack[current]) - 1
<1>4. n \in Nat /\ n = Len(stack[current]) - 1
  BY <1>1
<1> HIDE DEF n
<1>5. \A k \in n + 1 .. Len(stack[current]) : k = Len(stack[current])
  BY <1>1, <1>4
<1>6. \A k \in n + 1 .. Len(stack[current]) : Harmless(stack[current][k])
  BY <1>1, <1>5
<1>7. \A k \in n + 1 .. Len(stack'[current]) : Harmless(stack'[current][k])
  BY <1>1, <1>2, <1>4
<1>8. n <= Len(stack[current]) /\ n <= Len(stack'[current])
  BY <1>1, <1>2, <1>4
<1> QED BY <1>2, <1>3, <1>4, <1>6, <1>7, <1>8, OnTop

\* Nobody is born or dies unless state changes.
LEMMA SameAlive == ASSUME state' = state PROVE \A t \in Task : Alive(t)' <=> Alive(t)
BY DEF Alive

-----------------------------------------------------------------------------
(* The boot, schedule() and calls of C functions: seen by nobody.          *)

\* The boot, and the clock.
LEMMA TimerFiresUnseen == ASSUME TimerFires PROVE Stutters
<1>1. UNCHANGED <<mode, pc, regs, csr, current, state, stack>>
  BY DEF TimerFires, hart, procs, family
<1>2. \A t \in Task : SameView(t)
  BY <1>1 DEF SameView, ContextOf, InCall, Running, UserFrames
<1> QED BY <1>2, AllUnseen

\* A step that changes nothing.
LEMMA StutterUnseen == ASSUME UNCHANGED vars PROVE Stutters
<1>1. UNCHANGED <<mode, pc, regs, csr, current, state, stack>>
  BY DEF vars, hart, procs, family
<1>2. \A t \in Task : SameView(t)
  BY <1>1 DEF SameView, ContextOf, InCall, Running, UserFrames
<1> QED BY <1>2, AllUnseen

\* A step from one quiet place to the next that leaves the stacks alone.
LEMMA GotoUnseen ==
  ASSUME NEW l, NEW l2, At(l), Goto(l2), Quiet(l), Quiet(l2), UNCHANGED <<state, stack>>
  PROVE  Stutters
BY GoesOn, SameAlive, StacksSame

\* idt_init.
LEMMA IdtInitUnseen == ASSUME idt_init PROVE Stutters
<1>1. At("idt_init") /\ Goto("proc_init") /\ UNCHANGED <<state, stack>>
  BY DEF idt_init, procs, family
<1>2. Quiet("idt_init") /\ Quiet("proc_init")
  BY DEF Quiet
<1> QED BY <1>1, <1>2, GotoUnseen

\* clock_init.
LEMMA ClockInitUnseen == ASSUME clock_init PROVE Stutters
<1>1. At("clock_init") /\ Goto("intr_enable") /\ UNCHANGED <<state, stack>>
  BY DEF clock_init, procs, family
<1>2. Quiet("clock_init") /\ Quiet("intr_enable")
  BY DEF Quiet
<1> QED BY <1>1, <1>2, GotoUnseen

\* The end of kern_init: intr_enable.
LEMMA BootEndsUnseen == ASSUME BootEnds PROVE Stutters
<1>1. At("intr_enable") /\ Goto("cpu_idle") /\ UNCHANGED <<state, stack>>
  BY DEF BootEnds, procs, family
<1>2. Quiet("cpu_idle") /\ Quiet("intr_enable")
  BY DEF Quiet
<1> QED BY <1>1, <1>2, GotoUnseen

\* forkret takes the new process's frame for the stack.
LEMMA ForkretsUnseen == ASSUME forkrets PROVE Stutters
<1>1. At("forkret") /\ Goto("trapret") /\ UNCHANGED <<state, stack>>
  BY DEF forkrets, procs, family
<1>2. Quiet("forkret") /\ Quiet("trapret")
  BY DEF Quiet
<1> QED BY <1>1, <1>2, GotoUnseen

\* do_wait goes back to its look.
LEMMA WaitWokenUnseen == ASSUME WaitWoken PROVE Stutters
<1>1. At("woken") /\ Goto("repeat") /\ UNCHANGED <<state, stack>>
  BY DEF WaitWoken, procs, family
<1>2. Quiet("woken") /\ Quiet("repeat")
  BY DEF Quiet
<1> QED BY <1>1, <1>2, GotoUnseen

\* An undefined call panics.
LEMMA SysUndefinedUnseen == ASSUME SysUndefined PROVE Stutters
<1>1. At("syscall") /\ Goto("monitor") /\ UNCHANGED <<state, stack>>
  BY DEF SysUndefined, Panic, CalledIn, procs, family
<1>2. Quiet("syscall") /\ Quiet("monitor")
  BY DEF Quiet
<1> QED BY <1>1, <1>2, GotoUnseen

\* Calls of schedule() and do_wait, and schedule() itself.
LEMMA CallUnseen ==
  ASSUME IInv, IInv', NEW l \in {"init_wait", "init_next", "cpu_idle", "sleep", "syscall"}, At(l),
         NEW l2 \in {"repeat", "schedule"}, Goto(l2), NEW e \in DoWaits \cup Scheds, Push(e),
         current' = current, \A t \in Task : Alive(t)' <=> Alive(t)
  PROVE  Stutters
<1>1. Harmless(e) /\ e \in Items
  BY HarmlessItems DEF Items
<1>2. Quiet(l) /\ Quiet(l2) /\ l # "idt_init"
  BY DEF Quiet
<1> QED BY <1>1, <1>2, PushUnseen

\* init_main calls do_wait.
LEMMA InitWaitsUnseen == ASSUME IInv, IInv', InitWaits PROVE Stutters
<1>1. WaitFrame(Null, "init_next") \in DoWaits
  BY DEF WaitFrame, DoWaits
<1>2. /\ At("init_wait") /\ Push(WaitFrame(Null, "init_next")) /\ Goto("repeat")
      /\ UNCHANGED <<current, state>>
  BY DEF InitWaits, procs, family
<1> QED BY <1>1, <1>2, SameAlive, CallUnseen

\* The items that calls of schedule() leave.
LEMMA SchedFrames ==
  ASSUME NEW r \in {"cpu_idle", "init_wait", "woken", "dead", "trapret"}
  PROVE  SchedFrame(r) \in Scheds /\ SchedFrame(r) \in Items /\ SchedFrame(r).kind = "schedule"
BY DEF SchedFrame, Scheds, Items

\* init_main calls schedule() after it has reaped a child.
LEMMA InitNextUnseen == ASSUME IInv, IInv', InitNext PROVE Stutters
<1>1. SchedFrame("init_wait") \in Scheds
  BY SchedFrames
<1>2. /\ At("init_next") /\ Push(SchedFrame("init_wait")) /\ Goto("schedule")
      /\ UNCHANGED <<current, state>>
  BY DEF InitNext, CallSchedule, procs, family
<1> QED BY <1>1, <1>2, SameAlive, CallUnseen

\* cpu_idle calls schedule().
LEMMA CpuIdleUnseen == ASSUME IInv, IInv', cpu_idle PROVE Stutters
<1>1. SchedFrame("cpu_idle") \in Scheds
  BY SchedFrames
<1>2. /\ At("cpu_idle") /\ Push(SchedFrame("cpu_idle")) /\ Goto("schedule")
      /\ UNCHANGED <<current, state>>
  BY DEF cpu_idle, CallSchedule, procs, family
<1> QED BY <1>1, <1>2, SameAlive, CallUnseen

\* do_wait falls asleep; its caller is alive before and after.
LEMMA WaitSleepsUnseen == ASSUME IInv, IInv', WaitSleeps PROVE Stutters
<1>1. SchedFrame("woken") \in Scheds
  BY SchedFrames
<1>2. /\ At("sleep") /\ Push(SchedFrame("woken")) /\ Goto("schedule") /\ UNCHANGED current
      /\ state' = [state EXCEPT ![current] = "waiting"]
  BY DEF WaitSleeps, CallSchedule
<1>3. state[current] = "runnable"
  BY <1>2, AtWait
<1>4. \A t \in Task : Alive(t)' <=> Alive(t)
  BY <1>2, <1>3, Typed, Processes DEF Alive
<1> QED BY <1>1, <1>2, <1>4, CallUnseen

\* sys_wait calls do_wait: the call is not over.
LEMMA SysWaitUnseen == ASSUME IInv, IInv', SysWait PROVE Stutters
<1>1. At("syscall") /\ Goto("repeat") /\ UNCHANGED <<current, state>>
  BY DEF SysWait, CalledIn, procs, family
<1>2. PICK pid \in Task \cup {Null} : Push(WaitFrame(pid, "trapend"))
  BY DEF SysWait
<1>3. WaitFrame(pid, "trapend") \in DoWaits
  BY DEF WaitFrame, DoWaits
<1> QED BY <1>1, <1>2, <1>3, SameAlive, CallUnseen

\* local_intr_save in schedule().
LEMMA ScheduleSavesUnseen == ASSUME IInv, IInv', ScheduleSaves PROVE Stutters
<1> DEFINE s == stack[current]
           m == Len(s)
           n == m - 1
           e == [s[m] EXCEPT !.intr_flag = csr.sie]
<1>1. At("schedule") /\ Goto("pick") /\ UNCHANGED <<current, state>>
  BY DEF ScheduleSaves, procs, family
<1>2. /\ sp = <<current, m>> /\ m \in Nat /\ Suits(current, s, tf[current], m, "schedule")
      /\ s \in Seq(Items)
  BY <1>1, InKernel
<1>3. m >= 1 /\ s[m] \in Scheds
  BY <1>2 DEF Suits, OwnPlaces, InitCode, InSchedule
<1>4. stack' = [stack EXCEPT ![current] = [s EXCEPT ![m] = e]]
  BY <1>2, Typed DEF ScheduleSaves
<1>5. e \in Scheds
  BY <1>3, Typed DEF Scheds, CSRs
<1>6. e \in Items /\ Harmless(e) /\ Harmless(s[m])
  BY <1>3, <1>5, HarmlessItems DEF Items
<1> HIDE DEF e
<1>7. m \in 1 .. Len(s) /\ n \in Nat /\ n + 1 = m
  BY <1>2, <1>3
<1> HIDE DEF n
<1>8. /\ \A q \in Proc \ {current} : stack'[q] = stack[q]
      /\ Len(stack'[current]) = m /\ stack'[current][m] = e
      /\ \A k \in 1 .. m : k # m => stack'[current][k] = s[k]
  BY <1>4, <1>6, <1>7, StoreStep
<1>9. \A k \in 1 .. n : stack'[current][k] = s[k]
  BY <1>7, <1>8
<1>10. \A k \in n + 1 .. m : k = m
  BY <1>7
<1>11. Quiet("schedule") /\ Quiet("pick")
  BY DEF Quiet
<1>12. InTheKernel /\ InTheKernel'
  BY <1>1, <1>11, GoesOn
<1>13. \A k \in n + 1 .. m : Harmless(s[k])
  BY <1>6, <1>10
<1>14. \A k \in n + 1 .. m : Harmless(stack'[current][k])
  BY <1>6, <1>8, <1>10
<1>15. n <= m /\ \A t \in Task : Alive(t)' <=> Alive(t)
  BY <1>1, <1>7, SameAlive
<1>16. current' = current
  BY <1>1
<1> QED BY <1>7, <1>8, <1>9, <1>12, <1>13, <1>14, <1>15, <1>16, OnTop

\* proc_run returns.
LEMMA RunRestoresUnseen == ASSUME IInv, IInv', RunRestores PROVE Stutters
<1>1. At("switched") /\ Goto("picked") /\ Pop /\ UNCHANGED <<current, state>>
  BY DEF RunRestores, procs, family
<1>2. Quiet("switched") /\ Quiet("picked")
  BY DEF Quiet
<1>3. InProcRun(current, stack[current], tf[current], Len(stack[current]))
      /\ Top = stack[current][Len(stack[current])] /\ Len(stack[current]) \in Nat
  BY <1>1, InKernel DEF Suits, OwnPlaces, InitCode
<1>4. Len(stack[current]) >= 1 /\ Harmless(Top)
  BY <1>3, HarmlessItems DEF InProcRun
<1> QED BY <1>1, <1>2, <1>4, SameAlive, PopUnseen

\* schedule() returns to its caller.
LEMMA ScheduleRestoresUnseen == ASSUME IInv, IInv', ScheduleRestores PROVE Stutters
<1>1. At("picked") /\ Goto(Top.ret) /\ Pop /\ UNCHANGED <<current, state>>
  BY DEF ScheduleRestores, procs, family
<1>2. InSchedule(current, stack[current], tf[current], Len(stack[current]))
      /\ Top = stack[current][Len(stack[current])]
  BY <1>1, InKernel DEF Suits, OwnPlaces, InitCode, FlagSaved
<1>3. Len(stack[current]) >= 1 /\ Harmless(Top) /\ Top \in Scheds
  BY <1>2, HarmlessItems DEF InSchedule
<1>4. Quiet("picked") /\ Quiet(Top.ret)
  BY <1>3 DEF Quiet, Scheds
<1> QED BY <1>1, <1>3, <1>4, SameAlive, PopUnseen

\* switch_to: the stacks stay, the registers go with the stack pointer.
LEMMA SwitchUnseen ==
  ASSUME IInv, IInv', At("pick"), NEW next \in Proc \ {current}, state[next] = "runnable",
         switch_to(next), UNCHANGED state
  PROVE  Stutters
<1> DEFINE s == stack[current]
           n == Len(s)
           e == [kind |-> "proc_run", intr_flag |-> csr.sie]
           s2 == Append(SubSeq(s, 1, n), e)
<1>1. /\ mode = "S" /\ sp = <<current, n>> /\ n \in Nat /\ pc = K("pick")
      /\ s \in Seq(Items) /\ current \in Proc /\ ~csr.sie
  BY InKernel DEF SieOn, InitCode
<1>2. stack' = [stack EXCEPT ![current] = s2] /\ Goto(saved[next].ra)
  BY <1>1 DEF switch_to, Above
<1>3. e \in Runs
  <2>1. csr.sie = FALSE
    BY <1>1, Typed DEF CSRs
  <2> QED BY <2>1 DEF Runs
<1>4. e \in Items /\ Harmless(e)
  BY <1>3, HarmlessItems DEF Items
<1> HIDE DEF e
<1>5. /\ s2 \in Seq(Items) /\ Len(s2) = n + 1 /\ s2[n + 1] = e
      /\ \A k \in 1 .. n : s2[k] = s[k]
  BY <1>1, <1>4, Pushed
<1> HIDE DEF s2
<1>6. stack'[current] = s2 /\ \A q \in Proc \ {current} : stack'[q] = stack[q]
  BY <1>1, <1>2, Typed
<1>7. SameFrames(s, s2)
  <2>1. \A k \in n + 1 .. Len(s2) : Harmless(s2[k])
    BY <1>1, <1>4, <1>5
  <2>2. n <= Len(s2) /\ \A k \in n + 1 .. Len(s) : Harmless(s[k])
    BY <1>1, <1>5
  <2>3. s \in Seq(Items) /\ s2 \in Seq(Items) /\ n \in Nat /\ n <= Len(s) /\ n <= Len(s2)
        /\ \A k \in 1 .. n : s2[k] = s[k]
    BY <1>1, <1>5, <2>2
  <2> HIDE DEF s, n
  <2> QED BY <2>1, <2>2, <2>3, SamePrefix
<1>8. \A t \in Task : SameFrames(stack[t], stack'[t])
  BY <1>6, <1>7, SameStack, Processes
<1>9. saved[next].ra \in {"forkret", "switched"}
  BY DEF IInv, OthersOK, SwitchedOut
<1>10. Quiet("pick") /\ Quiet(saved[next].ra)
  BY <1>9 DEF Quiet
<1>11. InTheKernel /\ InTheKernel'
  BY <1>2, <1>10, GoesOn
<1> QED BY <1>8, <1>11, SameAlive, KernelStepUnseen

\* schedule() picks a process, the running one or another.
LEMMA SchedulePicksUnseen == ASSUME IInv, IInv', SchedulePicks PROVE Stutters
<1>1. At("pick") /\ UNCHANGED state
  BY DEF SchedulePicks, family
<1>2. PICK next \in Next4Run :
         IF next = current THEN Goto("picked") /\ UNCHANGED <<sp, csr, stack, saved, current>>
         ELSE switch_to(next)
  BY DEF SchedulePicks
<1>3. next \in Proc /\ state[next] = "runnable"
  BY <1>2, Processes DEF Next4Run, Runnable, IInv, FamilyOK
<1>4. CASE next # current
  BY <1>1, <1>2, <1>3, <1>4, SwitchUnseen
<1>5. CASE next = current
  <2>1. Quiet("pick") /\ Quiet("picked")
    BY DEF Quiet
  <2> QED BY <1>1, <1>2, <1>5, <2>1, GotoUnseen
<1> QED BY <1>4, <1>5

\* The others see nothing of a step that leaves their stacks alone.
LEMMA OthersUnseen ==
  ASSUME current' = current, NEW t, t # current, stack'[t] = stack[t], Alive(t)' <=> Alive(t)
  PROVE  SameView(t)
<1>1. ~Running(t) /\ ~Running(t)' /\ ~AtTrapsEnd(t) /\ ~AtTrapsEnd(t)'
  BY DEF Running, AtTrapsEnd
<1> QED BY <1>1, SameStack, Unseen

-----------------------------------------------------------------------------
(* The way of a context from the hart to the frame and back.               *)

\* Traps of the hart, and sret.
LEMMA TakeTrapUnseen ==
  ASSUME IInv, NEW cause, TakeTrap(cause), mode = "U" \/ csr.sie
  PROVE  Stutters
<1>1. /\ pc' = K("alltraps") /\ mode' = "S" /\ UNCHANGED <<regs, current, state, stack>>
      /\ csr' = [csr EXCEPT !.sepc = pc, !.cause = cause, !.spp = (mode = "S"),
                            !.spie = csr.sie, !.sie = FALSE]
  BY DEF TakeTrap, procs, family
<1>2. csr'.sepc = pc /\ (csr'.spp <=> mode = "S")
  BY <1>1, Typed DEF CSRs
<1>3. \A t \in Task : Alive(t)' <=> Alive(t)
  BY <1>1, SameAlive
<1>4. CASE mode = "U"
  <2>1. \A t \in Task : t # current => SameView(t)
    BY <1>1, <1>3, OthersUnseen
  <2>2. ASSUME NEW q \in Task, q = current PROVE SameView(q)
    <3>1. Running(q) /\ Running(q)' /\ (Alive(q)' <=> Alive(q))
      BY <2>2, <1>1, <1>2, <1>4 DEF Running, Alive
    <3>2. ContextOf(q)' = ContextOf(q)
      BY <2>2, <1>1, <1>2, <1>4, <3>1, InFrame, InFrameNext DEF View
    <3>3. Frames(stack[q]) = {} /\ Frames(stack'[q]) = {}
      <4>1. stack[q] = <<>> /\ stack'[q] = <<>>
        BY <2>2, <1>1, <1>4 DEF IInv, HartOK, OnUserSide
      <4> QED BY <4>1 DEF Frames
    <3>4. ~InCall(q) /\ ~InCall(q)'
      BY <3>3, InFrame, InFrameNext DEF View
    <3> QED BY <3>2, <3>4 DEF SameView
  <2> QED BY <2>1, <2>2, AllUnseen
<1>5. CASE mode = "S" /\ csr.sie
  <2>1. SieOn(current, pc[1]) /\ pc = K(pc[1])
    BY <1>5 DEF IInv, HartOK
  <2>2. InTheKernel
    BY <1>5, <2>1 DEF InTheKernel, SieOn, InitCode, K
  <2>3. InTheKernel'
    BY <1>1, <1>2, <1>5 DEF InTheKernel, K
  <2> QED BY <1>1, <1>3, <2>2, <2>3, StacksSame
<1>6. mode \in {"U", "S"}
  BY DEF IInv, Types
<1> QED BY <1>4, <1>5, <1>6

\* The timer interrupt.
LEMMA TimerInterruptUnseen == ASSUME IInv, TimerInterrupt PROVE Stutters
BY TakeTrapUnseen DEF TimerInterrupt, InterruptDue

\* kernel_execve's ebreak.
LEMMA EbreakUnseen == ASSUME IInv, Ebreak PROVE Stutters
<1>1. At("user_main") /\ TakeTrap("ebreak")
  BY DEF Ebreak
<1>2. csr.sie
  BY <1>1, InKernel DEF SieOn
<1> QED BY <1>1, <1>2, TakeTrapUnseen

\* sret: to a program with the registers of its frame, or on in the kernel.
LEMMA SretUnseen == ASSUME IInv, IInv', Sret PROVE Stutters
<1>1. /\ At("sret") /\ mode = "S" /\ pc = K("sret") /\ pc[1] = "sret"
      /\ mode' = (IF csr.spp THEN "S" ELSE "U") /\ pc' = csr.sepc
      /\ UNCHANGED <<regs, current, state, stack>>
  BY DEF Sret, At, K, procs, family
<1>2. \A t \in Task : Alive(t)' <=> Alive(t)
  BY <1>1, SameAlive
<1>3. CASE csr.spp
  <2>1. InTheKernel
    BY <1>1, <1>3 DEF InTheKernel, K
  <2>2. \E l \in OpenCode : pc' = K(l)
    BY <1>1, <1>3 DEF IInv, HartOK, OnUserSide, TrapState, Resumes, K
  <2>3. InTheKernel'
    BY <1>1, <1>3, <2>2 DEF InTheKernel, K, OpenCode
  <2> QED BY <1>1, <1>2, <2>1, <2>3, StacksSame
<1>4. CASE ~csr.spp
  <2>1. \A t \in Task : t # current => SameView(t)
    BY <1>1, <1>2, OthersUnseen
  <2>2. ASSUME NEW q \in Task, q = current PROVE SameView(q)
    <3>1. Running(q) /\ Running(q)' /\ (Alive(q)' <=> Alive(q))
      BY <2>2, <1>1, <1>4 DEF Running, Alive
    <3>2. ContextOf(q)' = ContextOf(q)
      BY <2>2, <1>1, <1>4, <3>1, InFrame, InFrameNext DEF View
    <3>3. Frames(stack[q]) = {} /\ Frames(stack'[q]) = {}
      <4>1. stack[q] = <<>> /\ stack'[q] = <<>>
        BY <2>2, <1>1, <1>4 DEF IInv, HartOK, OnUserSide
      <4> QED BY <4>1 DEF Frames
    <3>4. ~InCall(q) /\ ~InCall(q)'
      BY <3>3, InFrame, InFrameNext DEF View
    <3> QED BY <3>2, <3>4 DEF SameView
  <2> QED BY <2>1, <2>2, AllUnseen
<1> QED BY <1>3, <1>4

\* A stack that has one item, a frame of the program.
LEMMA LoneFrame ==
  ASSUME NEW s, DOMAIN s = 1 .. 1, s[1].kind = "frame", ~s[1].spp
  PROVE  Frames(s) = {1}
BY DEF Frames

\* SAVE_ALL moves the context of the program from the hart to the frame.
LEMMA SaveAllUnseen == ASSUME IInv, IInv', SAVE_ALL PROVE Stutters
<1> DEFINE s == stack[current]
           n == Len(s)
           frame == [kind |-> "frame", spp |-> csr.spp, spie |-> csr.spie, sie |-> csr.sie,
                     epc |-> csr.sepc, cause |-> csr.cause, sp |-> sp, regs |-> regs]
           s2 == Append(SubSeq(s, 1, n), frame)
<1>1. /\ At("alltraps") /\ mode = "S" /\ mode' = "S" /\ pc' = K("trap") /\ UNCHANGED <<current, state>>
      /\ pc = K("alltraps") /\ pc[1] = "alltraps" /\ current \in Proc /\ s \in Seq(Items) /\ n \in Nat
  BY AtEdge DEF SAVE_ALL, At, procs, family
<1>2. StackForTrap = <<current, n>>
  <2>1. CASE csr.spp
    BY <1>1, <2>1, AtEdge DEF StackForTrap, Zero
  <2>2. CASE ~csr.spp
    BY <1>1, <2>2, AtEdge, Processes DEF StackForTrap, Zero
  <2> QED BY <2>1, <2>2
<1>3. stack' = [stack EXCEPT ![current] = s2]
  BY <1>2 DEF SAVE_ALL, Above
<1>4. /\ frame.kind = "frame" /\ (frame.spp <=> csr.spp) /\ frame.epc = csr.sepc /\ frame.regs = regs
  OBVIOUS
<1> HIDE DEF frame
<1>5. /\ Len(s2) = n + 1 /\ s2[n + 1] = frame /\ \A k \in 1 .. n : s2[k] = s[k]
      /\ DOMAIN s2 = 1 .. n + 1
  BY <1>1
<1> HIDE DEF s2
<1>6. stack'[current] = s2 /\ \A q \in Proc \ {current} : stack'[q] = stack[q]
  BY <1>1, <1>3, Typed
<1>7. \A t \in Task : Alive(t)' <=> Alive(t)
  BY <1>1, SameAlive
<1>8. CASE csr.spp
  <2>1. InTheKernel /\ InTheKernel'
    BY <1>1, <1>8 DEF InTheKernel, K
  <2>2. \A k \in n + 1 .. Len(stack'[current]) : Harmless(stack'[current][k])
    BY <1>1, <1>4, <1>5, <1>6, <1>8 DEF Harmless
  <2>3. \A k \in n + 1 .. Len(stack[current]) : Harmless(stack[current][k])
    BY <1>1
  <2>4. n <= Len(stack'[current]) /\ \A k \in 1 .. n : stack'[current][k] = stack[current][k]
    BY <1>1, <1>5, <1>6
  <2>5. current' = current /\ n <= Len(stack[current])
    BY <1>1
  <2> HIDE DEF s
  <2> QED BY <1>1, <1>6, <1>7, <2>1, <2>2, <2>3, <2>4, <2>5, OnTop
<1>9. CASE ~csr.spp
  <2>1. \A t \in Task : t # current => SameView(t)
    BY <1>1, <1>6, <1>7, OthersUnseen, Processes
  <2>2. ASSUME NEW q \in Task, q = current PROVE SameView(q)
    <3>1. Running(q) /\ ~Running(q)' /\ Alive(q) /\ Alive(q)' /\ s = <<>>
      BY <1>1, <1>7, <1>9, <2>2, AtEdge DEF Running, Alive, K
    <3>2. ContextOf(q) = Seen(csr.sepc, regs) /\ ~InCall(q)
      <4>1. Frames(stack[q]) = {}
        BY <2>2, <3>1 DEF Frames
      <4> QED BY <1>1, <3>1, <4>1, InFrame DEF View
    <3>3. Frames(stack'[q]) = {1} /\ stack'[q][1] = frame /\ Len(stack'[q]) = 1
      <4>1. n = 0
        BY <3>1
      <4>2. DOMAIN s2 = 1 .. 1 /\ s2[1] = frame /\ Len(s2) = 1
        BY <1>5, <4>1
      <4>3. Frames(s2) = {1}
        BY <1>4, <1>9, <4>2, LoneFrame
      <4> QED BY <1>6, <2>2, <4>2, <4>3
    <3>4. SeesFrame(q, 1)'
      BY <3>1, <3>3, OneFrameNext
    <3>5. ~Called(stack'[q], 1)
      BY <3>3 DEF Called
    <3>6. ContextOf(q)' = Seen(stack'[q][1].epc, stack'[q][1].regs) /\ ~InCall(q)'
      BY <3>4, <3>5 DEF SeesFrame
    <3> QED BY <1>4, <3>2, <3>3, <3>6 DEF SameView
  <2> QED BY <2>1, <2>2, AllUnseen
<1> QED BY <1>8, <1>9

\* RESTORE_ALL moves it back.
LEMMA RestoreAllUnseen == ASSUME IInv, IInv', RESTORE_ALL PROVE Stutters
<1> DEFINE s == stack[current]
           n == Len(s)
           m == IF Top.sp[1] = sp[1] THEN Top.sp[2] ELSE sp[2] - 1
           s2 == SubSeq(s, 1, m)
<1>1. /\ At("trapret") /\ UNCHANGED <<mode, current, state>>
      /\ csr' = [csr EXCEPT !.sscratch = ScratchFor(Top), !.sepc = Top.epc,
                            !.spp = Top.spp, !.spie = Top.spie, !.sie = Top.sie]
      /\ regs' = Top.regs /\ pc' = K("sret")
  BY DEF RESTORE_ALL, procs, family
<1>2. /\ sp = <<current, n>> /\ s \in Seq(Items) /\ n \in Nat /\ Top = s[n] /\ current \in Proc
      /\ mode = "S" /\ pc = K("trapret")
  BY <1>1, InKernel
<1>3. stack' = [stack EXCEPT ![current] = s2]
  BY <1>2 DEF RESTORE_ALL, Above
<1>4. csr'.sepc = Top.epc /\ csr'.spp = Top.spp
  BY <1>1, Typed DEF CSRs
<1>5. stack'[current] = s2 /\ \A q \in Proc \ {current} : stack'[q] = stack[q]
  BY <1>2, <1>3, Typed
<1>6. \A t \in Task : Alive(t)' <=> Alive(t)
  BY <1>1, SameAlive
<1>7. CASE current \in Task /\ n = 1 /\ Top \in UFrames
  <2>1. Top.kind = "frame" /\ ~Top.spp /\ Top.sp = UserSp
    BY <1>7 DEF UFrames
  <2>2. m = 0
    BY <1>2, <1>7, <2>1, Processes DEF UserSp
  <2>3. \A t \in Task : t # current => SameView(t)
    BY <1>1, <1>5, <1>6, OthersUnseen, Processes
  <2>4. ASSUME NEW q \in Task, q = current PROVE SameView(q)
    <3>1. ~Running(q) /\ Running(q)' /\ Alive(q) /\ Alive(q)'
      <4>1. state[q] # "none" /\ state[q] # "zombie"
        BY <1>2, <2>4 DEF IInv, FamilyOK, K
      <4> QED BY <1>1, <1>2, <1>4, <1>6, <2>1, <2>4, <4>1 DEF Running, Alive, K
    <3>2. Frames(stack[q]) = {1} /\ stack[q][1] = Top /\ Len(stack[q]) = 1
      <4>1. DOMAIN s = 1 .. 1
        BY <1>2, <1>7
      <4> QED BY <1>2, <1>7, <2>1, <2>4, <4>1, LoneFrame
    <3>3. ContextOf(q) = Seen(Top.epc, Top.regs) /\ ~InCall(q)
      <4>1. SeesFrame(q, 1)
        BY <3>1, <3>2, OneFrame
      <4>2. ~Called(stack[q], 1)
        BY <3>2 DEF Called
      <4> QED BY <3>2, <4>1, <4>2 DEF SeesFrame
    <3>4. ContextOf(q)' = Seen(csr'.sepc, regs')
      BY <1>1, <1>2, <3>1, InFrameNext DEF View
    <3>5. ~InCall(q)'
      <4>1. Frames(stack'[q]) = {}
        <5>1. DOMAIN s2 = {}
          BY <1>2, <2>2
        <5> HIDE DEF s2
        <5> QED BY <1>5, <2>4, <5>1 DEF Frames
      <4> QED BY <4>1, InFrameNext DEF View
    <3> QED BY <1>1, <1>4, <3>3, <3>4, <3>5 DEF SameView
  <2> QED BY <2>3, <2>4, AllUnseen
<1>8. CASE /\ Top \in KFrames /\ n >= 1
           /\ \E j \in {n - 1, n}, l \in OpenCode :
                Top.sp = <<current, j>> /\ Top.epc = K(l) /\ Open(current, s, tf[current], j, l)
  <2>1. Top.spp /\ Harmless(Top)
    BY <1>8, Kinds, HarmlessItems
  <2>2. InTheKernel /\ InTheKernel'
    BY <1>1, <1>2, <1>4, <2>1 DEF InTheKernel, K
  <2>3. m \in {n - 1, n} /\ m \in Nat /\ m <= n /\ m >= n - 1
    BY <1>2, <1>8
  <2> HIDE DEF m
  <2>4. Len(s2) = m /\ \A k \in 1 .. m : s2[k] = s[k]
    BY <1>2, <2>3
  <2> HIDE DEF s2
  <2>5. \A k \in m + 1 .. n : k = n
    BY <1>2, <2>3
  <2>6. \A k \in m + 1 .. Len(stack[current]) : Harmless(stack[current][k])
    BY <1>2, <2>1, <2>5
  <2>7. \A k \in m + 1 .. Len(stack'[current]) : Harmless(stack'[current][k])
    BY <1>5, <2>3, <2>4
  <2>8. m <= Len(stack[current]) /\ m <= Len(stack'[current])
        /\ \A k \in 1 .. m : stack'[current][k] = stack[current][k]
    BY <1>5, <2>3, <2>4
  <2>9. current' = current
    BY <1>1
  <2> QED BY <1>5, <1>6, <2>2, <2>3, <2>6, <2>7, <2>8, <2>9, OnTop
<1> QED BY <1>1, <1>7, <1>8, AtTrapret

\* At the end of trap() a call is over.
LEMMA Trapend == ASSUME NEW t, AtTrapsEnd(t) PROVE ~InCall(t)
BY InFrame DEF View

\* A step in the kernel that keeps the frames of the running process's program, and does
\* not begin or end a call.
LEMMA FrameKept ==
  ASSUME NEW q, ~Running(q), ~Running(q)', Alive(q)' <=> Alive(q),
         Frames(stack'[q]) = Frames(stack[q]),
         \A k \in Frames(stack[q]) : stack'[q][k] = stack[q][k],
         ~InCall(q), ~InCall(q)'
  PROVE  SameView(q)
<1>1. Chosen(Frames(stack[q])) \in Frames(stack[q]) \/ Frames(stack[q]) = {}
  BY ChosenIn
<1> QED BY <1>1, InFrame, InFrameNext DEF SameView, View

\* kernel_execve_ret moves the frame of the program that begins.
LEMMA ExecveRetUnseen == ASSUME IInv, IInv', kernel_execve_ret PROVE Stutters
<1> DEFINE s == stack[current]
           n == Len(s)
           s2 == <<s[2]>>
<1>1. At("execve_ret") /\ Goto("trapret") /\ UNCHANGED <<current, state>>
  BY DEF kernel_execve_ret, procs, family
<1>2. /\ mode = "S" /\ pc = K("execve_ret") /\ s \in Seq(Items) /\ n = 3 /\ tf[current] = <<current, 2>>
      /\ s[1] \in KFrames /\ s[2] \in UFrames /\ s[2].cause = "none" /\ s[3] \in KTraps /\ current \in Proc
  BY <1>1, InKernel DEF Suits, OwnPlaces, InitCode
<1>3. stack' = [stack EXCEPT ![current] = s2]
  BY <1>2 DEF kernel_execve_ret
<1>4. stack'[current] = s2 /\ \A q \in Proc \ {current} : stack'[q] = stack[q]
  BY <1>2, <1>3, Typed
<1>5. \A t \in Task : Alive(t)' <=> Alive(t)
  BY <1>1, SameAlive
<1>6. \A t \in Task : t # current => SameView(t)
  BY <1>1, <1>4, <1>5, OthersUnseen, Processes
<1>7. ASSUME NEW q \in Task, q = current PROVE SameView(q)
  <2>1. ~Running(q) /\ ~Running(q)' /\ Alive(q) /\ Alive(q)'
    <3>1. state[q] # "none" /\ state[q] # "zombie"
      BY <1>2, <1>7 DEF IInv, FamilyOK, K
    <3> QED BY <1>1, <1>2, <1>5, <3>1 DEF Running, Alive, K, Goto
  <2>2. /\ s[2].kind = "frame" /\ ~s[2].spp /\ s[1].spp /\ s[3].kind = "trap"
    BY <1>2, Kinds
  <2>3. Frames(s) = {2}
    <3>1. DOMAIN s = 1 .. 3
      BY <1>2
    <3>2. \A k \in 1 .. 3 : k = 1 \/ k = 2 \/ k = 3
      OBVIOUS
    <3> HIDE DEF s
    <3> QED BY <2>2, <3>1, <3>2 DEF Frames
  <2>4. Frames(s2) = {1} /\ s2[1] = s[2] /\ Len(s2) = 1
    <3>1. DOMAIN s2 = 1 .. 1 /\ s2[1] = s[2] /\ Len(s2) = 1
      OBVIOUS
    <3> HIDE DEF s2
    <3> QED BY <2>2, <3>1, LoneFrame
  <2>5. SeesFrame(q, 2)
    BY <1>7, <2>1, <2>3, OneFrame
  <2>6. SeesFrame(q, 1)'
    BY <1>4, <1>7, <2>1, <2>4, OneFrameNext
  <2>7. stack[q][2] = s[2] /\ stack'[q][1] = s[2]
    BY <1>4, <1>7, <2>4
  <2> QED BY <1>2, <2>5, <2>6, <2>7 DEF SameView, SeesFrame
<1> QED BY <1>6, <1>7, AllUnseen

-----------------------------------------------------------------------------
(* Steps of the user machine.                                              *)

\* A step that the program of q alone sees.
Ctx == [t \in Task |-> ContextOf(t)]
Calls == {t \in Task : InCall(t)}

\* What becomes of the contexts and calls.
LEMMA OneSees ==
  ASSUME NEW q \in Task, \A t \in Task : t # q => SameView(t), NEW c, ContextOf(q)' = c
  PROVE  /\ Ctx' = [Ctx EXCEPT ![q] = c] /\ Ctx[q] = ContextOf(q)
         /\ InCall(q)' => Calls' = Calls \cup {q}
         /\ ~InCall(q)' => Calls' = Calls \ {q}
         /\ q \in Calls <=> InCall(q)
BY DEF Ctx, Calls, SameView

UserContext == [pc : 0 .. NPC - 1, regs : Registers]

\* NoContext is none of the contexts that programs have.
LEMMA IsContext == ASSUME NEW c \in UserContext PROVE c # NoContext
BY TrapEntryAssumption DEF UserContext, Registers

\* What is seen of a program is a context.
LEMMA SeenContext ==
  ASSUME NEW at \in UserPlace, NEW r \in Registers
  PROVE  /\ Seen(at, r) \in UserContext /\ Seen(at, r) # NoContext
         /\ Seen(at, r).pc = at[2] /\ Seen(at, r).regs = r
<1>1. at[2] \in 0 .. NPC - 1
  BY DEF UserPlace, User
<1>2. Seen(at, r) \in UserContext
  BY <1>1 DEF Seen, UserContext
<1> QED BY <1>2, IsContext DEF Seen

\* A step of q that moves its program counter and begins a call.
LEMMA SeesCall ==
  ASSUME NEW q \in Task, \A t \in Task : t # q => SameView(t),
         NEW at \in UserPlace, NEW r \in Registers,
         ContextOf(q) = Seen(at, r), ContextOf(q)' = Seen(After(at), r), ~InCall(q), InCall(q)'
  PROVE  Users!Call(q)
<1>1. /\ Ctx' = [Ctx EXCEPT ![q] = Seen(After(at), r)] /\ Ctx[q] = ContextOf(q)
      /\ Calls' = Calls \cup {q} /\ q \notin Calls
  BY OneSees
<1>2. Seen(After(at), r) = [Seen(at, r) EXCEPT !.pc = (at[2] + 1) % NPC] /\ Seen(at, r) # NoContext
      /\ Seen(at, r).pc = at[2]
  <2>1. at[1] = "user"
    BY DEF UserPlace, User
  <2> QED BY <2>1, SeenContext DEF Seen, After, User
<1>3. Ctx' = [Ctx EXCEPT ![q].pc = Users!Next4(@)]
  BY <1>1, <1>2 DEF Users!Next4, Ctx
<1> QED BY <1>1, <1>2, <1>3 DEF Users!Call, Ctx, Calls

\* One that computes.
LEMMA SeesCompute ==
  ASSUME NEW q \in Task, \A t \in Task : t # q => SameView(t),
         NEW at \in UserPlace, NEW r \in Registers,
         ContextOf(q) = Seen(at, r), ContextOf(q)' = Seen(After(at), at[2]), ~InCall(q), ~InCall(q)'
  PROVE  Users!Compute(q)
<1>1. /\ Ctx' = [Ctx EXCEPT ![q] = Seen(After(at), at[2])] /\ Ctx[q] = ContextOf(q)
      /\ Calls' = Calls \ {q} /\ q \notin Calls
  BY OneSees
<1>2. /\ Seen(After(at), at[2]) = [[Seen(at, r) EXCEPT !.pc = (at[2] + 1) % NPC] EXCEPT !.regs = at[2]]
      /\ Seen(at, r) # NoContext /\ Seen(at, r).pc = at[2]
  <2>1. at[1] = "user"
    BY DEF UserPlace, User
  <2>2. Seen(After(at), at[2]) = [pc |-> (at[2] + 1) % NPC, regs |-> at[2]]
    BY <2>1 DEF Seen, After, User
  <2>3. Seen(at, r) = [pc |-> at[2], regs |-> r]
    BY DEF Seen
  <2>4. [[Seen(at, r) EXCEPT !.pc = (at[2] + 1) % NPC] EXCEPT !.regs = at[2]]
          = [pc |-> (at[2] + 1) % NPC, regs |-> at[2]]
    <3>1. [Seen(at, r) EXCEPT !.pc = (at[2] + 1) % NPC] = [pc |-> (at[2] + 1) % NPC, regs |-> r]
      BY <2>3
    <3>2. [[pc |-> (at[2] + 1) % NPC, regs |-> r] EXCEPT !.regs = at[2]]
            = [pc |-> (at[2] + 1) % NPC, regs |-> at[2]]
      OBVIOUS
    <3> QED BY <3>1, <3>2
  <2> QED BY <2>2, <2>4, SeenContext
<1>3. Ctx' = [Ctx EXCEPT ![q].pc = Users!Next4(@), ![q].regs = Ctx[q].pc]
  BY <1>1, <1>2 DEF Users!Next4, Ctx
<1>4. Calls' = Calls
  BY <1>1
<1> QED BY <1>1, <1>2, <1>3, <1>4 DEF Users!Compute, Ctx, Calls

\* One that answers its call.
LEMMA SeesAnswer ==
  ASSUME NEW q \in Task, \A t \in Task : t # q => SameView(t),
         NEW at \in UserPlace, NEW r \in Registers, NEW v \in {0, 1},
         ContextOf(q) = Seen(at, r), ContextOf(q)' = Seen(at, v), InCall(q), ~InCall(q)'
  PROVE  Users!Answer(q)
<1>1. /\ Ctx' = [Ctx EXCEPT ![q] = Seen(at, v)] /\ Ctx[q] = ContextOf(q)
      /\ Calls' = Calls \ {q} /\ q \in Calls
  BY OneSees
<1>2. Seen(at, v) = [Seen(at, r) EXCEPT !.regs = v]
  BY DEF Seen
<1>3. Ctx' = [Ctx EXCEPT ![q].regs = v] /\ v \in Users!Value
  BY <1>1, <1>2 DEF Ctx, Users!Value
<1> QED BY <1>1, <1>3 DEF Users!Answer, Ctx, Calls

\* One that gives it a new program.
LEMMA SeesLoad ==
  ASSUME NEW q \in Task, \A t \in Task : t # q => SameView(t),
         InCall(q) \/ ContextOf(q) = NoContext, ContextOf(q)' = Seen(User(0), 0), ~InCall(q)'
  PROVE  Users!Load(q)
<1>1. /\ Ctx' = [Ctx EXCEPT ![q] = Seen(User(0), 0)] /\ Ctx[q] = ContextOf(q)
      /\ Calls' = Calls \ {q}
      /\ q \in Calls <=> InCall(q)
  BY OneSees
<1>2. Seen(User(0), 0) = Users!Fresh
  BY DEF Seen, User, Users!Fresh
<1> QED BY <1>1, <1>2 DEF Users!Load, Ctx, Calls

\* One that ends it.
LEMMA SeesLeave ==
  ASSUME NEW q \in Task, \A t \in Task : t # q => SameView(t),
         ContextOf(q) # NoContext, ContextOf(q)' = NoContext, ~InCall(q)'
  PROVE  Users!Leave(q)
<1>1. /\ Ctx' = [Ctx EXCEPT ![q] = NoContext] /\ Ctx[q] = ContextOf(q)
      /\ Calls' = Calls \ {q}
  BY OneSees
<1> QED BY <1>1 DEF Users!Leave, Ctx, Calls

\* Below an interrupt of the kernel there is nothing of a program's.
LEMMA InterruptedHarmless ==
  ASSUME NEW p \in Proc, NEW s, NEW t, NEW n \in Nat, Interrupted(p, s, t, n)
  PROVE  \A k \in 1 .. n : Harmless(s[k])
<1>1. n - 1 \in Nat /\ \E l : Open(p, s, t, n - 1, l)
  BY DEF Interrupted, Resumes
<1>2. Plain(s, n - 1)
  BY <1>1, OpenIsPlain
<1>3. Harmless(s[n])
  BY HarmlessItems DEF Interrupted
<1> QED BY <1>2, <1>3 DEF Plain, Harmless

\* What a user program in the kernel is at most.
LEMMA TaskInKernel ==
  ASSUME IInv, NEW l \in {"trap", "trapend", "syscall", "do_exit", "repeat", "trapret"}, At(l),
         NEW q, q = current
  PROVE  ~Running(q) /\ Alive(q)
<1>1. mode = "S" /\ pc = K(l)
  BY DEF At
<1>2. state[q] # "none" /\ state[q] # "zombie"
  BY <1>1 DEF IInv, FamilyOK, K
<1> QED BY <1>1, <1>2 DEF Running, Alive, K

\* The end of trap(), which is the end of the call.
LEMMA TrapEndsUnseen == ASSUME IInv, IInv', TrapEnds PROVE Stutters
<1> DEFINE s == stack[current]
           n == Len(s)
           s2 == stack'[current]
<1>1. At("trapend") /\ pc = K("trapend") /\ mode = "S" /\ UNCHANGED <<current, state>>
  BY DEF TrapEnds, At, family
<1>2. /\ sp = <<current, n>> /\ s \in Seq(Items) /\ n \in Nat /\ Top = s[n] /\ current \in Proc
      /\ Suits(current, s, tf[current], n, "trapend")
  BY <1>1, InKernel
<1>3. \/ n = 2 /\ s[1] \in UFrames /\ s[2] \in UTraps
      \/ n >= 2 /\ s[n] \in KTraps /\ Interrupted(current, s, tf[current], n - 1)
  BY <1>2 DEF Suits, Bottom, OwnPlaces, InitCode
<1>4. /\ \A q \in Proc \ {current} : stack'[q] = stack[q]
      /\ Len(s2) \in {n - 1, n} /\ \A k \in 1 .. n - 1 : s2[k] = s[k]
      /\ Len(s2) = n => s2[n].kind = "schedule"
      /\ mode' = "S" /\ pc' \in {K("trapret"), K("schedule")}
  <2>1. CASE MustYield
    <3> DEFINE e == SchedFrame("trapret")
    <3>1. stack' = [stack EXCEPT ![current] = [s EXCEPT ![n] = e]] /\ Goto("schedule")
      BY <1>2, <2>1 DEF TrapEnds
    <3>2. e \in Items /\ e.kind = "schedule" /\ n \in 1 .. Len(s)
      BY <1>2, <1>3, SchedFrames
    <3> HIDE DEF e
    <3>3. /\ \A q \in Proc \ {current} : stack'[q] = stack[q]
          /\ Len(s2) = n /\ s2[n] = e /\ \A k \in 1 .. n : k # n => s2[k] = s[k]
      BY <3>1, <3>2, StoreStep
    <3> HIDE DEF s, s2
    <3>4. \A k \in 1 .. n - 1 : s2[k] = s[k]
      BY <1>2, <3>3
    <3> QED BY <1>1, <1>2, <3>1, <3>2, <3>3, <3>4 DEF Goto
  <2>2. CASE ~MustYield
    <3>1. Pop /\ Goto("trapret")
      BY <2>2 DEF TrapEnds
    <3>2. /\ \A q \in Proc \ {current} : stack'[q] = stack[q]
          /\ Len(s2) = n - 1 /\ \A k \in 1 .. n - 1 : s2[k] = s[k]
      <4>1. Len(stack[current]) >= 1 /\ current' = current
        BY <1>1, <1>2, <1>3
      <4> QED BY <1>2, <3>1, <4>1, PopStep
    <3> QED BY <1>1, <1>2, <3>1, <3>2 DEF Goto
  <2> QED BY <2>1, <2>2
<1>5. \A t \in Task : Alive(t)' <=> Alive(t)
  BY <1>1, SameAlive
<1>6. \A t \in Task : t # current => SameView(t)
  BY <1>1, <1>4, <1>5, OthersUnseen, Processes
<1>7. ASSUME NEW q \in Task, q = current PROVE SameView(q)
  <2>1. ~Running(q) /\ ~Running(q)' /\ ~InCall(q)
    BY <1>1, <1>4, <1>7, Trapend DEF Running, AtTrapsEnd, K
  <2>2. s2 \in Seq(Items) /\ DOMAIN s = 1 .. n /\ DOMAIN s2 = 1 .. Len(s2) /\ Len(s2) \in Nat
    BY <1>2 DEF IInv, Types
  <2> HIDE DEF s, s2
  <2>3. CASE n = 2 /\ s[1] \in UFrames /\ s[2] \in UTraps
    <3>1. s[1].kind = "frame" /\ ~s[1].spp /\ s[2].kind = "trap" /\ s2[1] = s[1]
      BY <1>4, <2>3, Kinds
    <3>2. Frames(s) = {1}
      <4>1. \A k \in 1 .. 2 : k = 1 \/ k = 2
        OBVIOUS
      <4> QED BY <2>2, <2>3, <3>1, <4>1 DEF Frames
    <3>3. Frames(s2) = {1}
      <4>3. Len(s2) = 1 \/ Len(s2) = 2
        BY <1>4, <2>3
      <4>4. \A m \in {1, 2} : \A k \in 1 .. m : k = 1 \/ (k = 2 /\ m = 2)
        OBVIOUS
      <4>1. \A k \in 1 .. Len(s2) : k = 1 \/ (k = 2 /\ Len(s2) = n)
        <5>1. n = 2 /\ Len(s2) \in {1, 2}
          BY <2>3, <4>3
        <5> HIDE DEF n
        <5> QED BY <4>4, <5>1
      <4>2. 1 \in 1 .. Len(s2)
        BY <1>4, <2>3
      <4> QED BY <1>4, <2>2, <2>3, <3>1, <4>1, <4>2 DEF Frames
    <3>4. ~Called(s2, 1)
      BY <1>4, <2>3 DEF Called
    <3>5. ~InCall(q)'
      BY <1>7, <3>3, <3>4, InFrameNext DEF View, s2
    <3> QED BY <1>5, <1>7, <2>1, <3>1, <3>2, <3>3, <3>5, FrameKept DEF s, s2
  <2>4. CASE n >= 2 /\ s[n] \in KTraps /\ Interrupted(current, s, tf[current], n - 1)
    <3>1. n - 1 \in Nat /\ \A k \in 1 .. n - 1 : Harmless(s[k])
      BY <1>2, <2>4, InterruptedHarmless
    <3>2. s[n].kind = "trap" /\ \A k \in 1 .. n : k = n \/ k \in 1 .. n - 1
      BY <1>2, <2>4, Kinds
    <3>3. Frames(s) = {}
      BY <2>2, <3>1, <3>2 DEF Frames, Harmless
    <3>4. \A k \in 1 .. Len(s2) : (k = n /\ Len(s2) = n) \/ k \in 1 .. n - 1
      BY <1>2, <1>4
    <3>5. Frames(s2) = {}
      BY <1>4, <2>2, <3>1, <3>4 DEF Frames, Harmless
    <3>6. ~InCall(q)'
      BY <1>7, <3>5, InFrameNext DEF View, s2
    <3> QED BY <1>5, <1>7, <2>1, <3>3, <3>5, <3>6, FrameKept DEF s, s2
  <2> QED BY <1>3, <2>3, <2>4
<1> QED BY <1>6, <1>7, AllUnseen

\* An instruction of a user program: it computes, or traps.
LEMMA UserStepSeen == ASSUME IInv, IInv', UserStep PROVE Stutters \/ Users!Next
<1>1. mode = "U"
  BY DEF UserStep
<1>2. CASE \E cause \in {"ecall", "fault", "misaligned", "other"} : TakeTrap(cause)
  BY <1>1, <1>2, TakeTrapUnseen
<1>3. CASE pc' = After(pc) /\ regs' = pc[2] /\ UNCHANGED <<mode, sp, csr, clock, procs, stack>>
  <2>1. UNCHANGED <<mode, current, state, stack>>
    BY <1>3 DEF procs, family
  <2>2. \A t \in Task : Alive(t)' <=> Alive(t)
    BY <2>1, SameAlive
  <2>3. \A t \in Task : t # current => SameView(t)
    BY <2>1, <2>2, OthersUnseen
  <2>4. current \in Task /\ stack[current] = <<>> /\ pc \in UserPlace /\ regs \in Registers
        /\ state[current] # "zombie" /\ state[current] # "none" /\ pc[1] = "user"
    BY <1>1, Typed DEF IInv, HartOK, OnUserSide, FamilyOK, UserPlace, User, K
  <2>5. PICK q \in Task : q = current
    BY <2>4
  <2>6. Running(q) /\ Running(q)' /\ Alive(q) /\ Alive(q)' /\ Frames(stack[q]) = {} /\ Frames(stack'[q]) = {}
    BY <1>1, <2>1, <2>2, <2>4, <2>5 DEF Running, Alive, Frames
  <2>7. ContextOf(q) = Seen(pc, regs) /\ ContextOf(q)' = Seen(After(pc), pc[2])
    BY <1>1, <1>3, <2>1, <2>6, InFrame, InFrameNext DEF View
  <2>8. ~InCall(q) /\ ~InCall(q)'
    BY <2>6, InFrame, InFrameNext DEF View
  <2>9. Users!Compute(q)
    BY <2>3, <2>4, <2>5, <2>7, <2>8, SeesCompute
  <2> QED BY <2>9 DEF Users!Next
<1> QED BY <1>2, <1>3 DEF UserStep

\* trap() on its way to the handler: a program that called is in its call from now on.
LEMMA DispatchSeen ==
  ASSUME IInv, IInv', At("trap"), NEW base \in Seq(Items), Len(base) = Len(stack[current]),
         NEW f \in IF Top.spp THEN KFrames ELSE UFrames, base[Len(base)] = f,
         \A k \in 1 .. Len(base) - 1 : base[k] = stack[current][k],
         stack' = [stack EXCEPT ![sp[1]] = Append(base, TrapFrame)],
         tf' = [tf EXCEPT ![current] = sp], sp' = <<sp[1], sp[2] + 1>>,
         UNCHANGED <<current, state>>, NEW l \in {"trapend", "syscall", "do_exit", "monitor"},
         Goto(l),
         ~Top.spp => \/ f = Top /\ (Top.cause # "ecall" \/ l = "trapend")
                     \/ /\ Top.cause = "ecall" /\ f.cause = "ecall" /\ l = "syscall"
                        /\ f.regs = Top.regs /\ f.epc = After(Top.epc)
  PROVE  Stutters \/ Users!Next
<1> DEFINE s == stack[current]
           n == Len(s)
           s2 == stack'[current]
<1>1. /\ Len(s2) = n + 1 /\ s2[n] = f /\ s2[n + 1].kind = "trap"
      /\ \A k \in 1 .. n - 1 : s2[k] = s[k]
      /\ \A q \in Proc \ {current} : stack'[q] = stack[q]
  <2>1. /\ Len(s2) = n + 1 /\ s2[n] = base[n] /\ s2[n + 1] = TrapFrame
        /\ \A k \in 1 .. n - 1 : s2[k] = s[k]
        /\ \A q \in Proc \ {current} : stack'[q] = stack[q]
    BY TrapPushed
  <2>2. TrapFrame.kind = "trap"
    BY DEF TrapFrame
  <2> QED BY <2>1, <2>2
<1>2. /\ n >= 1 /\ Top = s[n] /\ current \in Proc /\ s \in Seq(Items) /\ n \in Nat
      /\ Top.spp => Interrupted(current, s, tf[current], n)
      /\ ~Top.spp => current \in Task /\ n = 1 /\ Top \in UFrames
      /\ DOMAIN s = 1 .. n
  BY AtTrap, InKernel
<1>3. DOMAIN s2 = 1 .. n + 1
  <2>1. s2 \in Seq(Items)
    BY <1>2 DEF IInv, Types
  <2> QED BY <1>1, <2>1
<1>4. \A t \in Task : Alive(t)' <=> Alive(t)
  BY SameAlive
<1>5. \A t \in Task : t # current => SameView(t)
  BY <1>1, <1>4, OthersUnseen, Processes
<1>6. ASSUME NEW q \in Task, q = current
      PROVE  ~Running(q) /\ ~Running(q)' /\ Alive(q) /\ Alive(q)'
  <2>1. ~Running(q) /\ Alive(q)
    BY <1>6, TaskInKernel
  <2>2. ~Running(q)'
    BY <1>6 DEF Running, Goto, K, At
  <2> QED BY <1>4, <2>1, <2>2
<1>7. CASE Top.spp
  <2>1. \A k \in 1 .. n : Harmless(s[k])
    BY <1>2, <1>7, InterruptedHarmless
  <2>2. Frames(s) = {}
    BY <1>2, <2>1 DEF Frames, Harmless
  <2>3. Harmless(f)
    BY <1>7, HarmlessItems
  <2>4. \A k \in 1 .. n + 1 : k \in 1 .. n - 1 \/ k = n \/ k = n + 1
    BY <1>2
  <2> HIDE DEF s, s2, n
  <2>5. Frames(s2) = {}
    BY <1>1, <1>2, <1>3, <2>1, <2>3, <2>4 DEF Frames, Harmless
  <2>6. ASSUME NEW q \in Task, q = current PROVE SameView(q)
    <3>1. ~InCall(q) /\ ~InCall(q)'
      BY <2>2, <2>5, <2>6, InFrame, InFrameNext DEF View, s, s2
    <3> QED BY <1>6, <2>2, <2>5, <2>6, <3>1, FrameKept DEF s, s2
  <2> QED BY <1>5, <2>6, AllUnseen
<1>8. CASE ~Top.spp
  <2>1. PICK q \in Task : q = current
    BY <1>2, <1>8
  <2> HIDE DEF s, s2
  <2>2. Top.kind = "frame" /\ f.kind = "frame" /\ ~f.spp /\ s[1] = Top /\ s2[1] = f
        /\ s2[2].kind = "trap" /\ Len(s) = 1 /\ Len(s2) = 2
    <3>1. n = 1
      BY <1>2, <1>8, Zenon
    <3>2. n + 1 = 2
      BY <3>1
    <3> QED BY <1>1, <1>2, <1>8, <3>1, <3>2, Kinds
  <2>3. Frames(s) = {1}
    BY <1>2, <1>8, <2>2, LoneFrame
  <2>4. Frames(s2) = {1}
    <3>1. DOMAIN s2 = 1 .. 2 /\ \A k \in 1 .. 2 : k = 1 \/ k = 2
      BY <1>2, <1>3, <1>8
    <3> QED BY <2>2, <3>1 DEF Frames
  <2>5. ~Called(s, 1) /\ Called(s2, 1)
    BY <2>2 DEF Called
  <2>6. SeesFrame(q, 1) /\ SeesFrame(q, 1)'
    BY <1>6, <2>1, <2>3, <2>4, OneFrame, OneFrameNext DEF s, s2
  <2>7. /\ ContextOf(q) = Seen(Top.epc, Top.regs) /\ ~InCall(q)
        /\ ContextOf(q)' = Seen(f.epc, f.regs)
        /\ InCall(q)' <=> ~AtTrapsEnd(q)' /\ f.cause = "ecall"
    BY <2>1, <2>2, <2>5, <2>6 DEF SeesFrame, s, s2
  <2>8. AtTrapsEnd(q)' <=> l = "trapend"
    BY <2>1 DEF AtTrapsEnd, Goto, K
  <2>9. CASE f = Top /\ (Top.cause # "ecall" \/ l = "trapend")
    <3>1. SameView(q)
      BY <2>7, <2>8, <2>9 DEF SameView
    <3> QED BY <1>5, <2>1, <3>1, AllUnseen
  <2>10. CASE /\ Top.cause = "ecall" /\ f.cause = "ecall" /\ l = "syscall"
              /\ f.regs = Top.regs /\ f.epc = After(Top.epc)
    <3>1. Top.epc \in UserPlace /\ Top.regs \in Registers
      BY <1>2, <1>8 DEF UFrames
    <3>2. Users!Call(q)
      BY <1>5, <2>1, <2>7, <2>8, <2>10, <3>1, SeesCall
    <3> QED BY <3>2 DEF Users!Next
  <2> QED BY <1>8, <2>9, <2>10
<1> QED BY <1>7, <1>8

\* The timer, faults and calls: a program sees the call begin and nothing of the others.
LEMMA DispatchTimerSeen == ASSUME IInv, IInv', DispatchTimer PROVE Stutters \/ Users!Next
<1>1. /\ At("trap") /\ tf' = [tf EXCEPT ![current] = sp] /\ sp' = <<sp[1], sp[2] + 1>>
      /\ Goto("trapend") /\ UNCHANGED <<current, state>>
      /\ stack' = [stack EXCEPT ![sp[1]] = Append(stack[sp[1]], TrapFrame)]
  BY InKernel DEF DispatchTimer, Dispatch, family, IInv, Types
<1>2. /\ sp = <<current, Len(stack[current])>> /\ stack[current] \in Seq(Items)
      /\ Top = stack[current][Len(stack[current])]
      /\ Top \in IF Top.spp THEN KFrames ELSE UFrames
  BY <1>1, InKernel, AtTrap
<1>3. stack' = [stack EXCEPT ![sp[1]] = Append(stack[current], TrapFrame)]
  BY <1>1, <1>2
<1> QED BY <1>1, <1>2, <1>3, DispatchSeen

\* exception_handler at a page fault, or an exception it only prints.
LEMMA DispatchFaultSeen == ASSUME IInv, IInv', DispatchFault PROVE Stutters \/ Users!Next
<1>1. /\ At("trap") /\ tf' = [tf EXCEPT ![current] = sp] /\ sp' = <<sp[1], sp[2] + 1>>
      /\ UNCHANGED <<current, state>> /\ Top.cause \in {"fault", "misaligned", "other"}
      /\ stack' = [stack EXCEPT ![sp[1]] = Append(stack[sp[1]], TrapFrame)]
  BY InKernel DEF DispatchFault, Dispatch, clock, family, IInv, Types
<1>2. /\ sp = <<current, Len(stack[current])>> /\ stack[current] \in Seq(Items)
      /\ Top = stack[current][Len(stack[current])]
      /\ Top \in IF Top.spp THEN KFrames ELSE UFrames
  BY <1>1, InKernel, AtTrap
<1>3. stack' = [stack EXCEPT ![sp[1]] = Append(stack[current], TrapFrame)]
  BY <1>1, <1>2
<1>4. PICK l \in {"trapend", "do_exit", "monitor"} : Goto(l)
  BY <1>1 DEF DispatchFault
<1> QED BY <1>1, <1>2, <1>3, <1>4, DispatchSeen

\* exception_handler at an ecall moves the epc on.
LEMMA DispatchCallSeen == ASSUME IInv, IInv', DispatchCall PROVE Stutters \/ Users!Next
<1> DEFINE s == stack[current]
           n == Len(s)
           f == [Top EXCEPT !.epc = After(Top.epc)]
           base == [s EXCEPT ![n] = f]
<1>1. /\ At("trap") /\ tf' = [tf EXCEPT ![current] = sp] /\ sp' = <<sp[1], sp[2] + 1>>
      /\ UNCHANGED <<current, state>> /\ Top.cause \in {"ecall", "ebreak"} /\ Goto("syscall")
  BY DEF DispatchCall, Dispatch, clock, family
<1>2. /\ sp = <<current, n>> /\ s \in Seq(Items) /\ Top = s[n] /\ current \in Proc /\ n >= 1
      /\ n \in Nat
  BY <1>1, InKernel, AtTrap
<1>3. stack' = [stack EXCEPT ![sp[1]] = Append(base, TrapFrame)]
  BY <1>2 DEF DispatchCall, Top
<1>4. /\ f \in IF Top.spp THEN KFrames ELSE UFrames
      /\ ~Top.spp => /\ Top.cause = "ecall" /\ f.cause = "ecall"
                     /\ f.regs = Top.regs /\ f.epc = After(Top.epc)
  <2>1. CASE Top.spp
    <3>1. Top \in KFrames /\ Top.cause = "ebreak" /\ Top.epc = K("user_main")
      BY <1>1, <2>1, AtTrap
    <3>2. f \in KFrames
      BY <3>1, AfterIsPlace DEF KFrames
    <3> QED BY <2>1, <3>2
  <2>2. CASE ~Top.spp
    <3>1. Top \in UFrames /\ Top.cause \in UserCauses
      BY <1>1, <2>2, AtTrap
    <3>2. f \in UFrames
      BY <3>1, AfterIsPlace DEF UFrames
    <3>3. f.cause = Top.cause /\ f.regs = Top.regs /\ f.epc = After(Top.epc)
      BY <3>1 DEF UFrames
    <3>4. Top.cause = "ecall"
      BY <1>1, <3>1 DEF UserCauses
    <3> QED BY <2>2, <3>2, <3>3, <3>4
  <2> QED BY <2>1, <2>2
<1>5. f \in Items
  BY <1>4 DEF Items
<1> HIDE DEF f
<1>6. /\ base \in Seq(Items) /\ Len(base) = n /\ base[n] = f
      /\ \A k \in 1 .. n : k # n => base[k] = s[k]
  <2>1. s \in Seq(Items) /\ n \in 1 .. Len(s)
    BY <1>2
  <2> HIDE DEF s
  <2> QED BY <1>5, <2>1, Stored
<1>7. \A k \in 1 .. n - 1 : base[k] = s[k]
  BY <1>2, <1>6
<1> HIDE DEF base
<1> QED BY <1>1, <1>3, <1>4, <1>6, <1>7, DispatchSeen

-----------------------------------------------------------------------------
(* Calls: the answer, a fork, a new program, and the end.                  *)

\* The stack of a program that is in the kernel for a call.
LEMMA CallerFrames ==
  ASSUME NEW s \in Seq(Items), Len(s) >= 2, s[1] \in UFrames, s[2] \in UTraps,
         \A k \in 3 .. Len(s) : Harmless(s[k])
  PROVE  Frames(s) = {1} /\ Called(s, 1)
<1>1. s[1].kind = "frame" /\ ~s[1].spp /\ s[2].kind = "trap"
  BY Kinds
<1>2. DOMAIN s = 1 .. Len(s) /\ Len(s) \in Nat
  OBVIOUS
<1>3. \A k \in 1 .. Len(s) : k = 1 \/ k = 2 \/ k \in 3 .. Len(s)
  BY <1>2
<1>4. 1 \in 1 .. Len(s)
  BY <1>2
<1>5. Called(s, 1)
  BY <1>1, <1>2 DEF Called
<1> QED BY <1>1, <1>2, <1>3, <1>4, <1>5 DEF Frames, Harmless

\* A program that is in the kernel, before and after a step of its own.
InItsFrame(q, f) ==
  /\ q \in Task /\ f \in UFrames /\ Alive(q) /\ ~Running(q)
  /\ stack[q][1] = f /\ Frames(stack[q]) = {1} /\ Called(stack[q], 1)

\* It is what its frame says, and in a call if the frame is one of an ecall.
LEMMA SeenInFrame ==
  ASSUME NEW q, NEW f, InItsFrame(q, f)
  PROVE  /\ ContextOf(q) = Seen(f.epc, f.regs) /\ f.epc \in UserPlace /\ f.regs \in Registers
         /\ InCall(q) <=> ~AtTrapsEnd(q) /\ f.cause = "ecall"
BY OneFrame DEF SeesFrame, InItsFrame, UFrames

\* The same after a step.
LEMMA SeenInFrameNext ==
  ASSUME NEW q, NEW f, InItsFrame(q, f)'
  PROVE  /\ ContextOf(q)' = Seen(f.epc, f.regs) /\ f.epc \in UserPlace /\ f.regs \in Registers
         /\ InCall(q)' <=> ~AtTrapsEnd(q)' /\ f.cause = "ecall"
BY OneFrameNext DEF SeesFrame, InItsFrame, UFrames

\* A call is answered by a store to a0 in the frame, on the way to the end of trap().
LEMMA AnswerSeen ==
  ASSUME NEW q, NEW f, NEW v \in {0, 1}, InItsFrame(q, f), f.cause = "ecall", ~AtTrapsEnd(q),
         NEW g, g = [f EXCEPT !.regs = v], InItsFrame(q, g)', AtTrapsEnd(q)',
         \A t \in Task : t # q => SameView(t)
  PROVE  Users!Next
<1>1. g.epc = f.epc /\ g.regs = v /\ q \in Task
  BY DEF InItsFrame, UFrames
<1>2. Users!Answer(q)
  BY <1>1, SeenInFrame, SeenInFrameNext, SeesAnswer
<1> QED BY <1>1, <1>2 DEF Users!Next

\* The caller of a system call.
LEMMA TheCaller ==
  ASSUME IInv, CalledIn("ecall")
  PROVE  \E q \in Task, f \in UFrames :
            /\ q = current /\ f = stack[current][1] /\ f.cause = "ecall" /\ TheFrame = f
            /\ InItsFrame(q, f) /\ ~AtTrapsEnd(q)
<1>1. /\ current \in Task /\ Len(stack[current]) = 2 /\ stack[current][1] \in UFrames
      /\ stack[current][2] \in UTraps /\ TheFrame = stack[current][1] /\ state[current] = "runnable"
      /\ stack[current] \in Seq(Items)
  BY AtSyscall, Typed
<1>2. /\ mode = "S" /\ pc = K("syscall") /\ TheFrame.cause = "ecall"
  BY DEF CalledIn, At
<1>3. PICK q \in Task, f \in UFrames : q = current /\ f = stack[current][1]
  BY <1>1
<1>4. Frames(stack[q]) = {1} /\ Called(stack[q], 1)
  <2>1. \A k \in 3 .. Len(stack[current]) : Harmless(stack[current][k])
    BY <1>1
  <2> QED BY <1>1, <1>3, <2>1, CallerFrames
<1>5. ~Running(q) /\ ~AtTrapsEnd(q) /\ Alive(q)
  BY <1>1, <1>2, <1>3 DEF Running, AtTrapsEnd, Alive, K
<1> QED BY <1>1, <1>2, <1>3, <1>4, <1>5 DEF InItsFrame

\* A caller whose frame is another one after the step.
LEMMA CallerAfter ==
  ASSUME IInv, IInv', CalledIn("ecall"), NEW q, q = current, current' = current,
         state'[q] = state[q], NEW g \in UFrames,
         stack'[q] = [stack[current] EXCEPT ![1] = g], Goto("trapend")
  PROVE  InItsFrame(q, g)' /\ AtTrapsEnd(q)'
<1>1. /\ current \in Task /\ Len(stack[current]) = 2 /\ stack[current][2] \in UTraps
      /\ state[current] = "runnable" /\ stack[current] \in Seq(Items) /\ mode = "S"
  BY AtSyscall, Typed
<1> DEFINE s2 == stack'[q]
<1>2. s2 \in Seq(Items) /\ Len(s2) = 2 /\ s2[1] = g /\ s2[2] = stack[current][2]
  <2>1. stack[current][2] = stack[current][2] /\ g \in Items
    BY DEF Items
  <2>2. PICK s \in Seq(Items) : s = stack[current]
    BY <1>1
  <2>3. s2 = [s EXCEPT ![1] = g] /\ Len(s) = 2
    BY <1>1, <2>2
  <2>4. s2 \in Seq(Items) /\ Len(s2) = 2 /\ s2[1] = g /\ s2[2] = s[2]
    <3> HIDE DEF s2
    <3>1. PICK j \in 1 .. Len(s) : j = 1
      BY <2>3
    <3>2. s2 = [s EXCEPT ![j] = g]
      BY <2>3, <3>1
    <3>3. /\ s2 \in Seq(Items) /\ Len(s2) = Len(s) /\ s2[j] = g
          /\ \A k \in 1 .. Len(s) : k # j => s2[k] = s[k]
      BY <2>1, <3>2, Stored
    <3> QED BY <2>3, <3>1, <3>3
  <2> QED BY <2>2, <2>4
<1>3. Frames(s2) = {1} /\ Called(s2, 1)
  <2>1. \A k \in 3 .. Len(s2) : Harmless(s2[k])
    BY <1>2
  <2>2. s2[1] \in UFrames /\ s2[2] \in UTraps /\ Len(s2) >= 2
    BY <1>1, <1>2
  <2> QED BY <1>2, <2>1, <2>2, CallerFrames
<1>4. ~Running(q)' /\ AtTrapsEnd(q)' /\ Alive(q)'
  <2>1. mode' = "S" /\ pc' = K("trapend")
    BY <1>1 DEF Goto
  <2> QED BY <1>1, <2>1 DEF Running, AtTrapsEnd, Alive, K
<1> QED BY <1>1, <1>2, <1>3, <1>4 DEF InItsFrame

\* getpid and the like, and do_yield.
LEMMA AnsweredSeen ==
  ASSUME IInv, IInv', CalledIn("ecall"), NEW v \in {0, 1}, stack' = WithAnswer(v), Goto("trapend"),
         UNCHANGED <<current, state>>
  PROVE  Users!Next
<1>1. PICK q \in Task, f \in UFrames :
         /\ q = current /\ f = stack[current][1] /\ f.cause = "ecall"
         /\ InItsFrame(q, f) /\ ~AtTrapsEnd(q)
  BY TheCaller
<1>2. PICK g : g = [f EXCEPT !.regs = v]
  OBVIOUS
<1>3. g \in UFrames /\ stack' = [stack EXCEPT ![current] = [stack[current] EXCEPT ![1] = g]]
  <2>1. PICK st : st = stack'
    OBVIOUS
  <2> QED BY <1>1, <1>2, AnswerStep
<1>4. /\ stack'[q] = [stack[current] EXCEPT ![1] = g]
      /\ \A t \in Task : t # current => stack'[t] = stack[t]
  BY <1>1, <1>3, Typed, Processes
<1>5. \A t \in Task : t # q => SameView(t)
  BY <1>1, <1>4, SameAlive, OthersUnseen
<1>6. InItsFrame(q, g)' /\ AtTrapsEnd(q)'
  BY <1>1, <1>3, <1>4, CallerAfter
<1> QED BY <1>1, <1>2, <1>5, <1>6, AnswerSeen

\* getpid, putc, pgdir, and calls that are refused.
LEMMA SysSimpleSeen == ASSUME IInv, IInv', SysSimple PROVE Users!Next
<1>1. /\ CalledIn("ecall") /\ Goto("trapend") /\ UNCHANGED <<current, state>>
  BY DEF SysSimple, procs, family
<1>2. PICK v \in {0, 1} : stack' = WithAnswer(v)
  BY DEF SysSimple
<1> QED BY <1>1, <1>2, AnsweredSeen

\* yield.
LEMMA SysYieldSeen == ASSUME IInv, IInv', SysYield PROVE Users!Next
<1>1. /\ CalledIn("ecall") /\ Goto("trapend") /\ UNCHANGED <<current, state>> /\ stack' = WithAnswer(0)
  BY DEF SysYield, family
<1> QED BY <1>1, AnsweredSeen

\* A step of q that gives c a copy of its context, with 0 for an answer.
LEMMA SeesFork ==
  ASSUME NEW q \in Task, NEW c \in Task \ {q}, \A t \in Task \ {q, c} : SameView(t),
         NEW at \in UserPlace, NEW r \in Registers, NEW v \in {0, 1},
         ContextOf(q) = Seen(at, r), ContextOf(q)' = Seen(at, v), InCall(q), ~InCall(q)',
         ContextOf(c) = NoContext, ContextOf(c)' = Seen(at, 0), ~InCall(c), ~InCall(c)'
  PROVE  Users!Fork(q)
<1>1. Calls' = Calls \ {q} /\ q \in Calls
  BY DEF Calls, SameView
<1>2. Ctx' = [[Ctx EXCEPT ![c] = Seen(at, 0)] EXCEPT ![q] = Seen(at, v)]
  BY DEF Ctx, SameView
<1>3. Seen(at, v) = [Seen(at, r) EXCEPT !.regs = v] /\ Seen(at, 0) = [Seen(at, r) EXCEPT !.regs = 0]
  BY DEF Seen
<1>4. Ctx[q] = Seen(at, r) /\ Ctx[c] = NoContext
  BY DEF Ctx
<1>5. Ctx' = [Ctx EXCEPT ![c] = [Ctx[q] EXCEPT !.regs = 0], ![q].regs = v]
  <2>1. DOMAIN Ctx = Task
    BY DEF Ctx
  <2>2. [Ctx EXCEPT ![c] = [Ctx[q] EXCEPT !.regs = 0], ![q].regs = v]
          = [[Ctx EXCEPT ![c] = Seen(at, 0)] EXCEPT ![q] = Seen(at, v)]
    BY <1>3, <1>4, <2>1
  <2> QED BY <1>2, <2>2
<1>6. v \in Users!Value
  BY DEF Users!Value
<1> QED BY <1>1, <1>4, <1>5, <1>6 DEF Users!Fork, Ctx, Calls

\* do_fork and copy_thread: the child's frame is the parent's, with a0 0.
LEMMA SysForkSeen == ASSUME IInv, IInv', SysFork PROVE Users!Next
<1>1. /\ CalledIn("ecall") /\ Goto("trapend")
  BY DEF SysFork
<1>2. PICK child \in Task :
        /\ do_fork(child)
        /\ stack' = [WithAnswer(1) EXCEPT ![child] = <<Copied(child, TheFrame, TheFrame.sp)>>]
  BY DEF SysFork
<1>3. PICK q \in Task, f \in UFrames :
         /\ q = current /\ f = stack[current][1] /\ f.cause = "ecall" /\ TheFrame = f
         /\ InItsFrame(q, f) /\ ~AtTrapsEnd(q)
  BY <1>1, TheCaller
<1>4. /\ state[child] = "none" /\ current' = current /\ child # q /\ child \in Proc
      /\ state' = [state EXCEPT ![child] = "runnable"]
  BY <1>2, <1>3, Processes DEF do_fork, InItsFrame, Alive
<1>5. PICK g : g = [f EXCEPT !.regs = 1]
  OBVIOUS
<1>6. PICK h : h = Copied(child, TheFrame, TheFrame.sp)
  OBVIOUS
<1>7. h = [f EXCEPT !.regs = 0] /\ h \in UFrames
  <2>1. f.sp = UserSp /\ 0 \in Registers
    BY TrapEntryAssumption DEF UFrames, Registers
  <2>2. h = [f EXCEPT !.regs = 0, !.sp = UserSp]
    BY <1>3, <1>6, <2>1 DEF Copied, UserSp, Zero
  <2>3. h = [f EXCEPT !.regs = 0]
    BY <2>1, <2>2 DEF UFrames
  <2> QED BY <2>1, <2>3 DEF UFrames
<1>8. g \in UFrames /\ WithAnswer(1) = [stack EXCEPT ![current] = [stack[current] EXCEPT ![1] = g]]
  BY <1>1, <1>3, <1>5, AnswerStep
<1>9. /\ stack'[q] = [stack[current] EXCEPT ![1] = g]
      /\ stack'[child] = <<h>>
      /\ \A t \in Task : t # current /\ t # child => stack'[t] = stack[t]
  BY <1>2, <1>3, <1>4, <1>6, <1>8, Typed, Processes
<1>10. /\ state'[q] = state[q] /\ state'[child] = "runnable"
       /\ \A t \in Task : t # child => (Alive(t)' <=> Alive(t))
  BY <1>3, <1>4, Typed, Processes DEF Alive
<1>11. \A t \in Task \ {q, child} : SameView(t)
  BY <1>3, <1>4, <1>9, <1>10, OthersUnseen
<1>12. InItsFrame(q, g)' /\ AtTrapsEnd(q)'
  BY <1>1, <1>3, <1>4, <1>8, <1>9, <1>10, CallerAfter
<1>13. ContextOf(child) = NoContext /\ ~InCall(child)
  BY <1>4, InFrame DEF View, Alive
<1>14. ContextOf(child)' = Seen(h.epc, h.regs) /\ ~InCall(child)'
  <2>1. PICK s2 : s2 = <<h>>
    OBVIOUS
  <2>2. DOMAIN s2 = 1 .. 1 /\ s2[1] = h /\ Len(s2) = 1
    BY <2>1
  <2>3. Frames(s2) = {1}
    <3>1. h.kind = "frame" /\ ~h.spp
      BY <1>7, Kinds
    <3> QED BY <2>2, <3>1, LoneFrame
  <2>4. ~Called(s2, 1)
    BY <2>2 DEF Called
  <2>5. Alive(child)' /\ ~Running(child)'
    BY <1>3, <1>4, <1>10 DEF Alive, Running
  <2>6. SeesFrame(child, 1)'
    BY <1>9, <2>1, <2>3, <2>5, OneFrameNext
  <2> QED BY <1>9, <2>1, <2>2, <2>4, <2>6 DEF SeesFrame
<1>15. g.epc = f.epc /\ g.regs = 1 /\ h.epc = f.epc /\ h.regs = 0
  BY <1>5, <1>7 DEF UFrames
<1>16. /\ ContextOf(q) = Seen(f.epc, f.regs) /\ f.epc \in UserPlace /\ f.regs \in Registers
       /\ InCall(q) /\ ContextOf(q)' = Seen(f.epc, 1) /\ ~InCall(q)'
  BY <1>3, <1>12, <1>15, SeenInFrame, SeenInFrameNext
<1>17. Users!Fork(q)
  BY <1>4, <1>11, <1>13, <1>14, <1>15, <1>16, SeesFork
<1> QED BY <1>17 DEF Users!Next

\* do_execve, for a call or for kernel_execve's breakpoint.
LEMMA SysExecSeen == ASSUME IInv, IInv', SysExec PROVE Stutters \/ Users!Next
<1>1. UNCHANGED <<current, state, tf>>
  BY DEF SysExec, procs, family
<1>2. PICK cause \in {"ecall", "ebreak"} : CalledIn(cause)
  BY DEF SysExec
<1>3. CASE Goto("do_exit") /\ UNCHANGED stack
  <2>1. At("syscall") /\ Quiet("syscall") /\ Quiet("do_exit")
    BY <1>2 DEF CalledIn, Quiet
  <2> QED BY <1>1, <1>3, <2>1, GotoUnseen
<1>4. CASE /\ stack' = [stack EXCEPT ![tf[current][1]][tf[current][2]] = UserFrame(@)]
           /\ Goto(IF TheFrame.cause = "ebreak" THEN "execve_ret" ELSE "trapend")
  <2>1. CASE cause = "ecall"
    <3>1. PICK q \in Task, f \in UFrames :
             /\ q = current /\ f = stack[current][1] /\ f.cause = "ecall" /\ TheFrame = f
             /\ InItsFrame(q, f) /\ ~AtTrapsEnd(q)
      BY <1>2, <2>1, TheCaller
    <3>2. PICK g : g = UserFrame(f)
      OBVIOUS
    <3>3. g \in UFrames /\ g.cause = "none" /\ g.epc = User(0) /\ g.regs = 0
      BY <3>2, UserFrameIs
    <3>4. tf[current] = <<current, 1>> /\ Goto("trapend")
      BY <1>2, <1>4, <2>1, <3>1, AtSyscall
    <3>5. stack' = [stack EXCEPT ![current] = [stack[current] EXCEPT ![1] = g]]
      BY <1>4, <3>1, <3>2, <3>4, Typed
    <3>6. /\ stack'[q] = [stack[current] EXCEPT ![1] = g]
          /\ \A t \in Task : t # current => stack'[t] = stack[t]
      BY <3>1, <3>5, Typed, Processes
    <3>7. \A t \in Task : t # q => SameView(t)
      BY <1>1, <3>1, <3>6, SameAlive, OthersUnseen
    <3>8. InItsFrame(q, g)' /\ AtTrapsEnd(q)'
      BY <1>1, <1>2, <2>1, <3>1, <3>3, <3>4, <3>6, CallerAfter
    <3>9. ContextOf(q)' = Seen(User(0), 0) /\ ~InCall(q)' /\ InCall(q)
      BY <3>1, <3>3, <3>8, SeenInFrame, SeenInFrameNext
    <3>10. Users!Load(q)
      BY <3>7, <3>9, SeesLoad
    <3> QED BY <3>10 DEF Users!Next
  <2>2. CASE cause = "ebreak"
    <3> DEFINE s == stack[current]
    <3>1. /\ TheFrame.cause = "ebreak" /\ tf[current] = <<current, 2>> /\ s[2] \in KFrames
          /\ s[1] \in KFrames /\ s[3] \in KTraps /\ Len(s) = 3 /\ current \in Task
          /\ s \in Seq(Items) /\ mode = "S" /\ state[current] = "runnable" /\ pc = K("syscall")
      BY <1>2, <2>2, AtSyscall, Typed DEF CalledIn, At
    <3>2. PICK g : g = UserFrame(s[2])
      OBVIOUS
    <3>3. g \in UFrames /\ g.cause = "none" /\ g.epc = User(0) /\ g.regs = 0
      BY <3>1, <3>2, UserFrameIs
    <3>4. stack' = [stack EXCEPT ![current] = [s EXCEPT ![2] = g]] /\ g \in Items
      BY <1>4, <3>1, <3>2, <3>3, Typed DEF Items
    <3>5. /\ \A p \in Proc \ {current} : stack'[p] = stack[p]
          /\ Len(stack'[current]) = 3 /\ stack'[current][2] = g
          /\ stack'[current][1] = s[1] /\ stack'[current][3] = s[3]
      <4>1. PICK j \in 1 .. Len(s) : j = 2
        BY <3>1
      <4>2. stack' = [stack EXCEPT ![current] = [s EXCEPT ![j] = g]]
        BY <3>4, <4>1
      <4>4. g \in Items
        BY <3>4
      <4>3. /\ \A p \in Proc \ {current} : stack'[p] = stack[p]
            /\ Len(stack'[current]) = Len(s) /\ stack'[current][j] = g
            /\ \A k \in 1 .. Len(s) : k # j => stack'[current][k] = s[k]
        BY <4>2, <4>4, StoreStep
      <4> QED BY <3>1, <4>1, <4>3
    <3>6. PICK q \in Task : q = current
      BY <3>1
    <3>7. \A t \in Task : t # q => SameView(t)
      BY <1>1, <3>5, <3>6, SameAlive, OthersUnseen, Processes
    <3>8. Goto("execve_ret")
      BY <1>4, <3>1
    <3>9. Alive(q) /\ Alive(q)' /\ ~Running(q) /\ ~Running(q)'
      BY <1>1, <3>1, <3>6, <3>8 DEF Alive, Running, Goto, K
    <3>10. \A k \in 1 .. 3 : k = 1 \/ k = 2 \/ k = 3
      OBVIOUS
    <3>11. s[1].spp /\ s[2].spp /\ s[3].kind = "trap" /\ g.kind = "frame" /\ ~g.spp
      BY <3>1, <3>3, Kinds
    <3>12. Frames(stack[q]) = {}
      <4>1. DOMAIN s = 1 .. 3
        BY <3>1
      <4> HIDE DEF s
      <4>2. Frames(s) = {}
        BY <3>10, <3>11, <4>1 DEF Frames
      <4> QED BY <3>6, <4>2 DEF s
    <3>13. Frames(stack'[q]) = {2}
      <4>1. PICK s2 \in Seq(Items) : s2 = stack'[q]
        BY <3>6, Processes DEF IInv, Types
      <4>2. DOMAIN s2 = 1 .. 3 /\ s2[1] = s[1] /\ s2[2] = g /\ s2[3] = s[3]
        BY <3>5, <3>6, <4>1
      <4>3. Frames(s2) = {2}
        <5> HIDE DEF s
        <5> QED BY <3>10, <3>11, <4>2 DEF Frames
      <4> QED BY <4>1, <4>3
    <3>14. ContextOf(q) = NoContext
      BY <3>9, <3>12, InFrame DEF View
    <3>15. ContextOf(q)' = Seen(User(0), 0) /\ ~InCall(q)'
      <4>1. SeesFrame(q, 2)'
        BY <3>9, <3>13, OneFrameNext
      <4>2. stack'[q][2] = g
        BY <3>5, <3>6
      <4> QED BY <3>3, <4>1, <4>2 DEF SeesFrame
    <3>16. Users!Load(q)
      BY <3>7, <3>14, <3>15, SeesLoad
    <3> QED BY <3>16 DEF Users!Next
  <2> QED BY <2>1, <2>2
<1> QED BY <1>3, <1>4 DEF SysExec

\* do_exit: the process's program is gone, if it had one.
LEMMA DoExitSeen ==
  ASSUME IInv, IInv', NEW l \in {"syscall", "do_exit", "init_end"}, At(l), DoExit
  PROVE  Stutters \/ Users!Next
<1> DEFINE s == stack[current]
           n == Len(s)
<1>1. /\ mode = "S" /\ pc = K(l) /\ sp = <<current, n>> /\ s \in Seq(Items) /\ current \in Proc
      /\ Bottom(current, s, tf[current], n, l) /\ n \in Nat /\ state[current] = "runnable"
  BY InKernel, OwnIsRunnable DEF Suits, OwnPlaces, InitCode
<1>2. CASE current = initproc
  <2>1. Goto("monitor") /\ UNCHANGED <<state, stack>>
    BY <1>2 DEF DoExit, Panic, procs, family
  <2>2. Quiet(l) /\ Quiet("monitor")
    BY DEF Quiet
  <2> QED BY <2>1, <2>2, GotoUnseen
<1>3. CASE current # initproc
  <2>1. /\ current' = current /\ Goto("schedule") /\ Push(SchedFrame("dead"))
        /\ state'[current] = "zombie"
        /\ \A t \in Proc : t # current => state'[t] = state[t] \/ (state'[t] = "runnable" /\ state[t] = "waiting")
    BY <1>1, <1>3 DEF DoExit, CallSchedule
  <2>2. \A t \in Proc \ {current} : stack'[t] = stack[t]
    BY <1>1, <2>1, SchedFrames, PushStep
  <2>3. ASSUME NEW t \in Task, t # current PROVE SameView(t)
    <3>1. stack'[t] = stack[t] /\ (Alive(t)' <=> Alive(t))
      BY <2>1, <2>2, <2>3, Processes DEF Alive
    <3> QED BY <2>1, <2>3, <3>1, OthersUnseen
  <2>4. /\ current \in Task
        /\ \/ n = 2 /\ s[1] \in UFrames /\ s[2] \in UTraps
           \/ n = 3 /\ s[1] \in KFrames /\ s[2] \in KFrames /\ s[3] \in KTraps
    BY <1>1, <1>3 DEF Bottom, InitCode
  <2>5. PICK q \in Task : q = current
    BY <2>4
  <2>6. Alive(q) /\ ~Running(q) /\ ~Alive(q)'
    BY <1>1, <2>1, <2>5 DEF Alive, Running, K
  <2>7. ContextOf(q)' = NoContext /\ ~InCall(q)'
    BY <2>6, InFrameNext DEF View
  <2>8. CASE n = 2 /\ s[1] \in UFrames /\ s[2] \in UTraps
    <3>1. PICK f \in UFrames : f = s[1]
      BY <2>8
    <3>2. Frames(s) = {1} /\ Called(s, 1)
      <4>1. \A k \in 3 .. Len(s) : Harmless(s[k])
        BY <2>8
      <4>2. s \in Seq(Items) /\ Len(s) >= 2 /\ s[1] \in UFrames /\ s[2] \in UTraps
        BY <1>1, <2>8
      <4> HIDE DEF s
      <4> QED BY <4>1, <4>2, CallerFrames
    <3>3. InItsFrame(q, f)
      BY <2>5, <2>6, <3>1, <3>2 DEF InItsFrame
    <3>4. ContextOf(q) # NoContext
      BY <3>3, SeenInFrame, SeenContext
    <3>5. Users!Leave(q)
      BY <2>3, <2>5, <2>7, <3>4, SeesLeave
    <3> QED BY <3>5 DEF Users!Next
  <2>9. CASE n = 3 /\ s[1] \in KFrames /\ s[2] \in KFrames /\ s[3] \in KTraps
    <3>1. Frames(s) = {}
      <4>1. \A k \in 1 .. 3 : k = 1 \/ k = 2 \/ k = 3
        OBVIOUS
      <4>2. s[1].spp /\ s[2].spp /\ s[3].kind = "trap" /\ DOMAIN s = 1 .. 3
        BY <1>1, <2>9, Kinds
      <4> HIDE DEF s
      <4> QED BY <4>1, <4>2 DEF Frames
    <3>2. ContextOf(q) = NoContext /\ ~InCall(q)
      BY <2>5, <2>6, <3>1, InFrame DEF View
    <3>3. SameView(q)
      BY <2>7, <3>2 DEF SameView
    <3> QED BY <2>3, <2>5, <3>3, AllUnseen
  <2> QED BY <2>4, <2>8, <2>9
<1> QED BY <1>2, <1>3

\* do_exit after a fault, or a failed exec.
LEMMA ExitCalledSeen == ASSUME IInv, IInv', ExitCalled PROVE Stutters \/ Users!Next
BY DoExitSeen DEF ExitCalled

\* exit.
LEMMA SysExitSeen == ASSUME IInv, IInv', SysExit PROVE Stutters \/ Users!Next
BY DoExitSeen DEF SysExit, CalledIn

\* The end of init_main, which panics.
LEMMA InitEndsSeen == ASSUME IInv, IInv', InitEnds PROVE Stutters \/ Users!Next
BY DoExitSeen DEF InitEnds

\* do_wait answers, and the process it reaped was seen no more.
LEMMA WaitReturnsSeen ==
  ASSUME IInv, IInv', At("repeat"), NEW v \in {0, 1}, NEW freed \in SUBSET (Task \ {current}),
         WaitReturns(v, freed), current' = current, tf'[current] = tf[current],
         state'[current] = state[current],
         \A t \in Task \ {current} : IF t \in freed THEN ~Alive(t) /\ ~Alive(t)'
                                     ELSE Alive(t)' <=> Alive(t)
  PROVE  Stutters \/ Users!Next
<1>1. /\ stack' \in [Proc -> Seq(Items)]
      /\ \A t \in Proc \ {current} : stack'[t] = IF t \in freed THEN <<>> ELSE stack[t]
      /\ current \in Task =>
           /\ Goto("trapend") /\ Len(stack'[current]) = 2
           /\ stack'[current][1] = [stack[current][1] EXCEPT !.regs = v]
           /\ stack'[current][2] = stack[current][2]
  BY WaitReturned
<1>2. ASSUME NEW t \in Task, t # current PROVE SameView(t)
  <2>1. CASE t \in freed
    BY <1>2, <2>1, InFrame, InFrameNext DEF View, SameView
  <2>2. CASE t \notin freed
    <3>1. stack'[t] = stack[t] /\ (Alive(t)' <=> Alive(t))
      BY <1>1, <1>2, <2>2, Processes
    <3> QED BY <1>2, <3>1, OthersUnseen
  <2> QED BY <2>1, <2>2
<1>3. CASE current \notin Task
  <2>1. \A t \in Task : SameView(t)
    BY <1>2, <1>3
  <2> QED BY <2>1, AllUnseen
<1>4. CASE current \in Task
  <2> DEFINE s == stack[current]
  <2>1. /\ mode = "S" /\ s \in Seq(Items) /\ Len(s) = 3 /\ s[3] \in DoWaits
        /\ s[1] \in UFrames /\ s[2] \in UTraps /\ s[1].cause = "ecall" /\ state[current] = "runnable"
        /\ pc = K("repeat")
    BY <1>4, AtWait, Processes DEF At
  <2>2. PICK q \in Task, f \in UFrames : q = current /\ f = s[1]
    BY <1>4, <2>1
  <2>3. InItsFrame(q, f) /\ ~AtTrapsEnd(q)
    <3>1. Frames(stack[q]) = {1} /\ Called(stack[q], 1)
      <4>1. \A k \in 3 .. Len(s) : k = 3
        BY <2>1
      <4>2. \A k \in 3 .. Len(s) : Harmless(s[k])
        BY <2>1, <4>1, HarmlessItems
      <4>3. s \in Seq(Items) /\ Len(s) >= 2 /\ s[1] \in UFrames /\ s[2] \in UTraps /\ s = stack[q]
        BY <2>1, <2>2
      <4> HIDE DEF s
      <4> QED BY <4>2, <4>3, CallerFrames
    <3>2. Alive(q) /\ ~Running(q) /\ ~AtTrapsEnd(q)
      BY <2>1, <2>2 DEF Alive, Running, AtTrapsEnd, K
    <3> QED BY <2>2, <3>1, <3>2 DEF InItsFrame
  <2>4. PICK g : g = [f EXCEPT !.regs = v]
    OBVIOUS
  <2>5. InItsFrame(q, g)' /\ AtTrapsEnd(q)'
    <3>1. PICK s2 \in Seq(Items) : s2 = stack'[q]
      BY <1>1, Processes
    <3>2. Len(s2) = 2 /\ s2[1] = g /\ s2[2] \in UTraps /\ g \in UFrames
      <4>1. v \in Registers
        BY TrapEntryAssumption DEF Registers
      <4>2. g \in UFrames
        BY <2>4, <4>1 DEF UFrames
      <4> QED BY <1>1, <1>4, <2>1, <2>2, <2>4, <3>1, <4>2
    <3>3. Frames(s2) = {1} /\ Called(s2, 1)
      <4>1. \A k \in 3 .. Len(s2) : Harmless(s2[k])
        BY <3>2
      <4>2. Len(s2) >= 2 /\ s2[1] \in UFrames
        BY <3>2
      <4> QED BY <3>2, <4>1, <4>2, CallerFrames
    <3>4. Alive(q)' /\ ~Running(q)' /\ AtTrapsEnd(q)'
      <4>1. mode' = "S" /\ pc' = K("trapend") /\ state'[q] = "runnable"
        BY <1>1, <1>4, <2>1, <2>2 DEF Goto
      <4> QED BY <2>2, <4>1 DEF Alive, Running, AtTrapsEnd, K
    <3> QED BY <3>1, <3>2, <3>3, <3>4 DEF InItsFrame
  <2>6. f.cause = "ecall"
    BY <2>1, <2>2
  <2> QED BY <1>2, <2>2, <2>3, <2>4, <2>5, <2>6, AnswerSeen
<1> QED BY <1>3, <1>4

\* do_wait's look at the children.
LEMMA WaitLooksSeen == ASSUME IInv, IInv', WaitLooks PROVE Stutters \/ Users!Next
<1> DEFINE children == Awaited(current, Top.pid)
           zombies == {c \in children : state[c] = "zombie"}
<1>1. At("repeat") /\ current' = current
  BY DEF WaitLooks
<1>2. CASE zombies # {}
  <2>1. PICK c \in zombies :
          /\ WaitReturns(0, {c})
          /\ state' = [state EXCEPT ![c] = "none"]
          /\ tf' = [tf EXCEPT ![c] = Zero]
    BY <1>2 DEF WaitLooks
  <2>2. c \in Proc /\ state[c] = "zombie"
    BY DEF Awaited
  <2>3. c # current /\ c \in Task
    BY <1>1, <2>2, AtWait, Processes DEF Proc, IInv, FamilyOK
  <2>4. /\ tf'[current] = tf[current] /\ {c} \in SUBSET (Task \ {current})
        /\ state'[current] = state[current]
    BY <2>1, <2>3, Typed
  <2>5. \A t \in Task \ {current} : IF t \in {c} THEN ~Alive(t) /\ ~Alive(t)'
                                    ELSE Alive(t)' <=> Alive(t)
    BY <2>1, <2>2, Typed, Processes DEF Alive
  <2> QED BY <1>1, <2>1, <2>4, <2>5, WaitReturnsSeen
<1>3. CASE zombies = {}
  <2>1. UNCHANGED <<state, tf>>
    BY <1>3 DEF WaitLooks, family
  <2>2. CASE children # {}
    <3>1. Goto("sleep") /\ UNCHANGED stack
      BY <1>3, <2>2 DEF WaitLooks
    <3>2. Quiet("repeat") /\ Quiet("sleep")
      BY DEF Quiet
    <3> QED BY <1>1, <2>1, <3>1, <3>2, GotoUnseen
  <2>3. CASE children = {}
    <3>1. WaitReturns(1, {})
      BY <1>3, <2>3 DEF WaitLooks
    <3>2. \A t \in Task \ {current} : IF t \in {} THEN ~Alive(t) /\ ~Alive(t)'
                                      ELSE Alive(t)' <=> Alive(t)
      BY <2>1, SameAlive
    <3> QED BY <1>1, <2>1, <3>1, <3>2, WaitReturnsSeen
  <2> QED BY <2>2, <2>3
<1> QED BY <1>2, <1>3

-----------------------------------------------------------------------------
(* Kernel threads begin without a program; and the theorem.                *)

\* kernel_thread: the child has a frame, but of kernel code.
LEMMA ThreadUnseen ==
  ASSUME IInv, NEW l, NEW l2, At(l), Goto(l2), Quiet(l), Quiet(l2),
         NEW child \in Proc, do_fork(child), NEW f \in KFrames,
         stack' = [stack EXCEPT ![child] = <<f>>]
  PROVE  Stutters
<1>1. /\ state[child] = "none" /\ state' = [state EXCEPT ![child] = "runnable"]
  BY DEF do_fork
<1>2. InTheKernel /\ InTheKernel'
  BY GoesOn
<1>3. ASSUME NEW t \in Task PROVE SameView(t)
  <2>1. ~Running(t) /\ ~Running(t)' /\ ~AtTrapsEnd(t) /\ ~AtTrapsEnd(t)'
    BY <1>2 DEF Running, AtTrapsEnd, InTheKernel
  <2>2. CASE t # child
    <3>1. stack'[t] = stack[t] /\ state'[t] = state[t]
      BY <1>1, <2>2, Typed, Processes
    <3> QED BY <2>1, <3>1, SameStack, Unseen DEF Alive
  <2>3. CASE t = child
    <3>1. ~Alive(t) /\ Alive(t)'
      BY <1>1, <2>3, Typed DEF Alive
    <3>2. PICK s2 : s2 = <<f>>
      OBVIOUS
    <3>3. DOMAIN s2 = 1 .. 1 /\ s2[1] = f
      BY <3>2
    <3>4. Frames(s2) = {} /\ stack'[t] = s2
      <4>1. f.spp
        BY Kinds
      <4>2. Frames(s2) = {}
        BY <3>3, <4>1 DEF Frames
      <4> QED BY <2>3, <3>2, <4>2, Typed
    <3> QED BY <2>1, <3>1, <3>4, InFrame, InFrameNext DEF View, SameView
  <2> QED BY <2>2, <2>3
<1> QED BY <1>3, AllUnseen

\* init_main makes the thread of user_main.
LEMMA InitMainUnseen == ASSUME IInv, InitMain PROVE Stutters
<1>0. CASE Panic
  <2>1. At("init_main") /\ Goto("monitor") /\ UNCHANGED <<state, stack>>
    BY <1>0 DEF InitMain, Panic, procs, family
  <2>2. Quiet("init_main") /\ Quiet("monitor")
    BY DEF Quiet
  <2> QED BY <2>1, <2>2, GotoUnseen
<1> SUFFICES ASSUME ~Panic PROVE Stutters
  BY <1>0
<1>1. /\ At("init_main") /\ Goto("init_wait") /\ Quiet("init_main") /\ Quiet("init_wait")
  BY DEF InitMain, Quiet
<1>2. PICK child \in Task : kernel_thread(child, "user_main")
  BY DEF InitMain
<1>3. PICK f : f = Copied(child, ThreadFrame("user_main"), Zero)
  OBVIOUS
<1>4. do_fork(child) /\ stack' = [stack EXCEPT ![child] = <<f>>]
  BY <1>2, <1>3 DEF kernel_thread
<1>5. f \in KFrames /\ child \in Proc
  BY <1>3, ThreadFrameIs, Processes
<1> QED BY <1>1, <1>4, <1>5, ThreadUnseen

\* proc_init makes init.
LEMMA ProcInitUnseen == ASSUME IInv, proc_init PROVE Stutters
<1>1. /\ At("proc_init") /\ Goto("clock_init") /\ Quiet("proc_init") /\ Quiet("clock_init")
  BY DEF proc_init, Quiet
<1>3. PICK f : f = Copied(initproc, ThreadFrame("init_main"), Zero)
  OBVIOUS
<1>4. do_fork(initproc) /\ stack' = [stack EXCEPT ![initproc] = <<f>>]
  BY <1>3 DEF proc_init, kernel_thread
<1>5. f \in KFrames /\ initproc \in Proc
  BY <1>3, ThreadFrameIs, Processes
<1> QED BY <1>1, <1>4, <1>5, ThreadUnseen

\* Nobody has a program when the kernel boots.
LEMMA InitRefines == Init => Users!Init
<1> SUFFICES ASSUME Init PROVE Users!Init
  OBVIOUS
<1>1. \A t \in Task : ContextOf(t) = NoContext /\ ~InCall(t)
  BY Processes DEF Init, ContextOf, InCall
<1> QED BY <1>1 DEF Users!Init

\* Every step is unseen by all programs, or is a step of one of them.
LEMMA StepRefines ==
  ASSUME IInv, IInv', [Next]_vars
  PROVE  [Users!Next]_(Users!vars)
<1>1. Stutters \/ Users!Next => [Users!Next]_(Users!vars)
  BY DEF Stutters
<1>2. CASE Boot
  BY <1>1, <1>2, IdtInitUnseen, ProcInitUnseen, ClockInitUnseen, BootEndsUnseen DEF Boot
<1>3. CASE Scheduling
  BY <1>1, <1>3, ScheduleSavesUnseen, SchedulePicksUnseen, RunRestoresUnseen,
     ScheduleRestoresUnseen DEF Scheduling
<1>4. CASE Trap
  BY <1>1, <1>4, SaveAllUnseen, DispatchTimerSeen, DispatchCallSeen, DispatchFaultSeen, ExitCalledSeen,
     TrapEndsUnseen, RestoreAllUnseen, SretUnseen, ForkretsUnseen, ExecveRetUnseen DEF Trap
<1>5. CASE Syscall
  BY <1>1, <1>5, SysSimpleSeen, SysYieldSeen, SysForkSeen, SysExecSeen, SysExitSeen, SysWaitUnseen,
     SysUndefinedUnseen DEF Syscall
<1>6. CASE Threads
  BY <1>1, <1>6, InitMainUnseen, InitWaitsUnseen, InitNextUnseen, InitEndsSeen, EbreakUnseen,
     CpuIdleUnseen DEF Threads
<1>7. CASE Waiting
  BY <1>1, <1>7, WaitLooksSeen, WaitSleepsUnseen, WaitWokenUnseen DEF Waiting
<1>8. CASE TimerInterrupt
  BY <1>1, <1>8, TimerInterruptUnseen
<1>9. CASE UserStep
  BY <1>1, <1>9, UserStepSeen
<1>10. CASE TimerFires
  BY <1>1, <1>10, TimerFiresUnseen
<1>11. CASE UNCHANGED vars
  BY <1>1, <1>11, StutterUnseen
<1> QED BY <1>2, <1>3, <1>4, <1>5, <1>6, <1>7, <1>8, <1>9, <1>10, <1>11 DEF Next, KernelStep

\* trap(), trapentry.S, switch_to and schedule() are not seen by user programs: the kernel
\* implements UserMachine.
THEOREM TrapsAreUnseen == Spec => TrapsUnseen
<1>1. Init => Users!Init
  BY InitRefines
<1>2. IInv /\ IInv' /\ [Next]_vars => [Users!Next]_(Users!vars)
  BY StepRefines
<1> QED BY <1>1, <1>2, Invariant, PTL DEF Spec, TrapsUnseen, Users!Spec
=============================================================================
