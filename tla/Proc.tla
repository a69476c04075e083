-------------------------------- MODULE Proc --------------------------------
(***************************************************************************)
(* Process management of the kernel: kern/process/proc.c,                  *)
(* kern/schedule/sched.c and the tail of trap() in kern/trap/trap.c.       *)
(*                                                                         *)
(* One hart, and a kernel that is never preempted: a trap is entered with  *)
(* interrupts off, and the CPU changes hands only inside schedule().  So   *)
(* `current' runs one stretch of kernel or user code at a time, and the    *)
(* processes interleave where a user process traps or where do_wait        *)
(* sleeps.  pc[p] is where p goes on when it next has the CPU:             *)
(*                                                                         *)
(*   "idle"       cpu_idle's loop                                          *)
(*   "init_main"  init_main before it creates user_main                    *)
(*   "init_wait"  init_main calling do_wait(0, NULL)                       *)
(*   "init_sched" init_main after do_wait returned 0                       *)
(*   "user_main"  the user_main kernel thread before its exec              *)
(*   "user"       user mode                                                *)
(*   "trapret"    trap() after its handler returned                        *)
(*   "woken"      do_wait after the schedule() it slept in                 *)
(*   "dead"       do_exit after its last schedule(), never to be reached   *)
(*                                                                         *)
(* A process is its pid: a proc_struct is reachable by its pid, through    *)
(* find_proc, or by pointers that the model keeps as pids.  get_pid        *)
(* returns any pid that proc_list does not hold (module GetPid).  The      *)
(* children of p, which the code links through cptr, optr and yptr, are    *)
(* the processes whose parent is p; do_wait(0) takes one of the zombies    *)
(* among them.                                                             *)
(***************************************************************************)
EXTENDS Integers, Sequences, FiniteSets, SequencesExt

CONSTANTS MAX_PROCESS,  \* the largest number of processes, idle included
          MAX_PID       \* pids are below this

\* get_pid's static_assert, and room for idle, init and user_main.
ASSUME PidAssumption ==
  /\ MAX_PROCESS \in Nat /\ MAX_PID \in Nat
  /\ MAX_PID > MAX_PROCESS
  /\ MAX_PROCESS >= 3

VARIABLES
  current,      \* the running process
  state,        \* proc->state, "FREE" where there is no proc_struct
  parent,       \* proc->parent
  procList,     \* proc_list, first entry first
  nr_process,   \* number of processes, idle included
  exiting,      \* processes with PF_EXITING in flags
  waiting,      \* processes whose wait_state is WT_CHILD (0 elsewhere)
  needResched,  \* processes with need_resched set
  pc,           \* where each process goes on
  waitPid,      \* the argument of the do_wait a process is in
  panic         \* "none", or the panic or assertion that stopped the kernel

vars == <<current, state, parent, procList, nr_process, exiting, waiting,
          needResched, pc, waitPid, panic>>

Pid == 0 .. MAX_PID - 1
NULL == -1
idle == 0
init == 1

States == {"FREE", "SLEEPING", "RUNNABLE", "ZOMBIE"}
Labels == {"none", "idle", "init_main", "init_wait", "init_sched", "user_main",
           "user", "trapret", "woken", "dead"}
KernelThread == {"init_main", "init_wait", "init_sched", "user_main"}

\* The panics and assertions that say how processes may act on each other, those
\* of a kernel that is short of memory, and all of them with the end of init.
ProtocolPanics == {"idleproc exit", "fork: wait_state", "wakeup: zombie",
                   "wait idleproc or initproc", "init_main: processes left"}
MemoryPanics == {"create user_main failed", "load_icode: no stack page"}
Panics == {"none", "initproc exit"} \cup ProtocolPanics \cup MemoryPanics

Live == {p \in Pid : state[p] # "FREE"}
Children(p) == {c \in Live : parent[c] = p}

At(label) == panic = "none" /\ pc[current] = label

\* A panic or an assertion that fails.
Stops(what) ==
  /\ panic' = what
  /\ UNCHANGED <<current, state, parent, procList, nr_process, exiting, waiting,
                 needResched, pc, waitPid>>

-----------------------------------------------------------------------------
(* schedule(), wakeup_proc() and the helpers of proc.c.                    *)

First(S) == CHOOSE i \in S : \A j \in S : i <= j
Position(p) == CHOOSE i \in 1 .. Len(procList) : procList[i] = p

\* Faults: the scan does not go around the list; it always starts at the head.
NextProcNoWrap(st) ==
  LET runnable == {i \in 1 .. Len(procList) :
                     /\ st[procList[i]] = "RUNNABLE"
                     /\ current # idle => i > Position(current)}
  IN  IF runnable = {} THEN idle ELSE procList[First(runnable)]
NextProcFromHead(st) ==
  LET runnable == {i \in 1 .. Len(procList) : st[procList[i]] = "RUNNABLE"}
  IN  IF runnable = {} THEN idle ELSE procList[First(runnable)]

\* schedule's scan: from the entry after current's (idle is not in the list:
\* from the head), once around, current's own entry last, then idleproc.
NextProc(st) ==
  LET start    == IF current = idle THEN 0 ELSE Position(current)
      runnable == {i \in 1 .. Len(procList) : st[procList[i]] = "RUNNABLE"}
      after    == {i \in runnable : i > start}
  IN  IF runnable = {} THEN idle
      ELSE procList[First(IF after # {} THEN after ELSE runnable)]

\* st is the state function as it stands when schedule() is called.
Schedule(st) ==
  /\ current' = NextProc(st)
  /\ needResched' = needResched \ {current}

\* wakeup_proc on the processes of W: it only warns about a runnable one.
Wakeup(st, W) == [p \in Pid |-> IF p \in W THEN "RUNNABLE" ELSE st[p]]
Woken(W) == {p \in W : state[p] # "RUNNABLE"}

\* do_fork's test of the process table.
HasRoom == nr_process < MAX_PROCESS

\* do_fork, when its allocations succeed: the child enters at label entry.
DoFork(entry, return) ==
  /\ HasRoom
  /\ \E p \in Pid \ Live :
       /\ state' = [state EXCEPT ![p] = "RUNNABLE"]
       /\ parent' = [parent EXCEPT ![p] = current]
       /\ procList' = <<p>> \o procList
       /\ pc' = [pc EXCEPT ![p] = entry, ![current] = return]
  /\ nr_process' = nr_process + 1
  /\ panic' = IF current \in waiting THEN "fork: wait_state" ELSE panic
  /\ UNCHANGED <<current, exiting, waiting, needResched, waitPid>>

\* The processes do_exit wakes: a parent that waits, and an init that waits
\* when one of the children it inherits is a zombie.  Fault: not init.
WokenByExitParentOnly == waiting \cap {parent[current]}
WokenByExit ==
  {q \in waiting : \/ q = parent[current]
                   \/ q = init /\ \E c \in Children(current) : state[c] = "ZOMBIE"}

\* do_exit hands the children of current to init.  Fault: they keep their parent.
NotAdopted == parent
AdoptedByInit ==
  [p \in Pid |-> IF p \in Children(current) THEN init ELSE parent[p]]

\* do_exit, down to the schedule() it does not return from.
DoExit ==
  IF current \in {idle, init}
  THEN Stops(IF current = idle THEN "idleproc exit" ELSE "initproc exit")
  ELSE LET exited == [state EXCEPT ![current] = "ZOMBIE"]
           W      == Woken(WokenByExit)
       IN  /\ panic' = IF \E q \in WokenByExit : exited[q] = "ZOMBIE"
                       THEN "wakeup: zombie" ELSE panic
           /\ state' = Wakeup(exited, W)
           /\ waiting' = waiting \ W
           /\ parent' = AdoptedByInit
           /\ pc' = [pc EXCEPT ![current] = "dead"]
           /\ Schedule(state')
           /\ UNCHANGED <<procList, nr_process, exiting, waitPid>>

\* remove_links' list_del.
Unlinked(z) == RemoveAt(procList, Position(z))

\* do_wait's `found': the zombie leaves the hash table, the list and its
\* family, and its stack and proc_struct are freed.
Reap(z, return) ==
  /\ state' = [state EXCEPT ![z] = "FREE"]
  /\ parent' = [parent EXCEPT ![z] = NULL]
  /\ procList' = Unlinked(z)
  /\ nr_process' = nr_process - 1
  /\ exiting' = exiting \ {z}
  /\ waiting' = waiting \ {z}
  /\ needResched' = needResched \ {z}
  /\ pc' = [pc EXCEPT ![z] = "none", ![current] = return]
  /\ panic' = IF z \in {idle, init} THEN "wait idleproc or initproc" ELSE panic
  /\ waitPid' = [waitPid EXCEPT ![z] = 0, ![current] = 0]
  /\ UNCHANGED current

\* do_wait's sleep, up to the schedule() it resumes from.
Sleep(pid) ==
  /\ state' = [state EXCEPT ![current] = "SLEEPING"]
  /\ waiting' = waiting \cup {current}
  /\ pc' = [pc EXCEPT ![current] = "woken"]
  /\ waitPid' = [waitPid EXCEPT ![current] = pid]
  /\ Schedule(state')
  /\ UNCHANGED <<parent, procList, nr_process, exiting, panic>>

\* What do_wait(pid) considers: all children, or the child find_proc finds.
\* Fault: haskid is set for zombies only.
CandidatesZombiesOnly(pid) ==
  {c \in Children(current) \ {idle} : pid \in {0, c} /\ state[c] = "ZOMBIE"}
Candidates(pid) ==
  IF pid = 0 THEN Children(current)
  ELSE {c \in Children(current) \ {idle} : c = pid}

\* do_wait from its label `repeat'.  A user process goes back to trap();
\* init_main calls schedule(), or checks that nothing is left and returns.  Fault:
\* do_wait(pid) looks at the state of the process before its parent.
WaitReapsAnyone(pid) ==
  \E z \in IF pid = 0 THEN Children(current) ELSE {pid} \cap (Live \ {idle}) :
    /\ state[z] = "ZOMBIE"
    /\ Reap(z, IF current = init THEN "init_sched" ELSE "trapret")
WaitReaps(pid) ==
  \E z \in Candidates(pid) :
    /\ state[z] = "ZOMBIE"
    /\ Reap(z, IF current = init THEN "init_sched" ELSE "trapret")

WaitSleeps(pid) ==
  /\ Candidates(pid) # {}
  /\ \A c \in Candidates(pid) : state[c] # "ZOMBIE"
  /\ Sleep(pid)

WaitNoChild(pid) ==
  /\ Candidates(pid) = {}
  /\ IF current = init
     THEN /\ panic' = IF nr_process = 2 /\ procList = <<init>>
                      THEN "initproc exit" ELSE "init_main: processes left"
          /\ UNCHANGED <<pc, waitPid>>
     ELSE /\ pc' = [pc EXCEPT ![current] = "trapret"]
          /\ waitPid' = [waitPid EXCEPT ![current] = 0]
          /\ UNCHANGED panic
  /\ UNCHANGED <<current, state, parent, procList, nr_process, exiting,
                 waiting, needResched>>

DoWait(pid) == WaitReaps(pid) \/ WaitSleeps(pid) \/ WaitNoChild(pid)

\* Back to trap() with no change but `set', the new need_resched flags.
TrapReturns(set) ==
  /\ pc' = [pc EXCEPT ![current] = "trapret"]
  /\ needResched' = set
  /\ UNCHANGED <<current, state, parent, procList, nr_process, exiting,
                 waiting, waitPid, panic>>

\* do_execve: the program is loaded, or the name of it is refused; load_icode
\* fails, and do_execve calls do_exit; or it asserts that the last pages it asks
\* for, those of the stack, could be had.
DoExecve(return) ==
  \/ /\ pc' = [pc EXCEPT ![current] = return]
     /\ UNCHANGED <<current, state, parent, procList, nr_process, exiting,
                    waiting, needResched, waitPid, panic>>
  \/ DoExit
  \/ Stops("load_icode: no stack page")

-----------------------------------------------------------------------------
(* Kernel threads.                                                         *)

\* cpu_idle
CpuIdle ==
  /\ At("idle") /\ idle \in needResched
  /\ Schedule(state)
  /\ UNCHANGED <<state, parent, procList, nr_process, exiting, waiting, pc,
                 waitPid, panic>>

\* init_main creates user_main, if there is memory for it; init_main calls
\* do_wait; init_main yields.
InitMain ==
  /\ At("init_main")
  /\ \/ DoFork("user_main", "init_wait")
     \/ Stops("create user_main failed")
InitWait == At("init_wait") /\ DoWait(0)
\* Fault: init_main does not come back to do_wait.
InitSchedOnly ==
  /\ At("init_sched")
  /\ Schedule(state)
  /\ UNCHANGED <<state, parent, procList, nr_process, exiting, waiting, pc,
                 waitPid, panic>>
InitSched ==
  /\ At("init_sched")
  /\ pc' = [pc EXCEPT ![current] = "init_wait"]
  /\ Schedule(state)
  /\ UNCHANGED <<state, parent, procList, nr_process, exiting, waiting,
                 waitPid, panic>>

\* user_main's exec, which goes to user mode past the end of trap().
UserMain == At("user_main") /\ DoExecve("user")

\* Kernel threads run with interrupts on, but a trap from the kernel does not
\* reschedule: a time slice that ends there only leaves the flag.
KernelTimer ==
  /\ panic = "none" /\ pc[current] \in KernelThread
  /\ current \notin needResched
  /\ needResched' = needResched \cup {current}
  /\ UNCHANGED <<current, state, parent, procList, nr_process, exiting,
                 waiting, pc, waitPid, panic>>

-----------------------------------------------------------------------------
(* Traps of a user process.                                                *)

SysFork == At("user") /\ DoFork("user", "trapret")

\* sys_exit, or a page fault do_pgfault cannot resolve.
SysExit == At("user") /\ DoExit

SysExec == At("user") /\ DoExecve("trapret")

SysWait(pid) == At("user") /\ DoWait(pid)

\* Whom do_kill wakes.
KillWakes(pid) == {pid} \cap waiting

\* sys_kill, when there is a process pid that is not yet being killed.
SysKill(pid) ==
  /\ At("user")
  /\ pid \in Live \ {idle} /\ pid \notin exiting
  /\ LET W == Woken(KillWakes(pid))
     IN  /\ exiting' = exiting \cup {pid}
         /\ state' = Wakeup(state, W)
         /\ waiting' = waiting \ W
         /\ panic' = IF pid \in KillWakes(pid) /\ state[pid] = "ZOMBIE"
                     THEN "wakeup: zombie" ELSE panic
  /\ pc' = [pc EXCEPT ![current] = "trapret"]
  /\ UNCHANGED <<current, parent, procList, nr_process, needResched, waitPid>>

\* sys_yield, or the timer interrupt that ends a time slice.
EndSlice == At("user") /\ TrapReturns(needResched \cup {current})

\* Traps that leave this state alone: sys_getpid, sys_putc, a fork, wait or
\* kill that returns an error, a page fault that is resolved, the other ticks.
OtherTrap == At("user") /\ TrapReturns(needResched)

\* trap() once its handler has returned.
TrapExits    == current \in exiting /\ DoExit
TrapSwitches ==
  /\ current \notin exiting /\ current \in needResched
  /\ pc' = [pc EXCEPT ![current] = "user"]
  /\ Schedule(state)
  /\ UNCHANGED <<state, parent, procList, nr_process, exiting, waiting,
                 waitPid, panic>>
TrapResumes ==
  /\ current \notin exiting /\ current \notin needResched
  /\ pc' = [pc EXCEPT ![current] = "user"]
  /\ UNCHANGED <<current, state, parent, procList, nr_process, exiting,
                 waiting, needResched, waitPid, panic>>
TrapRet == At("trapret") /\ (TrapExits \/ TrapSwitches \/ TrapResumes)

\* Fault: do_wait does not look at PF_EXITING when it is woken.
WaitResumesUnchecked == At("woken") /\ DoWait(waitPid[current])

\* do_wait after schedule(): a killed process exits, another looks again.
WaitResumes ==
  /\ At("woken")
  /\ \/ current \in exiting /\ DoExit
     \/ current \notin exiting /\ DoWait(waitPid[current])

-----------------------------------------------------------------------------
\* The end of proc_init: idle runs, and init is ready.
Init ==
  /\ current = idle
  /\ state = [p \in Pid |-> IF p \in {idle, init} THEN "RUNNABLE" ELSE "FREE"]
  /\ parent = [p \in Pid |-> IF p = init THEN idle ELSE NULL]
  /\ procList = <<init>>
  /\ nr_process = 2
  /\ exiting = {} /\ waiting = {} /\ needResched = {idle}
  /\ pc = [p \in Pid |-> CASE p = idle -> "idle" [] p = init -> "init_main"
                           [] OTHER -> "none"]
  /\ waitPid = [p \in Pid |-> 0]
  /\ panic = "none"

KernelStep == CpuIdle \/ InitMain \/ InitWait \/ InitSched \/ UserMain
              \/ TrapRet \/ WaitResumes

UserStep == \/ SysFork \/ SysExit \/ SysExec \/ EndSlice \/ OtherTrap
            \/ \E pid \in Pid : SysWait(pid) \/ SysKill(pid)

\* A panic does not return.
Halted == panic # "none" /\ UNCHANGED vars

Next == KernelStep \/ KernelTimer \/ UserStep \/ Halted

Spec == Init /\ [][Next]_vars

\* The hart runs on, and the clock keeps interrupting user mode: a pending
\* timer interrupt is taken as soon as user mode turns interrupts on.
Fairness == WF_vars(KernelStep) /\ SF_vars(EndSlice)

FairSpec == Spec /\ Fairness

-----------------------------------------------------------------------------
(* What the kernel promises.                                               *)

\* The types of the variables.
TypeOK ==
  /\ current \in Pid
  /\ state \in [Pid -> States]
  /\ parent \in [Pid -> Pid \cup {NULL}]
  /\ procList \in Seq(Pid)
  /\ nr_process \in 2 .. MAX_PROCESS
  /\ exiting \subseteq Pid /\ waiting \subseteq Pid /\ needResched \subseteq Pid
  /\ pc \in [Pid -> Labels]
  /\ waitPid \in [Pid -> Pid]
  /\ panic \in Panics

\* proc_list holds every process but idle, once, and nr_process counts them.
ListOK ==
  /\ {procList[i] : i \in 1 .. Len(procList)} = Live \ {idle}
  /\ \A i, j \in 1 .. Len(procList) : procList[i] = procList[j] => i = j
  /\ nr_process = Len(procList) + 1

\* The family of every process but idle and init: its parent is a process
\* that has not exited (do_exit hands every child to init) and that comes
\* after it in proc_list, older entries last.  So parents make a tree under
\* init.
TreeOK ==
  /\ {idle, init} \subseteq Live /\ parent[idle] = NULL /\ parent[init] = idle
  /\ \A i \in 1 .. Len(procList) : procList[i] # init =>
       \E j \in i + 1 .. Len(procList) : parent[procList[i]] = procList[j]
  /\ \A p \in Live \ {idle, init} : state[parent[p]] # "ZOMBIE"

\* No lost wakeup: whoever sleeps in do_wait still waits for a child that is
\* to exit, and none of the children it waits for has exited already.
Awaited(p) == {c \in Children(p) : waitPid[p] \in {0, c}}
SleepersAreOwed ==
  \A p \in Live : state[p] = "SLEEPING" =>
    /\ pc[p] = "woken" /\ p \in waiting
    /\ Awaited(p) # {}
    /\ \A c \in Awaited(p) : state[c] # "ZOMBIE"

\* idleproc gives the CPU away once, at boot, and never gets it back: cpu_idle
\* would spin for ever, as no interrupt sets need_resched for idle.
IdleNeverReturns == current = idle => pc[init] = "init_main"

\* Whoever has the CPU is runnable, and a process that has exited never has it.
RunningIsRunnable == state[current] = "RUNNABLE" /\ pc[current] # "dead"

\* The process table as the above see it together: what set_links, remove_links,
\* do_exit's adoption and schedule() must leave behind between them.
TableOK == TypeOK /\ ListOK /\ TreeOK /\ RunningIsRunnable

\* The processes never run into the panics and assertions of do_fork, do_exit,
\* do_wait, wakeup_proc and init_main that say how they may act on each other;
\* and init exits only if it was killed, or when no other process is left.  (What
\* also stops the kernel is want of memory, in init_main and in load_icode, and a
\* trap it has no answer to, which TrapEntry shows.)
NoProtocolPanic ==
  /\ panic \notin ProtocolPanics
  /\ panic = "initproc exit" => init \in exiting \/ procList = <<init>>

\* A zombie stays one until its parent reaps it: it is not woken, not
\* rescheduled, and not freed by another process.
ZombieOnlyReaped ==
  [][\A p \in Pid : state[p] = "ZOMBIE" /\ state'[p] # "ZOMBIE" =>
       state'[p] = "FREE" /\ parent[p] = current]_vars

\* A process changes parent only when the parent exits, and then to init.
OrphansGoToInit ==
  [][\A p \in Live : state'[p] # "FREE" /\ parent'[p] # parent[p] =>
       parent'[p] = init /\ parent[p] = current /\ state'[current] = "ZOMBIE"]_vars

\* Whoever is the parent of a process stays it until one of the two exits, and only
\* the parent of a zombie lets it go (do_exit, do_wait).
LineageKept == ZombieOnlyReaped /\ OrphansGoToInit

\* schedule is free of starvation: a runnable process gets the CPU.
Stopped == panic # "none"
RunnableRuns ==
  \A p \in Pid \ {idle} : state[p] = "RUNNABLE" ~> current = p \/ Stopped

\* A killed process that is woken in do_wait exits: do_wait looks at
\* PF_EXITING when schedule() returns.
KilledWaiterExits ==
  \A p \in Pid \ {idle} :
    p \in exiting /\ pc[p] = "woken" /\ state[p] = "RUNNABLE"
      ~> state[p] = "ZOMBIE" \/ Stopped

\* The state diagram of proc.c: SYS_kill sets PF_EXITING, and the process goes
\* through do_exit.
KillTakesEffect ==
  \A p \in Pid \ {idle, init} :
    p \in exiting ~> state[p] = "ZOMBIE" \/ Stopped

\* Once every user process has exited, init reaps them all and the system
\* stops.
AllExited == \A p \in Live \ {idle, init} : state[p] = "ZOMBIE"
ShutsDown == AllExited /\ pc[init] # "init_main" ~> Stopped

-----------------------------------------------------------------------------
(* The inductive invariant.  Bookkeeping ties pc, which says what code a   *)
(* process is in, to the fields of its proc_struct; with it the safety     *)
(* properties above carry themselves from state to state.                  *)
Bookkeeping ==
  /\ \A p \in Pid :
       /\ state[p] = "FREE" <=> pc[p] = "none"
       /\ state[p] = "ZOMBIE" <=> pc[p] = "dead"
       /\ state[p] = "SLEEPING" <=> p \in waiting
       /\ pc[p] = "idle" <=> p = idle
       /\ pc[p] \in {"init_main", "init_wait", "init_sched"} => p = init
  /\ pc[init] \in {"init_main", "init_wait", "init_sched", "woken"}
  /\ waitPid[init] = 0

IInv == /\ TypeOK /\ Bookkeeping
        /\ ListOK /\ TreeOK /\ SleepersAreOwed
        /\ IdleNeverReturns /\ RunningIsRunnable /\ NoProtocolPanic
=============================================================================
