----------------------------- MODULE TrapEntry ------------------------------
(***************************************************************************)
(* The way into the kernel and out of it: the hart's trap state, SAVE_ALL  *)
(* and RESTORE_ALL (trap/trapentry.S), trap() and its dispatch             *)
(* (trap/trap.c), the clock, local_intr_save and local_intr_restore        *)
(* (sync/sync.h), switch_to with the stacks it changes between, and the    *)
(* first return of a new process through forkret.                          *)
(*                                                                         *)
(* A kernel stack is the sequence of what lies on it, one item a trap      *)
(* frame or the locals of a C function that is not over; an address on it  *)
(* is the number of items above.  A register file is one value: a0's, which *)
(* system calls answer in, stands for all.  A step runs to the next        *)
(* place where an interrupt could matter or the hart changes stacks, and   *)
(* an interrupt is taken between any two steps that leave SIE on.          *)
(*                                                                         *)
(* Which runnable process schedule() picks and what kill does are Proc's   *)
(* affair, what the calls do to memory is AddressSpace's; here any         *)
(* runnable process is picked, nobody is killed (PF_EXITING is never set), *)
(* and exec or a page fault succeeds or not.  No user program uses ebreak. *)
(***************************************************************************)
EXTENDS Naturals, Sequences, FiniteSets

CONSTANTS
    idleproc, initproc, \* the boot thread and the first kernel thread
    Task,               \* the other proc_structs
    Null, NoContext,
    TICK_NUM,           \* ticks to a time slice
    NPC                 \* instructions of a user program

ASSUME TrapEntryAssumption ==
    /\ TICK_NUM \in Nat \ {0} /\ NPC \in Nat \ {0}
    /\ idleproc # initproc /\ {idleproc, initproc} \cap Task = {}
    /\ Null \notin {idleproc, initproc} \cup Task
    /\ NoContext \notin [pc : 0 .. NPC - 1, regs : 0 .. 2 + NPC]

VARIABLES
    mode, pc, sp, regs, \* the hart: "U" or "S", program counter, registers
    csr,                \* sstatus' SIE, SPIE and SPP, sepc, scause, sscratch, stvec
    timer,              \* "off", "armed" or "pending"
    ticks,              \* modulo TICK_NUM
    current,
    state,              \* "none", "runnable", "waiting" (SLEEPING in do_wait), "zombie"
    parent, need_resched, tf,
    saved,              \* proc->context: return address and stack pointer
    stack               \* the kernel stacks

hart == <<mode, pc, sp, regs>>
clock == <<timer, ticks>>
family == <<state, parent>>
procs == <<current, family, need_resched, tf, saved>>
vars == <<hart, csr, clock, procs, stack>>

Proc == {idleproc, initproc} \cup Task
Zero == <<Null, 0>>      \* the null pointer,
UserSp == <<Null, 1>>    \* and an address in user memory
K(label) == <<label, 0>> \* a place in the kernel's code
User(n) == <<"user", n>> \* and one in a user program
After(at) == IF at[1] = "user" THEN User((at[2] + 1) % NPC) ELSE at
KernelRegs == 2

InterruptDue == timer = "pending" /\ (mode = "U" \/ csr.sie)
At(label) == mode = "S" /\ pc = K(label) /\ ~InterruptDue
Goto(label) == pc' = K(label) /\ UNCHANGED <<mode, regs>>

\* The items of stack p down to the address, and the item at it.
Above(p, n) == SubSeq(stack[p], 1, n)
Top == stack[sp[1]][sp[2]]
Push(item) == /\ stack' = [stack EXCEPT ![sp[1]] = Append(Above(sp[1], sp[2]), item)]
              /\ sp' = <<sp[1], sp[2] + 1>>
Pop == /\ stack' = [stack EXCEPT ![sp[1]] = Above(sp[1], sp[2] - 1)]
       /\ sp' = <<sp[1], sp[2] - 1>>

-----------------------------------------------------------------------------
(* The hart: an interrupt or exception, and sret.                          *)

TakeTrap(cause) ==
    /\ csr' = [csr EXCEPT !.sepc = pc, !.cause = cause, !.spp = (mode = "S"),
                          !.spie = csr.sie, !.sie = FALSE]
    /\ mode' = "S" /\ pc' = K("alltraps")
    /\ UNCHANGED <<sp, regs, clock, procs, stack>>

TimerInterrupt == InterruptDue /\ TakeTrap("timer")

\* The time between two interrupts, 10 ms, is longer than what is left of a handler
\* that has armed the timer: it does not go off again on the way back.
OnTheWayBack == mode = "S" /\ pc[1] \in {"trapend", "trapret", "sret"}
TimerFires == /\ timer = "armed" /\ ~OnTheWayBack
              /\ timer' = "pending"
              /\ UNCHANGED <<hart, csr, ticks, procs, stack>>

Sret == /\ At("sret")
        /\ mode' = IF csr.spp THEN "S" ELSE "U"
        /\ pc' = csr.sepc
        /\ csr' = [csr EXCEPT !.sie = csr.spie, !.spie = TRUE, !.spp = FALSE]
        /\ UNCHANGED <<sp, regs, clock, procs, stack>>

\* A user program computes, or traps: a call, a page fault, a misaligned store,
\* or any exception the kernel only prints a line for.
UserStep ==
    /\ mode = "U" /\ ~InterruptDue
    /\ \/ /\ pc' = After(pc) /\ regs' = pc[2]
          /\ UNCHANGED <<mode, sp, csr, clock, procs, stack>>
       \/ \E cause \in {"ecall", "fault", "misaligned", "other"} : TakeTrap(cause)

\* kernel_execve's ebreak, in the kernel thread that becomes the first program.
Ebreak == At("user_main") /\ TakeTrap("ebreak")

-----------------------------------------------------------------------------
(* trapentry.S.                                                            *)

\* csrrw sp, sscratch, sp: the stack to continue on.
StackForTrap == IF csr.sscratch = Zero THEN sp ELSE csr.sscratch

SAVE_ALL ==
    /\ At("alltraps")
    /\ LET base == StackForTrap
           frame == [kind |-> "frame", spp |-> csr.spp, spie |-> csr.spie, sie |-> csr.sie,
                     epc |-> csr.sepc, cause |-> csr.cause, sp |-> sp, regs |-> regs]
       IN  /\ stack' = [stack EXCEPT ![base[1]] = Append(Above(base[1], base[2]), frame)]
           /\ sp' = <<base[1], base[2] + 1>>
    /\ csr' = [csr EXCEPT !.sscratch = Zero]
    /\ pc' = K("trap") /\ regs' = KernelRegs
    /\ UNCHANGED <<mode, clock, procs>>

ScratchForNobody(frame) == csr.sscratch
\* What sscratch holds while the hart is in the code it returns to.
ScratchFor(frame) == IF frame.spp THEN csr.sscratch ELSE <<sp[1], sp[2] - 1>>

RESTORE_ALL ==
    /\ At("trapret")
    /\ csr' = [csr EXCEPT !.sscratch = ScratchFor(Top), !.sepc = Top.epc,
                          !.spp = Top.spp, !.spie = Top.spie, !.sie = Top.sie]
    /\ regs' = Top.regs /\ sp' = Top.sp /\ pc' = K("sret")
    /\ stack' = [stack EXCEPT ![sp[1]] =
                    Above(sp[1], IF Top.sp[1] = sp[1] THEN Top.sp[2] ELSE sp[2] - 1)]
    /\ UNCHANGED <<mode, clock, procs>>

\* forkret: the first instruction of a new process takes its frame for the stack.
forkrets == At("forkret") /\ sp' = tf[current] /\ Goto("trapret")
            /\ UNCHANGED <<csr, clock, procs, stack>>

\* The frame moves to the end of the kernel stack, and the stack below is given up.
kernel_execve_ret ==
    /\ At("execve_ret")
    /\ stack' = [stack EXCEPT ![current] = <<stack[tf[current][1]][tf[current][2]]>>]
    /\ sp' = <<current, 1>> /\ Goto("trapret")
    /\ UNCHANGED <<csr, clock, procs>>

-----------------------------------------------------------------------------
(* Interrupt masking, schedule() and proc_run().                           *)

intr_enable == csr' = [csr EXCEPT !.sie = TRUE]
intr_disable == csr' = [csr EXCEPT !.sie = FALSE]
local_intr_restoreAlways(flag) == intr_enable
local_intr_restore(flag) == IF flag THEN intr_enable ELSE UNCHANGED csr

\* A C function calls schedule() and goes on at ret, below item(s) it has on the stack.
SchedFrame(ret) == [kind |-> "schedule", intr_flag |-> FALSE, ret |-> ret]
CallSchedule(ret) == Push(SchedFrame(ret)) /\ Goto("schedule")

\* local_intr_save
ScheduleSaves ==
    /\ At("schedule")
    /\ stack' = [stack EXCEPT ![sp[1]][sp[2]].intr_flag = csr.sie]
    /\ intr_disable /\ Goto("pick")
    /\ UNCHANGED <<sp, clock, procs>>

Runnable == {p \in Proc : state[p] = "runnable"}
Next4Run == IF Runnable \ {idleproc} = {} THEN {idleproc} ELSE Runnable \ {idleproc}

\* proc_run saves the flag once more and changes stacks with switch_to.
switch_to(next) ==
    /\ stack' = [stack EXCEPT ![current] =
                    Append(Above(current, sp[2]), [kind |-> "proc_run", intr_flag |-> csr.sie])]
    /\ saved' = [saved EXCEPT ![current] = [ra |-> "switched", sp |-> <<sp[1], sp[2] + 1>>]]
    /\ current' = next
    /\ sp' = saved[next].sp /\ Goto(saved[next].ra)
    /\ intr_disable

SchedulePicks ==
    /\ At("pick")
    /\ need_resched' = [need_resched EXCEPT ![current] = FALSE]
    /\ \E next \in Next4Run :
         IF next = current
         THEN Goto("picked") /\ UNCHANGED <<sp, csr, stack, saved, current>>
         ELSE switch_to(next)
    /\ UNCHANGED <<clock, family, tf>>

RunRestores ==
    /\ At("switched")
    /\ local_intr_restore(Top.intr_flag) /\ Pop /\ Goto("picked")
    /\ UNCHANGED <<clock, procs>>

ScheduleRestores ==
    /\ At("picked")
    /\ local_intr_restore(Top.intr_flag) /\ Pop /\ Goto(Top.ret)
    /\ UNCHANGED <<clock, procs>>

-----------------------------------------------------------------------------
(* Processes: their creation, end and waiting, as far as stacks, frames    *)
(* and the interrupt flag are concerned.                                   *)

CopiedWithA0(child, frame, esp) ==
    [frame EXCEPT !.sp = IF esp = Zero THEN <<child, 1>> ELSE esp]

\* copy_thread: the child's frame, and where its stack pointer starts.
Copied(child, frame, esp) ==
    [frame EXCEPT !.regs = 0, !.sp = IF esp = Zero THEN <<child, 1>> ELSE esp]

do_fork(child) ==
    /\ state[child] = "none"
    /\ state' = [state EXCEPT ![child] = "runnable"]
    /\ parent' = [parent EXCEPT ![child] = current]
    /\ tf' = [tf EXCEPT ![child] = <<child, 1>>]
    /\ saved' = [saved EXCEPT ![child] = [ra |-> "forkret", sp |-> <<child, 1>>]]
    /\ UNCHANGED current

\* The frame kernel_thread makes: to the kernel, with interrupts on there but
\* off until then.
ThreadStatus == [spp |-> TRUE, spie |-> TRUE, sie |-> FALSE]
ThreadFrame(fn) ==
    [kind |-> "frame", spp |-> ThreadStatus.spp, spie |-> ThreadStatus.spie,
     sie |-> ThreadStatus.sie, epc |-> K(fn), cause |-> "none", sp |-> Zero,
     regs |-> 0]

kernel_thread(child, fn) ==
    /\ do_fork(child)
    /\ stack' = [stack EXCEPT ![child] = <<Copied(child, ThreadFrame(fn), Zero)>>]
    /\ UNCHANGED sp

Panic == Goto("monitor") /\ intr_disable /\ UNCHANGED <<sp, clock, procs, stack>>

\* do_exit up to its call of schedule(), which it does not come back from.
DoExit ==
    IF current = initproc THEN Panic
    ELSE LET orphans == {p \in Proc : state[p] # "none" /\ parent[p] = current}
             adopts == \E p \in orphans : state[p] = "zombie"
             woken == {p \in Proc : /\ state[p] = "waiting"
                                    /\ p = parent[current] \/ (p = initproc /\ adopts)}
         IN  /\ state' = [p \in Proc |-> IF p = current THEN "zombie"
                                         ELSE IF p \in woken THEN "runnable" ELSE state[p]]
             /\ parent' = [p \in Proc |-> IF p \in orphans THEN initproc ELSE parent[p]]
             /\ CallSchedule("dead")
             /\ UNCHANGED <<csr, clock, current, need_resched, tf, saved>>

\* do_wait(pid) for a caller that goes on at ret; pid 0 is any child, and a
\* pid of nobody's child finds none.
WaitFrame(pid, ret) == [kind |-> "do_wait", pid |-> pid, ret |-> ret]
Awaited(p, pid) == {c \in Proc : state[c] # "none" /\ parent[c] = p /\ pid \in {Null, c}}

WaitReturns(v, freed) ==
    /\ stack' = LET popped == [stack EXCEPT ![current] = Above(current, sp[2] - 1)]
                    answered == IF Top.ret = "init_next" THEN popped
                                ELSE [popped EXCEPT ![current][tf[current][2]].regs = v]
                IN  [p \in Proc |-> IF p \in freed THEN <<>> ELSE answered[p]]
    /\ sp' = <<sp[1], sp[2] - 1>>
    /\ Goto(IF Top.ret = "init_next" /\ v # 0 THEN "init_end" ELSE Top.ret)

\* What is left in a proc_struct that is not there.
NoContextSaved == [ra |-> "none", sp |-> Zero]

WaitLooks ==
    /\ At("repeat")
    /\ LET children == Awaited(current, Top.pid)
           zombies == {c \in children : state[c] = "zombie"}
       IN  IF zombies # {}
           THEN \E c \in zombies :
                  /\ WaitReturns(0, {c})
                  /\ state' = [state EXCEPT ![c] = "none"]
                  /\ parent' = [parent EXCEPT ![c] = idleproc]
                  /\ tf' = [tf EXCEPT ![c] = Zero]
                  /\ saved' = [saved EXCEPT ![c] = NoContextSaved]
           ELSE /\ IF children # {} THEN Goto("sleep") /\ UNCHANGED <<sp, stack>>
                   ELSE WaitReturns(1, {})
                /\ UNCHANGED <<family, tf, saved>>
    /\ UNCHANGED <<csr, clock, current, need_resched>>

WaitSleeps ==
    /\ At("sleep")
    /\ state' = [state EXCEPT ![current] = "waiting"]
    /\ CallSchedule("woken")
    /\ UNCHANGED <<csr, clock, current, parent, need_resched, tf, saved>>

WaitWoken == At("woken") /\ Goto("repeat") /\ UNCHANGED <<sp, csr, clock, procs, stack>>

-----------------------------------------------------------------------------
(* trap() and the handlers.                                                *)

\* trap() keeps current->tf and where it came from, and names the new frame.
TrapFrame == [kind |-> "trap", otf |-> tf[current], in_kernel |-> Top.spp]
Dispatch(cause) ==
    /\ At("trap") /\ Top.cause = cause
    /\ tf' = [tf EXCEPT ![current] = sp]
    /\ sp' = <<sp[1], sp[2] + 1>>

clock_set_keeps_pending == timer' = IF timer = "pending" THEN "pending" ELSE "armed"
clock_set_next_event == timer' = "armed"

DispatchTimer ==
    /\ Dispatch("timer")
    /\ stack' = [stack EXCEPT ![sp[1]] = Append(@, TrapFrame)]
    /\ clock_set_next_event
    /\ ticks' = (ticks + 1) % TICK_NUM
    /\ need_resched' = [need_resched EXCEPT ![current] = @ \/ (ticks' = 0 /\ current # idleproc)]
    /\ Goto("trapend") /\ UNCHANGED <<csr, current, family, saved>>

\* Calls, and kernel_execve's breakpoint: the program goes on behind them.
DispatchCall ==
    /\ Dispatch("ecall") \/ Dispatch("ebreak")
    /\ stack' = [stack EXCEPT ![sp[1]] =
                    Append([@ EXCEPT ![sp[2]].epc = After(Top.epc)], TrapFrame)]
    /\ Goto("syscall") /\ UNCHANGED <<csr, clock, current, family, need_resched, saved>>

\* do_pgfault copies the page or says why not; a misaligned store is a panic (which
\* finds interrupts off already); others are printed.  The program returns to the
\* instruction that trapped.
DispatchFault ==
    /\ \E cause \in {"fault", "misaligned", "other"} : Dispatch(cause)
    /\ stack' = [stack EXCEPT ![sp[1]] = Append(@, TrapFrame)]
    /\ \E at \in CASE Top.cause = "fault" -> {"trapend", "do_exit"}
                  [] Top.cause = "misaligned" -> {"monitor"}
                  [] OTHER -> {"trapend"} : Goto(at)
    /\ UNCHANGED <<csr, clock, current, family, need_resched, saved>>

ExitCalled == At("do_exit") /\ DoExit

\* current->tf is the caller's again; a process that came from user mode may
\* have to give up the hart first.
MustYieldAnywhere == need_resched[current]
MustYieldSwapped == Top.in_kernel /\ need_resched[current]
MustYield == ~Top.in_kernel /\ need_resched[current]

TrapEnds ==
    /\ At("trapend")
    /\ tf' = [tf EXCEPT ![current] = Top.otf]
    /\ IF MustYield
       THEN /\ stack' = [stack EXCEPT ![sp[1]][sp[2]] = SchedFrame("trapret")]
            /\ Goto("schedule") /\ UNCHANGED sp
       ELSE Pop /\ Goto("trapret")
    /\ UNCHANGED <<csr, clock, current, family, need_resched, saved>>

-----------------------------------------------------------------------------
(* syscall(): the frame is current->tf, and a0 in it takes the answer.     *)

FrameAt(address) == stack[address[1]][address[2]]
TheFrame == FrameAt(tf[current])
CalledIn(cause) == At("syscall") /\ TheFrame.cause = cause
WithAnswer(v) == [stack EXCEPT ![tf[current][1]][tf[current][2]].regs = v]

\* getpid, putc, pgdir, and calls that are refused at once.
SysSimple ==
    /\ CalledIn("ecall")
    /\ \E v \in {0, 1} : stack' = WithAnswer(v)
    /\ Goto("trapend") /\ UNCHANGED <<sp, csr, clock, procs>>

SysYield ==
    /\ CalledIn("ecall")
    /\ need_resched' = [need_resched EXCEPT ![current] = TRUE]
    /\ stack' = WithAnswer(0)
    /\ Goto("trapend") /\ UNCHANGED <<sp, csr, clock, current, family, tf, saved>>

SysFork ==
    /\ CalledIn("ecall")
    /\ \E child \in Task :
         /\ do_fork(child)
         /\ stack' = [WithAnswer(1) EXCEPT ![child] = <<Copied(child, TheFrame, TheFrame.sp)>>]
    /\ Goto("trapend") /\ UNCHANGED <<sp, csr, clock, need_resched>>

\* load_icode's frame: user mode with interrupts on, at the program's entry.
UserStatus(frame) == [frame EXCEPT !.spp = FALSE, !.spie = TRUE]
UserFrame(frame) == [UserStatus(frame) EXCEPT !.epc = User(0), !.sp = UserSp, !.cause = "none",
                                              !.regs = 0]
SysExec ==
    /\ CalledIn("ecall") \/ CalledIn("ebreak")
    /\ \E ok \in BOOLEAN :
         IF ok
         THEN /\ stack' = [stack EXCEPT ![tf[current][1]][tf[current][2]] = UserFrame(@)]
              /\ Goto(IF TheFrame.cause = "ebreak" THEN "execve_ret" ELSE "trapend")
         ELSE Goto("do_exit") /\ UNCHANGED stack
    /\ UNCHANGED <<sp, csr, clock, procs>>

SysExit == CalledIn("ecall") /\ DoExit

SysWait == /\ CalledIn("ecall")
           /\ \E pid \in Task \cup {Null} : Push(WaitFrame(pid, "trapend"))
           /\ Goto("repeat") /\ UNCHANGED <<csr, clock, procs>>

SysUndefined == CalledIn("ecall") /\ Panic

-----------------------------------------------------------------------------
(* The kernel threads, and the boot that leads to the first.               *)

\* init_main: the first program's thread, or a panic when it cannot be made; then
\* the children one by one.
InitMain ==
    /\ At("init_main")
    /\ \/ /\ \E child \in Task : kernel_thread(child, "user_main")
          /\ Goto("init_wait") /\ UNCHANGED <<csr, clock, need_resched>>
       \/ Panic
InitWaits == At("init_wait") /\ Push(WaitFrame(Null, "init_next")) /\ Goto("repeat")
             /\ UNCHANGED <<csr, clock, procs>>
InitNext == At("init_next") /\ CallSchedule("init_wait") /\ UNCHANGED <<csr, clock, procs>>
InitEnds == At("init_end") /\ DoExit

cpu_idle ==
    /\ At("cpu_idle") /\ need_resched[current]
    /\ CallSchedule("cpu_idle")
    /\ UNCHANGED <<csr, clock, procs>>

idt_init ==
    /\ At("idt_init")
    /\ csr' = [csr EXCEPT !.sscratch = Zero, !.stvec = TRUE]
    /\ Goto("proc_init") /\ UNCHANGED <<sp, clock, procs, stack>>

proc_init ==
    /\ At("proc_init")
    /\ need_resched' = [need_resched EXCEPT ![idleproc] = TRUE]
    /\ kernel_thread(initproc, "init_main")
    /\ Goto("clock_init") /\ UNCHANGED <<csr, clock>>

clock_init ==
    /\ At("clock_init")
    /\ clock_set_next_event /\ ticks' = 0
    /\ Goto("intr_enable") /\ UNCHANGED <<sp, csr, procs, stack>>

BootEnds == At("intr_enable") /\ intr_enable /\ Goto("cpu_idle")
            /\ UNCHANGED <<sp, clock, procs, stack>>

\* The firmware leaves its own value in sscratch.
Init ==
    /\ mode = "S" /\ pc = K("idt_init") /\ sp = <<idleproc, 0>> /\ regs = KernelRegs
    /\ csr = [sie |-> FALSE, spie |-> FALSE, spp |-> FALSE, sepc |-> K("none"),
              cause |-> "none", sscratch |-> UserSp, stvec |-> FALSE]
    /\ timer = "off" /\ ticks = 0
    /\ current = idleproc
    /\ state = [p \in Proc |-> IF p = idleproc THEN "runnable" ELSE "none"]
    /\ parent = [p \in Proc |-> idleproc]
    /\ need_resched = [p \in Proc |-> FALSE]
    /\ tf = [p \in Proc |-> Zero]
    /\ saved = [p \in Proc |-> NoContextSaved]
    /\ stack = [p \in Proc |-> <<>>]

Boot == idt_init \/ proc_init \/ clock_init \/ BootEnds
Scheduling == ScheduleSaves \/ SchedulePicks \/ RunRestores \/ ScheduleRestores
Trap == SAVE_ALL \/ DispatchTimer \/ DispatchCall \/ DispatchFault \/ ExitCalled
          \/ TrapEnds \/ RESTORE_ALL \/ Sret \/ forkrets \/ kernel_execve_ret
Syscall == SysSimple \/ SysYield \/ SysFork \/ SysExec \/ SysExit \/ SysWait
             \/ SysUndefined
Threads == InitMain \/ InitWaits \/ InitNext \/ InitEnds \/ Ebreak \/ cpu_idle
Waiting == WaitLooks \/ WaitSleeps \/ WaitWoken

KernelStep == Boot \/ Scheduling \/ Trap \/ Syscall \/ Threads \/ Waiting \/ TimerInterrupt
Next == KernelStep \/ UserStep \/ TimerFires

Spec == Init /\ [][Next]_vars

\* Code of processes that runs with interrupts on.
OpenStep == Threads \/ Waiting \/ ScheduleSaves

\* The hart goes on running the kernel and takes an interrupt that is due, the
\* timer goes off, and the 10 ms between two of its interrupts are enough for a
\* handler and more: code that is interrupted again and again gets on too.
FairSpec == Spec /\ WF_vars(KernelStep) /\ WF_vars(TimerFires) /\ SF_vars(OpenStep)

-----------------------------------------------------------------------------
(* What user programs see of it.                                           *)

UserFrames(t) == {k \in DOMAIN stack[t] : stack[t][k].kind = "frame" /\ ~stack[t][k].spp}

\* The hart is in t's program, or its trap state and registers still, or again, are t's.
Running(t) == current = t /\ \/ mode = "U"
                             \/ pc \in {K("alltraps"), K("sret")} /\ ~csr.spp

Seen(at, values) == [pc |-> at[2], regs |-> values]

ContextOf(t) ==
    IF state[t] \in {"none", "zombie"} THEN NoContext
    ELSE IF Running(t) THEN Seen(IF mode = "U" THEN pc ELSE csr.sepc, regs)
    ELSE IF UserFrames(t) = {} THEN NoContext
    ELSE LET frame == stack[t][CHOOSE k \in UserFrames(t) : TRUE]
         IN  Seen(frame.epc, frame.regs)

InCall(t) ==
    /\ state[t] \notin {"none", "zombie"}
    /\ ~(current = t /\ pc = K("trapend"))
    /\ \E k \in UserFrames(t) : /\ stack[t][k].cause = "ecall" /\ k < Len(stack[t])
                                /\ stack[t][k + 1].kind = "trap"

Users == INSTANCE UserMachine WITH context <- [t \in Task |-> ContextOf(t)],
                                   calling <- {t \in Task : InCall(t)}

\* Interrupts, page faults, calls of other processes, switches and forks are not
\* seen by a user program: its registers and its program counter move by its own
\* instructions and the answers to its calls only, through every save and restore
\* of trapentry.S and switch.S.
TrapsUnseen == Users!Spec

-----------------------------------------------------------------------------
(* Properties.                                                             *)

Address == (Proc \cup {Null}) \X (0 .. 6)
Registers == 0 .. 2 + NPC

\* The variables have their types (registers and CSRs of trapentry.S, the fields
\* of proc_struct).
TypeOK ==
    /\ mode \in {"U", "S"} /\ sp \in Address /\ regs \in Registers
    /\ (mode = "U") => pc \in {User(n) : n \in 0 .. NPC - 1}
    /\ {csr.sie, csr.spie, csr.spp, csr.stvec} \subseteq BOOLEAN /\ csr.sscratch \in Address
    /\ timer \in {"off", "armed", "pending"} /\ ticks \in 0 .. TICK_NUM - 1
    /\ current \in Proc
    /\ state \in [Proc -> {"none", "runnable", "waiting", "zombie"}]
    /\ parent \in [Proc -> Proc] /\ need_resched \in [Proc -> BOOLEAN]
    /\ tf \in [Proc -> Address]
    /\ \A p \in Proc : saved[p].sp \in Address /\ Len(stack[p]) \in 0 .. 6

\* The kernel runs on the stack of the current process, which is there, and every
\* trap finds it: sscratch is 0 while the hart is in the kernel and the end of the
\* process's empty kernel stack while it is in user mode (trapentry.S:8-10, 77-81).
StackIsCurrents ==
    LET inUser == mode = "U" \/ (pc \in {K("alltraps"), K("sret")} /\ ~csr.spp)
    IN  pc # K("idt_init") =>
          /\ csr.sscratch = IF inUser THEN <<current, 0>> ELSE Zero
          /\ IF inUser THEN sp = UserSp /\ stack[current] = <<>>
             ELSE sp = <<current, Len(stack[current])>>
          /\ state[current] # "none"
          /\ state[current] = "zombie" => pc \in {K("schedule"), K("pick")}

\* Serving(p): p's kernel stack holds a trap that is not over.
Serving(p) == \/ UserFrames(p) # {}
              \/ \E k \in DOMAIN stack[p] : stack[p][k].kind = "trap"

OpenCode == {"cpu_idle", "init_main", "init_wait", "init_next", "init_end", "user_main",
             "repeat", "sleep", "woken", "schedule"}

\* In the kernel, interrupts are on exactly in the code of kernel threads outside
\* schedule(), whatever processes ran in between: never in a handler, nor on the
\* way to sret, and not lost by a thread that was switched out with them on.
InterruptsAsIntended ==
    mode = "S" => (csr.sie <=> pc[1] \in OpenCode /\ ~Serving(current))

\* Every function finds on the stack what it left there: code that was interrupted
\* or switched out goes on with the stack pointer it had.
Locals == [repeat |-> "do_wait", sleep |-> "do_wait", woken |-> "do_wait",
           schedule |-> "schedule", pick |-> "schedule", picked |-> "schedule",
           switched |-> "proc_run", trap |-> "frame", trapret |-> "frame",
           syscall |-> "trap", trapend |-> "trap"]
StackMatchesCode ==
    /\ mode = "S" /\ pc[1] \in DOMAIN Locals => Top.kind = Locals[pc[1]]
    /\ pc = K("cpu_idle") => sp[2] = 0
    /\ pc[1] \in {"init_main", "init_wait", "init_next", "user_main"} => sp[2] = 1
    /\ \A p \in Proc \ {current} : state[p] \in {"runnable", "waiting"} =>
         /\ saved[p].sp = <<p, Len(stack[p])>>
         /\ saved[p].ra = IF Len(stack[p]) = 1 THEN "forkret" ELSE "switched"

\* No trap is taken inside a handler, so a kernel stack never holds more than one
\* trap() and two frames.
OneTrapDeep ==
    \A p \in Proc :
        /\ Cardinality({k \in DOMAIN stack[p] : stack[p][k].kind = "trap"}) <= 1
        /\ Cardinality({k \in DOMAIN stack[p] : stack[p][k].kind = "frame"}) <= 2

\* The kernel stacks as SAVE_ALL, switch_to and the functions between find them.
StacksOK == TypeOK /\ StackIsCurrents /\ StackMatchesCode /\ OneTrapDeep

\* Nobody sleeps in do_wait while a child it waits for is a zombie: the kernel is
\* not preempted between do_wait's look and its sleep (proc.c:863-892, trap.c:333).
NoLostWakeup ==
    \A p \in Proc : state[p] = "waiting" =>
        \A k \in DOMAIN stack[p] : stack[p][k].kind = "do_wait" =>
            \A c \in Awaited(p, stack[p][k].pid) : state[c] # "zombie"

Stopped == pc = K("monitor")

\* Every timer interrupt is let in and answered by arming the timer again, unless
\* the kernel has stopped.
TimerAnswered == timer = "pending" ~> timer = "armed" \/ Stopped

\* A user process whose time slice is over does give up the hart, by the next interrupt
\* at the latest, unless the kernel has stopped.
SliceEnds == \A p \in Task : need_resched[p] ~> ~need_resched[p] \/ Stopped
=============================================================================
