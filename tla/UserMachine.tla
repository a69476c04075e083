---------------------------- MODULE UserMachine ----------------------------
(***************************************************************************)
(* What a user program may assume of the traps taken under it: none of    *)
(* them is seen.  A process's registers and program counter move only by  *)
(* its own instructions; a system call moves the counter to the next      *)
(* instruction and may change the registers (the answer) before it is     *)
(* over, nothing else.                                                     *)
(***************************************************************************)
EXTENDS Naturals

CONSTANTS
    Task,           \* the slots for user processes
    NoContext,      \* what a slot without a user program has for a context
    NPC             \* the length of a user program, which runs in a circle

VARIABLES
    context,        \* each slot's program counter and registers
    calling         \* the slots whose process is inside a system call

vars == <<context, calling>>

Value == 0 .. 1

\* Where the program counter is after the instruction at n.
Next4(n) == (n + 1) % NPC

\* A program's first context: its entry point, and its registers 0.
Fresh == [pc |-> 0, regs |-> 0]

Init == context = [t \in Task |-> NoContext] /\ calling = {}

\* An instruction that computes a value.
Compute(t) == /\ context[t] # NoContext /\ t \notin calling
              /\ context' = [context EXCEPT ![t].pc = Next4(@), ![t].regs = context[t].pc]
              /\ UNCHANGED calling

Call(t) == /\ context[t] # NoContext /\ t \notin calling
           /\ context' = [context EXCEPT ![t].pc = Next4(@)]
           /\ calling' = calling \cup {t}

Answer(t) == /\ t \in calling
             /\ calling' = calling \ {t}
             /\ \E v \in Value : context' = [context EXCEPT ![t].regs = v]

\* The child goes on behind the parent's call, and sees 0 for its answer.
Fork(t) == \E c \in Task, v \in Value :
    /\ t \in calling /\ context[c] = NoContext
    /\ context' = [context EXCEPT ![c] = [context[t] EXCEPT !.regs = 0], ![t].regs = v]
    /\ calling' = calling \ {t}

\* A new program: by a call of the process, or as its first one.
Load(t) == /\ t \in calling \/ context[t] = NoContext
           /\ context' = [context EXCEPT ![t] = Fresh]
           /\ calling' = calling \ {t}

Leave(t) == /\ context[t] # NoContext
            /\ context' = [context EXCEPT ![t] = NoContext]
            /\ calling' = calling \ {t}

Next == \E t \in Task :
    Compute(t) \/ Call(t) \/ Answer(t) \/ Fork(t) \/ Load(t) \/ Leave(t)

Spec == Init /\ [][Next]_vars
=============================================================================
