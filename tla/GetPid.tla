------------------------------- MODULE GetPid -------------------------------
(***************************************************************************)
(* The search for a free pid: get_pid() of kern/process/proc.c, between    *)
(* the places where do_fork links a process into proc_list and do_wait     *)
(* unlinks one.                                                            *)
(*                                                                         *)
(* get_pid keeps two static variables from call to call: last_pid, the pid *)
(* it gave last, and next_safe, such that no process had a pid strictly    *)
(* between the two when it last looked at the list.  A call that stays     *)
(* below next_safe does not look at the list; any other walks it, one step *)
(* per entry here, and starts again when last_pid reaches next_safe.       *)
(* Interrupts are off from the call to set_links, so the list changes only *)
(* between calls.  Proc takes any pid that is not in use; this module      *)
(* shows that get_pid finds one, and which.                                *)
(***************************************************************************)
EXTENDS Integers, Sequences, SequencesExt

CONSTANTS MAX_PROCESS,  \* the largest number of processes, idle included
          MAX_PID       \* pids are below this

\* get_pid's static_assert, and room for idle and init.
ASSUME PidAssumption ==
  /\ MAX_PROCESS \in Nat /\ MAX_PID \in Nat
  /\ MAX_PID > MAX_PROCESS /\ MAX_PROCESS >= 2

VARIABLES
  procList,   \* the pids along proc_list; idle, pid 0, is not in it
  last_pid,   \* get_pid's static variables
  next_safe,
  pc,         \* "none", "scan" in the walk, "found" when get_pid returns
  at,         \* the entry of the list the walk has come to
  from        \* last_pid at the call (for NextFree, the code does not keep it)

vars == <<procList, last_pid, next_safe, pc, at, from>>

Pid == 1 .. MAX_PID - 1
init == 1

InUse == {procList[k] : k \in DOMAIN procList}

-----------------------------------------------------------------------------
\* The increment of last_pid, at both places.
After(p) == IF p + 1 >= MAX_PID THEN 1 ELSE p + 1

\* do_fork's check; nr_process counts idle too.
HasRoom == Len(procList) + 1 < MAX_PROCESS

\* The label inside: the walk begins with nothing known of the list.
Restart == next_safe' = MAX_PID /\ at' = 1

Call ==
  /\ pc = "none" /\ HasRoom
  /\ from' = last_pid
  /\ last_pid' = After(last_pid)
  /\ IF last_pid' = 1 \/ last_pid' >= next_safe
     THEN pc' = "scan" /\ Restart
     ELSE pc' = "found" /\ UNCHANGED <<next_safe, at>>
  /\ UNCHANGED procList

\* last_pid is taken.  The next one may be tried in the same walk while it is
\* below every larger pid seen; else the walk is repeated.  Faults: the
\* repeated walk tries the same pid; it begins with pid 1.
HitAgain ==
  /\ procList[at] = last_pid
  /\ IF last_pid + 1 >= next_safe
     THEN UNCHANGED last_pid /\ Restart
     ELSE last_pid' = last_pid + 1 /\ at' = at + 1 /\ UNCHANGED next_safe
HitFromOne ==
  /\ procList[at] = last_pid
  /\ IF last_pid + 1 >= next_safe
     THEN last_pid' = 1 /\ Restart
     ELSE last_pid' = last_pid + 1 /\ at' = at + 1 /\ UNCHANGED next_safe
Hit ==
  /\ procList[at] = last_pid
  /\ IF last_pid + 1 >= next_safe
     THEN last_pid' = After(last_pid) /\ Restart
     ELSE last_pid' = last_pid + 1 /\ at' = at + 1 /\ UNCHANGED next_safe

\* next_safe is the least pid above last_pid.  Fault: it is the last one seen.
NarrowedToLatest(p) == IF p > last_pid THEN p ELSE next_safe
Narrowed(p) == IF p > last_pid /\ next_safe > p THEN p ELSE next_safe

Miss ==
  /\ procList[at] # last_pid
  /\ next_safe' = Narrowed(procList[at])
  /\ at' = at + 1 /\ UNCHANGED last_pid

Scan ==
  /\ pc = "scan" /\ at <= Len(procList)
  /\ Hit \/ Miss
  /\ UNCHANGED <<procList, pc, from>>

ScanEnds ==
  /\ pc = "scan" /\ at > Len(procList)
  /\ pc' = "found"
  /\ UNCHANGED <<procList, last_pid, next_safe, at, from>>

\* set_links puts the new process at the head of proc_list.
Link ==
  /\ pc = "found"
  /\ procList' = <<last_pid>> \o procList
  /\ pc' = "none"
  /\ UNCHANGED <<last_pid, next_safe, at, from>>

\* remove_links, when do_wait reaps a process; init is never reaped.
Unlink(k) ==
  /\ pc = "none" /\ procList[k] # init
  /\ procList' = RemoveAt(procList, k)
  /\ UNCHANGED <<last_pid, next_safe, pc, at, from>>

-----------------------------------------------------------------------------
Init ==
  /\ procList = <<>>
  /\ last_pid = MAX_PID /\ next_safe = MAX_PID
  /\ pc = "none" /\ at = 1 /\ from = MAX_PID

Search == Scan \/ ScanEnds

Next == \/ Call \/ Search \/ Link
        \/ \E k \in DOMAIN procList : Unlink(k)

Spec == Init /\ [][Next]_vars

\* Nothing interrupts get_pid, so its loop goes on.
FairSpec == Spec /\ WF_vars(Search)

-----------------------------------------------------------------------------
\* The types of the variables: every process has a valid pid.
TypeOK ==
  /\ procList \in Seq(Pid)
  /\ last_pid \in Pid \cup {MAX_PID} /\ from \in Pid \cup {MAX_PID}
  /\ pc # "none" => last_pid \in Pid
  /\ next_safe \in 2 .. MAX_PID
  /\ pc \in {"none", "scan", "found"}
  /\ at \in Nat \ {0}

\* No two processes have the same pid, whatever came and went between.
PidsDistinct ==
  \A j, k \in DOMAIN procList : procList[j] = procList[k] => j = k

\* Between calls no process has a pid strictly between last_pid and next_safe,
\* so that the next call need not look at the list.
WindowIsFree ==
  pc # "scan" => \A p \in InUse : ~(last_pid < p /\ p < next_safe)

\* What get_pid may rely on at its next call, and what its callers may (last_pid,
\* next_safe and the pids given so far).
PidsOK == TypeOK /\ PidsDistinct /\ WindowIsFree

\* get_pid tries pids in the order 1, 2, ..., MAX_PID - 1, 1, ..., from the one
\* it gave last, and all it passes over are in use: a pid that was freed comes
\* back as late as possible.
Passed == IF from < last_pid THEN from + 1 .. last_pid - 1
          ELSE (from + 1 .. MAX_PID - 1) \cup (1 .. last_pid - 1)
NextFree == pc = "found" => Passed \subseteq InUse

\* get_pid returns: MAX_PROCESS leaves a pid free.
SearchReturns == pc = "scan" ~> pc = "found"

-----------------------------------------------------------------------------
\* What the walk knows of the entries it has passed.
WalkOK ==
  pc = "scan" =>
    /\ last_pid < next_safe
    /\ \A k \in DOMAIN procList : k < at =>
         procList[k] # last_pid /\ (procList[k] > last_pid => procList[k] >= next_safe)

\* The inductive invariant.
IInv == /\ TypeOK /\ PidsDistinct /\ WindowIsFree /\ WalkOK
        /\ pc # "none" => Passed \subseteq InUse
        /\ pc = "found" => last_pid \notin InUse
=============================================================================
