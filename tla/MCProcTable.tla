---------------------------- MODULE MCProcTable ----------------------------
(***************************************************************************)
(* An instance of ProcTable for TLC: idle, init and three more processes,  *)
(* pids 1 to 6 and two hash lists.                                         *)
(***************************************************************************)
EXTENDS ProcTable
=============================================================================
