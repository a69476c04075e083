---------------------------- MODULE MCTrapEntry ----------------------------
(***************************************************************************)
(* The instance of TrapEntry for TLC: the boot thread, init and two        *)
(* proc_structs for user processes, which are freed and used again.        *)
(***************************************************************************)
EXTENDS TrapEntry
=============================================================================
