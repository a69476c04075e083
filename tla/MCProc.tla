------------------------------- MODULE MCProc -------------------------------
(***************************************************************************)
(* Instances of Proc for TLC: a table of five processes (idle, init and    *)
(* three more), of four for the counterexample.  There is one pid more     *)
(* than the table needs, so that a pid is free when the table is full and  *)
(* freed pids are used again.                                              *)
(***************************************************************************)
EXTENDS Proc
=============================================================================
