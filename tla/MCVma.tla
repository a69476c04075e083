------------------------------- MODULE MCVma --------------------------------
(***************************************************************************)
(* Instances of Vma for TLC, with a page below user memory.                *)
(***************************************************************************)
EXTENDS Vma

\* Of a program's text, data and stack, as load_icode sets them.
ProgramFlags == {{"read"}, {"read", "write"}, {"read", "write", "stack"}}
=============================================================================
