------------------------------- MODULE MCCow -------------------------------
(***************************************************************************)
(* Instances of Cow for TLC: three processes, so that a page is shared by  *)
(* a parent, a child and a grandchild; a page of text that may not be      *)
(* written, one of data, and one of low stack with no frame behind it; as  *)
(* many frames as three processes need that share only the text.           *)
(* Nothing tells frames apart, nor words or their contents: they are       *)
(* symmetric.                                                              *)
(***************************************************************************)
EXTENDS Cow, TLC

Symmetry == Permutations(Frame) \cup Permutations(Word)
            \cup Permutations(Value)
=============================================================================
