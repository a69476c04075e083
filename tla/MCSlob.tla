------------------------------- MODULE MCSlob -------------------------------
(***************************************************************************)
(* Instances of Slob for TLC, in pages of six cells of two bytes: objects  *)
(* of 1 to 7 bytes come from the circle, 8 and 9 run into the assertion,   *)
(* and from 10 bytes on whole pages are given.                             *)
(***************************************************************************)
EXTENDS Slob
=============================================================================
