---------------------------- MODULE MCDefaultPmm ----------------------------
(***************************************************************************)
(* Instances of DefaultPmm for TLC.                                        *)
(***************************************************************************)
EXTENDS DefaultPmm
=============================================================================
