--------------------------- MODULE MCPublication ---------------------------
(***************************************************************************)
(* Instances of publication for TLC: every constant is a number.           *)
(***************************************************************************)
EXTENDS Publication
=============================================================================
