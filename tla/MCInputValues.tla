---------------------------- MODULE MCInputValues ----------------------------
(* Instances of InputValues for TLC. *)
EXTENDS InputValues
=============================================================================
