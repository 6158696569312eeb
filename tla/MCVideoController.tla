-------------------------- MODULE MCVideoController --------------------------
(* Instances of VideoController for TLC. *)
EXTENDS VideoController
=============================================================================
