---------------------------- MODULE MCLeaseSystem ----------------------------
(* Instances of LeaseSystem for TLC. *)
EXTENDS LeaseSystem, TLC

Symmetry == Permutations(Resources) \cup Permutations(LeaseIds)
=============================================================================
