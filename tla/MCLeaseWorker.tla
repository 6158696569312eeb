---------------------------- MODULE MCLeaseWorker ----------------------------
(* Instances of LeaseWorker for TLC. *)
EXTENDS LeaseWorker, TLC

Symmetry == Permutations(Resources) \cup Permutations(LeaseIds) \cup Permutations(Callers)
=============================================================================
