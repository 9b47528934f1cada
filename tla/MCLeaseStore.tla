---------------------------- MODULE MCLeaseStore ----------------------------
(* Values of the constants of LeaseStore for TLC.                          *)
EXTENDS LeaseStore, TLC

Symmetry == Permutations(Worker) \union Permutations(LeaseId) \union Permutations(StateName)
=============================================================================
