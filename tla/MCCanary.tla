------------------------------ MODULE MCCanary ------------------------------
(* Canary with two processes and three tasks of a budget of two; leases
   last one tick, the envelope all but the last. *)
EXTENDS Canary, TLC

CONSTANTS p1, p2, a, b, c

Symmetry == Permutations(Process) \cup Permutations(Task)
=============================================================================
