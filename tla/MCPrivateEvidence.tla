-------------------------- MODULE MCPrivateEvidence --------------------------
(* Values of the constants of PrivateEvidence for TLC.                     *)
EXTENDS PrivateEvidence, TLC

CONSTANTS p1, p2, p3, s1, c1, c2, t1, d1, d2, d3

MCTargets == {<<d1, d2>>, <<d3, d1>>, <<d2>>}
ProcessSymmetry == Permutations(Process) \cup Permutations(Content)
=============================================================================
