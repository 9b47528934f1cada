---------------------------- MODULE MCCaseLedger ----------------------------
(* CaseLedger with two processes and a bundle of a filed case.              *)
EXTENDS CaseLedger, TLC

CONSTANTS p1, p2

MCBundles == {<<Content("receipt", 1, 0), Content("filed", 1, 0)>>}

Symmetry == Permutations(Process)
=============================================================================
