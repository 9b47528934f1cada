----------------------- MODULE MCDurableExternalAction -----------------------
(* Values of the constants of DurableExternalAction for TLC.               *)
EXTENDS DurableExternalAction, TLC

CONSTANTS a1, a2, a3, w1, w2, i1, i2, d1

TwoAttempts == {a1, a2}
ThreeAttempts == {a1, a2, a3}
TwoWorkers == {w1, w2}
OneWorker == {w1}
OneIntent == {i1}
TwoIntents == {i1, i2}

(* Every attempt has a reference of its own: its own name serves.           *)
OwnRefs == [a \in Attempt |-> {a}]
SharedRef == [a \in Attempt |-> DispatchRef]

AttemptSymmetry == Permutations(Attempt)
Symmetry == Permutations(Worker) \union Permutations(Attempt)
=============================================================================
