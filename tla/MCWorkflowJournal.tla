-------------------------- MODULE MCWorkflowJournal --------------------------
(* Values of the constants of WorkflowJournal for TLC.                     *)
EXTENDS WorkflowJournal, TLC

(* The phases around a lease: the normal way on, a way out and back, and a  *)
(* terminal phase.                                                          *)
AroundLeased == {"LEASED", "BLOCKED", "READY", "FAILED"}

Symmetry == Permutations(Engine) \union Permutations(EventId)
=============================================================================
