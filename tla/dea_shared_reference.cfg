SPECIFICATION Spec
CONSTANTS
  a1 = a1
  a2 = a2
  a3 = a3
  w1 = w1
  w2 = w2
  i1 = i1
  i2 = i2
  d1 = d1
  Nil = Nil
  Attempt <- TwoAttempts
  Intent <- OneIntent
  DispatchRef = {d1}
  RefsOf <- SharedRef
  Worker <- TwoWorkers
  Reconciler <- OneWorker
  Offered = {"mark_pre_effect_failed"}
  Disciplined = TRUE
  MaxTransitions = 9
  ReserveTries = 4
  MaxEffects = 2
SYMMETRY AttemptSymmetry
INVARIANT
  FencedInvocation
