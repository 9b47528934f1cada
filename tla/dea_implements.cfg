SPECIFICATION Spec
CONSTANTS
  a1 = a1
  a2 = a2
  a3 = a3
  w1 = w1
  w2 = w2
  i1 = i1
  i2 = i2
  d1 = d1
  Nil = Nil
  Attempt <- TwoAttempts
  Intent <- TwoIntents
  DispatchRef <- TwoAttempts
  RefsOf <- OwnRefs
  Worker <- TwoWorkers
  Reconciler <- TwoWorkers
  Offered <- StandaloneOp
  Disciplined = FALSE
  MaxTransitions = 4
  ReserveTries = 2
  MaxEffects = 2
SYMMETRY Symmetry
INVARIANTS
  TypeOK
  StreamFoldable
  FencedInvocation
  ReceiptsAgree
PROPERTY
  ImplementsReference
