SPECIFICATION Spec
CONSTANTS
  Worker = {w1, w2}
  LeaseId = {l1}
  StateName = {s1, s2}
  Ttl = {1, 2}
  MaxDelay = 1
  MaxAhead = 1
  MaxNow = 2
  MaxToken = 3
  MaxVersion = 3
  Nil = Nil
SYMMETRY Symmetry
INVARIANTS
  TypeOK
  TokensDistinct
  OneLiveLease
PROPERTIES
  NoLostUpdate
  OnlyNewestGrantWrites
CHECK_DEADLOCK FALSE
