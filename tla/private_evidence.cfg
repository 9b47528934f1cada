SPECIFICATION Spec
CONSTANTS
  p1 = p1
  p2 = p2
  p3 = p3
  s1 = s1
  c1 = c1
  c2 = c2
  t1 = t1
  d1 = d1
  d2 = d2
  d3 = d3
  None = None
  Process = {p1, p2, p3}
  Source = {s1}
  Content = {c1, c2}
  Output = {t1}
  Device = {d1, d2, d3}
  Targets <- MCTargets
  MaxCalls = 3
  MaxLosses = 1
SYMMETRY ProcessSymmetry
INVARIANTS
  TypeOK
  ReturnedIsStored
  CapsulesRestore
  SetsRedundant
CHECK_DEADLOCK FALSE
