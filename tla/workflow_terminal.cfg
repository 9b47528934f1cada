SPECIFICATION Spec
CONSTANTS
  Engine = {g1, g2}
  EventId = {e1, e2}
  Requested <- AroundLeased
  Epoch = {1, 2}
  MaxEvents = 3
  Nil = Nil
SYMMETRY Symmetry
INVARIANT
  TerminalIsFinal
