SPECIFICATION SpecWait
CONSTANTS
  Server = {n1, n2, n3}
  Sender = {tick}
  Tick = tick
  Value = {v, w}
  NOOP = NOOP
  Nil = Nil
  MaxLog = 2
  MaxLate = 0
  Budget <- MCBudget
SYMMETRY Symmetry
CHECK_DEADLOCK FALSE
INVARIANTS
  AcknowledgedIsChosen
