SPECIFICATION Spec
CONSTANTS
  Server = {n1, n2, n3}
  Sender = {tick}
  Tick = tick
  Value = {v}
  NOOP = NOOP
  Nil = Nil
  MaxLog = 2
  MaxLate = 1
  Budget <- MCBudget
SYMMETRY Symmetry
CHECK_DEADLOCK FALSE
INVARIANTS
  TypeOK
  ElectionSafety
  LogMatching
  LeaderCompleteness
  MatchIndexIsReplicated
PROPERTIES
  ImplementsReplicatedLog
