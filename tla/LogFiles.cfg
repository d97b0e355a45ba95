SPECIFICATION LogFilesSpec
CONSTANTS
  Thread = {a, b}
  Log = {f, g}
  Records = 3
  NoLog = NoLog
  Crashes = 2
  Failures = 1
  MaxTerm = 2
  MaxIndex = 2
  MaxPieces = 3
  MaxFaults = 3
  Node = {n1, n2}
  Self = n1
  NoVote = NoVote
  NoMeta = NoMeta
CHECK_DEADLOCK FALSE
INVARIANTS
  TypeOK AckedIsDurable LsnsIncrease PromisesSurvive FileIsLog
PROPERTY QueueSyncEnds
