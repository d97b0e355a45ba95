SPECIFICATION Spec
CONSTANTS
  c1 = c1
  c2 = c2
  Conn <- MCConn
  Query <- MCQuery
  Extended = {c1}
  Prepared = {"select"}
  MaxBlocks = 1
  NoTxn = NoTxn
  NoQuery = NoQuery
  Base = 3
  MaxTs = 3
  Tombstone = Tombstone
  NotFound = NotFound
  s1 = s1
  s2 = s2
  Shard <- MCShard
  MinInt <- MCMinInt
  MaxInt = 5
  Id <- MCId
  Cell = {1, 2}
  ShardFor <- MCShardFor
  HashJoinKey <- MCHash
  BroadcastRowThreshold = 1
  Bound = {2, 3, 5}
CHECK_DEADLOCK FALSE
INVARIANTS
  LeftoversExplained IndicatorIsTrue CommittedIsClean StoppedIsQuiet
  GetIsExact TableIsExact SelectIsExact JoinsAgree
PROPERTY StopEnds
