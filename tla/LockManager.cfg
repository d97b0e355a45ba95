SPECIFICATION FairSpec
CONSTANTS
  a1 = a1  a2 = a2  b = b  c = c
  t1 = t1  t2 = t2  t3 = t3
  Thread <- MCThread
  Txn <- MCTxn
  TxnOf <- MCTxnOf
  Key = {k1, k2}
  NoTxn = NoTxn
  NoKey = NoKey
  NoThread = NoThread
  MaxHold = 2
  MaxShared = 0
INVARIANTS
  TypeOK RecordedIsOwned HoldCountMatchesClaims QueueMatchesWaiters
PROPERTIES
  HandOverIsFifo AcquireReturns
