CONSTANTS
  t1 = t1
  t2 = t2
  x1 = x1
  x2 = x2
  Threads <- MCThreads
  Txn <- MCTxn
  NoThread = NoThread
  MaxFaults = 2
  MaxCrashes = 2
  MaxReplace = 0
  ReplaceInWrite = FALSE
SPECIFICATION FairSpec
INVARIANTS TypeOK AckedDurable
PROPERTIES ImplementsStore TornIsFrozen LockReleased
\* A staged file left behind stops the store for good.
CHECK_DEADLOCK FALSE
