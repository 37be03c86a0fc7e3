CONSTANTS
  t1 = t1
  t2 = t2
  x1 = x1
  x2 = x2
  Threads <- MCThreads
  Txn <- MCTxn
  NoThread = NoThread
  MaxFaults = 1
  MaxCrashes = 1
  MaxReplace = 2
  ReplaceInWrite = FALSE
SPECIFICATION Spec
SYMMETRY Symmetric
INVARIANT ResidentCoherent
PROPERTY NoLostUpdate
\* A staged file left behind stops the store for good.
CHECK_DEADLOCK FALSE
