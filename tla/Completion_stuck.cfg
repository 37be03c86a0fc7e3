CONSTANTS
  MaxRound = 2
  Batches <- MCBatches
  MaxAsks = 2
  MaxFaults = 1
SPECIFICATION Spec
INVARIANT PendingIsRetried
\* The user may stop.
CHECK_DEADLOCK FALSE
