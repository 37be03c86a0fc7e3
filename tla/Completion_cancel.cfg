CONSTANTS
  MaxRound = 2
  Batches <- MCBatches
  MaxAsks = 2
  MaxFaults = 0
SPECIFICATION Spec
PROPERTY ProjectCancelIsHeard
\* The user may stop.
CHECK_DEADLOCK FALSE
