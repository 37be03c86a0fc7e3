CONSTANTS
  MaxRound = 2
  Batches <- MCBatches
  MaxAsks = 2
  MaxFaults = 2
SPECIFICATION Spec
INVARIANTS TypeOK Consent NativeReleased Driven
PROPERTIES DispatchIsDurable OverIsQuiet CancelIsHeard
\* The user may stop.
CHECK_DEADLOCK FALSE
