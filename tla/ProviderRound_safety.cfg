CONSTANTS
  o1 = o1
  o2 = o2
  o3 = o3
  NoOp = NoOp
  Op <- MCOp3
  NRounds = 2
  MaxLaunch = 3
  MaxFaults = 1
  MaxCrashes = 2
SPECIFICATION Spec
SYMMETRY Symmetric3
INVARIANTS TypeOK BilledOnce StoppedNeverRan DispatchRelation AnsweredOnce AnswersHold BootSucceeds
PROPERTY TerminalStays
\* An attempt ends.
CHECK_DEADLOCK FALSE
