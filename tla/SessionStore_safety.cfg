CONSTANTS
  c1 = c1
  Chat <- MCOne
  MaxEdits = 3
  MaxFaults = 3
  MaxLaunch = 2
  MaxPending = 2
  MaxRecent = 1
SPECIFICATION Spec
INVARIANTS TypeOK AnswersTrue OncePerOperation CheckpointsStay EditsSurvive NoLeak
\* The user may stop.
CHECK_DEADLOCK FALSE
