CONSTANT
  N <- MCN
SPECIFICATION Spec
INVARIANTS
  TypeOK
  Consent
  NotRunIsTrue
  OneAnswerEach
  DoneIsDone
  ReleasedNeverRuns
PROPERTIES
  InOrderOnce
