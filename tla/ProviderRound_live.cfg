CONSTANTS
  o1 = o1
  o2 = o2
  o3 = o3
  NoOp = NoOp
  Op <- MCOp2
  NRounds = 1
  MaxLaunch = 2
  MaxFaults = 1
  MaxCrashes = 1
SPECIFICATION FairSpec
PROPERTY CallReturns
\* An attempt ends.
CHECK_DEADLOCK FALSE
