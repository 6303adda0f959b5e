SPECIFICATION FairSpec
CONSTANTS
  r1 = r1
  r2 = r2
  NoOne = NoOne
  Requests <- MCRequests
  MaxSteps = 3
  MaxStops = 3
INVARIANTS TypeOK RunningStatusAlive NoUeLeftInRunner
PROPERTY StoppedUeGone
CHECK_DEADLOCK FALSE
