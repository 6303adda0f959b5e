SPECIFICATION FairSpec
CONSTANTS
  r1 = r1
  r2 = r2
  NoOne = NoOne
  Requests <- MCRequests
  MaxSteps = 2
  MaxStops = 2
PROPERTY StopTerminates
CHECK_DEADLOCK FALSE
