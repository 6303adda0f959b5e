SPECIFICATION FairSpec
CONSTANTS
  l1 = l1
  l2 = l2
  NoUe = NoUe
  Launches <- MCLaunches
  IdMod = 3
  Tries = 1
  Unix = FALSE
  MaxStops = 1
INVARIANTS TypeOK FailedLaunchClean LaunchedListed
PROPERTY LaunchReturns
CHECK_DEADLOCK FALSE
