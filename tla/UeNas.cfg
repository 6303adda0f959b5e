SPECIFICATION FairSpec
CONSTANTS
  Sessions <- MCSessions
  Default <- MCDefault
  ChaosDrop = TRUE
  MaxDown = 4
  MaxActions = 2
INVARIANTS TypeOK RegisteredHasContext
PROPERTIES  RejectReported PendingResolves
CHECK_DEADLOCK FALSE
