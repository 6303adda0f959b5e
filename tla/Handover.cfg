SPECIFICATION FairSpec
CONSTANTS
  a = a
  b = b
  c = c
  Gnbs <- MCTwoGnbs
  Home = a
  NoGnb = NoGnb
  Unix = TRUE
  MaxHandovers = 3
  MaxHurried = 2
INVARIANTS TypeOK TunnelsKept ServedWhenQuiet DownlinkHasSocket ServingInPool
PROPERTIES HandoverEnds
CHECK_DEADLOCK FALSE
