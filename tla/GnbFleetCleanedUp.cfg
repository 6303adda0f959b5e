SPECIFICATION Spec
CONSTANTS
  p1 = p1
  p2 = p2
  g1 = g1
  g2 = g2
  i1 = i1
  i2 = i2
  NoGnb = NoGnb
  Profiles <- MCProfiles
  Gnbs <- MCGnbs
  GnbIds <- MCGnbIds
  Link <- MCLink
INVARIANT ExitedCleanedUp
CHECK_DEADLOCK FALSE
