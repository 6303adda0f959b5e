SPECIFICATION Spec
CONSTANTS
  a = a
  b = b
  c = c
  Gnbs <- MCThreeGnbs
  Home = a
  NoGnb = NoGnb
  Unix = FALSE
  MaxHandovers = 3
  MaxHurried = 2
INVARIANT ServingKept
CHECK_DEADLOCK FALSE
