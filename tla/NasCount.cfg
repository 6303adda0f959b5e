SPECIFICATION Spec
CONSTANTS
  SqnMod = 3
  OverflowMod = 2
  h1 = h1
  h2 = h2
  e1 = e1
  e2 = e2
  Handlers <- MCHandlers
  Encoders <- MCEncoders
  MaxLoss = 1
  MaxDown = 6
  MaxUp = 4
  MaxMsgs = 6
SYMMETRY Sym
INVARIANTS TypeOK InOrderAccepted UlCountFresh NewContextAccepted UplinkAccepted
CHECK_DEADLOCK FALSE
