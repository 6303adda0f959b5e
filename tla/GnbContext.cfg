SPECIFICATION MCSpec
CONSTANTS
  u1 = u1
  u2 = u2
  h1 = h1
  h2 = h2
  Acceptor = Acceptor
  NoUe = NoUe
  Ues <- MCUes
  Handlers <- MCHandlers
  Sessions = {1}
  NoSession = 0
  IpMod = 3
  FirstIp = 2
  MaxTeid = 5
  MaxMsgs = 4
  Start = 1
SYMMETRY Symmetry
INVARIANTS TypeOK DownlinkToOwner UplinkFromOwner ToldPlaced
PROPERTY TunnelKept
CHECK_DEADLOCK FALSE
