\* A chain with a fault and a hello of the destination, and one RERR per window.
CONSTANTS
  a = a
  b = b
  c = c
  d = d
  Nodes = {a, b, c}
  NoNode = none
  Links <- Chain
  Malicious = {}
  DestinationOnly = FALSE
  GratuitousReply = FALSE
  HelloNodes = {c}
  Searches <- OneWay
  Ttls = {2}
  RerrRateLimit = 1
  MaxRreqs = 1
  MaxHellos = 1
  MaxFaults = 1
SPECIFICATION FairSpec
CHECK_DEADLOCK FALSE
INVARIANTS TypeOK SeqNoNotAhead RoutesAreWalks OneHopIsNeighbour
PROPERTIES DeadRoutesEnd DiscoverySucceeds
