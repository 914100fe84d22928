\* A chain in which two neighbours search for the node at the other end.
CONSTANTS
  a = a
  b = b
  c = c
  d = d
  Nodes = {a, b, c, d}
  NoNode = none
  Links <- Chain4
  Malicious = {}
  DestinationOnly = FALSE
  GratuitousReply = TRUE
  HelloNodes = {b}
  Searches <- Relayed
  Ttls = {3}
  RerrRateLimit = 1
  MaxRreqs = 1
  MaxHellos = 0
  MaxFaults = 0
SPECIFICATION Spec
CHECK_DEADLOCK FALSE
INVARIANTS OwnFloodsIgnored NoMutualNextHop UnsearchedIsFound NextHopsKnown
