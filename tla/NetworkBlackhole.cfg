\* A square in which one of the two relays is malicious.
CONSTANTS
  a = a
  b = b
  c = c
  d = d
  Nodes = {a, b, c, d}
  NoNode = none
  Links <- Square
  Malicious = {b}
  DestinationOnly = FALSE
  GratuitousReply = FALSE
  HelloNodes = {b}
  Searches <- OneWay
  Ttls = {2}
  RerrRateLimit = 1
  MaxRreqs = 2
  MaxHellos = 0
  MaxFaults = 0
SPECIFICATION FairSpec
CHECK_DEADLOCK FALSE
PROPERTIES FalseRouteWins
