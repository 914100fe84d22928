\* A relay that searches for the originator itself.
CONSTANTS
  a = a
  b = b
  c = c
  d = d
  Nodes = {a, b, c, d}
  NoNode = none
  Links <- Chain4
  Malicious = {}
  DestinationOnly = FALSE
  GratuitousReply = FALSE
  HelloNodes = {b}
  Searches <- Crossing
  Ttls = {3}
  RerrRateLimit = 1
  MaxRreqs = 1
  MaxHellos = 0
  MaxFaults = 0
SPECIFICATION Spec
CHECK_DEADLOCK FALSE
INVARIANTS RelayFindsOriginator
