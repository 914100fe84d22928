\* SendRequest calls that the rate limiter postpones, and no message.
CONSTANTS
  Dsts = {d1, d2}
  Ifaces = {i1}
  NoIface = none
  IsMalicious = FALSE
  RreqRetries = 1
  TtlStart = 1
  TtlIncrement = 1
  TtlThreshold = 1
  NetDiameter = 2
  RreqRateLimit = 2
  MaxQueueLen = 2
  SeqNos = {1}
  Hops = {1, 2}
  MaxPackets = 5
  MaxEvents = 0
  MaxRreqCnt = 2
  Bindings = {none}
SPECIFICATION Spec
INVARIANTS RetriesBounded
