\* One interface, timers that fire, and a rate limit that is never reached.
CONSTANTS
  Dsts = {d1, d2}
  Ifaces = {i1}
  NoIface = none
  IsMalicious = FALSE
  RreqRetries = 1
  TtlStart = 1
  TtlIncrement = 1
  TtlThreshold = 2
  NetDiameter = 3
  RreqRateLimit = 9
  MaxQueueLen = 2
  SeqNos = {1, 2}
  Hops = {1, 2}
  MaxPackets = 2
  MaxEvents = 2
  MaxRreqCnt = 2
  Bindings = {none}
SPECIFICATION FairSpec
INVARIANTS RetriesBounded
PROPERTIES RepliesEmptyQueue QueueDrains SearchEnds
