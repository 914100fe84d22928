\* Packets that are bound to one of two interfaces.
CONSTANTS
  Dsts = {d1, d2}
  Ifaces = {i1, i2}
  NoIface = none
  IsMalicious = FALSE
  RreqRetries = 1
  TtlStart = 1
  TtlIncrement = 1
  TtlThreshold = 2
  NetDiameter = 4
  RreqRateLimit = 9
  MaxQueueLen = 2
  SeqNos = {1}
  Hops = {1, 2}
  MaxPackets = 2
  MaxEvents = 1
  MaxRreqCnt = 2
  Bindings = {none, i1}
SPECIFICATION Spec
PROPERTIES RepliesEmptyQueue
