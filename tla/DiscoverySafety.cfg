\* Two destinations and two interfaces that go down and up.
CONSTANTS
  Dsts = {d1, d2}
  Ifaces = {i1, i2}
  NoIface = none
  IsMalicious = TRUE
  RreqRetries = 1
  TtlStart = 1
  TtlIncrement = 1
  TtlThreshold = 2
  NetDiameter = 2
  RreqRateLimit = 2
  MaxQueueLen = 2
  SeqNos = {1, 2}
  Hops = {1, 2}
  MaxPackets = 3
  MaxEvents = 2
  MaxRreqCnt = 2
  Bindings = {none}
SPECIFICATION Spec
SYMMETRY Symmetry
INVARIANTS TypeOK SearchIsDriven QueueIsDriven QueueBounded NeverAborts RoutesHaveDevice
PROPERTIES ImplementsDiscovery ExceededByPostponed
