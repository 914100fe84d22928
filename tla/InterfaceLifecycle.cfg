\* Two interfaces whose addresses are in subnets of their own.
CONSTANTS
  a = a
  b = b
  x = x
  y = y
  Ifaces = {i1, i2}
  Addrs = {a, b}
  NoAddr = none
  Broadcast <- Separate
  Peers = {p}
  HelloInterval = 3
  StartDelay = 1
  MaxChanges = 9
SPECIFICATION Spec
CHECK_DEADLOCK FALSE
INVARIANTS TypeOK MainSocketsExact RoutesHaveSocket BroadcastsHeard NoUnknownSocket ReceiverIsOwn SilenceBounded
