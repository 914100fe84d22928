# A TLA+ model of AODV with black-hole and wormhole extensions, and of its RTT estimator

The repository extends the ns-3 AODV routing protocol with two attacks (a
malicious node that answers every route request, and a tunnel between two
nodes) and adapts ns-3's round-trip-time estimator, which is to show a receiver the
delay a tunnel adds. This directory holds the specifications of its
core logic, the configurations that model-check them and the proofs about them.

Paths are relative to `src/`; `aodv` stands for
`Task B - Wormhole Detection/aodv-routing-protocol`, `rtt` for
`Task B - Wormhole Detection/rtt-estimator`.

## 1. Inventory

| Component | State | Operations |
|---|---|---|
| Route discovery (`aodv.cc`) | entry flags and RREQ counters, `m_queue`, `m_addressReqTimer`, `m_rreqCount` and its timer, packets in the loopback device | `RouteOutput`, `DeferredRouteOutput`, `SendRequest`, `ScheduleRreqRetry`, `RouteRequestTimerExpire`, `RreqRateLimitTimerExpire`, `SendPacketFromQueue` |
| Control and data plane (`aodv.cc`) | `m_routingTable` with sequence numbers, hop counts, next hops and precursors, `m_seqNo`, `m_requestId`, `m_rreqIdCache` | `RecvRequest`, `SendReply`, `SendReplyByIntermediateNode`, `RecvReply`, `RecvReplyAck`, `ProcessHello`, `RecvError`, `UpdateRouteToNeighbor`, the three RERR senders, `RouteInput`, `Forwarding` |
| Black hole (`aodv.cc`, `IsMalicious`) | none of its own | a branch of `RecvRequest` (false reply) and of `Forwarding` (drop) |
| Wormhole (`aodv.cc`, `EnableWrmAttack`) | the addresses of the tunnel's ends | branches of `RecvRequest`, `ProcessHello`, `Forwarding` and interface notification that redirect routes into the tunnel |
| Hello timer, RERR rate limiter (`aodv.cc`) | `m_htimer`, `m_lastBcastTime`, `m_rerrCount` | `HelloTimerExpire`, `SendHello`, `RerrRateLimitTimerExpire` |
| Interfaces and addresses (`aodv.cc`) | `m_socketAddresses`, `m_socketSubnetBroadcastAddresses`, the sockets in them, broadcast routes | `NotifyInterfaceUp/Down`, `NotifyAdd/RemoveAddress`, `DoDispose`, the lookups of `RecvAodv` and the senders |
| RTT estimator (`rtt.cc`, `rtt.h`) | estimate, variation, number of samples, gains, the last sample and delta | `Measurement`, `Reset`, `Copy`, attributes |
| `MyApp` (`myapp.h`, two copies) | socket, send event, running flag, packet counter | start, stop, send, schedule |
| Experiment scripts | ns-3 scenarios, throughput counters | straight-line set-up and output |

**How they interact.** The IP layer calls `RouteOutput`; without a route the
packet goes through the loopback device and comes back to `RouteInput`, which
queues it and starts a search. Between the two calls any event may run. A search
sends a RREQ and arms a timer of its destination; the rate limiter may postpone
the call. UDP delivers control messages to `RecvAodv`, which refreshes the route
to the sender and hands the message to its handler. A reply or the timer flushes
the queue. The link layer and the neighbour timer report lost next hops, which
become RERRs. The IP layer reports interfaces and addresses; the handlers open
and close the sockets every message goes through, clear the routes of an address
that has gone and stop the hello timer with the last interface. The estimator is
independent of the protocol, and nothing in the repository but its test
(`rtt-test.cc`) calls it: `newWormhole.cc` includes the header and no more. Its
environment is what the class admits: samples, resets, copies and changed gains
in any order.

**What is hard.** Every handler runs to completion, so there is no data race.
What goes wrong goes wrong *between* handlers: a route that is looked up,
then changed before the packet is back; messages that overtake each other; a
postponed call that runs after the search it belonged to is over; an entry used
for four purposes (the destination, the originator, the previous hop, a
neighbour) that are sometimes the same node; precursors updated on copies of
entries; two maps of sockets that four handlers keep in step by lookups; a time
that is also a flag; arithmetic that rounds down for negative differences. Nothing is
persisted and nodes do not restart. `PROJECT.json` lists every hazard at its
line, with the properties that watch it.

**What makes each component correct.** Route discovery: no search and no packet
is forgotten, every search ends, limits are kept. Control plane: sequence
numbers come from their owners, floods end, routes are made where there is a
path and go away where there is none, and every route stands for a walk. Interfaces:
each interface that is up has its sockets, and what refers to a socket finds it.
Hello timer: a node is not silent for longer than the interval. Estimator: nothing but the samples since
the last reset determines what it reports, within their range.

## 2. Modules

| Module | Models |
|---|---|
| `Discovery` | what route discovery promises the packets of a node: the abstract specification |
| `RouteDiscovery` | route discovery at one node against an environment of applications, messages and losses; implements `Discovery` |
| `AodvNetwork` | the control and data plane of a network of nodes, with malicious ones |
| `HelloTimer` | the hello timer and the time of the last broadcast |
| `Interfaces` | interfaces, addresses, sockets and routes by interface, composed with `HelloTimer` |
| `RttEstimator` | the estimator objects of a program |
| `MCRouteDiscovery`, `MCAodvNetwork`, `MCInterfaces`, `MCRttEstimator` | small instances: symmetry, topologies, who searches for whom, subnets |
| `RouteDiscoveryProofs`, `DiscoveryRefinementProofs`, `AodvNetworkProofs`, `AodvNeighbourProofs`, `AodvWalkProofs`, `AodvForestProofs`, `InterfacesProofs`, `RttEstimatorProofs` | theorems and proofs |

`RouteDiscovery` and `AodvNetwork` divide the protocol: the first has everything that decides
*when* a node searches, with messages of arbitrary content from the environment;
the second has everything that decides *what* messages contain, with nodes
that may search at any time. `RouteDiscovery` accepts any message but for two
guards on hop counts: a RREQ of one hop, and only such a RREQ, is from its
originator, and a RREP of one hop is from its destination. `HopsAreAsAssumed` proves
that no network of `AodvNetwork` produces another. `Interfaces` has what lies under both, the
sockets by which messages come and go.

### RouteDiscovery

`table[d]` is the routing-table entry of `d`: its flag (with `NONE` for an absent
entry), hop count, sequence number and its valid bit, RREQ counter, and output
device. `queue` and `loopback` are sets of packets, numbered in the order the
application submitted them. `reqTimer` is the set of running entries of
`m_addressReqTimer`. A call `SendRequest` at the rate limit schedules itself
100 us after the end of the window: `deferred` counts such calls by destination,
`RreqRateLimitTimerExpire` moves them to `ready`, and `DeferredSendRequest` runs
one. `aborted` records that `NS_ABORT_MSG_UNLESS` in `ScheduleRreqRetry` has fired.

- `RouteOutput`, `DeferredRouteOutput` are the two halves of sending a packet
  without a route; `QueueTimeout` is the purge of old packets.
- `RouteRequestTimerExpire` has the three outcomes of the handler. Its
  `GiveUp` is shared by "retries used up" and "no longer searching".
- `RecvReply`, `RecvRequest`, `ProcessHello`, `RecvError`, `RecvReplyAck`,
  `RecvDuplicate` are the effect of each message on this node's table, timers
  and queue, after `NeighborUpdated` (`UpdateRouteToNeighbor`). With `IsMalicious`
  a RREQ for a destination the table has an entry of, `IN_SEARCH` or not, may replace that
  entry by the route the node makes up (`aodv.cc:1490`, the `Update` of
  `SendReplyByIntermediateNode`).
  A RERR may list its own sender: a destination that relays a RREP about itself
  has a route to itself (section 4).
- `LoseRoutes`, `EraseRoutes`, `NotifyInterfaceDown`, `NotifyInterfaceUp` take
  routes and interfaces away.

Abstracted: times. A timer may fire at any moment, so the retry interval (and the
overflow of its shift) is not part of the model, and a lifetime ends whenever
`LoseRoutes` or `EraseRoutes` says so. The assertion of `LoopbackRoute` is not
modelled; such a packet is passed on.

### Discovery

Four variables: packets `coming` through the loopback device, packets `waiting`
in the queue, destinations that are `pursued`, and the `count` that numbers packets. A
packet is submitted; arrives, in order, and is refused or waits with its
destination pursued; the first packets for a destination depart, and only when none
is left may the pursuit end; the oldest packets are given up for age or for room.
`RouteDiscovery!ImplementsDiscovery` is the refinement: `coming` is `loopback`,
`waiting` is `queue`, `count` is `submitted`, and `pursued` is the set of
destinations with a RREQ timer or a postponed `SendRequest` (`Driven`). The mapping
hides tables, messages, retries and the rate limiter; what it says of the code is
that none of them loses, reorders or forgets a packet. Several concrete steps
are one abstract step: a reply and a timer that gives up are both `Depart`.

### AodvNetwork

`rt[n][d]` is node `n`'s entry for `d`, with next hop and precursors; `seqNo`,
`reqId` and `seen` are the node's counters and its RREQ id cache. `msgs` is the
set of messages in flight: they arrive in any order, and under `Spec` perhaps
never. A broadcast is one copy per neighbour in range; a unicast out of range is
lost at once. A handler is one action on one node, with the refresh of the
sender's route first, the reverse route and the entry of the previous hop next
(in this order, since they can be the same entry), then the answer.

Details kept because they matter: the reverse route takes the next hop and hop
count of the latest RREQ whatever its sequence number, and keeps its flag; the
entry of the previous hop receives the *originator's* sequence number, marked
invalid; `RecvReply` updates precursors on a copy of the originator's entry made
before the next hop's entry changes, so the later write can undo the earlier; a
malicious node answers before it has looked the destination up. `rerrCount` is the
counter of the RERR limiter: both senders test it for equality with
`RerrRateLimit`, the unicast path of `SendRerrMessage` increments it if it finds a
route, and `RerrRateLimitTimerExpire` resets it.

Left out: several interfaces per node, lifetimes (`Purge` may expire a route
at any time, within `MaxFaults`), broadcast data packets, the expiry of the RREQ
id cache, the blacklist of unidirectional links, the wormhole branches, and the
retry of `SendRequest` (a node searches `MaxRreqs` times at most).

`Unicast` hands a message straight to the channel. In the code a RREP, RREP-ACK or
RERR for one node goes out by UDP and so through `RouteOutput` (`aodv.cc:418`). With
a valid one-hop route to the next hop this is the same. With a longer route to
it the message takes a detour, and with none it waits in the queue behind a search
for the next hop: either way it is late or, if the search fails, lost, which `Spec` admits of
every message. `NextHopsKnown` says when the second does not happen: while nothing fails
and nobody searches for the next hop. A malicious node's gratuitous reply is
addressed to a node it may have no route to, and would start a search there.

### Interfaces and HelloTimer

`first[i]` is `GetAddress(i, 0)`, `others[i]` the further addresses of an interface,
`up` the interfaces that are up. `main` and `bcast` are the two maps, sets of records of
a socket and an address; `ends` has the sockets that are bound, each with
device and address; `via[d]` is the interface address of the route to a node or of
the local route of a broadcast address. The maps are ordered by the places of
sockets in memory, so a lookup by address that several sockets match may find any.
`Bind` does nothing if another socket is bound to the address on the device, and no
handler looks at its result. `NotifyRemoveAddress` erases the broadcast socket from the
first map, where it is not, so `bcast` keeps an entry of a closed socket.

`HelloTimer` counts ticks: `hdelay` is what is left of `m_htimer`, `bcastAge` the time
since `m_lastBcastTime`, which `bcastSet` tells from zero; a broadcast at time
zero is not seen (`begun`). `silence` is auxiliary, the time since the node with an
interface last sent a broadcast. `Interfaces` composes it: RREQs and hellos go out
on every main socket, and the timer is cancelled when the last one goes.

Assumed of ns-3: an interface has an address when it is brought up or down, is not
brought up twice, and an address is on one interface at a time. Left out: the
loopback interface, which the handlers skip, ARP caches and layer-2 callbacks, and
the jitter of at most 10 ms between a decision to send and the sending.

### RttEstimator

`rtt[i]` holds the fields of each object, in ticks of class `Time`. A gain is
counted in parts of `Scale`, a multiple of 32, so that the powers of two that
`CheckForReciprocalPowerOfTwo` looks for are exact. `IntegerUpdate` is exact,
with an arithmetic shift that rounds down. `FloatingPointUpdate` may produce
either tick around the exact value, which covers rounding and truncation.
`history` is auxiliary: the least and greatest sample since the last reset.
`Copy` gives another object the copied fields and `Time`'s default for the two
the copy constructor does not name.

## 3. Runs

All runs use two workers and end within five minutes. Deadlock is checked in the
runs of `RouteDiscovery` and `RttEstimator`, where some action is always enabled.
The runs of `AodvNetwork` say `CHECK_DEADLOCK FALSE`: with bounded searches, hellos
and faults the network comes to rest. So do those of `Interfaces`, where nothing
happens after `DoDispose`.

| Run | Question | Instance |
|---|---|---|
| `DiscoverySafety` | Does the node implement `Discovery`? Is every search and every queued packet driven? Are the limits kept, the assertion safe, the devices known? What takes a search past its retries? | 2 destinations, 2 interfaces, 3 packets, 2 messages or interface changes, queue of 2, 2 RREQs a window |
| `DiscoveryLiveness` | Does every packet leave the queue and every search end? Do retries stay within `RreqRetries` when nothing is postponed? Does a reply empty the queue of its packets? | 2 destinations, 1 interface, 2 packets, 2 messages |
| `RetriesExceeded` (violation) | The same bound with a rate limit of 2 | 5 packets, no message |
| `PacketsStranded` (violation) | Does the flush after a reply leave packets behind? | packets bound to one of 2 interfaces |
| `NetworkRoutes` | Own floods, two-node loops, replies to a node nobody searches for, routes to next hops | chain a-b-c-d, a and b search for d, gratuitous replies, no fault |
| `NetworkBreaks` | Sequence numbers, walks, one-hop routes. Does a search end in a route while nothing fails? Does a source stop using a dead route, with a limit on RERRs? | chain a-b-c, a search, data, a fault, a hello of the destination, one RERR a window |
| `NetworkBlackhole` | Does the route go through the malicious relay? | square with one malicious relay, a search and its repetition |
| `ReplyDropped` (violation) | Does a relay ever drop a reply at "Impossible! drop."? | chain a-b-c-d, a searches for d, c for a |
| `InterfaceLifecycle` | Do the lookups succeed that handlers assert? Are receiving sockets known and their addresses own? Is a node ever silent for too long? | 2 interfaces, 2 addresses in subnets of their own, 9 notifications, hello interval of 3 ticks |
| `HelloNotResumed` (violation) | Does the hello timer run as long as there is an interface? | the same, interval of 2 ticks |
| `RttBounds` | Estimate and variation within the samples, never stuck above | 2 objects, gains 1/2 and 3/32, 3 samples between resets |
| `RttSampleStale` (violation) | Is `MeasuredRttSample` the sample measured? | 2 objects |

**Bounds.** `RouteDiscovery`: a packet on its way through the loopback device, one
in the queue and one that makes the queue overflow need three packets; a search
that is answered while another event changes its entry needs two messages. The
ring of `DiscoveryLiveness` has TTLs 1, 2 and the full diameter 3, so a search passes each
branch of `SearchTtl`; in `DiscoverySafety` the full diameter 2 is the threshold, so it
is reached by an increment. Retries end at a counter of 1; the counter saturates one above
`RreqRetries`, and the code compares it with 0 and `RreqRetries` only.
`DiscoverySafety` is of a malicious node, whose steps include those of another;
the other runs are of one that is not. `DiscoveryLiveness` uses a rate limit that
is not reached, since with it a search may exceed its retries (see
`RetriesExceeded`); the searches nevertheless pass their timers in every order. `AodvNetwork`: three nodes in a chain are the least
with a relay, four the least in which a reply passes two, and four in a square the least with two disjoint paths over
which messages race. With four nodes, two searches and no fault `NetworkRoutes` has 65 thousand
states, with a fault some millions; `NetworkBreaks` has the fault.
`MCAodvNetwork!ChainsAreDirected` evaluates the hypothesis of `RoutesDoNotTurnBack` for the
chains. One fault is a link that breaks or a route that expires; a limit of
one RERR makes the limiter refuse the next while its window lasts; and a hello that
left before the link broke may make the route valid again after it was found dead. `Interfaces`:
nine notifications bring both interfaces up with an address each, take one
address away, give its interface the other's, and back; a socket left behind under an
address meets the one opened for it later. An interval of three ticks with a
start of 0 or 1 puts broadcasts before, on and after an expiry. `RttBounds`: samples 0
and 2 make differences of both signs and half-tick values; three samples are the first, one that moves away and
one that comes back. The theorems remove the bounds of all but the properties
named in section 5.

**Fairness.** The simulator runs every event it holds, so `RouteDiscovery` assumes
weak fairness of its timers, postponed calls and loopback deliveries, and of
nothing in the environment: no message need arrive and no route appear.
`AodvNetwork!FairSpec` also assumes that messages to nodes in range arrive and are
handled (by type and node, as the channel of the scripts delivers them), that
every node of `Searches` does search, that a source goes on sending data, and
that every node whose neighbour is out of range gets to know of it, which the
neighbour timer or the missing acknowledgement brings about, and that the RERR window of
every node ends, which is a timer. `DiscoverySucceeds` is asked of behaviours
without a fault. These are
assumptions on the scenario, not on the code: under loss, a search ends by
`SearchEnds` instead.

## 4. What the runs found

Disagreements between the code and what its comments and attributes say; each is
a `findings` entry with the run that shows it.

- *Retries past the maximum* (`RetriesExceeded`): the timer tests the counter
  for equality with `m_rreqRetries`, but postponed `SendRequest` calls count the
  entry too. Two of them in one window take it past the test, and the search
  only ends with a reply or the loss of its entry.
- *Packets stranded* (`PacketsStranded`): a packet bound to another interface ends
  the flush; the packets behind it have neither timer nor search.
- *Reply dropped as impossible* (`ReplyDropped`): a relay that itself searches for
  the originator has its reverse route flagged `IN_SEARCH` and drops the reply.
- *Hello not resumed* (`HelloNotResumed`): the hello timer is cancelled with the last
  interface and only ever started by `DoInitialize`, so a node whose interface comes
  back says no more hellos (`aodv.cc:839`, `956`).
- *Stale sample* (`RttSampleStale`): only the integer update stores the sample
  that `MeasuredRttSample` promises to return.

Observations without a run of their own:

- The answer to a running search is stored whatever its sequence number
  (`aodv.cc:1726`), without the comparison the comment lists (`aodv.cc:1683`).
- `NotifyRemoveAddress` erases the broadcast socket from the wrong map
  (`aodv.cc:917`). With subnets of their own the entry that stays does no harm
  (`InterfaceLifecycle`). If two addresses share a broadcast address
  (`Shared` in `MCInterfaces`), `ReceiverIsOwn` fails: an address b is added to an interface
  that is up, removed and added again, then a is added to it and b removed; b's
  socket stays bound to the broadcast address that a uses, and what it
  receives is taken for a message to b.
- The main socket that `NotifyAddAddress` opens is the only one without
  `SetIpRecvTtl` (`aodv.cc:876`). Once a running interface has lost its address and
  got another, a relay reads the TTL of a RREP from a tag that is not there.
- The comment on the RERR limiter (`aodv.cc:2121`) says that no more than
  `RERR_RATELIMIT` RERRs are originated per second; only those `SendRerrMessage`
  sends to a single precursor are counted. Broadcast RERRs, and those
  `SendRerrWhenNoRouteToForward` sends, are not.
- Nothing makes the TTL attributes meet `TtlAssumption`, under which
  `RetriesNeverAbort` is proved. With `TtlStart` above `NetDiameter` the first search
  does not count its RREQ (`aodv.cc:1093` tests for equality) and ends the program at
  `aodv.cc:1178`.
- A search that starts from a lost route uses `min(hop + TtlIncrement,
  NetDiameter)` (`aodv.cc:1059`), which may lie between `TtlThreshold` and
  `NetDiameter`, though the attribute's text says the latter is used beyond it.
- `LoopbackRoute` finds no source address for a packet bound to an interface
  that is down while another is up (`aodv.cc:1027`).
- The copy constructor of `RttEstimator` does not copy the sample and the delta
  (`rtt.cc:86`), while `Copy` is documented to include the internal state.
- `NoMutualNextHop` holds in networks without cycles, by proof, and fails in others: two RREQs of one
  originator that arrive reordered in a square do produce a pair of nodes whose
  routes point at each other, since the reverse route follows the latest arrival
  rather than the newest number; so does, for a moment, a link that breaks. What the
  property watches is the loop test of `RecvRequest` (`aodv.cc:1463`); the reordering in a
  square is left without one.
- "Impossible! drop." is impossible, while nothing fails, for a reply to a node nobody
  searches for: `UnsearchedIsFound` is what is left of `RelayFindsOriginator`.
- The converse of `OneHopIsNeighbour` does not hold: in a square with two
  searches that cross, a reply can come back to the destination it is about, which
  stores a route to itself and relays it; the next node then has a route of three
  hops whose next hop is the destination. When the destination loses the route to
  itself, it may send a RERR that lists it.

## 5. Proofs

Each theorem holds for every value of the constants that meets the assumptions
of its module, which TLC evaluates in every run.

**RouteDiscoveryProofs.** The inductive invariant is `TypeOK`, `SearchIsDriven`,
`RoutesHaveDevice` and `NeverAborts` together. None is inductive without
`TypeOK`; that `SendRequest` does not abort follows from the count it makes in
the same step and from `TtlStart, TtlThreshold <= NetDiameter`. `SearchIsDriven`
survives a reply because the only reply that stops a timer also replaces the
`IN_SEARCH` entry. `SendRequestStep` states once what a `SendRequest` changes,
and each action is one step of the proof. Theorems: `TypeCorrect`, `SearchesAreDriven`,
`RetriesNeverAbort`, `DevicesAreKnown`. `QueueStaysBounded` rests
on `OldestDropped`: a finite queue that is not empty has an oldest packet, so
`Enqueue` at the limit makes room.

Two theorems take the finding `RetriesExceeded` apart. `OnlyPostponedExceed`
(`ExceededByPostponed`): the step that takes an entry past `RreqRetries` is a postponed
`SendRequest`. It needs that an entry that is not `IN_SEARCH` has a counter of 0
(`CountersReset`), since otherwise a new search would start on an old count; the timer
handler tests for equality before it counts. `RetriesStayBounded`
follows: as long as nothing is postponed, no entry is counted past `RreqRetries`. In the same
way `RepliesDoEmptyQueue` is the complement of `PacketsStranded`: under `NoneForeign`, that
no packet is bound to one of several interfaces, a reply to this node's search takes
all packets for the destination out of the queue.

**DiscoveryRefinementProofs.** `DiscoveryImplemented`: every step of `RouteDiscovery`
is a step of `Discovery` or a stutter, under its inductive invariant. It assumes
`NoneForeign`, since `PacketsStranded` shows what else can happen: with
packets bound to different interfaces a flush may stop short while the timer stops.
With it, a flush over an entry that has a device (`RoutesHaveDevice`) takes all
packets of the destination (`FlushedEmpties`), and a packet that is queued
without a search of its own finds an entry `IN_SEARCH`, which `SearchIsDriven` says is
pursued. `PromiseKept` proves of the abstract specification alone that what waits is
pursued, and `QueueIsNeverForgotten` (`QueueIsDriven`) follows from the two.

**AodvNetworkProofs.** `TypeCorrect`, with a second invariant `RateInv` for the RERR
counters, which reach the limit but do not pass it; `NumbersNotAhead` (`SeqNoNotAhead`), which
assumes that no node is malicious, since a malicious one adds 100 to the number it
is asked for; and `OwnRequestsIgnored` (`OwnFloodsIgnored`). `NumbersNotAhead`
needs tables and messages at once: a table's number comes from a message and a
message's from a table, and both bounds only survive because `seqNo` never
decreases. `OwnFloodsIgnored` is inductive given that `seen` only grows. All
hold for every topology, number of searches and order of messages.

**AodvNeighbourProofs.** `OneHopRoutesAreDirect` (`OneHopIsNeighbour`), with malicious
nodes included. The invariant `NInv` adds the messages: a RREQ with hop count 0 is in
the hands of its originator, a RREP with hop count 0 of its destination. It also
needs that an absent entry has no valid number, since the TTL of a search is stored
in the hop count; a TTL of 1 only happens for an absent entry, and a number
that becomes valid under search comes with a hop count of its own.
`HopsAreAsAssumed` adds the converse for RREQs, that a RREQ sent by its originator
has made no hop, for which the originator must not relay its own: `OwnFloodsIgnored`.

`UnsearchedAreFound` (`UnsearchedIsFound`), with malicious nodes as well: while nothing has
failed, a RREP finds a route to its originator o unless somebody searches for o. `Knowers(o)` is o
and the nodes with a valid route to it. `UInv(o)` says that entries for o are absent or valid
and lead to a node of that set, that RREQs of o and RREPs about o come from the set,
and that RREPs to o go to it. The set never shrinks: only a search
for o, a RERR that lists o or a failure takes a valid route to o away, and a RERR only ever lists
nodes for which there was a packet or a failure.

`NextHopsAreKnown` (`NextHopsKnown`) says of every valid route that there is a valid one to its next
hop, as long as nothing fails and nobody searches for that next hop. It has two
halves: `KInv(x)`, that an entry that leads through x comes with an entry for x, since
`UpdateRouteToNeighbor` runs before a handler stores a route through the sender; and
`UInv(x)`, that an entry for x nobody searches for is valid while nothing fails.

**AodvWalkProofs.** `RoutesAreWalked` (`RoutesAreWalks`), without malicious nodes: a
valid or invalid entry with hop count h stands for a walk of h links from the node
to the destination whose first step is the next hop. `WInv` adds the messages: each crosses a
link, a RREQ with count h has walked h links from its originator, a RREP from its
destination. Two facts make it inductive. A search overwrites the hop count with a
TTL, but also sets the flag `IN_SEARCH`, and an acknowledgement makes such an entry valid
only if it is the sender's own, for which `NInv` gives the hop count; and a RREP
for its own originator is a hello, which has not been relayed. Links are those of
`Links`; that one has broken since does not matter to where a route came from.

**AodvForestProofs.** `RoutesDoNotTurnBack` (`NoMutualNextHop`), without malicious nodes, in
networks without cycles, with any number of searches, hellos, faults and any order of
messages. A network without cycles is one that can be directed: `Directs(dir)` says that
`dir[n][x]` is the neighbour through which n reaches x, and that of two neighbours
exactly one has the other on its way to x. `FInv(dir)` says that every entry follows
`dir`, that a RREQ in flight has come from its originator's side unless its receiver has
seen it, and that a RREP comes from its destination's side and goes to its
originator's. The second is where the RREQ id cache is needed: a flooded RREQ also goes
back to where it came from, and would turn the route round. For a RREP the loop test of
`RecvRequest` is needed: an intermediate node whose route leads back to the sender of the
RREQ does not answer. Sequence numbers play no part, which is why reordering
does no harm here. Two nodes with each other as next hop would each have the other on its
way, against `Directs`.

**InterfacesProofs.** `HelloInv` says that the time left and the time since the last
broadcast add up to `HelloInterval` at most, from which `SilenceStaysBounded`
follows; it is not inductive without telling the expiry that saw a broadcast
from the one that did not. `AddrInv` (an address is on one interface) and
`MapInv` (each interface that is served is wired: one main socket, an entry and a
bound socket for its broadcasts, and every bound socket belongs to one of
them) give the others. `TypeCorrect`, `MainSocketsAreExact` and `SocketsAreKnown`
hold in general; `RoutesAreServed`, `BroadcastsAreHeard` and `ReceiversAreOwn` assume
`DistinctBroadcasts`, that no two addresses share a broadcast address: without
it the last one fails (section 4).

**RttEstimatorProofs.** The invariant bounds estimate and variation by the history;
`SmoothedBetween` and `ConvertedBetween` say that an update never leaves the
interval between the old value and what it moves towards. Theorems: `TypeCorrect`
(no reported time is negative), `EstimatesAreBounded`, `VariationsAreBounded`, and
`StuckOnlyBelow` for the action property `NeverStuckHigh`.

**Model-checked only.** Liveness (`QueueDrains`, `SearchEnds`,
`DiscoverySucceeds`, `FalseRouteWins`, `DeadRoutesEnd`) is beyond the prover. Every
invariant and action property the passing runs check is a theorem, some of them
under a hypothesis that the runs meet as well and that excludes what is shown to fail in
section 4: `RetriesBounded` (nothing is postponed), `NoMutualNextHop` (no cycles),
`RepliesEmptyQueue` and the refinement with `QueueIsDriven` (`NoneForeign`), and `ReceiverIsOwn` with two more
of `Interfaces` (`DistinctBroadcasts`). `SeqNoNotAhead`, `RoutesAreWalks` and
`NoMutualNextHop` assume that no node is malicious, for what a malicious node says is false.

## 6. Plan

Order of work, the most important behaviour first; 1 to 7 are done.

1. `RouteDiscovery` with its runs, proofs of driving and typing.
2. `AodvNetwork` with floods, replies, errors, data and the black hole.
3. `RttEstimator` with its proofs.
4. `Discovery` and the refinement, checked and proved.
5. `Interfaces` with the two socket maps, and its proofs.
6. `HelloTimer`, composed with `Interfaces`; the RERR limiter in `AodvNetwork`.
7. `RoutesAreWalks` for every network.
8. `NoMutualNextHop` for every network without cycles (done); in networks with cycles, where it
   fails, a bound on how long mutual next hops last.
9. A property of the precursor lists themselves, if one can be read from the code.

## 7. Not modelled

*Wormhole.* Under `EnableWrmAttack` a message between the ends of the tunnel is
taken to have come in at the tunnel's address. In the scripts the malicious nodes are
the second and third, with tunnel addresses 10.1.2.1 and 10.1.2.2 (the defaults)
on a second device of the same channel. The branch of `RecvAodv`
(`aodv.cc:1222`) needs the ends' first addresses, 10.0.1.2 and 10.0.1.3.
`newWormhole.cc:144` names 10.0.1.1 and 10.0.1.2, so no node ever takes it;
`wormhole.cc:106` sets the first end twice, which ends right, and the second never, so one
end can take it, for a message of a tunnel address that comes in at its first device.
The branches of `RecvRequest` and `ProcessHello` put in the other end's tunnel address,
which is what the receiver is already when the message came in at the tunnel device; they too
change something only for one that came in at the other. Whether ns-3 delivers it
there is not in this repository: a model would be of guessed deliveries.

*MyApp* has one socket, one pending event and one counter, and no concurrency;
what could be said of it restates its guards.

*LoopbackRoute* asserts that a packet bound to a device finds a source address
there. `MainSocketsExact` says that it does if the interface is up; a packet bound to
an interface that is down while another is up fails the assertion.

*The length of intervals*: retries, lifetimes and the overflow of the retry's
shift (`aodv.cc:1181`).

*Scripts and tables.* The experiment scripts build topologies, install applications
and print averages; they have no state machine beyond a counter that is reset per second. `cur_rtt.cc`
is empty. `rtt-test.cc` tests the estimator and was read as its documentation.
Tables and caches of ns-3 itself (`RoutingTable`, `RequestQueue`, `IdCache`,
sockets, channels) are not part of the repository; they are modelled from the way
the code uses them and are marked external in `PROJECT.json`.

## 8. Running

    tlc -workers 2 -config DiscoverySafety.cfg MCRouteDiscovery.tla
    tlapm RouteDiscoveryProofs.tla

and likewise for the other configurations (`Network*`, `ReplyDropped` with
`MCAodvNetwork`; `InterfaceLifecycle`, `HelloNotResumed` with `MCInterfaces`;
`Rtt*` with `MCRttEstimator`) and proof modules.
