--------------------------- MODULE RouteDiscovery ---------------------------
(***************************************************************************)
(* Route discovery at one AODV node (aodv-routing-protocol.cc): the packet *)
(* queue, the routing-table entries it waits on, the per-destination RREQ  *)
(* timers and the RREQ rate limiter, against an environment that submits   *)
(* packets, delivers AODV messages and takes routes and interfaces away.   *)
(*                                                                         *)
(* An event of the simulator runs to completion, so a handler is one       *)
(* action.  What interleaves is the order of the events: application       *)
(* packets on their way through the loopback device, timers, postponed     *)
(* SendRequest calls, received messages.                                   *)
(***************************************************************************)
EXTENDS Naturals, FiniteSets

CONSTANTS
  Dsts,          \* the other nodes: destinations, senders and originators
  Ifaces,        \* interfaces AODV runs on; a device is named by its interface
  NoIface,       \* no interface: the null device, or a packet bound to none
  IsMalicious,   \* the node answers every RREQ with a route it makes up
  RreqRetries, TtlStart, TtlIncrement, TtlThreshold, NetDiameter,
  RreqRateLimit, \* RREQs one window of the rate limiter admits
  MaxQueueLen,   \* packets the queue holds
  SeqNos,        \* destination sequence numbers that messages carry
  Hops,          \* hop counts of received messages, after the increment
  Bindings,      \* interfaces that submitted packets are bound to
  MaxPackets,    \* bound: packets submitted
  MaxEvents,     \* bound: messages and interface changes
  MaxRreqCnt     \* bound: an entry's RREQ counter saturates here

\* The defaults (TtlStart 1, TtlIncrement 2, TtlThreshold 7, NetDiameter 35)
\* satisfy these; an order of the TTL attributes that does not has no
\* expanding ring.
ASSUME IfaceAssumption == NoIface \notin Ifaces
ASSUME FlagAssumption == IsMalicious \in BOOLEAN
ASSUME TtlAssumption ==
  /\ {TtlStart, TtlIncrement, TtlThreshold, NetDiameter} \subseteq Nat \ {0}
  /\ TtlStart <= NetDiameter
  /\ TtlThreshold <= NetDiameter
ASSUME LimitAssumption ==
  {RreqRetries, RreqRateLimit, MaxQueueLen} \subseteq Nat \ {0}
ASSUME InputAssumption ==
  /\ SeqNos \subseteq Nat /\ Hops \subseteq Nat \ {0}
  /\ Bindings \subseteq Ifaces \cup {NoIface}
\* The code compares the counter with 0 and RreqRetries only.
ASSUME BoundAssumption ==
  /\ {MaxPackets, MaxEvents, MaxRreqCnt} \subseteq Nat
  /\ MaxRreqCnt > RreqRetries

VARIABLES
  table,     \* m_routingTable: the entry of each destination
  queue,     \* m_queue: the packets waiting for a route
  loopback,  \* packets RouteOutput has sent through the loopback device
  reqTimer,  \* destinations whose m_addressReqTimer is running
  rreqCount, \* m_rreqCount: RREQs originated in this window
  deferred,  \* SendRequest calls postponed past the end of this window
  ready,     \* those whose window has ended, not yet run
  up,        \* the interfaces of m_socketAddresses
  aborted,   \* NS_ABORT_MSG_UNLESS has fired
  submitted, \* packets submitted so far; numbers them
  events     \* messages and interface changes so far

vars == <<table, queue, loopback, reqTimer, rreqCount, deferred, ready, up,
          aborted, submitted, events>>

Devices == Ifaces \cup {NoIface}

\* "NONE": the table has no entry.  cnt is the entry's RREQ counter, dev its
\* output device, hop the hop count or, in a search, the TTL last used.
Flags == {"NONE", "VALID", "INVALID", "IN_SEARCH"}
Entries == [flag : Flags, hop : Nat, vseq : BOOLEAN, seq : Nat, cnt : Nat,
            dev : Devices]
Packets == [n : Nat, dst : Dsts, oif : Devices]

NoEntry == [flag |-> "NONE", hop |-> 0, vseq |-> FALSE, seq |-> 0, cnt |-> 0,
            dev |-> NoIface]

\* RoutingTableEntry's constructor makes a VALID entry with counter 0.
Route(vseq, seq, hop, i) ==
  [flag |-> "VALID", hop |-> hop, vseq |-> vseq, seq |-> seq, cnt |-> 0,
   dev |-> i]

-----------------------------------------------------------------------------
(* Searching: the expanding ring and the RREQ rate limiter.                *)

\* The TTL of the next RREQ for a destination whose entry is e.
SearchTtl(e) ==
  LET wider == e.hop + TtlIncrement
  IN  CASE e.flag = "NONE"      -> TtlStart
        [] e.flag = "IN_SEARCH" -> IF wider > TtlThreshold THEN NetDiameter
                                                           ELSE wider
        [] OTHER                -> IF wider < NetDiameter THEN wider
                                                          ELSE NetDiameter

\* Mutant: only the entry that SendRequest creates is counted at NetDiameter.
SearchingKnownUncounted(e) ==
  LET ttl == SearchTtl(e)
  IN  [e EXCEPT !.flag = "IN_SEARCH", !.hop = ttl,
                !.cnt = IF ttl = NetDiameter /\ e.flag = "NONE" THEN 1 ELSE @]

Searching(e) ==
  LET ttl == SearchTtl(e)
  IN  [e EXCEPT !.flag = "IN_SEARCH", !.hop = ttl,
                !.cnt = IF ttl = NetDiameter /\ @ < MaxRreqCnt
                            THEN @ + 1 ELSE @]

\* The assertion of the retry timer: a search at the full diameter has been
\* counted, since the backoff is 2^(cnt - 1).
RetryAborts(e) == e.hop >= NetDiameter /\ e.cnt = 0

\* Mutant: one RREQ too many in a window.
LimitReachedLate == rreqCount > RreqRateLimit
LimitReached == rreqCount = RreqRateLimit

\* SendRequest with the running timers in `timers'.  At the limit the call is
\* postponed past the end of the window: no RREQ leaves and no timer is armed.
SendRequest(d, timers) ==
  \/ /\ LimitReached
     /\ deferred' = [deferred EXCEPT ![d] = @ + 1]
     /\ reqTimer' = timers
     /\ UNCHANGED <<table, rreqCount, aborted>>
  \/ /\ ~LimitReached
     /\ rreqCount' = rreqCount + 1
     /\ table' = [table EXCEPT ![d] = Searching(@)]
     /\ aborted' = (aborted \/ RetryAborts(Searching(table[d])))
     /\ reqTimer' = timers \cup {d}
     /\ UNCHANGED deferred

\* The window ends 100us before the calls postponed in it run.
RreqRateLimitTimerExpire ==
  /\ \A d \in Dsts : ready[d] = 0
  /\ rreqCount' = 0
  /\ ready' = deferred
  /\ deferred' = [d \in Dsts |-> 0]
  /\ UNCHANGED <<table, queue, loopback, reqTimer, up, aborted, submitted,
                 events>>

DeferredSendRequest(d) ==
  /\ ready[d] > 0
  /\ ready' = [ready EXCEPT ![d] = @ - 1]
  /\ SendRequest(d, reqTimer)
  /\ UNCHANGED <<queue, loopback, up, submitted, events>>

-----------------------------------------------------------------------------
(* The queue.                                                              *)

Waiting(d) == {p \in queue : p.dst = d}

\* Mutant: the drop comes one packet late.
EnqueuedLate(p) ==
  {p} \cup IF Cardinality(queue) > MaxQueueLen
             THEN {x \in queue : \E y \in queue : y.n < x.n}
             ELSE queue

\* Mutant: a full queue drops the packet that came last.
EnqueuedOverLast(p) ==
  {p} \cup IF Cardinality(queue) = MaxQueueLen
             THEN {x \in queue : \E y \in queue : y.n > x.n}
             ELSE queue

\* RequestQueue::Enqueue: a full queue drops its oldest packet.
Enqueued(p) ==
  {p} \cup IF Cardinality(queue) = MaxQueueLen
             THEN {x \in queue : \E y \in queue : y.n < x.n}
             ELSE queue

\* Mutant: one packet is sent where the code loops over the queue.
FlushedOnce(d, dev) ==
  queue \ {p \in Waiting(d) : \A q \in Waiting(d) : p.n <= q.n}

\* SendPacketFromQueue: the packets for d leave in order of arrival over a
\* route through device dev; the first one bound to another interface is
\* dropped and ends the loop, so those behind it stay.
Flushed(d, dev) ==
  LET foreign == {p \in Waiting(d) : p.oif \notin {NoIface, dev}}
  IN  queue \ {p \in Waiting(d) : \A f \in foreign : p.n <= f.n}

\* An application packet with no valid route is tagged with the interface it
\* is bound to and sent through the loopback device.  With a valid route the
\* packet leaves and nothing here changes.  (LoopbackRoute asserts that the
\* interface the packet is bound to is up; the action takes the packet anyway,
\* as a build without assertions does.)
RouteOutput(d, oif) ==
  /\ up # {}
  /\ table[d].flag # "VALID"
  /\ submitted < MaxPackets
  /\ submitted' = submitted + 1
  /\ loopback' = loopback \cup {[n |-> submitted', dst |-> d, oif |-> oif]}
  /\ UNCHANGED <<table, queue, reqTimer, rreqCount, deferred, ready, up,
                 aborted, events>>

\* Mutant: only a destination the table does not know starts a search.
StartsSearchIfUnknown(e) == e.flag = "NONE"
StartsSearch(e) == e.flag # "IN_SEARCH"

\* The packet comes back from the loopback device (RouteInput); the table may
\* have changed since RouteOutput looked.
DeferredRouteOutput(p) ==
  /\ \A q \in loopback : p.n <= q.n
  /\ loopback' = loopback \ {p}
  /\ IF up = {} THEN UNCHANGED queue ELSE queue' = Enqueued(p)
  /\ IF up # {} /\ StartsSearch(table[p.dst])
       THEN SendRequest(p.dst, reqTimer)
       ELSE UNCHANGED <<table, reqTimer, rreqCount, deferred, aborted>>
  /\ UNCHANGED <<ready, up, submitted, events>>

\* RequestQueue::Purge: the packets that have waited longer than MaxQueueTime.
QueueTimeout(p) ==
  /\ queue' = {q \in queue : q.n > p.n}
  /\ UNCHANGED <<table, loopback, reqTimer, rreqCount, deferred, ready, up,
                 aborted, submitted, events>>

\* Mutant: one retry too many.
RetriesUsedUpLate(e) == e.cnt > RreqRetries
RetriesUsedUp(e) == e.cnt = RreqRetries

\* Mutant: the search is given up but its entry stays.
GiveUpKeepEntry(d) ==
  /\ queue' = queue \ Waiting(d)
  /\ reqTimer' = reqTimer \ {d}
  /\ UNCHANGED <<table, rreqCount, deferred, aborted>>

GiveUp(d) ==
  /\ table' = [table EXCEPT ![d] = NoEntry]
  /\ queue' = queue \ Waiting(d)
  /\ reqTimer' = reqTimer \ {d}
  /\ UNCHANGED <<rreqCount, deferred, aborted>>

\* The RREQ timer of d: a route has been found meanwhile, or the retries are
\* used up, or the search goes on, or the route went down and the search ends.
\* An absent entry reads as a default one, which is not IN_SEARCH.
RouteRequestTimerExpire(d) ==
  /\ d \in reqTimer
  /\ \/ /\ table[d].flag = "VALID"
        /\ queue' = Flushed(d, table[d].dev)
        /\ reqTimer' = reqTimer \ {d}
        /\ UNCHANGED <<table, rreqCount, deferred, aborted>>
     \/ /\ table[d].flag # "VALID"
        /\ RetriesUsedUp(table[d]) \/ table[d].flag # "IN_SEARCH"
        /\ GiveUp(d)
     \/ /\ table[d].flag = "IN_SEARCH"
        /\ ~RetriesUsedUp(table[d])
        /\ SendRequest(d, reqTimer \ {d})
        /\ UNCHANGED queue
  /\ UNCHANGED <<loopback, ready, up, submitted, events>>

-----------------------------------------------------------------------------
(* Received messages.  s is the sender and i the interface; RecvAodv first *)
(* refreshes the route to the sender, then calls the handler.              *)

\* UpdateRouteToNeighbor: a one-hop entry with a valid sequence number on this
\* interface keeps its flag (only a local copy of it is changed).
NeighborUpdated(s, i) ==
  LET e == table[s]
  IN  IF e.flag # "NONE" /\ e.vseq /\ e.hop = 1 /\ e.dev = i
        THEN table
        ELSE [table EXCEPT ![s] = Route(FALSE, 0, 1, i)]

\* A received message, and an interface change, uses up one event.
Receives(i) ==
  /\ i \in up
  /\ events < MaxEvents
  /\ events' = events + 1
  /\ UNCHANGED <<loopback, rreqCount, deferred, ready, up, aborted, submitted>>

\* The four cases in which RecvReply replaces a known route.
Accepts(e, seq, hop) ==
  \/ e.flag = "NONE"
  \/ ~e.vseq
  \/ seq > e.seq
  \/ seq = e.seq /\ (e.flag # "VALID" \/ hop < e.hop)

\* Mutant: an answer is stored only if it is news, though it ends the search.
StoredIfNews(e, seq, hop, answer) == Accepts(e, seq, hop)
Stored(e, seq, hop, answer) == answer \/ Accepts(e, seq, hop)

\* A RREP for d that this node asked for (mine) or relays.  The answer to a
\* running search is stored in any case; it stops the timer.  Packets are then
\* sent over whatever entry the table holds.
RecvReply(s, i, d, seq, hop, mine) ==
  LET heard  == NeighborUpdated(s, i)
      answer == mine /\ heard[d].flag = "IN_SEARCH"
  IN  /\ Receives(i)
      /\ hop = 1 => s = d
      /\ table' = IF Stored(heard[d], seq, hop, answer)
                    THEN [heard EXCEPT ![d] = Route(TRUE, seq, hop, i)]
                    ELSE heard
      /\ reqTimer' = IF answer THEN reqTimer \ {d} ELSE reqTimer
      /\ queue' = IF mine THEN Flushed(d, table'[d].dev) ELSE queue

\* ProcessHello (a RREP whose origin is its destination).
ProcessHello(s, i, seq) ==
  /\ Receives(i)
  /\ table' = [table EXCEPT ![s] = Route(TRUE, seq, 1, i)]
  /\ UNCHANGED <<queue, reqTimer>>

\* RecvRequest: the reverse route to originator o keeps the flag it had, also
\* when it is IN_SEARCH; the entry of the sender becomes VALID with the
\* originator's sequence number, marked invalid.
ReverseRoute(e, i, seq, hop) ==
  IF e.flag = "NONE"
    THEN Route(TRUE, seq, hop, i)
    ELSE [e EXCEPT !.vseq = TRUE, !.hop = hop, !.dev = i,
                   !.seq = IF e.vseq /\ @ >= seq THEN @ ELSE seq]

\* A malicious node answers a RREQ for d, which is neither of them, and Update
\* replaces the entry it has for d, if it has one, by the route it made up; a
\* search of its own for d is then over, but its timer runs on.
RecvRequest(s, i, o, seq, hop) ==
  LET heard == NeighborUpdated(s, i)
      reversed == [heard EXCEPT ![o] = ReverseRoute(@, i, seq, hop),
                                ![s] = Route(FALSE, seq, 1, i)]
  IN  /\ Receives(i)
      /\ (hop = 1) <=> (s = o)
      /\ \/ table' = reversed
         \/ /\ IsMalicious
            /\ \E d \in Dsts \ {s, o}, false \in SeqNos :
                 /\ table[d].flag # "NONE"
                 /\ table' = [reversed EXCEPT ![d] = Route(TRUE, false, 1, i)]
      /\ UNCHANGED <<queue, reqTimer>>

\* RecvError: the routes through the sender that the RERR lists.  (A RERR may
\* list its sender: the destination of a RREP may come to relay it and to store
\* a route to itself.)
Invalidated(t, S) ==
  [d \in Dsts |-> IF d \in S /\ t[d].flag = "VALID"
                    THEN [t[d] EXCEPT !.flag = "INVALID", !.cnt = 0]
                    ELSE t[d]]

RecvError(s, i, S) ==
  /\ Receives(i)
  /\ table' = Invalidated(NeighborUpdated(s, i), S)
  /\ UNCHANGED <<queue, reqTimer>>

\* Mutant: the acknowledgement revives the entry without refreshing it.
RecvReplyAckUnrefreshed(s, i) ==
  /\ Receives(i)
  /\ table[s].flag # "NONE"
  /\ table' = [table EXCEPT ![s].flag = "VALID", ![s].cnt = 0]
  /\ UNCHANGED <<queue, reqTimer>>

RecvReplyAck(s, i) ==
  /\ Receives(i)
  /\ table' = [NeighborUpdated(s, i) EXCEPT ![s].flag = "VALID", ![s].cnt = 0]
  /\ UNCHANGED <<queue, reqTimer>>

\* A message whose handler changes nothing here: a duplicate RREQ.
RecvDuplicate(s, i) ==
  /\ Receives(i)
  /\ table' = NeighborUpdated(s, i)
  /\ UNCHANGED <<queue, reqTimer>>

-----------------------------------------------------------------------------
(* Routes and interfaces that go away.                                     *)

\* Routes that expire (RoutingTable::Purge) or whose next hop the link layer
\* reports lost (SendRerrWhenBreaksLinkToNextHop).
LoseRoutes(S) ==
  /\ S # {}
  /\ \A d \in S : table[d].flag = "VALID"
  /\ table' = Invalidated(table, S)
  /\ UNCHANGED <<queue, loopback, reqTimer, rreqCount, deferred, ready, up,
                 aborted, submitted, events>>

\* Purge erases an invalid entry at the end of its lifetime.
EraseRoutes(S) ==
  /\ S # {}
  /\ \A d \in S : table[d].flag = "INVALID"
  /\ table' = [d \in Dsts |-> IF d \in S THEN NoEntry ELSE table[d]]
  /\ UNCHANGED <<queue, loopback, reqTimer, rreqCount, deferred, ready, up,
                 aborted, submitted, events>>

\* The routes of the interface are deleted, all of them with the last one;
\* the queue, the RREQ timers and the postponed calls are not touched.
NotifyInterfaceDown(i) ==
  /\ i \in up
  /\ events < MaxEvents
  /\ events' = events + 1
  /\ up' = up \ {i}
  /\ table' = [d \in Dsts |-> IF up' = {} \/ table[d].dev = i
                                THEN NoEntry ELSE table[d]]
  /\ UNCHANGED <<queue, loopback, reqTimer, rreqCount, deferred, ready,
                 aborted, submitted>>

NotifyInterfaceUp(i) ==
  /\ i \notin up
  /\ up' = up \cup {i}
  /\ UNCHANGED <<table, queue, loopback, reqTimer, rreqCount, deferred, ready,
                 aborted, submitted, events>>

-----------------------------------------------------------------------------
Init ==
  /\ table = [d \in Dsts |-> NoEntry]
  /\ queue = {} /\ loopback = {}
  /\ reqTimer = {}
  /\ rreqCount = 0
  /\ deferred = [d \in Dsts |-> 0]
  /\ ready = [d \in Dsts |-> 0]
  /\ up = Ifaces
  /\ aborted = FALSE
  /\ submitted = 0 /\ events = 0

Timers ==
  \/ RreqRateLimitTimerExpire
  \/ \E d \in Dsts : DeferredSendRequest(d) \/ RouteRequestTimerExpire(d)

Application ==
  \/ \E d \in Dsts, oif \in Bindings : RouteOutput(d, oif)
  \/ \E p \in loopback : DeferredRouteOutput(p)
  \/ \E p \in queue : QueueTimeout(p)

Messages ==
  \E s \in Dsts, i \in Ifaces :
    \/ \E d \in Dsts, seq \in SeqNos, hop \in Hops :
         \/ \E mine \in BOOLEAN : RecvReply(s, i, d, seq, hop, mine)
         \/ RecvRequest(s, i, d, seq, hop)
    \/ \E seq \in SeqNos : ProcessHello(s, i, seq)
    \/ \E S \in SUBSET Dsts : RecvError(s, i, S)
    \/ RecvReplyAck(s, i)
    \/ RecvDuplicate(s, i)

Losses ==
  \/ \E S \in SUBSET Dsts : LoseRoutes(S) \/ EraseRoutes(S)
  \/ \E i \in Ifaces : NotifyInterfaceDown(i) \/ NotifyInterfaceUp(i)

Next == Timers \/ Application \/ Messages \/ Losses

Spec == Init /\ [][Next]_vars

\* The simulator runs every event it holds: timers fire, postponed calls run,
\* the loopback device delivers.  Nothing obliges the environment.
Fairness ==
  /\ WF_vars(RreqRateLimitTimerExpire)
  /\ \A d \in Dsts : /\ WF_vars(DeferredSendRequest(d))
                     /\ WF_vars(RouteRequestTimerExpire(d))
  /\ WF_vars(\E p \in loopback : DeferredRouteOutput(p))

FairSpec == Spec /\ Fairness

-----------------------------------------------------------------------------
(* Properties.                                                             *)

\* The state has its type and the rate limiter admits at most RreqRateLimit
\* RREQs in a window: SendRequest tests for equality with the limit.
TypeOK ==
  /\ table \in [Dsts -> Entries]
  /\ queue \subseteq Packets /\ loopback \subseteq Packets
  /\ reqTimer \subseteq Dsts
  /\ rreqCount \in 0..RreqRateLimit
  /\ deferred \in [Dsts -> Nat] /\ ready \in [Dsts -> Nat]
  /\ up \subseteq Ifaces
  /\ aborted \in BOOLEAN
  /\ submitted \in Nat /\ events \in Nat

\* Something will run SendRequest or the timer handler for d.
Driven(d) == d \in reqTimer \/ deferred[d] > 0 \/ ready[d] > 0

\* A search never stalls: an IN_SEARCH entry has its RREQ timer running or a
\* postponed SendRequest, whatever messages, losses and interface changes come
\* between.  DeferredRouteOutput relies on it: it sends no RREQ of its own for
\* an IN_SEARCH destination.
SearchIsDriven == \A d \in Dsts : table[d].flag = "IN_SEARCH" => Driven(d)

\* A packet in the queue is looked at again: its destination has a timer or a
\* postponed SendRequest.  It does not hold for packets that are bound to
\* one of two interfaces (see RepliesEmptyQueue).
QueueIsDriven == \A p \in queue : Driven(p.dst)

\* The assertion of ScheduleRreqRetry (NS_ABORT_MSG_UNLESS, "Unexpected value
\* for GetRreqCnt ()") never fires: no sequence of replies, reverse routes,
\* losses and retries reaches the full diameter uncounted.
NeverAborts == ~aborted

\* Every entry that can carry packets has an output device; SendPacketFromQueue
\* and RouteOutput dereference it.  Entries made by SendRequest have none until
\* a message fills it in.
RoutesHaveDevice ==
  \A d \in Dsts : table[d].flag \in {"VALID", "INVALID"} =>
                    table[d].dev \in Ifaces

\* The queue stays within MaxQueueLen: Enqueue makes room by one packet.
QueueBounded == Cardinality(queue) <= MaxQueueLen

\* Comment on m_rreqRetries (aodv-routing-protocol.h): the maximum number of
\* retransmissions of a RREQ with TTL = NetDiameter.
RetriesBounded ==
  \A d \in Dsts : table[d].flag = "IN_SEARCH" => table[d].cnt <= RreqRetries

\* Only a SendRequest that the rate limiter has postponed takes a search past
\* its retries: the timer handler, replies, losses and new packets keep to
\* m_rreqRetries, because whatever ends a search resets the counter.
ExceededByPostponed ==
  [][RetriesBounded /\ ~RetriesBounded'
       => \E d \in Dsts : DeferredSendRequest(d)]_vars

\* "Forward packet from route request queue": after a reply to this node's
\* search no packet for that destination stays behind.  It fails for packets
\* that are bound to one of several interfaces.
RepliesEmptyQueue ==
  [][\A s \in Dsts, i \in Ifaces, d \in Dsts, seq \in SeqNos, hop \in Hops :
       RecvReply(s, i, d, seq, hop, TRUE)
         => ~\E p \in queue' : p.dst = d]_vars

\* The whole of it implements Discovery, with the queue as what waits and the
\* destinations that have a timer or a postponed SendRequest as those pursued:
\* packets for one destination keep their order, a full queue loses its oldest
\* packet only, and nothing stops working on a destination that packets wait
\* for.  It needs packets that no interface is foreign to: a single interface,
\* or packets bound to none.
D == INSTANCE Discovery WITH
       coming <- loopback, waiting <- queue, count <- submitted,
       pursued <- {d \in Dsts : Driven(d)}

ImplementsDiscovery == D!Spec

\* Every queued packet leaves the queue, sent or dropped, and every search
\* ends, whatever the order of timers, replies and losses.
QueueDrains ==
  \A n \in 1..MaxPackets :
    (\E p \in queue : p.n = n) ~> ~(\E p \in queue : p.n = n)

SearchEnds ==
  \A d \in Dsts : table[d].flag = "IN_SEARCH" ~> table[d].flag # "IN_SEARCH"
=============================================================================
