---------------------------- MODULE AodvNetwork ----------------------------
(***************************************************************************)
(* The AODV control plane of a network (aodv-routing-protocol.cc): RREQ    *)
(* floods, RREPs on the reverse route, RREP-ACKs, hellos and RERRs, with   *)
(* every node's routing table, sequence numbers and precursors.  Each node *)
(* has one interface.  When a node searches, and how far, is decided by    *)
(* RouteDiscovery; here a node of Searches may search at any time.         *)
(*                                                                         *)
(* Messages in flight form a set, so they arrive in any order or never.    *)
(* Each handler is one action on one node.                                 *)
(***************************************************************************)
EXTENDS Naturals, FiniteSets

CONSTANTS
  Nodes,
  NoNode,          \* no next hop: the default address of an entry
  Links,           \* the pairs of nodes in range of each other at the start
  Malicious,       \* the nodes with IsMalicious set
  DestinationOnly, \* m_destinationOnly
  GratuitousReply, \* m_gratuitousReply
  HelloNodes,      \* the nodes with m_enableHello set
  Searches,        \* who searches for whom: pairs <<node, destination>>
  Ttls,            \* TTLs of originated RREQs
  RerrRateLimit,   \* m_rerrRateLimit
  MaxRreqs,        \* bound: RREQs one node originates
  MaxHellos,       \* bound: hellos one node sends
  MaxFaults        \* bound: links lost, routes expired, searches given up

ASSUME NodeAssumption == NoNode \notin Nodes /\ Malicious \subseteq Nodes
ASSUME LinkAssumption == Links \subseteq SUBSET Nodes
ASSUME SearchAssumption == Searches \subseteq Nodes \X Nodes
ASSUME FlagAssumption == {DestinationOnly, GratuitousReply} \subseteq BOOLEAN
ASSUME TtlAssumption == Ttls \subseteq Nat \ {0}
ASSUME RateAssumption == RerrRateLimit \in Nat
ASSUME BoundAssumption == {MaxRreqs, MaxHellos, MaxFaults} \subseteq Nat

VARIABLES
  rt,        \* m_routingTable of each node: an entry for every node
  seqNo,     \* m_seqNo
  reqId,     \* m_requestId
  seen,      \* m_rreqIdCache: the RREQs <<originator, id>> each node has handled
  msgs,      \* messages in flight
  links,     \* links that are up
  rerrCount, \* m_rerrCount: unicast RERRs since the last RerrRateLimitTimer
  hellos,    \* hellos sent by each node
  faults     \* links lost, routes expired and searches given up so far

vars == <<rt, seqNo, reqId, seen, msgs, links, rerrCount, hellos, faults>>

Flags == {"NONE", "VALID", "INVALID", "IN_SEARCH"}

\* prec is the precursor list of the entry.
Entries == [flag : Flags, hop : Nat, vseq : BOOLEAN, seq : Nat,
            next : Nodes \cup {NoNode}, prec : SUBSET Nodes]

NoEntry == [flag |-> "NONE", hop |-> 0, vseq |-> FALSE, seq |-> 0,
            next |-> NoNode, prec |-> {}]

\* RoutingTableEntry's constructor: VALID, no precursors.
Route(vseq, seq, hop, next) ==
  [flag |-> "VALID", hop |-> hop, vseq |-> vseq, seq |-> seq, next |-> next,
   prec |-> {}]

\* A RREQ asks for dst; dseq is the last sequence number known for it.
Rreqs == [type : {"RREQ"}, from : Nodes, to : Nodes, origin : Nodes, id : Nat,
          oseq : Nat, dst : Nodes, dseq : Nat, known : BOOLEAN, hop : Nat,
          ttl : Nat \ {0}]
Rreps == [type : {"RREP"}, from : Nodes, to : Nodes, dst : Nodes, dseq : Nat,
          origin : Nodes, hop : Nat, ttl : Nat \ {0}, ack : BOOLEAN]
Acks == [type : {"RREP_ACK"}, from : Nodes, to : Nodes]
Datas == [type : {"DATA"}, from : Nodes, to : Nodes, origin : Nodes, dst : Nodes]
Rerrs == [type : {"RERR"}, from : Nodes, to : Nodes, dests : SUBSET Nodes]

\* Mutant: the hop a message has just made is not counted.
HopCountOfSender(m) == m.hop

\* The hop count a received RREQ or RREP is handled with.
HopCount(m) == m.hop + 1

\* A broadcast puts one copy in flight per neighbour; a unicast to a node out
\* of range is lost.
InRange(n) == {m \in Nodes : {n, m} \in links /\ m # n}
Broadcast(n, m) == {[m EXCEPT !.from = n, !.to = x] : x \in InRange(n)}
Unicast(m) == {x \in {m} : x.to \in InRange(x.from)}

-----------------------------------------------------------------------------
(* Updates of one node's table t.                                          *)

\* Mutant: only an entry the node has already is refreshed.
HeardIfKnown(t, s) ==
  IF t[s].flag = "NONE" \/ (t[s].vseq /\ t[s].hop = 1)
    THEN t ELSE [t EXCEPT ![s] = Route(FALSE, 0, 1, s)]

\* UpdateRouteToNeighbor: an entry with a valid sequence number and one hop is
\* kept as it is (the lifetime is set on a local copy), any other is replaced
\* and loses its precursors.
Heard(t, s) ==
  IF t[s].flag # "NONE" /\ t[s].vseq /\ t[s].hop = 1
    THEN t ELSE [t EXCEPT ![s] = Route(FALSE, 0, 1, s)]

\* Mutant: the entry of a reverse route is marked as one under search.
ReverseRouteInSearch(e, s, oseq, hop) ==
  IF e.flag = "NONE"
    THEN [Route(TRUE, oseq, hop, s) EXCEPT !.flag = "IN_SEARCH"]
    ELSE [e EXCEPT !.vseq = TRUE, !.next = s, !.hop = hop,
                   !.seq = IF e.vseq /\ @ >= oseq THEN @ ELSE oseq]

\* RecvRequest's reverse route.  The newer sequence number is kept but the next
\* hop and the hop count are always the RREQ's; so is the flag the entry's.
ReverseRoute(e, s, oseq, hop) ==
  IF e.flag = "NONE"
    THEN Route(TRUE, oseq, hop, s)
    ELSE [e EXCEPT !.vseq = TRUE, !.next = s, !.hop = hop,
                   !.seq = IF e.vseq /\ @ >= oseq THEN @ ELSE oseq]

\* Mutant: the originator's number is taken for the neighbour's own.
PreviousHopTrusted(e, s, oseq) ==
  IF e.flag = "NONE"
    THEN Route(FALSE, oseq, 1, s)
    ELSE [e EXCEPT !.flag = "VALID", !.vseq = TRUE, !.seq = oseq, !.hop = 1,
                   !.next = s]

\* RecvRequest's entry for the node the RREQ came from.
PreviousHop(e, s, oseq) ==
  IF e.flag = "NONE"
    THEN Route(FALSE, oseq, 1, s)
    ELSE [e EXCEPT !.flag = "VALID", !.vseq = FALSE, !.seq = oseq, !.hop = 1,
                   !.next = s]

\* The cases in which RecvReply replaces a known route.
Accepts(e, dseq, hop) ==
  \/ e.flag = "NONE"
  \/ ~e.vseq
  \/ dseq > e.seq
  \/ dseq = e.seq /\ (e.flag # "VALID" \/ hop < e.hop)

\* InsertPrecursor and Update; the update of an absent entry does nothing.
WithPrecursor(t, d, x) ==
  IF d = NoNode \/ x = NoNode THEN t
  ELSE IF t[d].flag = "NONE" THEN t
  ELSE [t EXCEPT ![d].prec = @ \cup {x}]

\* InvalidateRoutesWithDst.
Invalidated(t, S) ==
  [d \in Nodes |-> IF d \in S /\ t[d].flag = "VALID"
                     THEN [t[d] EXCEPT !.flag = "INVALID"] ELSE t[d]]

-----------------------------------------------------------------------------
(* Searching.                                                              *)

\* Mutant: a node does not remember its own RREQs.
RememberedNot(n, id) == seen[n]

\* RreqIdCache.IsDuplicate also remembers the RREQ.
Remembered(n, id) == seen[n] \cup {<<n, id>>}

\* SendRequest: the entry of dst becomes IN_SEARCH; the RREQ carries its
\* sequence number if that is valid.  A TTL of one hop is for a destination
\* that has no entry: TtlIncrement is added to the hop count of an entry.
SendRequest(n, dst, ttl) ==
  /\ <<n, dst>> \in Searches /\ n # dst /\ reqId[n] < MaxRreqs
  /\ rt[n][dst].flag = "NONE" \/ ttl > 1
  /\ seqNo' = [seqNo EXCEPT ![n] = @ + 1]
  /\ reqId' = [reqId EXCEPT ![n] = @ + 1]
  /\ seen' = [seen EXCEPT ![n] = Remembered(n, reqId'[n])]
  /\ rt' = [rt EXCEPT ![n][dst].flag = "IN_SEARCH", ![n][dst].hop = ttl]
  /\ msgs' = msgs \cup
       Broadcast(n, [type |-> "RREQ", from |-> n, to |-> n, origin |-> n,
                     id |-> reqId'[n], oseq |-> seqNo'[n], dst |-> dst,
                     dseq |-> IF rt[n][dst].vseq THEN rt[n][dst].seq ELSE 0,
                     known |-> rt[n][dst].vseq, hop |-> 0, ttl |-> ttl])
  /\ UNCHANGED <<links, rerrCount, hellos, faults>>

\* SendReply by the destination.  It raises its own sequence number only when
\* the RREQ asks for the next one.
SendReply(n, m, t) ==
  LET own == IF m.known /\ m.dseq = seqNo[n] + 1 THEN seqNo[n] + 1 ELSE seqNo[n]
  IN  /\ seqNo' = [seqNo EXCEPT ![n] = own]
      /\ rt' = [rt EXCEPT ![n] = t]
      /\ msgs' = (msgs \ {m}) \cup
           Unicast([type |-> "RREP", from |-> n, to |-> t[m.origin].next,
                    dst |-> n, dseq |-> own, origin |-> m.origin, hop |-> 0,
                    ttl |-> t[m.origin].hop, ack |-> FALSE])

\* SendReplyByIntermediateNode with the entry toDst, which a malicious node
\* makes up.  Both entries get each other's next hop as precursor.
SendReplyByIntermediateNode(n, m, t, toDst) ==
  LET toOrigin == t[m.origin]
      dstIn == [toDst EXCEPT !.prec = @ \cup {toOrigin.next}]
      orgIn == [toOrigin EXCEPT !.prec = @ \cup {toDst.next}]
      known == t[m.dst].flag # "NONE"
      t1 == IF known THEN [t EXCEPT ![m.dst] = dstIn] ELSE t
      reply == [type |-> "RREP", from |-> n, to |-> toOrigin.next,
                dst |-> m.dst, dseq |-> toDst.seq, origin |-> m.origin,
                hop |-> toDst.hop, ttl |-> toOrigin.hop, ack |-> toDst.hop = 1]
      gratuitous == [type |-> "RREP", from |-> n, to |-> toDst.next,
                     dst |-> m.origin, dseq |-> toOrigin.seq, origin |-> m.dst,
                     hop |-> toOrigin.hop, ttl |-> toDst.hop, ack |-> FALSE]
  IN  /\ rt' = [rt EXCEPT ![n] = [t1 EXCEPT ![m.origin] = orgIn]]
      /\ msgs' = (msgs \ {m}) \cup Unicast(reply) \cup
           IF GratuitousReply THEN Unicast(gratuitous) ELSE {}
      /\ UNCHANGED seqNo

-----------------------------------------------------------------------------
(* Received messages.  RecvAodv refreshes the route to the sender first.   *)

\* The tables RecvRequest works with: the route to the sender, the reverse
\* route to the originator, the entry of the previous hop, in that order.
Reversed(n, m) ==
  LET t1 == Heard(rt[n], m.from)
      t2 == [t1 EXCEPT ![m.origin] =
                         ReverseRoute(@, m.from, m.oseq, HopCount(m))]
  IN  [t2 EXCEPT ![m.from] = PreviousHop(@, m.from, m.oseq)]

\* RREQ (ii): the route to dst is at least as new as the RREQ asks for.
NewEnough(e, m) == e.vseq /\ (~m.known \/ e.seq >= m.dseq)

\* Mutant: a reply is sent whatever loop it makes.
MakesLoopNever(e, m) == FALSE

\* "Drop RREQ, This node RREP will make a loop."  (A malicious node has not
\* looked the destination up, so it does not see this.)
MakesLoop(e, m) == e.flag # "NONE" /\ e.next = m.from

\* Mutant: the false route is no newer than the RREQ asks for.
FalseRouteSameSeq(m) == Route(TRUE, m.dseq, 1, m.dst)

\* A malicious node answers every RREQ with a route of its own making.
FalseRoute(m) == Route(TRUE, m.dseq + 100, 1, m.dst)

\* Mutant: the TTL is tested one hop too early.
RelayEarly(n, m, e) ==
  IF m.ttl < 3 THEN {} ELSE Broadcast(n, [m EXCEPT !.hop = HopCount(m), !.ttl = @ - 1])

\* Mutant: the relay does not count its own hop.
RelayUncounted(n, m, e) ==
  IF m.ttl < 2 THEN {} ELSE Broadcast(n, [m EXCEPT !.ttl = @ - 1])

\* The RREQ passes on, with the newer sequence number of this node's entry if
\* that is new enough, unless its TTL is used up.
Relay(n, m, e) ==
  IF m.ttl < 2 THEN {}
  ELSE Broadcast(n, [m EXCEPT
         !.hop = HopCount(m), !.ttl = @ - 1,
         !.dseq = IF NewEnough(e, m) THEN e.seq ELSE @,
         !.known = @ \/ NewEnough(e, m)])

\* RreqIdCache.IsDuplicate.
IsDuplicate(n, m) == <<m.origin, m.id>> \in seen[n]

RecvRequest(m) ==
  LET n == m.to
      t == Reversed(n, m)
      e == t[m.dst]
      malicious == n \in Malicious
      loops == ~malicious /\ MakesLoop(e, m)
      answers == /\ NewEnough(e, m) /\ e.flag = "VALID"
                 /\ ~DestinationOnly
  IN  /\ m \in msgs /\ m.type = "RREQ"
      /\ \/ /\ IsDuplicate(n, m)
            /\ rt' = [rt EXCEPT ![n] = Heard(@, m.from)]
            /\ msgs' = msgs \ {m}
            /\ UNCHANGED <<seqNo, seen>>
         \/ /\ ~IsDuplicate(n, m)
            /\ seen' = [seen EXCEPT ![n] = @ \cup {<<m.origin, m.id>>}]
            /\ \/ /\ m.dst = n
                  /\ SendReply(n, m, t)
               \/ /\ m.dst # n /\ malicious
                  /\ SendReplyByIntermediateNode(n, m, t, FalseRoute(m))
               \/ /\ m.dst # n /\ ~malicious /\ answers /\ ~loops
                  /\ SendReplyByIntermediateNode(n, m, t, e)
               \/ /\ m.dst # n /\ ~malicious /\ (loops \/ ~answers)
                  /\ rt' = [rt EXCEPT ![n] = t]
                  /\ msgs' = (msgs \ {m}) \cup
                               IF loops THEN {} ELSE Relay(n, m, e)
                  /\ UNCHANGED seqNo
      /\ UNCHANGED <<reqId, links, rerrCount, hellos, faults>>

\* RecvReply's table after the forward route is stored; the answer to this
\* node's own search is stored in any case.
Forward(n, m) ==
  LET t == Heard(rt[n], m.from)
      e == t[m.dst]
  IN  IF \/ Accepts(e, m.dseq, HopCount(m))
         \/ m.origin = n /\ e.flag = "IN_SEARCH"
        THEN [t EXCEPT ![m.dst] = Route(TRUE, m.dseq, HopCount(m), m.from)]
        ELSE t

\* The precursor updates of a relayed RREP.  toOrigin is a copy made before
\* the next hop's entry is updated, so it overwrites an update of the same
\* entry.
Precursors(t, m) ==
  LET toDst == t[m.dst]
      toOrigin == t[m.origin]
      t1 == WithPrecursor(t, m.dst, toOrigin.next)
      t2 == WithPrecursor(t1, toDst.next, toOrigin.next)
      t3 == [t2 EXCEPT ![m.origin] =
                         [toOrigin EXCEPT !.prec = @ \cup {toDst.next}]]
      t4 == WithPrecursor(t3, toOrigin.next, toDst.next)
  IN  IF toDst.flag = "VALID" THEN t4 ELSE t

\* A RREP that is not for this node, with no usable route to its originator:
\* "Impossible! drop." in the code.
Unroutable(n, m) ==
  /\ m.origin # n
  /\ Forward(n, m)[m.origin].flag \in {"NONE", "IN_SEARCH"}

RecvReply(m) ==
  LET n == m.to
      t == Forward(n, m)
      done == m.origin = n \/ Unroutable(n, m)
      ack == IF m.ack THEN Unicast([type |-> "RREP_ACK", from |-> n,
                                    to |-> m.from]) ELSE {}
      passed == IF done \/ m.ttl < 2 THEN {}
                ELSE Unicast([m EXCEPT !.from = n, !.to = t[m.origin].next,
                                       !.hop = HopCount(m), !.ttl = @ - 1,
                                       !.ack = FALSE])
  IN  /\ m \in msgs /\ m.type = "RREP" /\ m.dst # m.origin
      /\ rt' = [rt EXCEPT ![n] = IF done THEN t ELSE Precursors(t, m)]
      /\ msgs' = (msgs \ {m}) \cup ack \cup passed
      /\ UNCHANGED <<seqNo, reqId, seen, links, rerrCount, hellos, faults>>

\* A hello is a RREP whose origin is its destination.
ProcessHello(m) ==
  LET n == m.to
      t == Heard(rt[n], m.from)
  IN  /\ m \in msgs /\ m.type = "RREP" /\ m.dst = m.origin
      /\ rt' = [rt EXCEPT ![n] =
                  [t EXCEPT ![m.dst] =
                     IF @.flag = "NONE"
                       THEN Route(TRUE, m.dseq, 1, m.dst)
                       ELSE [@ EXCEPT !.flag = "VALID", !.vseq = TRUE,
                                      !.seq = m.dseq, !.hop = 1,
                                      !.next = m.dst]]]
      /\ msgs' = msgs \ {m}
      /\ UNCHANGED <<seqNo, reqId, seen, links, rerrCount, hellos, faults>>

RecvReplyAck(m) ==
  LET n == m.to
  IN  /\ m \in msgs /\ m.type = "RREP_ACK"
      /\ rt' = [rt EXCEPT ![n] =
                  [Heard(@, m.from) EXCEPT ![m.from].flag = "VALID"]]
      /\ msgs' = msgs \ {m}
      /\ UNCHANGED <<seqNo, reqId, seen, links, rerrCount, hellos, faults>>

-----------------------------------------------------------------------------
(* Route errors.                                                           *)

Via(t, x) == {d \in Nodes : t[d].flag # "NONE" /\ t[d].next = x}

\* "A node SHOULD NOT originate more than RERR_RATELIMIT RERR messages per
\* second."
RerrLimited(n) == rerrCount[n] = RerrRateLimit

RerrRateLimitTimerExpire(n) ==
  /\ rerrCount[n] > 0
  /\ rerrCount' = [rerrCount EXCEPT ![n] = 0]
  /\ UNCHANGED <<rt, seqNo, reqId, seen, msgs, links, hellos, faults>>

\* The precursors there is a valid route to.
Routed(t, prec) == {x \in prec : t[x].flag = "VALID"}

\* SendRerrMessage: to the only precursor if there is a valid route to it; to
\* the neighbourhood if some precursor among several has one.
SendRerrMessage(n, t, dests, prec) ==
  LET m == [type |-> "RERR", from |-> n, to |-> n, dests |-> dests]
  IN  IF Routed(t, prec) = {} \/ RerrLimited(n) THEN {}
      ELSE IF Cardinality(prec) = 1
             THEN Unicast([m EXCEPT !.to = CHOOSE x \in prec : TRUE])
             ELSE Broadcast(n, m)

\* Mutant: broadcasts count, and nothing stops at the limit.
RerrCountedPastLimit(n, t, prec) ==
  IF Routed(t, prec) = {} THEN rerrCount
  ELSE [rerrCount EXCEPT ![n] = @ + 1]

\* Only the RERR to a single precursor counts.
RerrCounted(n, t, prec) ==
  IF Routed(t, prec) = {} \/ RerrLimited(n) \/ Cardinality(prec) # 1
    THEN rerrCount ELSE [rerrCount EXCEPT ![n] = @ + 1]

RecvError(m) ==
  LET n == m.to
      t == Heard(rt[n], m.from)
      unreachable == m.dests \cap Via(t, m.from)
      prec == UNION {t[d].prec : d \in unreachable}
  IN  /\ m \in msgs /\ m.type = "RERR"
      /\ rt' = [rt EXCEPT ![n] = Invalidated(t, unreachable)]
      /\ msgs' = (msgs \ {m}) \cup SendRerrMessage(n, t, unreachable, prec)
      /\ rerrCount' = RerrCounted(n, t, prec)
      /\ UNCHANGED <<seqNo, reqId, seen, links, hellos, faults>>

\* SendRerrWhenBreaksLinkToNextHop: the link layer reports that x is out of
\* range, or the neighbour timer expires for want of hellos.
SendRerrWhenBreaksLinkToNextHop(n, x) ==
  LET t == rt[n]
      unreachable == {x} \cup Via(t, x)
      prec == UNION {t[d].prec : d \in unreachable}
  IN  /\ \/ {n, x} \in Links \ links /\ UNCHANGED faults
         \/ /\ {n, x} \in links /\ faults < MaxFaults
            /\ faults' = faults + 1
      /\ t[x].flag # "NONE"
      /\ rt' = [rt EXCEPT ![n] = Invalidated(t, unreachable)]
      /\ msgs' = msgs \cup SendRerrMessage(n, t, unreachable, prec)
      /\ rerrCount' = RerrCounted(n, t, prec)
      /\ UNCHANGED <<seqNo, reqId, seen, links, hellos>>

\* RouteOutput: the source has a valid route to the destination of a packet.
SendData(n, d) ==
  /\ <<n, d>> \in Searches /\ rt[n][d].flag = "VALID"
  /\ msgs' = msgs \cup Unicast([type |-> "DATA", from |-> n, to |-> rt[n][d].next,
                                origin |-> n, dst |-> d])
  /\ UNCHANGED <<rt, seqNo, reqId, seen, links, rerrCount, hellos, faults>>

\* Mutant: a packet without a route is dropped in silence.
SendRerrWhenNoRouteToForwardNever(n, dst, origin) == {}

\* SendRerrWhenNoRouteToForward: towards the source of the packet if there is a
\* valid route to it, to the neighbourhood if not.
SendRerrWhenNoRouteToForward(n, dst, origin) ==
  LET m == [type |-> "RERR", from |-> n, to |-> n, dests |-> {dst}]
  IN  IF RerrLimited(n) THEN {}
      ELSE IF rt[n][origin].flag = "VALID"
             THEN Unicast([m EXCEPT !.to = rt[n][origin].next])
             ELSE Broadcast(n, m)

\* RouteInput and Forwarding: the packet is delivered, dropped by a malicious
\* node or as a copy of an own packet, forwarded, or dropped with a RERR.
RouteInput(m) ==
  LET n == m.to
      route == rt[n][m.dst]
      dropped == n \in {m.dst, m.origin} \cup Malicious
  IN  /\ m \in msgs /\ m.type = "DATA"
      /\ \/ /\ dropped
            /\ msgs' = msgs \ {m}
         \/ /\ ~dropped /\ route.flag = "VALID"
            /\ msgs' = (msgs \ {m}) \cup Unicast([m EXCEPT !.from = n, !.to = route.next])
         \/ /\ ~dropped /\ route.flag # "VALID"
            /\ msgs' = (msgs \ {m}) \cup
                         SendRerrWhenNoRouteToForward(n, m.dst, m.origin)
      /\ UNCHANGED <<rt, seqNo, reqId, seen, links, rerrCount, hellos, faults>>

\* SendHello broadcasts a RREP about the node itself.
SendHello(n) ==
  /\ n \in HelloNodes /\ hellos[n] < MaxHellos
  /\ hellos' = [hellos EXCEPT ![n] = @ + 1]
  /\ msgs' = msgs \cup
       Broadcast(n, [type |-> "RREP", from |-> n, to |-> n, dst |-> n,
                     dseq |-> seqNo[n], origin |-> n, hop |-> 0, ttl |-> 1,
                     ack |-> FALSE])
  /\ UNCHANGED <<rt, seqNo, reqId, seen, links, rerrCount, faults>>

\* RoutingTable::Purge: a valid route expires, an invalid one is erased.
Purge(n, d) ==
  /\ \/ /\ rt[n][d].flag = "VALID"
        /\ faults < MaxFaults
        /\ faults' = faults + 1
        /\ rt' = [rt EXCEPT ![n][d].flag = "INVALID"]
     \/ /\ rt[n][d].flag = "INVALID"
        /\ rt' = [rt EXCEPT ![n][d] = NoEntry]
        /\ UNCHANGED faults
  /\ UNCHANGED <<seqNo, reqId, seen, msgs, links, rerrCount, hellos>>

\* RouteRequestTimerExpire, retries used up: the search and its entry go.
GiveUp(n, d) ==
  /\ rt[n][d].flag = "IN_SEARCH"
  /\ faults < MaxFaults
  /\ faults' = faults + 1
  /\ rt' = [rt EXCEPT ![n][d] = NoEntry]
  /\ UNCHANGED <<seqNo, reqId, seen, msgs, links, rerrCount, hellos>>

\* The environment: a link goes down.
LoseLink(l) ==
  /\ l \in links /\ faults < MaxFaults
  /\ faults' = faults + 1
  /\ links' = links \ {l}
  /\ UNCHANGED <<rt, seqNo, reqId, seen, msgs, rerrCount, hellos>>

-----------------------------------------------------------------------------
Init ==
  /\ rt = [n \in Nodes |-> [d \in Nodes |-> NoEntry]]
  /\ seqNo = [n \in Nodes |-> 0]
  /\ reqId = [n \in Nodes |-> 0]
  /\ seen = [n \in Nodes |-> {}]
  /\ msgs = {}
  /\ links = Links
  /\ rerrCount = [n \in Nodes |-> 0]
  /\ hellos = [n \in Nodes |-> 0]
  /\ faults = 0

\* RecvAodv and RouteInput hand a message to its handler.
Receive(type, n) ==
  \E m \in msgs :
    /\ m.type = type /\ m.to = n
    /\ \/ RecvRequest(m) \/ RecvReply(m) \/ ProcessHello(m)
       \/ RecvReplyAck(m) \/ RecvError(m) \/ RouteInput(m)

Types == {"RREQ", "RREP", "RREP_ACK", "RERR", "DATA"}

Next ==
  \/ \E n, d \in Nodes, ttl \in Ttls : SendRequest(n, d, ttl)
  \/ \E type \in Types, n \in Nodes : Receive(type, n)
  \/ \E n, d \in Nodes : \/ SendRerrWhenBreaksLinkToNextHop(n, d)
                         \/ Purge(n, d) \/ GiveUp(n, d) \/ SendData(n, d)
  \/ \E n \in Nodes : SendHello(n) \/ RerrRateLimitTimerExpire(n)
  \/ \E l \in Links : LoseLink(l)

Spec == Init /\ [][Next]_vars

\* Every scheduled search starts and every message arrives; a source goes on
\* sending; the RERR rate limit timer runs; a node whose neighbour is out of
\* range gets to know (its neighbour timer expires, or a packet it sends is not
\* acknowledged).
Fairness ==
  /\ \A type \in Types, n \in Nodes : WF_vars(Receive(type, n))
  /\ \A n \in Nodes : WF_vars(RerrRateLimitTimerExpire(n))
  /\ \A s \in Searches :
       /\ WF_vars(\E ttl \in Ttls : SendRequest(s[1], s[2], ttl))
       /\ WF_vars(SendData(s[1], s[2]))
  /\ \A l \in Links : \A n \in l :
       WF_vars(\E x \in l \ {n} : /\ l \notin links
                                 /\ SendRerrWhenBreaksLinkToNextHop(n, x))

FairSpec == Spec /\ Fairness

-----------------------------------------------------------------------------
(* Properties.                                                             *)

TypeOK ==
  /\ rt \in [Nodes -> [Nodes -> Entries]]
  /\ seqNo \in [Nodes -> Nat] /\ reqId \in [Nodes -> Nat]
  /\ seen \in [Nodes -> SUBSET (Nodes \X Nat)]
  /\ msgs \subseteq Rreqs \cup Rreps \cup Acks \cup Rerrs \cup Datas
  /\ links \subseteq Links
  /\ rerrCount \in [Nodes -> 0..RerrRateLimit]
  /\ hellos \in [Nodes -> Nat] /\ faults \in Nat

\* No table and no message in flight claims a sequence number for a node that
\* the node has not reached itself: replies, relayed RREQs and reverse routes
\* only pass numbers on.  (An entry with vseq = FALSE may hold the number of
\* another node.)
EntryNotAhead == \A n, d \in Nodes : rt[n][d].vseq => rt[n][d].seq <= seqNo[d]

MessageNotAhead ==
  \A m \in msgs :
    /\ m.type = "RREQ" => /\ m.oseq <= seqNo[m.origin]
                          /\ m.known => m.dseq <= seqNo[m.dst]
    /\ m.type = "RREP" => m.dseq <= seqNo[m.dst]

SeqNoNotAhead == EntryNotAhead /\ MessageNotAhead

\* An entry of one hop leads to the neighbour itself, whichever message gave
\* the hop count and whichever the next hop: UpdateRouteToNeighbor keeps it on
\* the hop count alone.  (An entry under search without a number may hold a TTL.)
OneHopIsNeighbour ==
  \A n, d \in Nodes :
    /\ rt[n][d].flag \in {"VALID", "INVALID"} \/ rt[n][d].vseq
    /\ rt[n][d].hop = 1
    => rt[n][d].next = d

\* Without malicious nodes a route is as long as its hop count says: the entry
\* stands for a walk over links that begins with its next hop.  Hop counts and
\* next hops come from RREQs, RREPs of the destination and of intermediate
\* nodes, gratuitous ones and hellos, and the hop count of a search is a TTL,
\* so each handler has to replace all of them together; the TTL of a RREP is
\* such a hop count.  (Links that are down count: the node may not know yet.)
Walk(n, d, k) ==
  \E w \in [0..k -> Nodes] :
    w[0] = n /\ w[k] = d /\ \A j \in 1..k : {w[j - 1], w[j]} \in Links

RoutesAreWalks ==
  \A n, d \in Nodes :
    LET e == rt[n][d]
    IN  e.flag \in {"VALID", "INVALID"} =>
          e.hop > 0 /\ {n, e.next} \in Links /\ Walk(e.next, d, e.hop - 1)

\* A node never handles a RREQ of its own: each copy that comes back is known
\* as a duplicate.
OwnFloodsIgnored ==
  \A m \in msgs : m.type = "RREQ" => IsDuplicate(m.origin, m)

\* As long as there are no faults, a flood whose TTL reaches the destination
\* gives its originator a route, whatever other searches do.
DiscoverySucceeds ==
  [](faults = 0) => \A s \in Searches :
    (rt[s[1]][s[2]].flag = "IN_SEARCH") ~> (rt[s[1]][s[2]].flag = "VALID")

\* The false replies of a malicious neighbour of the originator win over the
\* genuine ones ("so that the route will be established through malicious
\* node"): whatever the order of the replies, the route ends up through it.
FalseRouteWins ==
  \A s \in Searches :
    (reqId[s[1]] > 0) ~> [](rt[s[1]][s[2]].next \in Malicious)

\* A source that goes on sending stops using its route when the destination is
\* out of reach: the RERRs get back to it.
DeadRoutesEnd ==
  \A s \in Searches :
    (\A l \in links : s[2] \notin l) ~> [](rt[s[1]][s[2]].flag # "VALID")

\* RecvReply, "Impossible! drop.": a relayed RREP always finds a route to its
\* originator.
RelayFindsOriginator ==
  \A m \in msgs :
    m.type = "RREP" /\ m.dst # m.origin => ~Unroutable(m.to, m)

\* It does as long as nothing fails, if nobody searches for that originator: the
\* nodes on the way have a reverse route, whichever RREQ they took it from, and
\* neither a search nor a RERR touches it.
UnsearchedIsFound ==
  faults = 0 =>
    \A m \in msgs :
      /\ m.type = "RREP" /\ m.dst # m.origin
      /\ \A s \in Searches : s[2] # m.origin
      => ~Unroutable(m.to, m)

\* A RREP, or a RERR to a source, passes RouteOutput like any packet: it waits in
\* the queue, behind a search, if there is no valid route to the next hop it is
\* addressed to.  As long as nothing fails there is one, whichever message the
\* route through that next hop came from, unless somebody searches for it.
NextHopsKnown ==
  faults = 0 =>
    \A n, d, x \in Nodes :
      /\ rt[n][d].flag = "VALID" /\ rt[n][d].next = x
      /\ \A s \in Searches : s[2] # x
      => rt[n][x].flag = "VALID"

\* A network without cycles: dir[n][x] is the neighbour through which n reaches
\* x, and of two neighbours exactly one has the other on its way to x.  (With a
\* cycle there would be a link too many to direct towards a node of the cycle.)
Directs(dir) ==
  /\ dir \in [Nodes -> [Nodes -> Nodes]]
  /\ \A x \in Nodes : dir[x][x] = x
  /\ \A n, m, x \in Nodes :
       {n, m} \in Links /\ n # m => (dir[n][x] = m <=> dir[m][x] # n)

\* RecvRequest, "This node RREP will make a loop": two nodes do not send
\* packets for the same destination to each other.  (Claimed for networks
\* without cycles, where each longer loop has two such nodes.  In a cycle a
\* RREQ that overtakes another of its originator, or a link just lost, can
\* bring it about.)
NoMutualNextHop ==
  \A a, b, d \in Nodes :
    ~(/\ rt[a][d].flag = "VALID" /\ rt[a][d].next = b
      /\ rt[b][d].flag = "VALID" /\ rt[b][d].next = a)
=============================================================================
