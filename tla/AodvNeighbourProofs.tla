------------------------ MODULE AodvNeighbourProofs ------------------------
(***************************************************************************)
(* Proofs about AodvNetwork, for any network, malicious nodes included: an *)
(* entry of one hop leads to the neighbour itself, a RREP finds its way to *)
(* a node nobody searches for, and the next hop of a route has one itself. *)
(* The messages in flight are part of the inductive invariants: a RREQ or  *)
(* RREP that has made no hop yet is in the hands of the node it is about,  *)
(* and one that has made some came by a node with a route to that.         *)
(***************************************************************************)
EXTENDS AodvNetworkProofs

\* OneHopIsNeighbour for one entry; an absent entry has no valid number.
EntryNear(e, d) ==
  /\ e.flag = "NONE" => ~e.vseq
  /\ (e.flag \in {"VALID", "INVALID"} \/ e.vseq) /\ e.hop = 1 => e.next = d

Near(t) == \A d \in Nodes : EntryNear(t[d], d)

\* A message that has made no hop was sent by the node a route to which it gives.
FirstHop(x) ==
  /\ x.type = "RREQ" /\ x.hop = 0 => x.from = x.origin
  /\ x.type = "RREP" /\ x.hop = 0 => x.from = x.dst

NInv == /\ \A n \in Nodes : Near(rt[n])
        /\ \A x \in msgs : FirstHop(x)

LEMMA NInvMeaning == NInv => OneHopIsNeighbour
  BY DEF NInv, Near, EntryNear, OneHopIsNeighbour

-----------------------------------------------------------------------------
(* Entries, tables and messages.                                           *)

LEMMA RouteNear ==
  ASSUME NEW vseq, NEW seq, NEW hop, NEW next, NEW d, hop = 1 => next = d
  PROVE  EntryNear(Route(vseq, seq, hop, next), d)
  BY DEF EntryNear, Route

LEMMA NoEntryNear == ASSUME NEW d PROVE EntryNear(NoEntry, d)
  BY DEF EntryNear, NoEntry

LEMMA StoreNear ==
  ASSUME NEW t \in Tables, Near(t), NEW d \in Nodes, NEW e, EntryNear(e, d)
  PROVE  Near([t EXCEPT ![d] = e])
  BY DEF Near, Tables

LEMMA SameRouteNear ==
  ASSUME NEW e, NEW f, NEW d, SameRoute(e, f), EntryNear(e, d)
  PROVE  EntryNear(f, d)
  BY DEF SameRoute, EntryNear

LEMMA SameRoutesNear ==
  ASSUME NEW t, NEW u, SameRoutes(t, u), Near(t)
  PROVE  Near(u)
  BY SameRouteNear DEF SameRoutes, Near

LEMMA HeardNear ==
  ASSUME NEW t \in Tables, NEW s \in Nodes, Near(t)
  PROVE  Near(Heard(t, s))
  BY RouteNear, StoreNear DEF Heard

\* Marking a valid entry invalid keeps what it says.
LEMMA InvalidNear ==
  ASSUME NEW e \in GoodEntries, NEW d, EntryNear(e, d), e.flag = "VALID"
  PROVE  EntryNear([e EXCEPT !.flag = "INVALID"], d)
  <1>1. e \in Entries BY DEF GoodEntries
  <1> DEFINE r == [e EXCEPT !.flag = "INVALID"]
  <1>2. /\ r.flag = "INVALID" /\ r.vseq = e.vseq /\ r.hop = e.hop
        /\ r.next = e.next
    BY <1>1 DEF Entries
  <1> HIDE DEF r
  <1>3. EntryNear(r, d) BY <1>2 DEF EntryNear
  <1>4. QED BY <1>3 DEF r

LEMMA InvalidatedNear ==
  ASSUME NEW t \in Tables, Near(t), NEW S
  PROVE  Near(Invalidated(t, S))
  <1> SUFFICES ASSUME NEW d \in Nodes PROVE EntryNear(Invalidated(t, S)[d], d)
    BY DEF Near
  <1>1. t[d] \in GoodEntries /\ EntryNear(t[d], d) BY DEF Tables, Near
  <1>2. CASE t[d].flag = "VALID"
    <2>1. EntryNear([t[d] EXCEPT !.flag = "INVALID"], d)
      BY <1>1, <1>2, InvalidNear
    <2>2. QED BY <1>1, <2>1 DEF Invalidated
  <1>3. CASE t[d].flag # "VALID" BY <1>1, <1>3 DEF Invalidated
  <1>4. QED BY <1>2, <1>3

\* The reverse route has one hop only if the originator itself sent the RREQ.
LEMMA ReversedNear ==
  ASSUME NEW n \in Nodes, NEW m \in Rreqs, rt[n] \in Tables, Near(rt[n]),
         FirstHop(m)
  PROVE  Near(Reversed(n, m))
  <1> DEFINE t1 == Heard(rt[n], m.from)
             r == ReverseRoute(t1[m.origin], m.from, m.oseq, HopCount(m))
             t2 == [t1 EXCEPT ![m.origin] = r]
             p == PreviousHop(t2[m.from], m.from, m.oseq)
             t3 == [t2 EXCEPT ![m.from] = p]
  <1>1. /\ m.from \in Nodes /\ m.origin \in Nodes /\ m.oseq \in Nat
        /\ HopCount(m) \in Nat \ {0}
    BY DEF Rreqs, HopCount
  <1>2. HopCount(m) = 1 => m.from = m.origin
    BY DEF Rreqs, HopCount, FirstHop
  <1>3. t1 \in Tables /\ Near(t1) BY <1>1, HeardGood, HeardNear
  <1>4. Reversed(n, m) = t3 BY DEF Reversed
  <1> HIDE DEF t1
  <1>5. t1[m.origin] \in GoodEntries /\ t1[m.origin] \in Entries
    BY <1>1, <1>3 DEF Tables, GoodEntries
  <1>6. /\ r \in GoodEntries /\ r.flag # "NONE"
        /\ r.hop = HopCount(m) /\ r.next = m.from
    BY <1>1, <1>5, ReverseRouteGood DEF ReverseRoute, Route, Entries
  <1> HIDE DEF r
  <1>7. EntryNear(r, m.origin) BY <1>2, <1>6 DEF EntryNear
  <1>8. t2 \in Tables /\ Near(t2) BY <1>1, <1>3, <1>6, <1>7, StoreGood, StoreNear
  <1> HIDE DEF t2
  <1>9. t2[m.from] \in Entries BY <1>1, <1>8 DEF Tables, GoodEntries
  <1>10. p.flag = "VALID" /\ p.next = m.from
    BY <1>9 DEF PreviousHop, Route, Entries
  <1> HIDE DEF p
  <1>11. EntryNear(p, m.from) BY <1>10 DEF EntryNear
  <1>12. Near(t3) BY <1>1, <1>8, <1>11, StoreNear
  <1> HIDE DEF t3
  <1>13. QED BY <1>4, <1>12

\* Likewise the forward route.
LEMMA ForwardNear ==
  ASSUME NEW n \in Nodes, NEW m \in Rreps, rt[n] \in Tables, Near(rt[n]),
         m.type = "RREP", FirstHop(m)
  PROVE  Near(Forward(n, m))
  <1> DEFINE t == Heard(rt[n], m.from)
             r == Route(TRUE, m.dseq, HopCount(m), m.from)
             u == [t EXCEPT ![m.dst] = r]
  <1>1. m.from \in Nodes /\ m.dst \in Nodes BY DEF Rreps
  <1>2. HopCount(m) = 1 => m.from = m.dst BY DEF Rreps, HopCount, FirstHop
  <1>3. t \in Tables /\ Near(t) BY <1>1, HeardGood, HeardNear
  <1>4. Forward(n, m) \in {t, u} BY DEF Forward
  <1> HIDE DEF t
  <1>5. EntryNear(r, m.dst) BY <1>2, RouteNear
  <1> HIDE DEF r
  <1>6. Near(u) BY <1>1, <1>3, <1>5, StoreNear
  <1>7. QED BY <1>3, <1>4, <1>6

\* Messages of the other kinds, and those that have made a hop.
LEMMA OtherFirstHop ==
  ASSUME NEW x \in Acks \cup Rerrs \cup Datas
  PROVE  FirstHop(x)
  BY DEF FirstHop, Acks, Rerrs, Datas

LEMMA RelayedFirstHop ==
  ASSUME NEW x \in Rreqs \cup Rreps, x.hop >= 1
  PROVE  FirstHop(x)
  BY DEF FirstHop, Rreqs, Rreps

LEMMA ReplyFirstHop ==
  ASSUME NEW x \in Rreps, x.from = x.dst
  PROVE  FirstHop(x)
  BY DEF FirstHop, Rreps

-----------------------------------------------------------------------------
(* The invariant, action by action.                                        *)

\* A step that stores a good table at one node and sends good messages.
LEMMA HandlerNInv ==
  ASSUME IInv, NInv, NEW n \in Nodes, NEW t, Near(t),
         rt' = [rt EXCEPT ![n] = t],
         \A x \in msgs' : x \in msgs \/ FirstHop(x)
  PROVE  NInv'
  <1>1. \A k \in Nodes : rt'[k] = rt[k] \/ rt'[k] = t BY DEF IInv
  <1>2. QED BY <1>1 DEF NInv

LEMMA QuietNInv ==
  ASSUME NInv, UNCHANGED rt, \A x \in msgs' : x \in msgs \/ FirstHop(x)
  PROVE  NInv'
  BY DEF NInv

\* The TTL of a new search cannot pass for a hop count of one: the entry has
\* no number, or the TTL is larger.
LEMMA SendRequestNInv ==
  ASSUME IInv, NInv, NEW n \in Nodes, NEW dst \in Nodes, NEW ttl \in Ttls,
         SendRequest(n, dst, ttl)
  PROVE  NInv'
  <1> DEFINE e == rt[n][dst]
             r == [e EXCEPT !.flag = "IN_SEARCH", !.hop = ttl]
             q == [type |-> "RREQ", from |-> n, to |-> n, origin |-> n,
                   id |-> reqId'[n], oseq |-> seqNo'[n], dst |-> dst,
                   dseq |-> IF rt[n][dst].vseq THEN rt[n][dst].seq ELSE 0,
                   known |-> rt[n][dst].vseq, hop |-> 0, ttl |-> ttl]
  <1>1. rt \in [Nodes -> Tables] /\ rt[n] \in Tables /\ Near(rt[n])
    BY DEF IInv, NInv
  <1>2. e \in Entries /\ EntryNear(e, dst)
    BY <1>1 DEF Tables, GoodEntries, Near
  <1>3. seqNo' \in [Nodes -> Nat] /\ reqId' \in [Nodes -> Nat]
    BY DEF IInv, SendRequest
  <1>4. q \in Rreqs BY <1>2, <1>3, TtlAssumption DEF Rreqs, Entries
  <1>5. q.hop = 0 /\ q.origin = n OBVIOUS
  <1>6. r.flag = "IN_SEARCH" /\ r.hop = ttl /\ r.vseq = e.vseq
    BY <1>2 DEF Entries
  <1>7. (e.flag = "NONE" \/ ttl > 1) /\ ttl \in Nat
    BY TtlAssumption DEF SendRequest
  <1>8. rt' = [rt EXCEPT ![n] = [rt[n] EXCEPT ![dst] = r]]
    BY <1>1, <1>2 DEF SendRequest, Tables, Entries
  <1>9. msgs' = msgs \cup Broadcast(n, q) BY DEF SendRequest
  <1> HIDE DEF q, e, r
  <1>10. EntryNear(r, dst) BY <1>2, <1>6, <1>7 DEF EntryNear
  <1>11. Near([rt[n] EXCEPT ![dst] = r]) BY <1>1, <1>10, StoreNear
  <1>12. ASSUME NEW x \in Broadcast(n, q) PROVE FirstHop(x)
    <2>1. x \in Rreqs /\ x.origin = n /\ x.from = n
      BY <1>4, <1>5, BroadcastRreq
    <2>2. QED BY <2>1 DEF FirstHop, Rreqs
  <1>13. \A x \in msgs' : x \in msgs \/ FirstHop(x) BY <1>9, <1>12
  <1>14. QED BY <1>8, <1>11, <1>13, HandlerNInv

LEMMA RecvRequestNInv ==
  ASSUME IInv, NInv, NEW m \in msgs, RecvRequest(m)
  PROVE  NInv'
  <1> DEFINE n == m.to
             t == Reversed(n, m)
             e == t[m.dst]
  <1>1. m \in Messages /\ m.type = "RREQ" BY DEF IInv, RecvRequest
  <1>2. m \in Rreqs /\ n \in Nodes /\ m.from \in Nodes BY <1>1, MessageKinds
  <1>3. m.origin \in Nodes /\ m.dst \in Nodes BY <1>2 DEF Rreqs
  <1>4. rt[n] \in Tables /\ Near(rt[n]) /\ FirstHop(m)
    BY <1>2 DEF IInv, NInv
  <1>5. t \in Tables /\ t[m.origin].flag # "NONE" /\ t[m.origin].next \in Nodes
    BY <1>2, <1>4, ReversedGood
  <1>6. Near(t) BY <1>2, <1>4, ReversedNear
  <1>7. e \in GoodEntries /\ EntryNear(e, m.dst)
    BY <1>3, <1>5, <1>6 DEF Tables, Near
  <1>8. CASE IsDuplicate(n, m)
    <2>1. rt' = [rt EXCEPT ![n] = Heard(rt[n], m.from)] /\ msgs' = msgs \ {m}
      BY <1>2, <1>8 DEF RecvRequest, IInv
    <2>2. Near(Heard(rt[n], m.from)) BY <1>2, <1>4, HeardNear
    <2> HIDE DEF n, t
    <2>3. QED BY <1>2, <2>1, <2>2, HandlerNInv
  <1>9. CASE m.dst = n /\ SendReply(n, m, t)
    <2>1. rt' = [rt EXCEPT ![n] = t] BY <1>9 DEF SendReply
    <2> HIDE DEF t, n
    <2>2. \A x \in msgs' : x \in msgs \/ (x \in Rreps /\ x.from = x.dst)
      BY <1>2, <1>5, <1>9, SendReplySent
    <2>3. \A x \in msgs' : x \in msgs \/ FirstHop(x) BY <2>2, ReplyFirstHop
    <2>4. QED BY <1>2, <1>6, <2>1, <2>3, HandlerNInv
  <1>10. ASSUME NEW d \in GoodEntries, d.flag = "VALID", EntryNear(d, m.dst),
                SendReplyByIntermediateNode(n, m, t, d)
         PROVE  NInv'
    <2> HIDE DEF t, n, e
    <2>1. /\ \E u \in Tables :
               /\ rt' = [rt EXCEPT ![n] = u]
               /\ \A x \in Nodes :
                    SameRoute(t[x], u[x]) \/ (x = m.dst /\ SameRoute(d, u[x]))
          /\ \A x \in msgs' : x \in msgs \/ (x \in Rreps /\ x.hop >= 1)
      BY <1>2, <1>5, <1>10, ReplyByIntermediateSent
    <2>2. PICK u \in Tables :
               /\ rt' = [rt EXCEPT ![n] = u]
               /\ \A x \in Nodes :
                    SameRoute(t[x], u[x]) \/ (x = m.dst /\ SameRoute(d, u[x]))
      BY <2>1
    <2>3. Near(u) BY <1>6, <1>10, <2>2, SameRouteNear DEF Near
    <2>4. \A x \in msgs' : x \in msgs \/ FirstHop(x) BY <2>1, RelayedFirstHop
    <2>5. QED BY <1>2, <2>2, <2>3, <2>4, HandlerNInv
  <1>11. CASE SendReplyByIntermediateNode(n, m, t, FalseRoute(m))
    <2>1. EntryNear(FalseRoute(m), m.dst) BY RouteNear DEF FalseRoute
    <2> HIDE DEF n, t
    <2>2. QED BY <1>2, <1>10, <1>11, <2>1, FalseRouteGood
  <1>12. CASE e.flag = "VALID" /\ SendReplyByIntermediateNode(n, m, t, e)
    BY <1>7, <1>10, <1>12
  <1>13. CASE /\ rt' = [rt EXCEPT ![n] = t]
              /\ msgs' \subseteq msgs \cup Relay(n, m, e)
    <2> HIDE DEF t, n, e
    <2>1. \A x \in Relay(n, m, e) : x \in Rreqs /\ x.hop = HopCount(m)
      BY <1>2, <1>7, RelaySent
    <2>2. HopCount(m) >= 1 BY <1>2 DEF Rreqs, HopCount
    <2>3. \A x \in msgs' : x \in msgs \/ FirstHop(x)
      BY <1>13, <2>1, <2>2, RelayedFirstHop
    <2>4. QED BY <1>2, <1>6, <1>13, <2>3, HandlerNInv
  <1>14. \/ IsDuplicate(n, m)
         \/ m.dst = n /\ SendReply(n, m, t)
         \/ SendReplyByIntermediateNode(n, m, t, FalseRoute(m))
         \/ e.flag = "VALID" /\ SendReplyByIntermediateNode(n, m, t, e)
         \/ /\ rt' = [rt EXCEPT ![n] = t]
            /\ msgs' \subseteq msgs \cup Relay(n, m, e)
    BY DEF RecvRequest
  <1>15. QED BY <1>8, <1>9, <1>11, <1>12, <1>13, <1>14

LEMMA RecvReplyNInv ==
  ASSUME IInv, NInv, NEW m \in msgs, RecvReply(m)
  PROVE  NInv'
  <1> DEFINE n == m.to
             t == Forward(n, m)
             u == Precursors(t, m)
             nx == t[m.origin].next
             r == [m EXCEPT !.from = n, !.to = nx,
                            !.hop = HopCount(m), !.ttl = @ - 1, !.ack = FALSE]
             a == [type |-> "RREP_ACK", from |-> n, to |-> m.from]
  <1>1. m \in Messages /\ m.type = "RREP" BY DEF IInv, RecvReply
  <1>2. m \in Rreps /\ n \in Nodes /\ m.from \in Nodes BY <1>1, MessageKinds
  <1>3. rt[n] \in Tables /\ Near(rt[n]) /\ FirstHop(m) BY <1>2 DEF IInv, NInv
  <1>4. t \in Tables /\ Near(t) BY <1>1, <1>2, <1>3, ForwardGood, ForwardNear
  <1>5. Near(u) BY <1>2, <1>4, PrecursorsGood, SameRoutesNear
  <1>6. rt' = [rt EXCEPT ![n] = t] \/ rt' = [rt EXCEPT ![n] = u]
    BY DEF RecvReply
  <1>7. msgs' \subseteq msgs \cup Unicast(a) \cup Unicast(r)
    <2> DEFINE done == m.origin = n \/ Unroutable(n, m)
               ack == IF m.ack THEN Unicast(a) ELSE {}
               passed == IF done \/ m.ttl < 2 THEN {} ELSE Unicast(r)
    <2>1. msgs' = (msgs \ {m}) \cup ack \cup passed BY DEF RecvReply
    <2>2. ack \subseteq Unicast(a) /\ passed \subseteq Unicast(r) OBVIOUS
    <2> HIDE DEF ack, passed, a, r
    <2>3. QED BY <2>1, <2>2
  <1>8. r.type = "RREP" /\ r.hop = HopCount(m) BY <1>2 DEF Rreps
  <1>9. HopCount(m) >= 1 BY <1>2 DEF Rreps, HopCount
  <1>10. FirstHop(a) /\ FirstHop(r)
    <2>1. FirstHop(a) BY DEF FirstHop
    <2> HIDE DEF r
    <2>2. FirstHop(r) BY <1>8, <1>9 DEF FirstHop
    <2>3. QED BY <2>1, <2>2
  <1> HIDE DEF n, t, u, r, a, nx
  <1>11. \A x \in msgs' : x \in msgs \/ FirstHop(x)
    BY <1>7, <1>10, UnicastSent
  <1>12. QED BY <1>2, <1>4, <1>5, <1>6, <1>11, HandlerNInv

LEMMA ProcessHelloNInv ==
  ASSUME IInv, NInv, NEW m \in msgs, ProcessHello(m)
  PROVE  NInv'
  <1> DEFINE n == m.to
             t == Heard(rt[n], m.from)
             e == t[m.dst]
             u == [e EXCEPT !.flag = "VALID", !.vseq = TRUE, !.seq = m.dseq,
                            !.hop = 1, !.next = m.dst]
             r == IF e.flag = "NONE" THEN Route(TRUE, m.dseq, 1, m.dst) ELSE u
             w == [t EXCEPT ![m.dst] = r]
  <1>1. m \in Messages /\ m.type = "RREP" BY DEF IInv, ProcessHello
  <1>2. m \in Rreps /\ n \in Nodes /\ m.from \in Nodes BY <1>1, MessageKinds
  <1>3. m.dst \in Nodes BY <1>2 DEF Rreps
  <1>4. rt[n] \in Tables /\ Near(rt[n]) BY <1>2 DEF IInv, NInv
  <1>5. t \in Tables /\ Near(t) BY <1>2, <1>4, HeardGood, HeardNear
  <1>6. rt' = [rt EXCEPT ![n] = w] /\ msgs' \subseteq msgs
    BY <1>3, <1>5 DEF ProcessHello, Tables
  <1> HIDE DEF t, n
  <1>7. e \in Entries BY <1>3, <1>5 DEF Tables, GoodEntries
  <1>8. r.flag = "VALID" /\ r.next = m.dst BY <1>7 DEF Route, Entries
  <1> HIDE DEF r
  <1>9. EntryNear(r, m.dst) BY <1>8 DEF EntryNear
  <1>10. Near(w) BY <1>3, <1>5, <1>9, StoreNear
  <1> HIDE DEF w
  <1>11. QED BY <1>2, <1>6, <1>10, HandlerNInv

LEMMA RecvReplyAckNInv ==
  ASSUME IInv, NInv, NEW m \in msgs, RecvReplyAck(m)
  PROVE  NInv'
  <1> DEFINE n == m.to
             t == Heard(rt[n], m.from)
             r == [t[m.from] EXCEPT !.flag = "VALID"]
             w == [t EXCEPT ![m.from] = r]
  <1>1. m \in Messages BY DEF IInv
  <1>2. n \in Nodes /\ m.from \in Nodes BY <1>1, MessageKinds
  <1>3. rt[n] \in Tables /\ Near(rt[n]) BY <1>2 DEF IInv, NInv
  <1>4. t \in Tables /\ Near(t) BY <1>2, <1>3, HeardGood, HeardNear
  <1>5. t[m.from].next = m.from
    <2>1. EntryNear(rt[n][m.from], m.from) BY <1>2, <1>3 DEF Near
    <2>2. QED BY <1>2, <1>3, <2>1 DEF Heard, Route, EntryNear, Tables
  <1>6. rt' = [rt EXCEPT ![n] = w] /\ msgs' \subseteq msgs
    BY <1>2, <1>4 DEF RecvReplyAck, Tables, IInv
  <1> HIDE DEF t, n
  <1>7. t[m.from] \in Entries BY <1>2, <1>4 DEF Tables, GoodEntries
  <1>8. r.flag = "VALID" /\ r.next = m.from BY <1>5, <1>7 DEF Entries
  <1> HIDE DEF r
  <1>9. EntryNear(r, m.from) BY <1>8 DEF EntryNear
  <1>10. Near(w) BY <1>2, <1>4, <1>9, StoreNear
  <1> HIDE DEF w
  <1>11. QED BY <1>2, <1>6, <1>10, HandlerNInv

LEMMA RecvErrorNInv ==
  ASSUME IInv, NInv, NEW m \in msgs, RecvError(m)
  PROVE  NInv'
  <1> DEFINE n == m.to
             t == Heard(rt[n], m.from)
             S == m.dests \cap Via(t, m.from)
             prec == UNION {t[d].prec : d \in S}
  <1>1. m \in Messages BY DEF IInv
  <1>2. n \in Nodes /\ m.from \in Nodes BY <1>1, MessageKinds
  <1>3. rt[n] \in Tables /\ Near(rt[n]) BY <1>2 DEF IInv, NInv
  <1>4. t \in Tables /\ Near(t) BY <1>2, <1>3, HeardGood, HeardNear
  <1>5. Near(Invalidated(t, S)) BY <1>4, InvalidatedNear
  <1>6. S \in SUBSET Nodes BY DEF Via
  <1>7. prec \in SUBSET Nodes BY <1>4, <1>6 DEF Tables, GoodEntries, Entries
  <1>8. /\ rt' = [rt EXCEPT ![n] = Invalidated(t, S)]
        /\ msgs' \subseteq msgs \cup SendRerrMessage(n, t, S, prec)
    BY DEF RecvError
  <1> HIDE DEF n, t, S, prec
  <1>9. \A x \in msgs' : x \in msgs \/ FirstHop(x)
    BY <1>2, <1>6, <1>7, <1>8, RerrSent, OtherFirstHop
  <1>10. QED BY <1>2, <1>5, <1>8, <1>9, HandlerNInv

LEMMA SendRerrWhenBreaksLinkToNextHopNInv ==
  ASSUME IInv, NInv, NEW n \in Nodes, NEW x \in Nodes,
         SendRerrWhenBreaksLinkToNextHop(n, x)
  PROVE  NInv'
  <1> DEFINE t == rt[n]
             S == {x} \cup Via(t, x)
             prec == UNION {t[d].prec : d \in S}
  <1>1. t \in Tables /\ Near(t) BY DEF IInv, NInv
  <1>2. Near(Invalidated(t, S)) BY <1>1, InvalidatedNear
  <1>3. S \in SUBSET Nodes BY DEF Via
  <1>4. prec \in SUBSET Nodes BY <1>1, <1>3 DEF Tables, GoodEntries, Entries
  <1>5. /\ rt' = [rt EXCEPT ![n] = Invalidated(t, S)]
        /\ msgs' = msgs \cup SendRerrMessage(n, t, S, prec)
    BY DEF SendRerrWhenBreaksLinkToNextHop
  <1> HIDE DEF t, S, prec
  <1>6. \A y \in msgs' : y \in msgs \/ FirstHop(y)
    BY <1>3, <1>4, <1>5, RerrSent, OtherFirstHop
  <1>7. QED BY <1>2, <1>5, <1>6, HandlerNInv

LEMMA PacketsNInv ==
  ASSUME IInv, NInv, NEW m \in msgs, RouteInput(m)
  PROVE  NInv'
  <1> DEFINE n == m.to
             u == [m EXCEPT !.from = n, !.to = rt[n][m.dst].next]
             E == SendRerrWhenNoRouteToForward(n, m.dst, m.origin)
  <1>1. m \in Messages /\ m.type = "DATA" BY DEF IInv, RouteInput
  <1>2. m \in Datas /\ n \in Nodes BY <1>1, MessageKinds
  <1>3. u.to \in Nodes => u \in Datas BY <1>2 DEF Datas
  <1>4. E \subseteq Rerrs BY <1>2, NoRouteRerrSent DEF Datas
  <1>5. UNCHANGED rt /\ msgs' \subseteq msgs \cup Unicast(u) \cup E
    BY DEF RouteInput
  <1> HIDE DEF u, E
  <1>6. \A x \in msgs' : x \in msgs \/ FirstHop(x)
    BY <1>3, <1>4, <1>5, UnicastSent, OtherFirstHop
  <1>7. QED BY <1>5, <1>6, QuietNInv

LEMMA PurgeNInv ==
  ASSUME IInv, NInv, NEW n \in Nodes, NEW d \in Nodes, Purge(n, d) \/ GiveUp(n, d)
  PROVE  NInv'
  <1> DEFINE e == rt[n][d]
             r == [e EXCEPT !.flag = "INVALID"]
  <1>1. rt \in [Nodes -> Tables] /\ rt[n] \in Tables /\ Near(rt[n])
    BY DEF IInv, NInv
  <1>2. e \in GoodEntries /\ e \in Entries /\ EntryNear(e, d)
    BY <1>1 DEF Tables, GoodEntries, Near
  <1>3. UNCHANGED msgs BY DEF Purge, GiveUp
  <1>4. \/ e.flag = "VALID" /\ rt' = [rt EXCEPT ![n] = [rt[n] EXCEPT ![d] = r]]
        \/ rt' = [rt EXCEPT ![n] = [rt[n] EXCEPT ![d] = NoEntry]]
    BY <1>1, <1>2 DEF Purge, GiveUp, Tables, Entries
  <1>5. e.flag = "VALID" => EntryNear(r, d) BY <1>2, InvalidNear
  <1> HIDE DEF r, e
  <1>6. CASE e.flag = "VALID" /\ rt' = [rt EXCEPT ![n] = [rt[n] EXCEPT ![d] = r]]
    <2>1. Near([rt[n] EXCEPT ![d] = r]) BY <1>1, <1>5, <1>6, StoreNear
    <2>2. QED BY <1>3, <1>6, <2>1, HandlerNInv
  <1>7. CASE rt' = [rt EXCEPT ![n] = [rt[n] EXCEPT ![d] = NoEntry]]
    <2>1. Near([rt[n] EXCEPT ![d] = NoEntry]) BY <1>1, NoEntryNear, StoreNear
    <2>2. QED BY <1>3, <1>7, <2>1, HandlerNInv
  <1>8. QED BY <1>4, <1>6, <1>7

LEMMA SendDataNInv ==
  ASSUME NInv, NEW n \in Nodes, NEW d \in Nodes, SendData(n, d)
  PROVE  NInv'
  <1> DEFINE m == [type |-> "DATA", from |-> n, to |-> rt[n][d].next,
                   origin |-> n, dst |-> d]
  <1>1. FirstHop(m) BY DEF FirstHop
  <1>2. UNCHANGED rt /\ msgs' = msgs \cup Unicast(m) BY DEF SendData
  <1> HIDE DEF m
  <1>3. \A x \in msgs' : x \in msgs \/ FirstHop(x) BY <1>1, <1>2, UnicastSent
  <1>4. QED BY <1>2, <1>3, QuietNInv

LEMMA SendHelloNInv ==
  ASSUME IInv, NInv, NEW n \in Nodes, SendHello(n)
  PROVE  NInv'
  <1> DEFINE m == [type |-> "RREP", from |-> n, to |-> n, dst |-> n,
                   dseq |-> seqNo[n], origin |-> n, hop |-> 0, ttl |-> 1,
                   ack |-> FALSE]
  <1>1. m \in Rreps BY DEF IInv, Rreps
  <1>2. m.dst = n OBVIOUS
  <1>3. UNCHANGED rt /\ msgs' = msgs \cup Broadcast(n, m) BY DEF SendHello
  <1> HIDE DEF m
  <1>4. \A x \in msgs' : x \in msgs \/ FirstHop(x)
    BY <1>1, <1>2, <1>3, BroadcastRrep, ReplyFirstHop
  <1>5. QED BY <1>3, <1>4, QuietNInv

LEMMA NextNInv ==
  ASSUME IInv, NInv, [Next]_vars
  PROVE  NInv'
  <1>1. ASSUME NEW n \in Nodes, NEW d \in Nodes, NEW ttl \in Ttls,
               SendRequest(n, d, ttl)
        PROVE  NInv'
    BY <1>1, SendRequestNInv
  <1>2. ASSUME NEW type \in Types, NEW n \in Nodes, Receive(type, n) PROVE NInv'
    BY <1>2, RecvRequestNInv, RecvReplyNInv, ProcessHelloNInv, RecvReplyAckNInv,
       RecvErrorNInv, PacketsNInv DEF Receive
  <1>3. ASSUME NEW n \in Nodes, NEW d \in Nodes,
               \/ SendRerrWhenBreaksLinkToNextHop(n, d)
               \/ Purge(n, d) \/ GiveUp(n, d) \/ SendData(n, d)
        PROVE  NInv'
    BY <1>3, SendRerrWhenBreaksLinkToNextHopNInv, PurgeNInv, SendDataNInv
  <1>4. ASSUME NEW n \in Nodes, SendHello(n) PROVE NInv' BY <1>4, SendHelloNInv
  <1>5. ASSUME NEW l \in Links, LoseLink(l) PROVE NInv'
    BY <1>5 DEF LoseLink, NInv
  <1>6. CASE UNCHANGED vars BY <1>6 DEF vars, NInv
  <1>7. CASE \E n \in Nodes : RerrRateLimitTimerExpire(n)
    BY <1>7 DEF RerrRateLimitTimerExpire, NInv
  <1>8. QED BY <1>1, <1>2, <1>3, <1>4, <1>5, <1>6, <1>7 DEF Next

\* An entry of one hop leads to the neighbour itself, in every network and
\* whatever the malicious nodes, faults and delays, although the hop count and
\* the next hop come from different messages: so UpdateRouteToNeighbor, which
\* looks at the hop count only, never keeps a route through another node.
THEOREM OneHopRoutesAreDirect == Spec => []OneHopIsNeighbour
  <1>1. Init => NInv
    <2> SUFFICES ASSUME Init PROVE NInv OBVIOUS
    <2>1. \A n, d \in Nodes : EntryNear(rt[n][d], d) BY NoEntryNear DEF Init
    <2>2. QED BY <2>1 DEF Init, NInv, Near
  <1>2. IInv /\ NInv /\ [Next]_vars => NInv' BY NextNInv
  <1>3. NInv => OneHopIsNeighbour BY NInvMeaning
  <1>4. QED BY <1>1, <1>2, <1>3, Invariance, PTL DEF Spec

-----------------------------------------------------------------------------
(* What RouteDiscovery assumes of the messages of one node's neighbours.   *)

\* Hop counts as the receiver sees them: a RREQ of one hop is from its
\* originator, and only such a RREQ is; a RREP of one hop is from its
\* destination.  (The guards of RouteDiscovery's RecvRequest and RecvReply.)
HopsAsAssumed ==
  \A x \in msgs :
    /\ x.type = "RREQ" => (HopCount(x) = 1 <=> x.from = x.origin)
    /\ x.type = "RREP" => (HopCount(x) = 1 => x.from = x.dst)

\* Of the RREQs a node sends, its own have made no hop.
OwnHops == \A x \in msgs : x.type = "RREQ" /\ x.from = x.origin => x.hop = 0

LEMMA NextOwnHops ==
  ASSUME IInv, OwnFloodsIgnored, OwnHops, [Next]_vars
  PROVE  OwnHops'
  <1> SUFFICES ASSUME NEW x \in msgs', x.type = "RREQ", x.from = x.origin
               PROVE  x.hop = 0
    BY DEF OwnHops
  <1>1. \/ x \in msgs \/ Originated(x)
        \/ \E m \in msgs : RelayOf(x, m)
    BY NextRreqs DEF RreqsAreOurs
  <1>2. ASSUME NEW m \in msgs PROVE ~RelayOf(x, m)
    <2>1. m.type = "RREQ" => IsDuplicate(m.origin, m) BY DEF OwnFloodsIgnored
    <2>2. QED BY <2>1 DEF RelayOf
  <1>3. QED BY <1>1, <1>2 DEF OwnHops, Originated

\* In every network the messages in flight are such as RouteDiscovery, which
\* has any other message from its environment, takes them to be.  For the RREQs
\* this needs that no node relays its own.
THEOREM HopsAreAsAssumed == Spec => []HopsAsAssumed
  <1>1. Init => NInv /\ OwnHops
    <2> SUFFICES ASSUME Init PROVE NInv /\ OwnHops OBVIOUS
    <2>1. \A n, d \in Nodes : EntryNear(rt[n][d], d) BY NoEntryNear DEF Init
    <2>2. QED BY <2>1 DEF Init, NInv, Near, OwnHops
  <1>2. IInv /\ NInv /\ [Next]_vars => NInv' BY NextNInv
  <1>3. IInv /\ OwnFloodsIgnored /\ OwnHops /\ [Next]_vars => OwnHops'
    BY NextOwnHops
  <1>4. IInv /\ NInv /\ OwnHops => HopsAsAssumed
    <2> SUFFICES ASSUME IInv, NInv, OwnHops, NEW x \in msgs
                 PROVE  /\ x.type = "RREQ" => (HopCount(x) = 1 <=> x.from = x.origin)
                        /\ x.type = "RREP" => (HopCount(x) = 1 => x.from = x.dst)
      BY DEF HopsAsAssumed
    <2>1. x.type = "RREQ" \/ x.type = "RREP" => x.hop \in Nat
      BY MessageKinds DEF IInv, Rreqs, Rreps
    <2>2. FirstHop(x) BY DEF NInv
    <2>3. QED BY <2>1, <2>2 DEF FirstHop, OwnHops, HopCount
  <1>5. QED
    BY <1>1, <1>2, <1>3, <1>4, Invariance, OwnRequestsIgnored, PTL DEF Spec

-----------------------------------------------------------------------------
(* Routes to a node nobody searches for.                                   *)

Unsearched(o) == \A s \in Searches : s[2] # o

\* Node o and the nodes with a valid route to it.
Knowers(o) == {o} \cup {k \in Nodes : rt[k][o].flag = "VALID"}

\* An entry for o leads to one of these, set K, if there is one.
Leads(K, e) == \/ e.flag = "NONE"
               \/ e.flag = "VALID" /\ e.next \in K

\* What o has sent comes from a node of K, what goes to o goes to one; no search
\* and no RERR is about o.
Found(o, K, x) ==
  /\ x.type = "RREQ" => x.dst # o /\ (x.origin = o => x.from \in K)
  /\ x.type = "RREP" => /\ x.dst = o => x.from \in K
                        /\ x.origin = o /\ x.dst # o => x.to \in K
  /\ x.type = "RERR" => o \notin x.dests
  /\ x.type = "DATA" => x.dst # o

UInv(o) == /\ links = Links
           /\ \A n \in Nodes : Leads(Knowers(o), rt[n][o])
           /\ \A x \in msgs : Found(o, Knowers(o), x)

\* A table for node n in which it does not lose its route to o.
Keeps(o, n, t) == /\ Leads(Knowers(o), t[o])
                  /\ rt[n][o].flag = "VALID" => t[o].flag = "VALID"

LEMMA UInvKeeps ==
  ASSUME NEW o, UInv(o), NEW n \in Nodes
  PROVE  Keeps(o, n, rt[n])
  BY DEF UInv, Keeps

LEMMA StoreKeeps ==
  ASSUME NEW o \in Nodes, NEW n, NEW t \in Tables, Keeps(o, n, t),
         NEW d \in Nodes, NEW e,
         d = o => e.flag = "VALID" /\ e.next \in Knowers(o)
  PROVE  Keeps(o, n, [t EXCEPT ![d] = e])
  BY DEF Keeps, Leads, Tables

LEMMA SameRoutesKeep ==
  ASSUME NEW o \in Nodes, NEW n, NEW t, NEW u, Keeps(o, n, t),
         SameRoute(t[o], u[o])
  PROVE  Keeps(o, n, u)
  BY DEF Keeps, Leads, SameRoute

LEMMA HeardKeeps ==
  ASSUME NEW o \in Nodes, NEW n, NEW t \in Tables, Keeps(o, n, t),
         NEW s \in Nodes
  PROVE  Keeps(o, n, Heard(t, s))
  <1>1. LET e == Route(FALSE, 0, 1, s)
        IN  s = o => e.flag = "VALID" /\ e.next \in Knowers(o)
    BY DEF Route, Knowers
  <1>2. QED BY <1>1, StoreKeeps DEF Heard

LEMMA InvalidatedKeeps ==
  ASSUME NEW o \in Nodes, NEW n, NEW t, Keeps(o, n, t), NEW S, o \notin S
  PROVE  Keeps(o, n, Invalidated(t, S))
  BY DEF Keeps, Leads, Invalidated

\* The reverse route to o is valid and leads to the node the RREQ came from.
LEMMA ReversedKeeps ==
  ASSUME NEW o \in Nodes, NEW n \in Nodes, NEW m \in Rreqs,
         rt[n] \in Tables, Keeps(o, n, rt[n]),
         m.origin = o => m.from \in Knowers(o)
  PROVE  /\ Keeps(o, n, Reversed(n, m))
         /\ m.origin = o => Reversed(n, m)[o].flag = "VALID"
  <1> DEFINE t1 == Heard(rt[n], m.from)
             r == ReverseRoute(t1[m.origin], m.from, m.oseq, HopCount(m))
             t2 == [t1 EXCEPT ![m.origin] = r]
             p == PreviousHop(t2[m.from], m.from, m.oseq)
             t3 == [t2 EXCEPT ![m.from] = p]
  <1>1. /\ m.from \in Nodes /\ m.origin \in Nodes /\ m.oseq \in Nat
        /\ HopCount(m) \in Nat \ {0}
    BY DEF Rreqs, HopCount
  <1>2. t1 \in Tables /\ Keeps(o, n, t1) BY <1>1, HeardGood, HeardKeeps
  <1>3. Reversed(n, m) = t3 BY DEF Reversed
  <1> HIDE DEF t1
  <1>4. t1[m.origin] \in GoodEntries /\ t1[m.origin] \in Entries
    BY <1>1, <1>2 DEF Tables, GoodEntries
  <1>5. r \in GoodEntries /\ r.next = m.from
    BY <1>1, <1>4, ReverseRouteGood DEF ReverseRoute, Route, Entries
  <1>6. m.origin = o => r.flag = "VALID"
    <2>1. m.origin = o => t1[m.origin].flag \in {"NONE", "VALID"}
      BY <1>2 DEF Keeps, Leads
    <2>2. QED BY <1>4, <2>1 DEF ReverseRoute, Route, Entries
  <1> HIDE DEF r
  <1>7. /\ t2 \in Tables /\ Keeps(o, n, t2)
        /\ m.origin = o => t2[o].flag = "VALID"
    BY <1>1, <1>2, <1>5, <1>6, StoreGood, StoreKeeps DEF Tables
  <1> HIDE DEF t2
  <1>8. t2[m.from] \in Entries BY <1>1, <1>7 DEF Tables, GoodEntries
  <1>9. p.next = m.from /\ p.flag = "VALID"
    BY <1>8 DEF PreviousHop, Route, Entries
  <1> HIDE DEF p
  <1>10. Keeps(o, n, t3)
    BY <1>1, <1>7, <1>9, StoreKeeps DEF Knowers
  <1>11. m.origin = o => t3[o].flag = "VALID" BY <1>1, <1>7, <1>9 DEF Tables
  <1> HIDE DEF t3
  <1>12. QED BY <1>3, <1>10, <1>11

\* A RREP from o leaves a valid route to it, new or not.
LEMMA ForwardKeeps ==
  ASSUME NEW o \in Nodes, NEW n \in Nodes, NEW m \in Rreps,
         rt[n] \in Tables, Keeps(o, n, rt[n]),
         m.dst = o => m.from \in Knowers(o)
  PROVE  /\ Keeps(o, n, Forward(n, m))
         /\ m.dst = o => Forward(n, m)[o].flag = "VALID"
  <1> DEFINE t == Heard(rt[n], m.from)
             r == Route(TRUE, m.dseq, HopCount(m), m.from)
             u == [t EXCEPT ![m.dst] = r]
  <1>1. m.from \in Nodes /\ m.dst \in Nodes BY DEF Rreps
  <1>2. t \in Tables /\ Keeps(o, n, t) BY <1>1, HeardGood, HeardKeeps
  <1>3. \/ Forward(n, m) = t /\ t[m.dst].flag # "NONE"
        \/ Forward(n, m) = u
    BY DEF Forward, Accepts
  <1> HIDE DEF t
  <1>4. r.next = m.from /\ r.flag = "VALID" BY DEF Route
  <1> HIDE DEF r
  <1>5. Keeps(o, n, u) /\ u[m.dst] = r
    BY <1>1, <1>2, <1>4, StoreKeeps DEF Tables
  <1>6. m.dst = o /\ t[m.dst].flag # "NONE" => t[o].flag = "VALID"
    BY <1>2 DEF Keeps, Leads
  <1> HIDE DEF u
  <1>7. QED BY <1>2, <1>3, <1>4, <1>5, <1>6

LEMMA FoundGrows ==
  ASSUME NEW o, NEW K, NEW L, K \subseteq L, NEW x, Found(o, K, x)
  PROVE  Found(o, L, x)
  BY DEF Found

LEMMA KnowersGrow ==
  ASSUME IInv, NEW o \in Nodes, NEW n \in Nodes, NEW t,
         rt' = [rt EXCEPT ![n] = t], Keeps(o, n, t)
  PROVE  /\ Knowers(o) \subseteq Knowers(o)'
         /\ t[o].flag = "VALID" => n \in Knowers(o)'
  <1>1. /\ rt'[n] = t
        /\ \A k \in Nodes : k # n => rt'[k] = rt[k]
    BY DEF IInv
  <1>2. QED BY <1>1 DEF Knowers, Keeps

LEMMA HandlerUInv ==
  ASSUME IInv, NEW o \in Nodes, UInv(o), NEW n \in Nodes, NEW t,
         Keeps(o, n, t), rt' = [rt EXCEPT ![n] = t], UNCHANGED links,
         \A x \in msgs' : x \in msgs \/ Found(o, Knowers(o)', x)
  PROVE  UInv(o)'
  <1> DEFINE L == Knowers(o)'
  <1>1. /\ rt'[n] = t
        /\ \A k \in Nodes : k # n => rt'[k] = rt[k]
    BY DEF IInv
  <1>2. Knowers(o) \subseteq L BY KnowersGrow
  <1>3. L = {o} \cup {k \in Nodes : rt'[k][o].flag = "VALID"} BY DEF Knowers
  <1> HIDE DEF L
  <1>4. \A k \in Nodes : Leads(L, rt'[k][o])
    BY <1>1, <1>2 DEF UInv, Keeps, Leads
  <1>5. \A x \in msgs' : Found(o, L, x)
    BY <1>2, FoundGrows DEF UInv, L
  <1>6. links' = Links BY DEF UInv
  <1>7. QED BY <1>4, <1>5, <1>6 DEF UInv, L, Leads, Found

LEMMA QuietUInv ==
  ASSUME NEW o \in Nodes, UInv(o), UNCHANGED <<rt, links>>,
         \A x \in msgs' : x \in msgs \/ Found(o, Knowers(o), x)
  PROVE  UInv(o)'
  <1>1. Knowers(o)' = Knowers(o) BY DEF Knowers
  <1>2. \A k \in Nodes : Leads(Knowers(o)', rt'[k][o]) BY <1>1 DEF UInv
  <1>3. \A x \in msgs' : Found(o, Knowers(o)', x) BY <1>1 DEF UInv
  <1>4. links' = Links BY DEF UInv
  <1>5. QED BY <1>2, <1>3, <1>4 DEF UInv, Leads, Found

\* A RERR is about the destinations it is given.
LEMMA RerrFound ==
  ASSUME NEW o, NEW K, NEW n, NEW t, NEW dests, NEW prec, o \notin dests
  PROVE  \A x \in SendRerrMessage(n, t, dests, prec) : Found(o, K, x)
  <1> DEFINE m == [type |-> "RERR", from |-> n, to |-> n, dests |-> dests]
             copy(y) == [m EXCEPT !.to = y]
             sent(y) == [m EXCEPT !.from = n, !.to = y]
  <1>1. ASSUME NEW y
        PROVE  /\ copy(y).type = "RERR" /\ copy(y).dests = dests
               /\ sent(y).type = "RERR" /\ sent(y).dests = dests
    OBVIOUS
  <1>2. \A x \in SendRerrMessage(n, t, dests, prec) :
          \E y : x = copy(y) \/ x = sent(y)
    BY DEF SendRerrMessage, Unicast, Broadcast
  <1> HIDE DEF copy, sent
  <1>3. QED BY <1>1, <1>2 DEF Found

LEMMA NoRouteRerrFound ==
  ASSUME NEW o, NEW K, NEW n, NEW dst, NEW origin, dst # o
  PROVE  \A x \in SendRerrWhenNoRouteToForward(n, dst, origin) : Found(o, K, x)
  <1> DEFINE m == [type |-> "RERR", from |-> n, to |-> n, dests |-> {dst}]
             copy(y) == [m EXCEPT !.to = y]
             sent(y) == [m EXCEPT !.from = n, !.to = y]
  <1>1. ASSUME NEW y
        PROVE  /\ copy(y).type = "RERR" /\ copy(y).dests = {dst}
               /\ sent(y).type = "RERR" /\ sent(y).dests = {dst}
    OBVIOUS
  <1>2. \A x \in SendRerrWhenNoRouteToForward(n, dst, origin) :
          \E y : x = copy(y) \/ x = sent(y)
    BY DEF SendRerrWhenNoRouteToForward, Unicast, Broadcast
  <1> HIDE DEF copy, sent
  <1>3. QED BY <1>1, <1>2 DEF Found

\* The search is for another node.
LEMMA SendRequestUInv ==
  ASSUME IInv, NEW o \in Nodes, Unsearched(o), UInv(o), NEW n \in Nodes,
         NEW dst \in Nodes, NEW ttl \in Ttls, SendRequest(n, dst, ttl)
  PROVE  UInv(o)'
  <1> DEFINE e == rt[n][dst]
             r == [e EXCEPT !.flag = "IN_SEARCH", !.hop = ttl]
             q == [type |-> "RREQ", from |-> n, to |-> n, origin |-> n,
                   id |-> reqId'[n], oseq |-> seqNo'[n], dst |-> dst,
                   dseq |-> IF rt[n][dst].vseq THEN rt[n][dst].seq ELSE 0,
                   known |-> rt[n][dst].vseq, hop |-> 0, ttl |-> ttl]
  <1>1. rt \in [Nodes -> Tables] /\ rt[n] \in Tables BY DEF IInv
  <1>2. e \in Entries BY <1>1 DEF Tables, GoodEntries
  <1>3. seqNo' \in [Nodes -> Nat] /\ reqId' \in [Nodes -> Nat]
    BY DEF IInv, SendRequest
  <1>4. q \in Rreqs BY <1>2, <1>3, TtlAssumption DEF Rreqs, Entries
  <1>5. q.origin = n /\ q.dst = dst OBVIOUS
  <1>6. dst # o BY DEF SendRequest, Unsearched
  <1>7. rt' = [rt EXCEPT ![n] = [rt[n] EXCEPT ![dst] = r]]
    BY <1>1, <1>2 DEF SendRequest, Tables, Entries
  <1>8. msgs' = msgs \cup Broadcast(n, q) /\ UNCHANGED links
    BY DEF SendRequest
  <1> HIDE DEF q, e, r
  <1>9. Keeps(o, n, [rt[n] EXCEPT ![dst] = r])
    BY <1>1, <1>6, UInvKeeps, StoreKeeps
  <1>10. ASSUME NEW x \in Broadcast(n, q) PROVE Found(o, Knowers(o)', x)
    <2>1. x \in Rreqs /\ x.origin = n /\ x.dst = dst /\ x.from = n
      BY <1>4, <1>5, BroadcastRreq
    <2>2. x.type = "RREQ" BY <2>1 DEF Rreqs
    <2>3. o \in Knowers(o)' BY DEF Knowers
    <2>4. QED BY <1>6, <2>1, <2>2, <2>3 DEF Found
  <1>11. QED BY <1>7, <1>8, <1>9, <1>10, HandlerUInv

\* Replies go along the route to the originator; the entry e replied with is for
\* another node than o.
LEMMA IntermediateUInv ==
  ASSUME NEW o, NEW n, NEW m, NEW t, NEW e, NEW L,
         SendReplyByIntermediateNode(n, m, t, e), m.dst # o,
         m.origin = o => n \in L /\ t[o].next \in L
  PROVE  \A x \in msgs' : x \in msgs \/ Found(o, L, x)
  <1> DEFINE q == [type |-> "RREP", from |-> n, to |-> t[m.origin].next,
                   dst |-> m.dst, dseq |-> e.seq, origin |-> m.origin,
                   hop |-> e.hop, ttl |-> t[m.origin].hop,
                   ack |-> e.hop = 1]
             g == [type |-> "RREP", from |-> n, to |-> e.next,
                   dst |-> m.origin, dseq |-> t[m.origin].seq, origin |-> m.dst,
                   hop |-> t[m.origin].hop, ttl |-> e.hop, ack |-> FALSE]
  <1>1. msgs' \subseteq msgs \cup {q, g}
    BY DEF SendReplyByIntermediateNode, Unicast
  <1>2. /\ q.type = "RREP" /\ q.from = n /\ q.to = t[m.origin].next
        /\ q.dst = m.dst /\ q.origin = m.origin
        /\ g.type = "RREP" /\ g.from = n /\ g.dst = m.origin
        /\ g.origin = m.dst
    OBVIOUS
  <1> HIDE DEF q, g
  <1>3. Found(o, L, q) /\ Found(o, L, g) BY <1>2 DEF Found
  <1>4. QED BY <1>1, <1>3

LEMMA SendReplyUInv ==
  ASSUME NEW o, NEW n, NEW m, NEW t, NEW L, SendReply(n, m, t), n # o,
         m.origin = o => t[o].next \in L
  PROVE  \A x \in msgs' : x \in msgs \/ Found(o, L, x)
  <1>1. PICK q : /\ q.type = "RREP" /\ q.to = t[m.origin].next /\ q.dst = n
                 /\ q.origin = m.origin
                 /\ msgs' = (msgs \ {m}) \cup Unicast(q)
    BY DEF SendReply
  <1>2. Found(o, L, q) BY <1>1 DEF Found
  <1>3. QED BY <1>1, <1>2 DEF Unicast

\* Every node that handles a RREQ of o has a valid route to o then.
LEMMA RecvRequestUInv ==
  ASSUME IInv, NEW o \in Nodes, UInv(o), NEW m \in msgs, RecvRequest(m)
  PROVE  UInv(o)'
  <1> DEFINE n == m.to
             t == Reversed(n, m)
             e == t[m.dst]
             L == Knowers(o)'
  <1>1. m \in Messages /\ m.type = "RREQ" BY DEF IInv, RecvRequest
  <1>2. m \in Rreqs /\ n \in Nodes /\ m.from \in Nodes BY <1>1, MessageKinds
  <1>3. m.origin \in Nodes /\ m.dst \in Nodes BY <1>2 DEF Rreqs
  <1>4. rt[n] \in Tables /\ Keeps(o, n, rt[n]) BY <1>2, UInvKeeps DEF IInv
  <1>5. m.dst # o /\ (m.origin = o => m.from \in Knowers(o))
    BY <1>1 DEF UInv, Found
  <1>6. t \in Tables /\ t[m.origin].flag # "NONE" /\ t[m.origin].next \in Nodes
    BY <1>2, <1>4, ReversedGood
  <1>7. Keeps(o, n, t) /\ (m.origin = o => t[o].flag = "VALID")
    BY <1>2, <1>4, <1>5, ReversedKeeps
  <1>8. e \in GoodEntries BY <1>3, <1>6 DEF Tables
  <1>9. UNCHANGED links BY DEF RecvRequest
  <1>10. CASE IsDuplicate(n, m)
    <2>1. rt' = [rt EXCEPT ![n] = Heard(rt[n], m.from)] /\ msgs' = msgs \ {m}
      BY <1>2, <1>10 DEF RecvRequest, IInv
    <2>2. Keeps(o, n, Heard(rt[n], m.from)) BY <1>2, <1>4, HeardKeeps
    <2> HIDE DEF n, t
    <2>3. QED BY <1>2, <1>9, <2>1, <2>2, HandlerUInv
  <1>11. CASE ~IsDuplicate(n, m)
    <2>1. \/ n = m.dst /\ SendReply(n, m, t)
          \/ SendReplyByIntermediateNode(n, m, t, FalseRoute(m))
          \/ e.flag = "VALID" /\ SendReplyByIntermediateNode(n, m, t, e)
          \/ /\ rt' = [rt EXCEPT ![n] = t]
             /\ msgs' \subseteq msgs \cup Relay(n, m, e)
      BY <1>11 DEF RecvRequest
    <2>2. ASSUME NEW u, rt' = [rt EXCEPT ![n] = u], SameRoute(t[o], u[o])
          PROVE  /\ Keeps(o, n, u)
                 /\ m.origin = o => n \in L /\ t[o].next \in L
      <3>1. Keeps(o, n, u) BY <1>7, <2>2, SameRoutesKeep
      <3> HIDE DEF n, t
      <3>2. /\ Knowers(o) \subseteq L
            /\ u[o].flag = "VALID" => n \in L
        BY <1>2, <2>2, <3>1, KnowersGrow
      <3>3. m.origin = o => t[o].next \in Knowers(o) /\ u[o].flag = "VALID"
        BY <1>7, <2>2 DEF Keeps, Leads, SameRoute
      <3> HIDE DEF L
      <3>4. QED BY <3>1, <3>2, <3>3
    <2>3. SameRoute(t[o], t[o]) BY DEF SameRoute
    <2>4. CASE n = m.dst /\ SendReply(n, m, t)
      <3>1. rt' = [rt EXCEPT ![n] = t] BY <2>4 DEF SendReply
      <3> HIDE DEF n, t, e, L
      <3>2. \A x \in msgs' : x \in msgs \/ Found(o, L, x)
        BY <1>5, <2>2, <2>3, <2>4, <3>1, SendReplyUInv
      <3>3. QED BY <1>2, <1>7, <1>9, <3>1, <3>2, HandlerUInv DEF L
    <2>5. ASSUME NEW f \in GoodEntries, f.flag = "VALID",
                 SendReplyByIntermediateNode(n, m, t, f)
          PROVE  UInv(o)'
      <3> HIDE DEF n, t, e, L
      <3>1. \E u \in Tables :
               /\ rt' = [rt EXCEPT ![n] = u]
               /\ \A x \in Nodes :
                    SameRoute(t[x], u[x]) \/ (x = m.dst /\ SameRoute(f, u[x]))
        BY <1>2, <1>6, <2>5, ReplyByIntermediateSent
      <3>2. PICK u \in Tables :
               /\ rt' = [rt EXCEPT ![n] = u]
               /\ \A x \in Nodes :
                    SameRoute(t[x], u[x]) \/ (x = m.dst /\ SameRoute(f, u[x]))
        BY <3>1
      <3>3. SameRoute(t[o], u[o]) BY <1>5, <3>2
      <3>4. /\ Keeps(o, n, u)
            /\ m.origin = o => n \in L /\ t[o].next \in L
        BY <2>2, <3>2, <3>3
      <3>5. \A x \in msgs' : x \in msgs \/ Found(o, L, x)
        BY <1>5, <2>5, <3>4, IntermediateUInv
      <3>6. QED BY <1>2, <1>9, <3>2, <3>4, <3>5, HandlerUInv DEF L
    <2>6. CASE SendReplyByIntermediateNode(n, m, t, FalseRoute(m))
      BY <1>2, <2>5, <2>6, FalseRouteGood
    <2>7. CASE e.flag = "VALID" /\ SendReplyByIntermediateNode(n, m, t, e)
      BY <1>8, <2>5, <2>7
    <2>8. CASE /\ rt' = [rt EXCEPT ![n] = t]
               /\ msgs' \subseteq msgs \cup Relay(n, m, e)
      <3> HIDE DEF n, t, e, L
      <3>1. ASSUME NEW x \in Relay(n, m, e) PROVE Found(o, L, x)
        <4>1. /\ x \in Rreqs /\ x.origin = m.origin /\ x.dst = m.dst
              /\ x.from = n
          BY <1>2, <1>8, RelaySent
        <4>2. x.type = "RREQ" BY <4>1 DEF Rreqs
        <4>3. QED BY <1>5, <2>2, <2>3, <2>8, <4>1, <4>2 DEF Found
      <3>2. \A x \in msgs' : x \in msgs \/ Found(o, L, x) BY <2>8, <3>1
      <3>3. QED BY <1>2, <1>7, <1>9, <2>8, <3>2, HandlerUInv DEF L
    <2>9. QED BY <2>1, <2>4, <2>6, <2>7, <2>8
  <1>12. QED BY <1>10, <1>11

\* A RREP to o is passed on to a node that can pass it on.
LEMMA RecvReplyUInv ==
  ASSUME IInv, NEW o \in Nodes, UInv(o), NEW m \in msgs, RecvReply(m)
  PROVE  UInv(o)'
  <1> DEFINE n == m.to
             t == Forward(n, m)
             u == Precursors(t, m)
             r == [m EXCEPT !.from = n, !.to = t[m.origin].next,
                            !.hop = HopCount(m), !.ttl = @ - 1, !.ack = FALSE]
             a == [type |-> "RREP_ACK", from |-> n, to |-> m.from]
             done == m.origin = n \/ Unroutable(n, m)
             L == Knowers(o)'
  <1>1. m \in Messages /\ m.type = "RREP" /\ m.dst # m.origin
    BY DEF IInv, RecvReply
  <1>2. m \in Rreps /\ n \in Nodes /\ m.from \in Nodes BY <1>1, MessageKinds
  <1>3. rt[n] \in Tables /\ Keeps(o, n, rt[n]) BY <1>2, UInvKeeps DEF IInv
  <1>4. /\ m.dst = o => m.from \in Knowers(o)
        /\ m.origin = o => n \in Knowers(o)
    BY <1>1 DEF UInv, Found
  <1>5. t \in Tables /\ Keeps(o, n, t) /\ (m.dst = o => t[o].flag = "VALID")
    BY <1>2, <1>3, <1>4, ForwardGood, ForwardKeeps
  <1>6. SameRoute(t[o], u[o]) BY <1>2, <1>5, PrecursorsGood DEF SameRoutes
  <1>7. Keeps(o, n, u) BY <1>5, <1>6, SameRoutesKeep
  <1>8. rt' = [rt EXCEPT ![n] = t] \/ rt' = [rt EXCEPT ![n] = u]
    BY DEF RecvReply
  <1>9. \A x \in msgs' : x \in msgs \/ x = a \/ (x = r /\ ~done)
    BY DEF RecvReply, Unicast
  <1>10. /\ r.type = "RREP" /\ r.from = n /\ r.to = t[m.origin].next
         /\ r.dst = m.dst /\ r.origin = m.origin
    BY <1>2 DEF Rreps
  <1>11. a.type = "RREP_ACK" /\ UNCHANGED links BY DEF RecvReply
  <1>12. m.origin = o /\ ~done => t[o].flag = "VALID"
    <2>1. m.origin = o /\ ~done => rt[n][o].flag = "VALID"
      BY <1>4 DEF Knowers
    <2>2. QED BY <1>5, <2>1 DEF Keeps
  <1>13. t[o].flag = "VALID" => t[o].next \in Knowers(o) /\ u[o].flag = "VALID"
    BY <1>5, <1>6 DEF Keeps, Leads, SameRoute
  <1> HIDE DEF n, t, u, r, a, done
  <1>14. /\ Knowers(o) \subseteq L
         /\ t[o].flag = "VALID" => n \in L
    BY <1>2, <1>5, <1>7, <1>8, <1>13, KnowersGrow
  <1> HIDE DEF L
  <1>15. Found(o, L, a) BY <1>11 DEF Found
  <1>16. ~done => Found(o, L, r)
    BY <1>5, <1>10, <1>12, <1>13, <1>14 DEF Found
  <1>17. \A x \in msgs' : x \in msgs \/ Found(o, L, x) BY <1>9, <1>15, <1>16
  <1>18. QED
    BY <1>2, <1>5, <1>7, <1>8, <1>11, <1>17, HandlerUInv DEF L

LEMMA ProcessHelloUInv ==
  ASSUME IInv, NEW o \in Nodes, UInv(o), NEW m \in msgs, ProcessHello(m)
  PROVE  UInv(o)'
  <1> DEFINE n == m.to
             t == Heard(rt[n], m.from)
             e == t[m.dst]
             u == [e EXCEPT !.flag = "VALID", !.vseq = TRUE, !.seq = m.dseq,
                            !.hop = 1, !.next = m.dst]
             r == IF e.flag = "NONE" THEN Route(TRUE, m.dseq, 1, m.dst) ELSE u
             w == [t EXCEPT ![m.dst] = r]
  <1>1. m \in Messages /\ m.type = "RREP" BY DEF IInv, ProcessHello
  <1>2. m \in Rreps /\ n \in Nodes /\ m.from \in Nodes BY <1>1, MessageKinds
  <1>3. m.dst \in Nodes BY <1>2 DEF Rreps
  <1>4. rt[n] \in Tables /\ Keeps(o, n, rt[n]) BY <1>2, UInvKeeps DEF IInv
  <1>5. t \in Tables /\ Keeps(o, n, t) BY <1>2, <1>4, HeardGood, HeardKeeps
  <1>6. rt' = [rt EXCEPT ![n] = w] /\ msgs' \subseteq msgs /\ UNCHANGED links
    BY <1>3, <1>5 DEF ProcessHello, Tables
  <1> HIDE DEF t, n
  <1>7. e \in Entries BY <1>3, <1>5 DEF Tables, GoodEntries
  <1>8. r.next = m.dst /\ r.flag = "VALID" BY <1>7 DEF Route, Entries
  <1> HIDE DEF r
  <1>9. Keeps(o, n, w) BY <1>3, <1>5, <1>8, StoreKeeps DEF Knowers
  <1> HIDE DEF w
  <1>10. QED BY <1>2, <1>6, <1>9, HandlerUInv

\* The neighbour the RREP-ACK is from has just got an entry, if it had none.
LEMMA RecvReplyAckUInv ==
  ASSUME IInv, NEW o \in Nodes, UInv(o), NEW m \in msgs, RecvReplyAck(m)
  PROVE  UInv(o)'
  <1> DEFINE n == m.to
             t == Heard(rt[n], m.from)
             r == [t[m.from] EXCEPT !.flag = "VALID"]
             w == [t EXCEPT ![m.from] = r]
  <1>1. m \in Messages BY DEF IInv
  <1>2. n \in Nodes /\ m.from \in Nodes BY <1>1, MessageKinds
  <1>3. rt[n] \in Tables /\ Keeps(o, n, rt[n]) BY <1>2, UInvKeeps DEF IInv
  <1>4. t \in Tables /\ Keeps(o, n, t) BY <1>2, <1>3, HeardGood, HeardKeeps
  <1>5. t[m.from].flag # "NONE" BY <1>2, <1>3 DEF Heard, Route, Tables
  <1>6. rt' = [rt EXCEPT ![n] = w] /\ msgs' \subseteq msgs /\ UNCHANGED links
    BY <1>2, <1>4 DEF RecvReplyAck, Tables, IInv
  <1> HIDE DEF t, n
  <1>7. t[m.from] \in Entries BY <1>2, <1>4 DEF Tables, GoodEntries
  <1>8. r.next = t[m.from].next /\ r.flag = "VALID" BY <1>7 DEF Entries
  <1>9. m.from = o => t[m.from].next \in Knowers(o)
    BY <1>4, <1>5 DEF Keeps, Leads
  <1> HIDE DEF r
  <1>10. Keeps(o, n, w) BY <1>2, <1>4, <1>8, <1>9, StoreKeeps
  <1> HIDE DEF w
  <1>11. QED BY <1>2, <1>6, <1>10, HandlerUInv

\* A RERR is passed on for a part of its destinations.
LEMMA RecvErrorUInv ==
  ASSUME IInv, NEW o \in Nodes, UInv(o), NEW m \in msgs, RecvError(m)
  PROVE  UInv(o)'
  <1> DEFINE n == m.to
             t == Heard(rt[n], m.from)
             S == m.dests \cap Via(t, m.from)
             prec == UNION {t[d].prec : d \in S}
  <1>1. m \in Messages /\ m.type = "RERR" BY DEF IInv, RecvError
  <1>2. n \in Nodes /\ m.from \in Nodes BY <1>1, MessageKinds
  <1>3. rt[n] \in Tables /\ Keeps(o, n, rt[n]) BY <1>2, UInvKeeps DEF IInv
  <1>4. Keeps(o, n, t) BY <1>2, <1>3, HeardKeeps
  <1>5. o \notin S BY <1>1 DEF UInv, Found
  <1>6. Keeps(o, n, Invalidated(t, S)) BY <1>4, <1>5, InvalidatedKeeps
  <1>7. /\ rt' = [rt EXCEPT ![n] = Invalidated(t, S)] /\ UNCHANGED links
        /\ msgs' \subseteq msgs \cup SendRerrMessage(n, t, S, prec)
    BY DEF RecvError
  <1> HIDE DEF n, t, S, prec
  <1>8. \A x \in msgs' : x \in msgs \/ Found(o, Knowers(o)', x)
    BY <1>5, <1>7, RerrFound
  <1>9. QED BY <1>2, <1>6, <1>7, <1>8, HandlerUInv

\* No packet is for o.
LEMMA RouteInputUInv ==
  ASSUME IInv, NEW o \in Nodes, UInv(o), NEW m \in msgs, RouteInput(m)
  PROVE  UInv(o)'
  <1> DEFINE n == m.to
             u == [m EXCEPT !.from = n, !.to = rt[n][m.dst].next]
             E == SendRerrWhenNoRouteToForward(n, m.dst, m.origin)
  <1>1. m \in Messages /\ m.type = "DATA" BY DEF IInv, RouteInput
  <1>2. m \in Datas BY <1>1, MessageKinds
  <1>3. m.dst # o BY <1>1 DEF UInv, Found
  <1>4. u.type = "DATA" /\ u.dst = m.dst BY <1>2 DEF Datas
  <1>5. /\ UNCHANGED <<rt, links>>
        /\ msgs' \subseteq msgs \cup {u} \cup E
    BY DEF RouteInput, Unicast
  <1> HIDE DEF u, E
  <1>6. Found(o, Knowers(o), u) BY <1>3, <1>4 DEF Found
  <1>7. \A x \in E : Found(o, Knowers(o), x) BY <1>3, NoRouteRerrFound DEF E
  <1>8. QED BY <1>5, <1>6, <1>7, QuietUInv

LEMMA SendDataUInv ==
  ASSUME NEW o \in Nodes, Unsearched(o), UInv(o), NEW n \in Nodes,
         NEW d \in Nodes, SendData(n, d)
  PROVE  UInv(o)'
  <1> DEFINE m == [type |-> "DATA", from |-> n, to |-> rt[n][d].next,
                   origin |-> n, dst |-> d]
  <1>1. m.type = "DATA" /\ m.dst = d OBVIOUS
  <1>2. UNCHANGED <<rt, links>> /\ msgs' \subseteq msgs \cup {m}
    BY DEF SendData, Unicast
  <1>3. d # o BY DEF SendData, Unsearched
  <1> HIDE DEF m
  <1>4. Found(o, Knowers(o), m) BY <1>1, <1>3 DEF Found
  <1>5. QED BY <1>2, <1>4, QuietUInv

LEMMA SendHelloUInv ==
  ASSUME NEW o \in Nodes, UInv(o), NEW n \in Nodes, SendHello(n)
  PROVE  UInv(o)'
  <1> DEFINE m == [type |-> "RREP", from |-> n, to |-> n, dst |-> n,
                   dseq |-> seqNo[n], origin |-> n, hop |-> 0, ttl |-> 1,
                   ack |-> FALSE]
             copy(y) == [m EXCEPT !.from = n, !.to = y]
  <1>1. UNCHANGED <<rt, links>> /\ msgs' = msgs \cup Broadcast(n, m)
    BY DEF SendHello
  <1>2. ASSUME NEW y PROVE /\ copy(y).type = "RREP" /\ copy(y).dst = n
                           /\ copy(y).origin = n /\ copy(y).from = n
    OBVIOUS
  <1>3. \A x \in Broadcast(n, m) : \E y : x = copy(y) BY DEF Broadcast
  <1> HIDE DEF m, copy
  <1>4. \A x \in Broadcast(n, m) : Found(o, Knowers(o), x)
    BY <1>2, <1>3 DEF Found, Knowers
  <1>5. QED BY <1>1, <1>4, QuietUInv

\* Only an invalid route is erased, and there is none to o.
LEMMA PurgeUInv ==
  ASSUME IInv, NEW o \in Nodes, UInv(o), NEW n \in Nodes, NEW d \in Nodes,
         Purge(n, d), faults' = faults
  PROVE  UInv(o)'
  <1>1. rt \in [Nodes -> Tables] /\ rt[n] \in Tables BY DEF IInv
  <1>2. /\ rt[n][d].flag = "INVALID"
        /\ rt' = [rt EXCEPT ![n] = [rt[n] EXCEPT ![d] = NoEntry]]
        /\ UNCHANGED <<msgs, links>>
    BY <1>1 DEF Purge, IInv, Tables
  <1>3. d # o BY <1>2 DEF UInv, Leads
  <1>4. Keeps(o, n, [rt[n] EXCEPT ![d] = NoEntry])
    BY <1>1, <1>3, UInvKeeps, StoreKeeps
  <1>5. QED BY <1>2, <1>4, HandlerUInv

\* A failure is counted, and none is forgotten.
LEMMA NextFaults ==
  ASSUME IInv, [Next]_vars, faults' = 0
  PROVE  faults = 0
  <1>1. faults \in Nat BY DEF IInv
  <1>2. faults' = faults \/ faults' = faults + 1
    <2>1. ASSUME NEW n \in Nodes, NEW d \in Nodes, NEW ttl \in Ttls,
                 SendRequest(n, d, ttl)
          PROVE  faults' = faults
      BY <2>1 DEF SendRequest
    <2>2. ASSUME NEW n \in Nodes, NEW d \in Nodes,
                 \/ SendRerrWhenBreaksLinkToNextHop(n, d)
                 \/ Purge(n, d) \/ GiveUp(n, d) \/ SendData(n, d)
          PROVE  faults' = faults \/ faults' = faults + 1
      <3>1. CASE SendRerrWhenBreaksLinkToNextHop(n, d)
        BY <3>1 DEF SendRerrWhenBreaksLinkToNextHop
      <3>2. CASE Purge(n, d) BY <3>2 DEF Purge
      <3>3. CASE GiveUp(n, d) BY <3>3 DEF GiveUp
      <3>4. CASE SendData(n, d) BY <3>4 DEF SendData
      <3>5. QED BY <2>2, <3>1, <3>2, <3>3, <3>4
    <2>3. ASSUME NEW m, \/ RecvRequest(m) \/ RecvReply(m) \/ ProcessHello(m)
                        \/ RecvReplyAck(m) \/ RecvError(m) \/ RouteInput(m)
          PROVE  faults' = faults
      <3>1. CASE RecvRequest(m) BY <3>1 DEF RecvRequest
      <3>2. CASE RecvReply(m) BY <3>2 DEF RecvReply
      <3>3. CASE ProcessHello(m) BY <3>3 DEF ProcessHello
      <3>4. CASE RecvReplyAck(m) BY <3>4 DEF RecvReplyAck
      <3>5. CASE RecvError(m) BY <3>5 DEF RecvError
      <3>6. CASE RouteInput(m) BY <3>6 DEF RouteInput
      <3>7. QED BY <2>3, <3>1, <3>2, <3>3, <3>4, <3>5, <3>6
    <2>4. ASSUME NEW type \in Types, NEW n \in Nodes, Receive(type, n)
          PROVE  faults' = faults
      BY <2>3, <2>4 DEF Receive
    <2>5. ASSUME NEW n \in Nodes, SendHello(n) \/ RerrRateLimitTimerExpire(n)
          PROVE  faults' = faults
      BY <2>5 DEF SendHello, RerrRateLimitTimerExpire
    <2>6. ASSUME NEW l \in Links, LoseLink(l) PROVE faults' = faults + 1
      BY <2>6 DEF LoseLink
    <2>7. CASE UNCHANGED vars BY <2>7 DEF vars
    <2>8. QED BY <2>1, <2>2, <2>4, <2>5, <2>6, <2>7 DEF Next
  <1>3. QED BY <1>1, <1>2

LEMMA NextUInv ==
  ASSUME IInv, NEW o \in Nodes, Unsearched(o), UInv(o), faults = 0,
         [Next]_vars, faults' = 0
  PROVE  UInv(o)'
  <1>1. ASSUME NEW n \in Nodes, NEW d \in Nodes, NEW ttl \in Ttls,
               SendRequest(n, d, ttl)
        PROVE  UInv(o)'
    BY <1>1, SendRequestUInv
  <1>2. ASSUME NEW type \in Types, NEW n \in Nodes, Receive(type, n)
        PROVE  UInv(o)'
    BY <1>2, RecvRequestUInv, RecvReplyUInv, ProcessHelloUInv, RecvReplyAckUInv,
       RecvErrorUInv, RouteInputUInv DEF Receive
  <1>3. ASSUME NEW n \in Nodes, NEW d \in Nodes
        PROVE  ~SendRerrWhenBreaksLinkToNextHop(n, d) /\ ~GiveUp(n, d)
    BY DEF UInv, SendRerrWhenBreaksLinkToNextHop, GiveUp
  <1>4. ASSUME NEW n \in Nodes, NEW d \in Nodes, Purge(n, d) \/ SendData(n, d)
        PROVE  UInv(o)'
    BY <1>4, PurgeUInv, SendDataUInv
  <1>5. ASSUME NEW n \in Nodes, SendHello(n) PROVE UInv(o)'
    BY <1>5, SendHelloUInv
  <1>6. ASSUME UNCHANGED <<rt, msgs, links>> PROVE UInv(o)'
    BY <1>6, QuietUInv
  <1>7. ASSUME NEW n \in Nodes, RerrRateLimitTimerExpire(n) PROVE UInv(o)'
    BY <1>6, <1>7 DEF RerrRateLimitTimerExpire
  <1>8. ASSUME NEW l \in Links PROVE ~LoseLink(l)
    BY DEF LoseLink
  <1>9. CASE UNCHANGED vars BY <1>6, <1>9 DEF vars
  <1>10. QED
    BY <1>1, <1>2, <1>3, <1>4, <1>5, <1>7, <1>8, <1>9 DEF Next

\* While nothing has failed.
UInvs == faults = 0 => \A o \in Nodes : Unsearched(o) => UInv(o)

\* In every network, with malicious nodes or without, as long as nothing fails a
\* relayed RREP finds a route to its originator unless somebody searches for it.
THEOREM UnsearchedAreFound == Spec => []UnsearchedIsFound
  <1>1. Init => UInvs
    <2> SUFFICES ASSUME Init, NEW o \in Nodes PROVE UInv(o) BY DEF UInvs
    <2>1. \A n \in Nodes : rt[n][o] = NoEntry BY DEF Init
    <2>2. NoEntry.flag = "NONE" BY DEF NoEntry
    <2>3. \A n \in Nodes : Leads(Knowers(o), rt[n][o]) BY <2>1, <2>2 DEF Leads
    <2>4. QED BY <2>3 DEF Init, UInv
  <1>2. IInv /\ UInvs /\ [Next]_vars => UInvs'
    <2> SUFFICES ASSUME IInv, UInvs, [Next]_vars, faults' = 0, NEW o \in Nodes,
                        Unsearched(o)
                 PROVE  UInv(o)'
      BY DEF UInvs, Unsearched
    <2>1. faults = 0 BY NextFaults
    <2>2. UInv(o) BY <2>1 DEF UInvs
    <2>3. QED BY <2>1, <2>2, NextUInv
  <1>3. IInv /\ UInvs => UnsearchedIsFound
    <2> SUFFICES ASSUME IInv, UInvs, faults = 0, NEW m \in msgs,
                        m.type = "RREP", m.dst # m.origin, Unsearched(m.origin)
                 PROVE  ~Unroutable(m.to, m)
      BY DEF UnsearchedIsFound, Unsearched
    <2> DEFINE n == m.to
               o == m.origin
    <2>1. m \in Rreps /\ n \in Nodes BY MessageKinds DEF IInv
    <2>2. o \in Nodes BY <2>1 DEF Rreps
    <2>3. UInv(o) BY <2>2 DEF UInvs
    <2>4. n \in Knowers(o) /\ (m.dst = o => m.from \in Knowers(o))
      BY <2>3 DEF UInv, Found
    <2>5. rt[n] \in Tables /\ Keeps(o, n, rt[n])
      BY <2>1, <2>3, UInvKeeps DEF IInv
    <2>6. Keeps(o, n, Forward(n, m))
      BY <2>1, <2>2, <2>4, <2>5, ForwardKeeps
    <2>7. n # o => Forward(n, m)[o].flag = "VALID"
      BY <2>4, <2>6 DEF Knowers, Keeps
    <2>8. QED BY <2>7 DEF Unroutable
  <1>4. QED BY <1>1, <1>2, <1>3, Invariance, PTL DEF Spec
-----------------------------------------------------------------------------
(* Routes to next hops.                                                    *)

\* If an entry leads through x there is an entry for x.
Anchored(x, t) == \A d \in Nodes : t[d].next = x => t[x].flag # "NONE"

KInv(x) == \A n \in Nodes : Anchored(x, rt[n])

LEMMA StoreAnchored ==
  ASSUME NEW x \in Nodes, NEW t \in Tables, Anchored(x, t), NEW d \in Nodes,
         NEW e, e.flag # "NONE",
         e.next = x => d = x \/ t[x].flag # "NONE"
  PROVE  Anchored(x, [t EXCEPT ![d] = e])
  BY DEF Anchored, Tables

LEMMA SameRoutesAnchored ==
  ASSUME NEW x \in Nodes, NEW t, NEW u, SameRoutes(t, u), Anchored(x, t)
  PROVE  Anchored(x, u)
  BY DEF SameRoutes, SameRoute, Anchored

LEMMA HeardAnchored ==
  ASSUME NEW x \in Nodes, NEW t \in Tables, Anchored(x, t), NEW s \in Nodes
  PROVE  Anchored(x, Heard(t, s))
  <1>1. /\ Route(FALSE, 0, 1, s).flag = "VALID"
        /\ Route(FALSE, 0, 1, s).next = s
    BY DEF Route
  <1>2. QED BY <1>1, StoreAnchored DEF Heard

LEMMA InvalidatedAnchored ==
  ASSUME NEW x \in Nodes, NEW t \in Tables, Anchored(x, t), NEW S
  PROVE  Anchored(x, Invalidated(t, S))
  <1> DEFINE u == Invalidated(t, S)
  <1>1. ASSUME NEW d \in Nodes
        PROVE  u[d].next = t[d].next /\ (t[d].flag # "NONE" => u[d].flag # "NONE")
    <2>1. t[d] \in Entries BY DEF Tables, GoodEntries
    <2>2. u[d] = IF d \in S /\ t[d].flag = "VALID"
                   THEN [t[d] EXCEPT !.flag = "INVALID"] ELSE t[d]
      BY DEF Invalidated
    <2>3. QED BY <2>1, <2>2 DEF Entries
  <1> HIDE DEF u
  <1>2. QED BY <1>1 DEF Anchored, u

\* The sender of a message has an entry before anything leads through it.
LEMMA ReversedAnchored ==
  ASSUME NEW x \in Nodes, NEW n \in Nodes, NEW m \in Rreqs, rt[n] \in Tables,
         Anchored(x, rt[n])
  PROVE  Anchored(x, Reversed(n, m))
  <1> DEFINE t1 == Heard(rt[n], m.from)
             r == ReverseRoute(t1[m.origin], m.from, m.oseq, HopCount(m))
             t2 == [t1 EXCEPT ![m.origin] = r]
             p == PreviousHop(t2[m.from], m.from, m.oseq)
             t3 == [t2 EXCEPT ![m.from] = p]
  <1>1. /\ m.from \in Nodes /\ m.origin \in Nodes /\ m.oseq \in Nat
        /\ HopCount(m) \in Nat \ {0}
    BY DEF Rreqs, HopCount
  <1>2. t1 \in Tables /\ Anchored(x, t1) /\ t1[m.from].flag # "NONE"
    BY <1>1, HeardGood, HeardAnchored
  <1>3. Reversed(n, m) = t3 BY DEF Reversed
  <1> HIDE DEF t1
  <1>4. t1[m.origin] \in GoodEntries /\ t1[m.origin] \in Entries
    BY <1>1, <1>2 DEF Tables, GoodEntries
  <1>5. r \in GoodEntries /\ r.flag # "NONE" /\ r.next = m.from
    BY <1>1, <1>4, ReverseRouteGood DEF ReverseRoute, Route, Entries
  <1> HIDE DEF r
  <1>6. t2 \in Tables /\ Anchored(x, t2)
    BY <1>1, <1>2, <1>5, StoreGood, StoreAnchored
  <1> HIDE DEF t2
  <1>7. t2[m.from] \in Entries BY <1>1, <1>6 DEF Tables, GoodEntries
  <1>8. p.next = m.from /\ p.flag = "VALID"
    BY <1>7 DEF PreviousHop, Route, Entries
  <1> HIDE DEF p
  <1>9. Anchored(x, t3) BY <1>1, <1>6, <1>8, StoreAnchored
  <1> HIDE DEF t3
  <1>10. QED BY <1>3, <1>9

LEMMA ForwardAnchored ==
  ASSUME NEW x \in Nodes, NEW n \in Nodes, NEW m \in Rreps, rt[n] \in Tables,
         Anchored(x, rt[n])
  PROVE  Anchored(x, Forward(n, m))
  <1> DEFINE t == Heard(rt[n], m.from)
             r == Route(TRUE, m.dseq, HopCount(m), m.from)
             u == [t EXCEPT ![m.dst] = r]
  <1>1. m.from \in Nodes /\ m.dst \in Nodes BY DEF Rreps
  <1>2. t \in Tables /\ Anchored(x, t) /\ t[m.from].flag # "NONE"
    BY <1>1, HeardGood, HeardAnchored
  <1>3. Forward(n, m) \in {t, u} BY DEF Forward
  <1> HIDE DEF t
  <1>4. r.next = m.from /\ r.flag = "VALID" BY DEF Route
  <1> HIDE DEF r
  <1>5. Anchored(x, u) BY <1>1, <1>2, <1>4, StoreAnchored
  <1> HIDE DEF u
  <1>6. QED BY <1>2, <1>3, <1>5

LEMMA HandlerKInv ==
  ASSUME IInv, NEW x \in Nodes, KInv(x), NEW n \in Nodes, NEW t,
         Anchored(x, t), rt' = [rt EXCEPT ![n] = t]
  PROVE  KInv(x)'
  <1>1. \A k \in Nodes : rt'[k] = IF k = n THEN t ELSE rt[k] BY DEF IInv
  <1>2. QED BY <1>1 DEF KInv, Anchored

\* A search keeps the next hop of the entry it changes.
LEMMA SendRequestKInv ==
  ASSUME IInv, NEW x \in Nodes, KInv(x), NEW n \in Nodes, NEW dst \in Nodes,
         NEW ttl \in Ttls, SendRequest(n, dst, ttl)
  PROVE  KInv(x)'
  <1> DEFINE e == rt[n][dst]
             r == [e EXCEPT !.flag = "IN_SEARCH", !.hop = ttl]
  <1>1. rt \in [Nodes -> Tables] /\ rt[n] \in Tables BY DEF IInv
  <1>2. e \in Entries BY <1>1 DEF Tables, GoodEntries
  <1>3. rt' = [rt EXCEPT ![n] = [rt[n] EXCEPT ![dst] = r]]
    BY <1>1, <1>2 DEF SendRequest, Tables, Entries
  <1>4. r.flag = "IN_SEARCH" /\ r.next = e.next BY <1>2 DEF Entries
  <1>5. Anchored(x, rt[n]) BY DEF KInv
  <1>6. e.next = x => rt[n][x].flag # "NONE" BY <1>5 DEF Anchored
  <1> HIDE DEF r, e
  <1>7. Anchored(x, [rt[n] EXCEPT ![dst] = r])
    BY <1>1, <1>4, <1>5, <1>6, StoreAnchored
  <1>8. QED BY <1>3, <1>7, HandlerKInv

\* The entry f a node replies with leads through a node it knows; that of a
\* malicious node leads to its own destination.
LEMMA RecvRequestKInv ==
  ASSUME IInv, NEW x \in Nodes, KInv(x), NEW m \in msgs, RecvRequest(m)
  PROVE  KInv(x)'
  <1> DEFINE n == m.to
             t == Reversed(n, m)
             e == t[m.dst]
  <1>1. m \in Messages /\ m.type = "RREQ" BY DEF IInv, RecvRequest
  <1>2. m \in Rreqs /\ n \in Nodes /\ m.from \in Nodes BY <1>1, MessageKinds
  <1>3. m.origin \in Nodes /\ m.dst \in Nodes BY <1>2 DEF Rreqs
  <1>4. rt[n] \in Tables /\ Anchored(x, rt[n]) BY <1>2 DEF IInv, KInv
  <1>5. t \in Tables /\ t[m.origin].flag # "NONE" /\ t[m.origin].next \in Nodes
    BY <1>2, <1>4, ReversedGood
  <1>6. Anchored(x, t) BY <1>2, <1>4, ReversedAnchored
  <1>7. e \in GoodEntries BY <1>3, <1>5 DEF Tables
  <1>8. CASE IsDuplicate(n, m)
    <2>1. rt' = [rt EXCEPT ![n] = Heard(rt[n], m.from)]
      BY <1>2, <1>8 DEF RecvRequest, IInv
    <2>2. Anchored(x, Heard(rt[n], m.from)) BY <1>2, <1>4, HeardAnchored
    <2> HIDE DEF n, t
    <2>3. QED BY <1>2, <2>1, <2>2, HandlerKInv
  <1>9. CASE ~IsDuplicate(n, m)
    <2>1. \/ SendReply(n, m, t)
          \/ SendReplyByIntermediateNode(n, m, t, FalseRoute(m))
          \/ e.flag = "VALID" /\ SendReplyByIntermediateNode(n, m, t, e)
          \/ rt' = [rt EXCEPT ![n] = t]
      BY <1>9 DEF RecvRequest
    <2>2. SendReply(n, m, t) => rt' = [rt EXCEPT ![n] = t] BY DEF SendReply
    <2>3. ASSUME NEW f \in GoodEntries, f.flag = "VALID",
                 f.next = x => m.dst = x \/ t[x].flag # "NONE",
                 SendReplyByIntermediateNode(n, m, t, f)
          PROVE  KInv(x)'
      <3> HIDE DEF n, t, e
      <3>1. \E u \in Tables :
               /\ rt' = [rt EXCEPT ![n] = u]
               /\ \A y \in Nodes :
                    SameRoute(t[y], u[y]) \/ (y = m.dst /\ SameRoute(f, u[y]))
        BY <1>2, <1>5, <2>3, ReplyByIntermediateSent
      <3>2. PICK u \in Tables :
               /\ rt' = [rt EXCEPT ![n] = u]
               /\ \A y \in Nodes :
                    SameRoute(t[y], u[y]) \/ (y = m.dst /\ SameRoute(f, u[y]))
        BY <3>1
      <3>3. t[x].flag # "NONE" => u[x].flag # "NONE"
        BY <2>3, <3>2 DEF SameRoute
      <3>4. ASSUME NEW y \in Nodes, u[y].next = x PROVE u[x].flag # "NONE"
        <4>1. CASE SameRoute(t[y], u[y])
          BY <1>6, <3>3, <3>4, <4>1 DEF SameRoute, Anchored
        <4>2. CASE y = m.dst /\ SameRoute(f, u[y])
          BY <2>3, <3>3, <3>4, <4>2 DEF SameRoute
        <4>3. QED BY <3>2, <4>1, <4>2
      <3>5. Anchored(x, u) BY <3>4 DEF Anchored
      <3>6. QED BY <1>2, <3>2, <3>5, HandlerKInv
    <2>4. CASE SendReplyByIntermediateNode(n, m, t, FalseRoute(m))
      <3>1. FalseRoute(m).next = m.dst BY DEF FalseRoute, Route
      <3>2. QED BY <1>2, <2>3, <2>4, <3>1, FalseRouteGood
    <2>5. CASE e.flag = "VALID" /\ SendReplyByIntermediateNode(n, m, t, e)
      <3>1. e.next = x => t[x].flag # "NONE" BY <1>3, <1>6 DEF Anchored
      <3>2. QED BY <1>7, <2>3, <2>5, <3>1
    <2>6. CASE rt' = [rt EXCEPT ![n] = t]
      <3> HIDE DEF n, t
      <3>1. QED BY <1>2, <1>6, <2>6, HandlerKInv
    <2>7. QED BY <2>1, <2>2, <2>4, <2>5, <2>6
  <1>10. QED BY <1>8, <1>9

LEMMA RecvReplyKInv ==
  ASSUME IInv, NEW x \in Nodes, KInv(x), NEW m \in msgs, RecvReply(m)
  PROVE  KInv(x)'
  <1> DEFINE n == m.to
             t == Forward(n, m)
             u == Precursors(t, m)
  <1>1. m \in Messages /\ m.type = "RREP" BY DEF IInv, RecvReply
  <1>2. m \in Rreps /\ n \in Nodes BY <1>1, MessageKinds
  <1>3. rt[n] \in Tables /\ Anchored(x, rt[n]) BY <1>2 DEF IInv, KInv
  <1>4. t \in Tables /\ Anchored(x, t)
    BY <1>2, <1>3, ForwardGood, ForwardAnchored
  <1>5. Anchored(x, u) BY <1>2, <1>4, PrecursorsGood, SameRoutesAnchored
  <1>6. rt' = [rt EXCEPT ![n] = t] \/ rt' = [rt EXCEPT ![n] = u]
    BY DEF RecvReply
  <1> HIDE DEF n, t, u
  <1>7. QED BY <1>2, <1>4, <1>5, <1>6, HandlerKInv

\* A hello makes its sender the next hop of the sender's own entry.
LEMMA ProcessHelloKInv ==
  ASSUME IInv, NEW x \in Nodes, KInv(x), NEW m \in msgs, ProcessHello(m)
  PROVE  KInv(x)'
  <1> DEFINE n == m.to
             t == Heard(rt[n], m.from)
             e == t[m.dst]
             u == [e EXCEPT !.flag = "VALID", !.vseq = TRUE, !.seq = m.dseq,
                            !.hop = 1, !.next = m.dst]
             r == IF e.flag = "NONE" THEN Route(TRUE, m.dseq, 1, m.dst) ELSE u
             w == [t EXCEPT ![m.dst] = r]
  <1>1. m \in Messages /\ m.type = "RREP" BY DEF IInv, ProcessHello
  <1>2. m \in Rreps /\ n \in Nodes /\ m.from \in Nodes BY <1>1, MessageKinds
  <1>3. m.dst \in Nodes BY <1>2 DEF Rreps
  <1>4. rt[n] \in Tables /\ Anchored(x, rt[n]) BY <1>2 DEF IInv, KInv
  <1>5. t \in Tables /\ Anchored(x, t) BY <1>2, <1>4, HeardGood, HeardAnchored
  <1>6. rt' = [rt EXCEPT ![n] = w] BY <1>3, <1>5 DEF ProcessHello, Tables
  <1> HIDE DEF t, n
  <1>7. e \in Entries BY <1>3, <1>5 DEF Tables, GoodEntries
  <1>8. r.next = m.dst /\ r.flag = "VALID" BY <1>7 DEF Route, Entries
  <1> HIDE DEF r
  <1>9. Anchored(x, w) BY <1>3, <1>5, <1>8, StoreAnchored
  <1> HIDE DEF w
  <1>10. QED BY <1>2, <1>6, <1>9, HandlerKInv

LEMMA RecvReplyAckKInv ==
  ASSUME IInv, NEW x \in Nodes, KInv(x), NEW m \in msgs, RecvReplyAck(m)
  PROVE  KInv(x)'
  <1> DEFINE n == m.to
             t == Heard(rt[n], m.from)
             r == [t[m.from] EXCEPT !.flag = "VALID"]
             w == [t EXCEPT ![m.from] = r]
  <1>1. m \in Messages BY DEF IInv
  <1>2. n \in Nodes /\ m.from \in Nodes BY <1>1, MessageKinds
  <1>3. rt[n] \in Tables /\ Anchored(x, rt[n]) BY <1>2 DEF IInv, KInv
  <1>4. t \in Tables /\ Anchored(x, t) BY <1>2, <1>3, HeardGood, HeardAnchored
  <1>5. rt' = [rt EXCEPT ![n] = w]
    BY <1>2, <1>4 DEF RecvReplyAck, Tables, IInv
  <1> HIDE DEF t, n
  <1>6. t[m.from] \in Entries BY <1>2, <1>4 DEF Tables, GoodEntries
  <1>7. r.next = t[m.from].next /\ r.flag = "VALID" BY <1>6 DEF Entries
  <1>8. t[m.from].next = x => t[x].flag # "NONE" BY <1>2, <1>4 DEF Anchored
  <1> HIDE DEF r
  <1>9. Anchored(x, w) BY <1>2, <1>4, <1>7, <1>8, StoreAnchored
  <1> HIDE DEF w
  <1>10. QED BY <1>2, <1>5, <1>9, HandlerKInv

LEMMA RecvErrorKInv ==
  ASSUME IInv, NEW x \in Nodes, KInv(x), NEW m \in msgs, RecvError(m)
  PROVE  KInv(x)'
  <1> DEFINE n == m.to
             t == Heard(rt[n], m.from)
             S == m.dests \cap Via(t, m.from)
  <1>1. m \in Messages BY DEF IInv
  <1>2. n \in Nodes /\ m.from \in Nodes BY <1>1, MessageKinds
  <1>3. rt[n] \in Tables /\ Anchored(x, rt[n]) BY <1>2 DEF IInv, KInv
  <1>4. t \in Tables /\ Anchored(x, t) BY <1>2, <1>3, HeardGood, HeardAnchored
  <1>5. rt' = [rt EXCEPT ![n] = Invalidated(t, S)] BY DEF RecvError
  <1> HIDE DEF n, t, S
  <1>6. Anchored(x, Invalidated(t, S)) BY <1>4, InvalidatedAnchored
  <1>7. QED BY <1>2, <1>5, <1>6, HandlerKInv

\* Only another node's entry is erased.
LEMMA PurgeKInv ==
  ASSUME IInv, NEW x \in Nodes, KInv(x), UInv(x), NEW n \in Nodes,
         NEW d \in Nodes, Purge(n, d), faults' = faults
  PROVE  KInv(x)'
  <1> DEFINE u == [rt[n] EXCEPT ![d] = NoEntry]
  <1>1. rt \in [Nodes -> Tables] /\ rt[n] \in Tables BY DEF IInv
  <1>2. rt[n][d].flag = "INVALID" /\ rt' = [rt EXCEPT ![n] = u]
    BY <1>1 DEF Purge, IInv, Tables
  <1>3. d # x BY <1>2 DEF UInv, Leads
  <1>4. NoEntry.next = NoNode /\ NoNode # x
    BY NodeAssumption DEF NoEntry
  <1>5. \A y \in Nodes : u[y] = IF y = d THEN NoEntry ELSE rt[n][y]
    BY <1>1 DEF Tables
  <1> HIDE DEF u
  <1>6. Anchored(x, u) BY <1>3, <1>4, <1>5 DEF KInv, Anchored
  <1>7. QED BY <1>2, <1>6, HandlerKInv

LEMMA NextKInv ==
  ASSUME IInv, NEW x \in Nodes, UInv(x), KInv(x), faults = 0, [Next]_vars,
         faults' = 0
  PROVE  KInv(x)'
  <1>1. ASSUME rt' = rt PROVE KInv(x)' BY <1>1 DEF KInv, Anchored
  <1>2. ASSUME NEW n \in Nodes, NEW d \in Nodes, NEW ttl \in Ttls,
               SendRequest(n, d, ttl)
        PROVE  KInv(x)'
    BY <1>2, SendRequestKInv
  <1>3. ASSUME NEW type \in Types, NEW n \in Nodes, Receive(type, n)
        PROVE  KInv(x)'
    <2>1. ASSUME NEW m, RouteInput(m) PROVE rt' = rt
      BY <2>1 DEF RouteInput
    <2>2. QED BY <1>1, <1>3, <2>1, RecvRequestKInv, RecvReplyKInv,
                 ProcessHelloKInv, RecvReplyAckKInv, RecvErrorKInv DEF Receive
  <1>4. ASSUME NEW n \in Nodes, NEW d \in Nodes
        PROVE  ~SendRerrWhenBreaksLinkToNextHop(n, d) /\ ~GiveUp(n, d)
    BY DEF UInv, SendRerrWhenBreaksLinkToNextHop, GiveUp
  <1>5. ASSUME NEW n \in Nodes, NEW d \in Nodes, Purge(n, d) PROVE KInv(x)'
    BY <1>5, PurgeKInv
  <1>6. ASSUME NEW n \in Nodes, NEW d \in Nodes, SendData(n, d) PROVE KInv(x)'
    BY <1>1, <1>6 DEF SendData
  <1>7. ASSUME NEW n \in Nodes, SendHello(n) \/ RerrRateLimitTimerExpire(n)
        PROVE  KInv(x)'
    BY <1>1, <1>7 DEF SendHello, RerrRateLimitTimerExpire
  <1>8. ASSUME NEW l \in Links PROVE ~LoseLink(l) BY DEF LoseLink
  <1>9. CASE UNCHANGED vars BY <1>1, <1>9 DEF vars
  <1>10. QED
    BY <1>2, <1>3, <1>4, <1>5, <1>6, <1>7, <1>8, <1>9 DEF Next

\* While nothing has failed.
KInvs == faults = 0 => \A x \in Nodes : Unsearched(x) => UInv(x) /\ KInv(x)

\* In every network, with malicious nodes or without, as long as nothing fails
\* RouteOutput has a valid route to the next hop of each valid route unless
\* somebody searches for that next hop, so that a reply, or an error for a source,
\* that is addressed to it is sent at once.
THEOREM NextHopsAreKnown == Spec => []NextHopsKnown
  <1>1. Init => KInvs
    <2> SUFFICES ASSUME Init, NEW o \in Nodes PROVE UInv(o) /\ KInv(o)
      BY DEF KInvs
    <2>1. \A n, d \in Nodes : rt[n][d] = NoEntry BY DEF Init
    <2>2. /\ NoEntry.flag = "NONE" /\ NoEntry.next = NoNode /\ NoNode # o
      BY NodeAssumption DEF NoEntry
    <2>3. \A n \in Nodes : Leads(Knowers(o), rt[n][o]) BY <2>1, <2>2 DEF Leads
    <2>4. KInv(o) BY <2>1, <2>2 DEF KInv, Anchored
    <2>5. QED BY <2>3, <2>4 DEF Init, UInv
  <1>2. IInv /\ KInvs /\ [Next]_vars => KInvs'
    <2> SUFFICES ASSUME IInv, KInvs, [Next]_vars, faults' = 0, NEW o \in Nodes,
                        Unsearched(o)
                 PROVE  UInv(o)' /\ KInv(o)'
      BY DEF KInvs, Unsearched
    <2>1. faults = 0 BY NextFaults
    <2>2. UInv(o) /\ KInv(o) BY <2>1 DEF KInvs
    <2>3. QED BY <2>1, <2>2, NextUInv, NextKInv
  <1>3. IInv /\ KInvs => NextHopsKnown
    <2> SUFFICES ASSUME IInv, KInvs, faults = 0, NEW n \in Nodes,
                        NEW d \in Nodes, NEW x \in Nodes,
                        rt[n][d].next = x, Unsearched(x)
                 PROVE  rt[n][x].flag = "VALID"
      BY DEF NextHopsKnown, Unsearched
    <2>1. UInv(x) /\ KInv(x) BY DEF KInvs
    <2>2. rt[n][x].flag # "NONE" BY <2>1 DEF KInv, Anchored
    <2>3. QED BY <2>1, <2>2 DEF UInv, Leads
  <1>4. QED BY <1>1, <1>2, <1>3, Invariance, PTL DEF Spec
=============================================================================
