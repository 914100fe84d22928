--------------------------- MODULE AodvWalkProofs ---------------------------
(***************************************************************************)
(* Proof about AodvNetwork, for any network without malicious nodes: every *)
(* usable or lost route stands for a walk over links that has its hop      *)
(* count and begins with its next hop.  The walks that the RREQs and RREPs *)
(* in flight have made are part of the inductive invariant.                *)
(***************************************************************************)
EXTENDS AodvNeighbourProofs

-----------------------------------------------------------------------------
(* Walks.                                                                  *)

LEMMA WalkNone == ASSUME NEW n \in Nodes PROVE Walk(n, n, 0)
  <1> DEFINE w == [j \in 0..0 |-> n]
  <1>1. w \in [0..0 -> Nodes] /\ w[0] = n OBVIOUS
  <1>2. 1..0 = {} OBVIOUS
  <1> HIDE DEF w
  <1>3. QED BY <1>1, <1>2 DEF Walk

LEMMA WalkStep ==
  ASSUME NEW n \in Nodes, NEW x \in Nodes, NEW d, NEW k \in Nat,
         {n, x} \in Links, Walk(x, d, k)
  PROVE  Walk(n, d, k + 1)
  <1>1. PICK w \in [0..k -> Nodes] :
          w[0] = x /\ w[k] = d /\ \A j \in 1..k : {w[j - 1], w[j]} \in Links
    BY DEF Walk
  <1> DEFINE v == [j \in 0..(k + 1) |-> IF j = 0 THEN n ELSE w[j - 1]]
  <1>2. v \in [0..(k + 1) -> Nodes] OBVIOUS
  <1>3. v[0] = n /\ v[k + 1] = d BY <1>1
  <1>4. ASSUME NEW j \in 1..(k + 1) PROVE {v[j - 1], v[j]} \in Links
    <2>1. CASE j = 1
      <3>1. v[0] = n /\ v[1] = w[0] OBVIOUS
      <3>2. j - 1 = 0 BY <2>1
      <3> HIDE DEF v
      <3>3. QED BY <1>1, <2>1, <3>1, <3>2
    <2>2. CASE j # 1
      <3>1. j - 1 \in 1..k /\ v[j - 1] = w[j - 2] /\ v[j] = w[j - 1]
            /\ j - 2 = (j - 1) - 1
        BY <2>2
      <3>2. QED BY <1>1, <3>1
    <2>3. QED BY <2>1, <2>2
  <1> HIDE DEF v
  <1>5. QED BY <1>2, <1>3, <1>4 DEF Walk

-----------------------------------------------------------------------------
(* Entries, tables and messages.                                           *)

\* Node n's entry e for d is a walk.
Walks(n, e, d) ==
  /\ e.hop > 0 /\ e.next \in Nodes
  /\ {n, e.next} \in Links /\ Walk(e.next, d, e.hop - 1)

EntryWalks(n, e, d) == e.flag \in {"VALID", "INVALID"} => Walks(n, e, d)

TableWalks(n, t) == \A d \in Nodes : EntryWalks(n, t[d], d)

\* A message crosses a link, and has walked from the node it is about.  Nobody
\* searches for itself, so a RREP with one node for both is a hello.
Carried(x) ==
  /\ {x.from, x.to} \in Links
  /\ x.type = "RREQ" => Walk(x.from, x.origin, x.hop) /\ x.dst # x.origin
  /\ x.type = "RREP" => /\ Walk(x.from, x.dst, x.hop)
                        /\ x.dst = x.origin => x.from = x.dst

WInv == /\ \A n \in Nodes : TableWalks(n, rt[n])
        /\ \A x \in msgs : Carried(x)

LEMMA WInvMeaning == WInv => RoutesAreWalks
  BY DEF WInv, TableWalks, EntryWalks, Walks, RoutesAreWalks

\* A route through s, which has a walk of one hop less.
LEMMA StepWalks ==
  ASSUME NEW n, NEW s \in Nodes, NEW d, NEW k \in Nat, {n, s} \in Links,
         Walk(s, d, k), NEW e, e.hop = k + 1, e.next = s
  PROVE  Walks(n, e, d)
  <1>1. e.hop > 0 /\ e.hop - 1 = k OBVIOUS
  <1>2. QED BY <1>1 DEF Walks

LEMMA NextWalks ==
  ASSUME NEW n, NEW s \in Nodes, {n, s} \in Links,
         NEW e, e.hop = 1, e.next = s
  PROVE  Walks(n, e, s)
  BY StepWalks, WalkNone

\* A whole entry is a walk from the node itself.
LEMMA WalksWhole ==
  ASSUME NEW n \in Nodes, NEW e, NEW d, e.hop \in Nat, Walks(n, e, d)
  PROVE  Walk(n, d, e.hop)
  <1>1. e.hop - 1 \in Nat /\ (e.hop - 1) + 1 = e.hop BY DEF Walks
  <1>2. Walk(n, d, (e.hop - 1) + 1) BY <1>1, WalkStep DEF Walks
  <1>3. QED BY <1>1, <1>2

LEMMA StoreWalks ==
  ASSUME NEW n, NEW t \in Tables, TableWalks(n, t), NEW d \in Nodes, NEW e,
         EntryWalks(n, e, d)
  PROVE  TableWalks(n, [t EXCEPT ![d] = e])
  BY DEF TableWalks, Tables

LEMMA SameRouteWalks ==
  ASSUME NEW n, NEW e, NEW f, NEW d, SameRoute(e, f), EntryWalks(n, e, d)
  PROVE  EntryWalks(n, f, d)
  BY DEF SameRoute, EntryWalks, Walks

LEMMA SameRoutesWalk ==
  ASSUME NEW n, NEW t, NEW u, SameRoutes(t, u), TableWalks(n, t)
  PROVE  TableWalks(n, u)
  BY SameRouteWalks DEF SameRoutes, TableWalks

LEMMA HeardWalks ==
  ASSUME NEW n, NEW t \in Tables, NEW s \in Nodes, TableWalks(n, t),
         {n, s} \in Links
  PROVE  TableWalks(n, Heard(t, s))
  <1>1. EntryWalks(n, Route(FALSE, 0, 1, s), s)
    BY NextWalks DEF EntryWalks, Route
  <1>2. QED BY <1>1, StoreWalks DEF Heard

LEMMA InvalidatedWalks ==
  ASSUME NEW n, NEW t \in Tables, TableWalks(n, t), NEW S
  PROVE  TableWalks(n, Invalidated(t, S))
  <1> SUFFICES ASSUME NEW d \in Nodes
               PROVE  EntryWalks(n, Invalidated(t, S)[d], d)
    BY DEF TableWalks
  <1> DEFINE r == [t[d] EXCEPT !.flag = "INVALID"]
  <1>1. t[d] \in Entries /\ EntryWalks(n, t[d], d)
    BY DEF Tables, GoodEntries, TableWalks
  <1>2. r.hop = t[d].hop /\ r.next = t[d].next BY <1>1 DEF Entries
  <1>3. Invalidated(t, S)[d] = t[d] \/ (t[d].flag = "VALID" /\ Invalidated(t, S)[d] = r)
    BY DEF Invalidated
  <1> HIDE DEF r
  <1>4. QED BY <1>1, <1>2, <1>3 DEF EntryWalks, Walks

\* The reverse route is the way the RREQ came, whatever its flag.
LEMMA ReversedWalks ==
  ASSUME NEW n \in Nodes, NEW m \in Rreqs, rt[n] \in Tables,
         TableWalks(n, rt[n]), {n, m.from} \in Links,
         Walk(m.from, m.origin, m.hop)
  PROVE  /\ TableWalks(n, Reversed(n, m))
         /\ Walks(n, Reversed(n, m)[m.origin], m.origin)
  <1> DEFINE t1 == Heard(rt[n], m.from)
             r == ReverseRoute(t1[m.origin], m.from, m.oseq, HopCount(m))
             t2 == [t1 EXCEPT ![m.origin] = r]
             p == PreviousHop(t2[m.from], m.from, m.oseq)
             t3 == [t2 EXCEPT ![m.from] = p]
  <1>1. /\ m.from \in Nodes /\ m.origin \in Nodes /\ m.oseq \in Nat
        /\ m.hop \in Nat /\ HopCount(m) = m.hop + 1
    BY DEF Rreqs, HopCount
  <1>2. t1 \in Tables /\ TableWalks(n, t1) BY <1>1, HeardGood, HeardWalks
  <1>3. Reversed(n, m) = t3 BY DEF Reversed
  <1> HIDE DEF t1
  <1>4. t1[m.origin] \in GoodEntries /\ t1[m.origin] \in Entries
    BY <1>1, <1>2 DEF Tables, GoodEntries
  <1>5. r \in GoodEntries /\ r.hop = m.hop + 1 /\ r.next = m.from
    <2>1. HopCount(m) \in Nat \ {0} BY <1>1
    <2>2. r \in GoodEntries BY <1>1, <1>4, <2>1, ReverseRouteGood
    <2>3. r.hop = HopCount(m) /\ r.next = m.from
      BY <1>4 DEF ReverseRoute, Route, Entries
    <2>4. QED BY <1>1, <2>2, <2>3
  <1> HIDE DEF r
  <1>6. Walks(n, r, m.origin) BY <1>1, <1>5, StepWalks
  <1>7. t2 \in Tables /\ TableWalks(n, t2) /\ t2[m.origin] = r
    BY <1>1, <1>2, <1>5, <1>6, StoreGood, StoreWalks DEF EntryWalks, Tables
  <1> HIDE DEF t2
  <1>8. t2[m.from] \in Entries BY <1>1, <1>7 DEF Tables, GoodEntries
  <1>9. p.hop = 1 /\ p.next = m.from
    BY <1>8 DEF PreviousHop, Route, Entries
  <1> HIDE DEF p
  <1>10. Walks(n, p, m.from) BY <1>1, <1>9, NextWalks
  <1>11. TableWalks(n, t3) BY <1>1, <1>7, <1>10, StoreWalks DEF EntryWalks
  <1>12. t3[m.origin] = r \/ (m.origin = m.from /\ t3[m.origin] = p)
    BY <1>1, <1>7 DEF Tables
  <1> HIDE DEF t3
  <1>13. QED BY <1>3, <1>6, <1>10, <1>11, <1>12

\* Likewise the forward route.
LEMMA ForwardWalks ==
  ASSUME NEW n, NEW m \in Rreps, rt[n] \in Tables, TableWalks(n, rt[n]),
         {n, m.from} \in Links, Walk(m.from, m.dst, m.hop)
  PROVE  TableWalks(n, Forward(n, m))
  <1> DEFINE t == Heard(rt[n], m.from)
             r == Route(TRUE, m.dseq, HopCount(m), m.from)
             u == [t EXCEPT ![m.dst] = r]
  <1>1. m.from \in Nodes /\ m.dst \in Nodes /\ m.hop \in Nat BY DEF Rreps
  <1>2. t \in Tables /\ TableWalks(n, t) BY <1>1, HeardGood, HeardWalks
  <1>3. Forward(n, m) \in {t, u} BY DEF Forward
  <1> HIDE DEF t
  <1>4. r.hop = m.hop + 1 /\ r.next = m.from BY DEF Route, HopCount
  <1> HIDE DEF r
  <1>5. EntryWalks(n, r, m.dst) BY <1>1, <1>4, StepWalks DEF EntryWalks
  <1>6. TableWalks(n, u) BY <1>1, <1>2, <1>5, StoreWalks
  <1>7. QED BY <1>2, <1>3, <1>6

\* What is sent crosses a link.
LEMMA UnicastLinked ==
  ASSUME IInv, NEW m
  PROVE  \A x \in Unicast(m) : x = m /\ {x.from, x.to} \in Links
  BY DEF Unicast, InRange, IInv

LEMMA BroadcastLinked ==
  ASSUME IInv, NEW n \in Nodes, NEW m \in Rreqs \cup Rreps \cup Rerrs
  PROVE  \A x \in Broadcast(n, m) : {x.from, x.to} \in Links
  <1> SUFFICES ASSUME NEW y \in InRange(n)
               PROVE  LET x == [m EXCEPT !.from = n, !.to = y]
                      IN  {x.from, x.to} \in Links
    BY DEF Broadcast
  <1>1. {n, y} \in Links BY DEF InRange, IInv
  <1> DEFINE x == [m EXCEPT !.from = n, !.to = y]
  <1>2. x.from = n /\ x.to = y BY DEF Rreqs, Rreps, Rerrs
  <1> HIDE DEF x
  <1>3. {x.from, x.to} \in Links BY <1>1, <1>2
  <1>4. QED BY <1>3 DEF x

\* Kinds of messages that carry no hop count.
LEMMA OtherCarried ==
  ASSUME NEW x, x.type \notin {"RREQ", "RREP"}, {x.from, x.to} \in Links
  PROVE  Carried(x)
  BY DEF Carried

LEMMA RerrCarried ==
  ASSUME IInv, NEW n \in Nodes, NEW t, NEW dests \in SUBSET Nodes,
         NEW prec \in SUBSET Nodes
  PROVE  \A x \in SendRerrMessage(n, t, dests, prec) : Carried(x)
  <1> DEFINE m == [type |-> "RERR", from |-> n, to |-> n, dests |-> dests]
             u == [m EXCEPT !.to = CHOOSE y \in prec : TRUE]
  <1>1. m \in Rerrs BY DEF Rerrs
  <1>2. \A x \in SendRerrMessage(n, t, dests, prec) :
          x \in Unicast(u) \/ x \in Broadcast(n, m)
    BY DEF SendRerrMessage
  <1>3. \A x \in SendRerrMessage(n, t, dests, prec) : x.type = "RERR"
    <2>1. SendRerrMessage(n, t, dests, prec) \subseteq Rerrs BY RerrSent
    <2>2. QED BY <2>1 DEF Rerrs
  <1> HIDE DEF m, u
  <1>4. QED BY <1>1, <1>2, <1>3, UnicastLinked, BroadcastLinked, OtherCarried

LEMMA NoRouteRerrCarried ==
  ASSUME IInv, NEW n \in Nodes, NEW dst \in Nodes, NEW origin
  PROVE  \A x \in SendRerrWhenNoRouteToForward(n, dst, origin) : Carried(x)
  <1> DEFINE m == [type |-> "RERR", from |-> n, to |-> n, dests |-> {dst}]
             u == [m EXCEPT !.to = rt[n][origin].next]
             E == SendRerrWhenNoRouteToForward(n, dst, origin)
  <1>1. m \in Rerrs BY DEF Rerrs
  <1>2. \A x \in E : x \in Unicast(u) \/ x \in Broadcast(n, m)
    BY DEF SendRerrWhenNoRouteToForward
  <1>3. \A x \in E : x.type = "RERR" BY NoRouteRerrSent DEF Rerrs
  <1> HIDE DEF m, u, E
  <1>4. \A x \in E : Carried(x)
    BY <1>1, <1>2, <1>3, UnicastLinked, BroadcastLinked, OtherCarried
  <1>5. QED BY <1>4 DEF E

\* The replies to a RREQ cross links, and are no hellos.
ReplyCarried(x) == /\ {x.from, x.to} \in Links
                   /\ x.dst = x.origin => x.from = x.dst

LEMMA SendReplyCarried ==
  ASSUME IInv, NEW n \in Nodes, NEW m, NEW t, SendReply(n, m, t)
  PROVE  \A x \in msgs' : x \in msgs \/ ReplyCarried(x)
  <1>1. PICK q : q.from = n /\ q.dst = n /\ msgs' = (msgs \ {m}) \cup Unicast(q)
    BY DEF SendReply
  <1>2. \A x \in Unicast(q) : x = q /\ {x.from, x.to} \in Links
    BY UnicastLinked
  <1>3. \A x \in Unicast(q) : ReplyCarried(x) BY <1>1, <1>2 DEF ReplyCarried
  <1>4. QED BY <1>1, <1>3

LEMMA IntermediateCarried ==
  ASSUME IInv, NEW n \in Nodes, NEW m, NEW t, NEW toDst, m.dst # m.origin,
         SendReplyByIntermediateNode(n, m, t, toDst)
  PROVE  \A x \in msgs' : x \in msgs \/ ReplyCarried(x)
  <1> DEFINE q == [type |-> "RREP", from |-> n, to |-> t[m.origin].next,
                   dst |-> m.dst, dseq |-> toDst.seq, origin |-> m.origin,
                   hop |-> toDst.hop, ttl |-> t[m.origin].hop,
                   ack |-> toDst.hop = 1]
             g == [type |-> "RREP", from |-> n, to |-> toDst.next,
                   dst |-> m.origin, dseq |-> t[m.origin].seq, origin |-> m.dst,
                   hop |-> t[m.origin].hop, ttl |-> toDst.hop, ack |-> FALSE]
  <1>1. msgs' \subseteq msgs \cup Unicast(q) \cup Unicast(g)
    BY DEF SendReplyByIntermediateNode
  <1>2. q.dst # q.origin /\ g.dst # g.origin OBVIOUS
  <1> HIDE DEF q, g
  <1>3. /\ \A x \in Unicast(q) : x = q /\ {x.from, x.to} \in Links
        /\ \A x \in Unicast(g) : x = g /\ {x.from, x.to} \in Links
    BY UnicastLinked
  <1>4. \A x \in Unicast(q) \cup Unicast(g) : ReplyCarried(x)
    BY <1>2, <1>3 DEF ReplyCarried
  <1>5. QED BY <1>1, <1>4

LEMMA RelayCarried ==
  ASSUME IInv, NEW n \in Nodes, NEW m \in Rreqs, NEW e \in GoodEntries,
         m.dst # m.origin, Walk(n, m.origin, HopCount(m))
  PROVE  \A x \in Relay(n, m, e) : Carried(x)
  <1> DEFINE q == IF NewEnough(e, m) THEN e.seq ELSE m.dseq
             k == m.known \/ NewEnough(e, m)
             r == [m EXCEPT !.hop = HopCount(m), !.ttl = @ - 1,
                            !.dseq = q, !.known = k]
  <1>1. m.ttl \in Nat /\ (m.ttl < 2 => Relay(n, m, e) = {})
    BY DEF Rreqs, Relay
  <1>2. CASE m.ttl >= 2
    <2>1. Relay(n, m, e) = Broadcast(n, r) BY <1>1, <1>2 DEF Relay
    <2>2. /\ m.dseq \in Nat /\ m.known \in BOOLEAN /\ HopCount(m) \in Nat
          /\ m.ttl - 1 \in Nat \ {0} /\ e.seq \in Nat /\ e.vseq \in BOOLEAN
      BY <1>2 DEF Rreqs, HopCount, GoodEntries, Entries
    <2>3. q \in Nat BY <2>2
    <2>4. k \in BOOLEAN BY <2>2 DEF NewEnough
    <2> HIDE DEF q, k
    <2>5. r \in Rreqs BY <2>2, <2>3, <2>4 DEF Rreqs
    <2>6. r.origin = m.origin /\ r.dst = m.dst /\ r.hop = HopCount(m)
      BY DEF Rreqs
    <2> HIDE DEF r
    <2>7. \A x \in Broadcast(n, r) :
            /\ x \in Rreqs /\ x.origin = r.origin /\ x.dst = r.dst
            /\ x.hop = r.hop /\ x.from = n
      BY <2>5, BroadcastRreq
    <2>8. \A x \in Broadcast(n, r) : {x.from, x.to} \in Links
      BY <2>5, BroadcastLinked
    <2>9. \A x \in Rreqs : x.type = "RREQ" BY DEF Rreqs
    <2>10. QED BY <2>1, <2>6, <2>7, <2>8, <2>9 DEF Carried
  <1>3. QED BY <1>1, <1>2

-----------------------------------------------------------------------------
(* The invariant, action by action.                                        *)

LEMMA HandlerWInv ==
  ASSUME IInv, WInv, NEW n \in Nodes, NEW t, TableWalks(n, t),
         rt' = [rt EXCEPT ![n] = t],
         \A x \in msgs' : x \in msgs \/ Carried(x)
  PROVE  WInv'
  <1>1. /\ rt'[n] = t
        /\ \A k \in Nodes : k # n => rt'[k] = rt[k]
    BY DEF IInv
  <1>2. \A k \in Nodes : TableWalks(k, rt'[k]) BY <1>1 DEF WInv
  <1>3. QED BY <1>2 DEF WInv, TableWalks, EntryWalks, Walks, Walk, Carried

LEMMA QuietWInv ==
  ASSUME WInv, UNCHANGED rt, \A x \in msgs' : x \in msgs \/ Carried(x)
  PROVE  WInv'
  BY DEF WInv, TableWalks, EntryWalks, Walks, Walk, Carried

\* The entry of a search is no route; the RREQ starts at its originator.
LEMMA SendRequestWInv ==
  ASSUME IInv, WInv, NEW n \in Nodes, NEW dst \in Nodes, NEW ttl \in Ttls,
         SendRequest(n, dst, ttl)
  PROVE  WInv'
  <1> DEFINE e == rt[n][dst]
             r == [e EXCEPT !.flag = "IN_SEARCH", !.hop = ttl]
             q == [type |-> "RREQ", from |-> n, to |-> n, origin |-> n,
                   id |-> reqId'[n], oseq |-> seqNo'[n], dst |-> dst,
                   dseq |-> IF rt[n][dst].vseq THEN rt[n][dst].seq ELSE 0,
                   known |-> rt[n][dst].vseq, hop |-> 0, ttl |-> ttl]
  <1>1. rt \in [Nodes -> Tables] /\ rt[n] \in Tables /\ TableWalks(n, rt[n])
    BY DEF IInv, WInv
  <1>2. e \in Entries BY <1>1 DEF Tables, GoodEntries
  <1>3. seqNo' \in [Nodes -> Nat] /\ reqId' \in [Nodes -> Nat]
    BY DEF IInv, SendRequest
  <1>4. q \in Rreqs BY <1>2, <1>3, TtlAssumption DEF Rreqs, Entries
  <1>5. q.hop = 0 /\ q.origin = n /\ q.dst = dst /\ n # dst
    BY DEF SendRequest
  <1>6. r.flag = "IN_SEARCH" BY <1>2 DEF Entries
  <1>7. rt' = [rt EXCEPT ![n] = [rt[n] EXCEPT ![dst] = r]]
    BY <1>1, <1>2 DEF SendRequest, Tables, Entries
  <1>8. msgs' = msgs \cup Broadcast(n, q) BY DEF SendRequest
  <1> HIDE DEF q, e, r
  <1>9. TableWalks(n, [rt[n] EXCEPT ![dst] = r])
    BY <1>1, <1>6, StoreWalks DEF EntryWalks
  <1>10. ASSUME NEW x \in Broadcast(n, q) PROVE Carried(x)
    <2>1. /\ x \in Rreqs /\ x.origin = n /\ x.from = n /\ x.dst = dst
          /\ x.hop = 0
      BY <1>4, <1>5, BroadcastRreq
    <2>2. {x.from, x.to} \in Links BY <1>4, BroadcastLinked
    <2>3. x.type = "RREQ" BY <2>1 DEF Rreqs
    <2>4. QED BY <1>5, <2>1, <2>2, <2>3, WalkNone DEF Carried
  <1>11. \A x \in msgs' : x \in msgs \/ Carried(x) BY <1>8, <1>10
  <1>12. QED BY <1>7, <1>9, <1>11, HandlerWInv

LEMMA RecvRequestWInv ==
  ASSUME Malicious = {}, IInv, WInv, NEW m \in msgs, RecvRequest(m)
  PROVE  WInv'
  <1> DEFINE n == m.to
             t == Reversed(n, m)
             e == t[m.dst]
  <1>1. m \in Messages /\ m.type = "RREQ" BY DEF IInv, RecvRequest
  <1>2. m \in Rreqs /\ n \in Nodes /\ m.from \in Nodes BY <1>1, MessageKinds
  <1>3. /\ m.origin \in Nodes /\ m.dst \in Nodes /\ m.hop \in Nat
        /\ HopCount(m) = m.hop + 1
    BY <1>2 DEF Rreqs, HopCount
  <1>4. rt[n] \in Tables /\ TableWalks(n, rt[n]) BY <1>2 DEF IInv, WInv
  <1>5. /\ {m.from, n} \in Links /\ {n, m.from} = {m.from, n}
        /\ Walk(m.from, m.origin, m.hop) /\ m.dst # m.origin
    BY <1>1 DEF WInv, Carried
  <1>6. /\ t \in Tables /\ t[m.origin].flag # "NONE"
        /\ t[m.origin].next \in Nodes
    BY <1>2, <1>4, ReversedGood
  <1>7. TableWalks(n, t) /\ Walks(n, t[m.origin], m.origin)
    BY <1>2, <1>4, <1>5, ReversedWalks
  <1>8. e \in GoodEntries /\ EntryWalks(n, e, m.dst)
    BY <1>3, <1>6, <1>7 DEF Tables, TableWalks
  <1>9. CASE IsDuplicate(n, m)
    <2>1. rt' = [rt EXCEPT ![n] = Heard(rt[n], m.from)] /\ msgs' = msgs \ {m}
      BY <1>2, <1>9 DEF RecvRequest, IInv
    <2>2. TableWalks(n, Heard(rt[n], m.from))
      BY <1>2, <1>4, <1>5, HeardWalks
    <2> HIDE DEF n, t
    <2>3. QED BY <1>2, <2>1, <2>2, HandlerWInv
  <1>10. CASE m.dst = n /\ SendReply(n, m, t)
    <2>1. rt' = [rt EXCEPT ![n] = t] BY <1>10 DEF SendReply
    <2> HIDE DEF t, n
    <2>2. \A x \in msgs' :
            x \in msgs \/ (x \in Rreps /\ x.dst = n /\ x.from = n /\ x.hop = 0)
      BY <1>2, <1>6, <1>10, SendReplySent
    <2>3. \A x \in msgs' : x \in msgs \/ ReplyCarried(x)
      BY <1>2, <1>10, SendReplyCarried
    <2>4. Walk(n, n, 0) BY <1>2, WalkNone
    <2>5. \A x \in Rreps : x.type = "RREP" BY DEF Rreps
    <2>6. \A x \in msgs' : x \in msgs \/ Carried(x)
      BY <2>2, <2>3, <2>4, <2>5 DEF Carried, ReplyCarried
    <2>7. QED BY <1>2, <1>7, <2>1, <2>6, HandlerWInv
  <1>11. CASE e.flag = "VALID" /\ SendReplyByIntermediateNode(n, m, t, e)
    <2>1. Walks(n, e, m.dst) BY <1>8, <1>11 DEF EntryWalks
    <2>2. e.hop \in Nat BY <1>8 DEF GoodEntries, Entries
    <2>3. t[m.origin].hop \in Nat
      BY <1>3, <1>6 DEF Tables, GoodEntries, Entries
    <2> HIDE DEF t, n, e
    <2>4. Walk(n, m.dst, e.hop) BY <1>2, <2>1, <2>2, WalksWhole
    <2>5. Walk(n, m.origin, t[m.origin].hop) BY <1>2, <1>7, <2>3, WalksWhole
    <2>6. /\ \E u \in Tables :
               /\ rt' = [rt EXCEPT ![n] = u]
               /\ \A x \in Nodes :
                    SameRoute(t[x], u[x]) \/ (x = m.dst /\ SameRoute(e, u[x]))
          /\ \A x \in msgs' :
               \/ x \in msgs
               \/ /\ x \in Rreps /\ x.from = n
                  /\ \/ x.dst = m.dst /\ x.hop = e.hop
                     \/ x.dst = m.origin /\ x.hop = t[m.origin].hop
      BY <1>2, <1>6, <1>8, <1>11, ReplyByIntermediateSent
    <2>7. PICK u \in Tables :
               /\ rt' = [rt EXCEPT ![n] = u]
               /\ \A x \in Nodes :
                    SameRoute(t[x], u[x]) \/ (x = m.dst /\ SameRoute(e, u[x]))
      BY <2>6
    <2>8. TableWalks(n, u)
      BY <1>7, <1>8, <2>7, SameRouteWalks DEF TableWalks
    <2>9. \A x \in msgs' : x \in msgs \/ ReplyCarried(x)
      BY <1>2, <1>5, <1>11, IntermediateCarried
    <2>10. \A x \in Rreps : x.type = "RREP" BY DEF Rreps
    <2>11. \A x \in msgs' : x \in msgs \/ Carried(x)
      BY <2>4, <2>5, <2>6, <2>9, <2>10 DEF Carried, ReplyCarried
    <2>12. QED BY <1>2, <2>7, <2>8, <2>11, HandlerWInv
  <1>12. CASE /\ rt' = [rt EXCEPT ![n] = t]
              /\ msgs' \subseteq msgs \cup Relay(n, m, e)
    <2> HIDE DEF t, n, e
    <2>1. Walk(n, m.origin, HopCount(m))
      BY <1>2, <1>3, <1>5, WalkStep
    <2>2. \A x \in Relay(n, m, e) : Carried(x)
      BY <1>2, <1>5, <1>8, <2>1, RelayCarried
    <2>3. \A x \in msgs' : x \in msgs \/ Carried(x) BY <1>12, <2>2
    <2>4. QED BY <1>2, <1>7, <1>12, <2>3, HandlerWInv
  <1>13. \/ IsDuplicate(n, m)
         \/ m.dst = n /\ SendReply(n, m, t)
         \/ e.flag = "VALID" /\ SendReplyByIntermediateNode(n, m, t, e)
         \/ /\ rt' = [rt EXCEPT ![n] = t]
            /\ msgs' \subseteq msgs \cup Relay(n, m, e)
    BY DEF RecvRequest
  <1>14. QED BY <1>9, <1>10, <1>11, <1>12, <1>13

LEMMA RecvReplyWInv ==
  ASSUME IInv, WInv, NEW m \in msgs, RecvReply(m)
  PROVE  WInv'
  <1> DEFINE n == m.to
             t == Forward(n, m)
             u == Precursors(t, m)
             r == [m EXCEPT !.from = n, !.to = t[m.origin].next,
                            !.hop = HopCount(m), !.ttl = @ - 1, !.ack = FALSE]
             a == [type |-> "RREP_ACK", from |-> n, to |-> m.from]
  <1>1. m \in Messages /\ m.type = "RREP" BY DEF IInv, RecvReply
  <1>2. m \in Rreps /\ n \in Nodes /\ m.from \in Nodes BY <1>1, MessageKinds
  <1>3. rt[n] \in Tables /\ TableWalks(n, rt[n]) BY <1>2 DEF IInv, WInv
  <1>4. /\ {m.from, n} \in Links /\ {n, m.from} = {m.from, n}
        /\ Walk(m.from, m.dst, m.hop)
    BY <1>1 DEF WInv, Carried
  <1>5. t \in Tables /\ TableWalks(n, t)
    BY <1>2, <1>3, <1>4, ForwardGood, ForwardWalks
  <1>6. TableWalks(n, u) BY <1>2, <1>5, PrecursorsGood, SameRoutesWalk
  <1>7. rt' = [rt EXCEPT ![n] = t] \/ rt' = [rt EXCEPT ![n] = u]
    BY DEF RecvReply
  <1>8. msgs' \subseteq msgs \cup Unicast(a) \cup Unicast(r)
    <2> DEFINE done == m.origin = n \/ Unroutable(n, m)
               ack == IF m.ack THEN Unicast(a) ELSE {}
               passed == IF done \/ m.ttl < 2 THEN {} ELSE Unicast(r)
    <2>1. msgs' = (msgs \ {m}) \cup ack \cup passed BY DEF RecvReply
    <2>2. ack \subseteq Unicast(a) /\ passed \subseteq Unicast(r) OBVIOUS
    <2> HIDE DEF ack, passed, a, r
    <2>3. QED BY <2>1, <2>2
  <1>9. /\ r.type = "RREP" /\ r.hop = HopCount(m) /\ r.from = n
        /\ r.dst = m.dst /\ r.origin = m.origin
    BY <1>2 DEF Rreps
  <1>10. a.type = "RREP_ACK" OBVIOUS
  <1>11. m.dst # m.origin BY DEF RecvReply
  <1>12. m.dst \in Nodes /\ m.hop \in Nat /\ HopCount(m) = m.hop + 1
    BY <1>2 DEF Rreps, HopCount
  <1> HIDE DEF n, t, u, r, a
  <1>13. Walk(n, m.dst, HopCount(m)) BY <1>2, <1>4, <1>12, WalkStep
  <1>14. \A x \in Unicast(a) : Carried(x)
    <2>1. \A x \in Unicast(a) : x = a /\ {x.from, x.to} \in Links
      BY UnicastLinked
    <2>2. QED BY <1>10, <2>1 DEF Carried
  <1>15. \A x \in Unicast(r) : Carried(x)
    <2>1. \A x \in Unicast(r) : x = r /\ {x.from, x.to} \in Links
      BY UnicastLinked
    <2>2. QED BY <1>9, <1>11, <1>13, <2>1 DEF Carried
  <1>16. \A x \in msgs' : x \in msgs \/ Carried(x) BY <1>8, <1>14, <1>15
  <1>17. QED BY <1>2, <1>5, <1>6, <1>7, <1>16, HandlerWInv

LEMMA ProcessHelloWInv ==
  ASSUME IInv, WInv, NEW m \in msgs, ProcessHello(m)
  PROVE  WInv'
  <1> DEFINE n == m.to
             t == Heard(rt[n], m.from)
             e == t[m.dst]
             u == [e EXCEPT !.flag = "VALID", !.vseq = TRUE, !.seq = m.dseq,
                            !.hop = 1, !.next = m.dst]
             r == IF e.flag = "NONE" THEN Route(TRUE, m.dseq, 1, m.dst) ELSE u
             w == [t EXCEPT ![m.dst] = r]
  <1>1. m \in Messages /\ m.type = "RREP" /\ m.dst = m.origin
    BY DEF IInv, ProcessHello
  <1>2. m \in Rreps /\ n \in Nodes /\ m.from \in Nodes BY <1>1, MessageKinds
  <1>3. /\ m.dst \in Nodes /\ m.dst = m.from
        /\ {m.from, n} \in Links /\ {n, m.from} = {m.from, n}
    BY <1>1, <1>2 DEF Rreps, WInv, Carried
  <1>4. rt[n] \in Tables /\ TableWalks(n, rt[n]) BY <1>2 DEF IInv, WInv
  <1>5. t \in Tables /\ TableWalks(n, t)
    BY <1>2, <1>3, <1>4, HeardGood, HeardWalks
  <1>6. rt' = [rt EXCEPT ![n] = w] /\ msgs' \subseteq msgs
    BY <1>3, <1>5 DEF ProcessHello, Tables
  <1> HIDE DEF t, n
  <1>7. e \in Entries BY <1>3, <1>5 DEF Tables, GoodEntries
  <1>8. r.hop = 1 /\ r.next = m.dst BY <1>7 DEF Route, Entries
  <1> HIDE DEF r
  <1>9. Walks(n, r, m.dst) BY <1>2, <1>3, <1>8, NextWalks
  <1>10. TableWalks(n, w) BY <1>3, <1>5, <1>9, StoreWalks DEF EntryWalks
  <1> HIDE DEF w
  <1>11. QED BY <1>2, <1>6, <1>10, HandlerWInv

\* The entry that the acknowledgement makes valid is the neighbour's own.
LEMMA RecvReplyAckWInv ==
  ASSUME IInv, NInv, WInv, NEW m \in msgs, RecvReplyAck(m)
  PROVE  WInv'
  <1> DEFINE n == m.to
             t == Heard(rt[n], m.from)
             r == [t[m.from] EXCEPT !.flag = "VALID"]
             w == [t EXCEPT ![m.from] = r]
  <1>1. m \in Messages BY DEF IInv
  <1>2. n \in Nodes /\ m.from \in Nodes BY <1>1, MessageKinds
  <1>3. {m.from, n} \in Links /\ {n, m.from} = {m.from, n}
    BY DEF WInv, Carried
  <1>4. rt[n] \in Tables /\ TableWalks(n, rt[n]) BY <1>2 DEF IInv, WInv
  <1>5. t \in Tables /\ TableWalks(n, t) /\ t[m.from].hop = 1
    BY <1>2, <1>3, <1>4, HeardGood, HeardWalks
  <1>6. t[m.from].next = m.from
    <2>1. EntryNear(rt[n][m.from], m.from) BY <1>2 DEF NInv, Near
    <2>2. QED BY <1>2, <1>4, <2>1 DEF Heard, Route, EntryNear, Tables
  <1>7. rt' = [rt EXCEPT ![n] = w] /\ msgs' \subseteq msgs
    BY <1>2, <1>5 DEF RecvReplyAck, Tables, IInv
  <1> HIDE DEF t, n
  <1>8. t[m.from] \in Entries BY <1>2, <1>5 DEF Tables, GoodEntries
  <1>9. r.hop = 1 /\ r.next = m.from BY <1>5, <1>6, <1>8 DEF Entries
  <1> HIDE DEF r
  <1>10. Walks(n, r, m.from) BY <1>2, <1>3, <1>9, NextWalks
  <1>11. TableWalks(n, w) BY <1>2, <1>5, <1>10, StoreWalks DEF EntryWalks
  <1> HIDE DEF w
  <1>12. QED BY <1>2, <1>7, <1>11, HandlerWInv

LEMMA RecvErrorWInv ==
  ASSUME IInv, WInv, NEW m \in msgs, RecvError(m)
  PROVE  WInv'
  <1> DEFINE n == m.to
             t == Heard(rt[n], m.from)
             S == m.dests \cap Via(t, m.from)
             prec == UNION {t[d].prec : d \in S}
  <1>1. m \in Messages BY DEF IInv
  <1>2. n \in Nodes /\ m.from \in Nodes BY <1>1, MessageKinds
  <1>3. {m.from, n} \in Links /\ {n, m.from} = {m.from, n}
    BY DEF WInv, Carried
  <1>4. rt[n] \in Tables /\ TableWalks(n, rt[n]) BY <1>2 DEF IInv, WInv
  <1>5. t \in Tables /\ TableWalks(n, t)
    BY <1>2, <1>3, <1>4, HeardGood, HeardWalks
  <1>6. TableWalks(n, Invalidated(t, S)) BY <1>5, InvalidatedWalks
  <1>7. S \in SUBSET Nodes BY DEF Via
  <1>8. prec \in SUBSET Nodes BY <1>5, <1>7 DEF Tables, GoodEntries, Entries
  <1>9. /\ rt' = [rt EXCEPT ![n] = Invalidated(t, S)]
        /\ msgs' \subseteq msgs \cup SendRerrMessage(n, t, S, prec)
    BY DEF RecvError
  <1> HIDE DEF n, t, S, prec
  <1>10. \A x \in msgs' : x \in msgs \/ Carried(x)
    BY <1>2, <1>7, <1>8, <1>9, RerrCarried
  <1>11. QED BY <1>2, <1>6, <1>9, <1>10, HandlerWInv

LEMMA SendRerrWhenBreaksLinkToNextHopWInv ==
  ASSUME IInv, WInv, NEW n \in Nodes, NEW x \in Nodes,
         SendRerrWhenBreaksLinkToNextHop(n, x)
  PROVE  WInv'
  <1> DEFINE t == rt[n]
             S == {x} \cup Via(t, x)
             prec == UNION {t[d].prec : d \in S}
  <1>1. t \in Tables /\ TableWalks(n, t) BY DEF IInv, WInv
  <1>2. TableWalks(n, Invalidated(t, S)) BY <1>1, InvalidatedWalks
  <1>3. S \in SUBSET Nodes BY DEF Via
  <1>4. prec \in SUBSET Nodes BY <1>1, <1>3 DEF Tables, GoodEntries, Entries
  <1>5. /\ rt' = [rt EXCEPT ![n] = Invalidated(t, S)]
        /\ msgs' = msgs \cup SendRerrMessage(n, t, S, prec)
    BY DEF SendRerrWhenBreaksLinkToNextHop
  <1> HIDE DEF t, S, prec
  <1>6. \A y \in msgs' : y \in msgs \/ Carried(y)
    BY <1>3, <1>4, <1>5, RerrCarried
  <1>7. QED BY <1>2, <1>5, <1>6, HandlerWInv

LEMMA RouteInputWInv ==
  ASSUME IInv, WInv, NEW m \in msgs, RouteInput(m)
  PROVE  WInv'
  <1> DEFINE n == m.to
             u == [m EXCEPT !.from = n, !.to = rt[n][m.dst].next]
             E == SendRerrWhenNoRouteToForward(n, m.dst, m.origin)
  <1>1. m \in Messages /\ m.type = "DATA" BY DEF IInv, RouteInput
  <1>2. m \in Datas /\ n \in Nodes BY <1>1, MessageKinds
  <1>3. m.dst \in Nodes /\ u.type = "DATA" BY <1>2 DEF Datas
  <1>4. UNCHANGED rt /\ msgs' \subseteq msgs \cup Unicast(u) \cup E
    BY DEF RouteInput
  <1> HIDE DEF u
  <1>5. \A x \in E : Carried(x) BY <1>2, <1>3, NoRouteRerrCarried
  <1> HIDE DEF E
  <1>6. \A x \in Unicast(u) : Carried(x)
    <2>1. \A x \in Unicast(u) : x = u /\ {x.from, x.to} \in Links
      BY UnicastLinked
    <2>2. QED BY <1>3, <2>1 DEF Carried
  <1>7. \A x \in msgs' : x \in msgs \/ Carried(x) BY <1>4, <1>5, <1>6
  <1>8. QED BY <1>4, <1>7, QuietWInv

LEMMA PurgeWInv ==
  ASSUME IInv, WInv, NEW n \in Nodes, NEW d \in Nodes, Purge(n, d) \/ GiveUp(n, d)
  PROVE  WInv'
  <1> DEFINE e == rt[n][d]
             r == [e EXCEPT !.flag = "INVALID"]
  <1>1. rt \in [Nodes -> Tables] /\ rt[n] \in Tables /\ TableWalks(n, rt[n])
    BY DEF IInv, WInv
  <1>2. e \in Entries /\ EntryWalks(n, e, d)
    BY <1>1 DEF Tables, GoodEntries, TableWalks
  <1>3. UNCHANGED msgs BY DEF Purge, GiveUp
  <1>4. \/ e.flag = "VALID" /\ rt' = [rt EXCEPT ![n] = [rt[n] EXCEPT ![d] = r]]
        \/ rt' = [rt EXCEPT ![n] = [rt[n] EXCEPT ![d] = NoEntry]]
    BY <1>1, <1>2 DEF Purge, GiveUp, Tables, Entries
  <1>5. r.hop = e.hop /\ r.next = e.next BY <1>2 DEF Entries
  <1> HIDE DEF r, e
  <1>6. e.flag = "VALID" => EntryWalks(n, r, d)
    BY <1>2, <1>5 DEF EntryWalks, Walks
  <1>7. EntryWalks(n, NoEntry, d) BY DEF EntryWalks, NoEntry
  <1>8. CASE e.flag = "VALID" /\ rt' = [rt EXCEPT ![n] = [rt[n] EXCEPT ![d] = r]]
    <2>1. TableWalks(n, [rt[n] EXCEPT ![d] = r]) BY <1>1, <1>6, <1>8, StoreWalks
    <2>2. QED BY <1>3, <1>8, <2>1, HandlerWInv
  <1>9. CASE rt' = [rt EXCEPT ![n] = [rt[n] EXCEPT ![d] = NoEntry]]
    <2>1. TableWalks(n, [rt[n] EXCEPT ![d] = NoEntry])
      BY <1>1, <1>7, StoreWalks
    <2>2. QED BY <1>3, <1>9, <2>1, HandlerWInv
  <1>10. QED BY <1>4, <1>8, <1>9

LEMMA SendDataWInv ==
  ASSUME IInv, WInv, NEW n \in Nodes, NEW d \in Nodes, SendData(n, d)
  PROVE  WInv'
  <1> DEFINE m == [type |-> "DATA", from |-> n, to |-> rt[n][d].next,
                   origin |-> n, dst |-> d]
  <1>1. m.type = "DATA" OBVIOUS
  <1>2. UNCHANGED rt /\ msgs' = msgs \cup Unicast(m) BY DEF SendData
  <1> HIDE DEF m
  <1>3. \A x \in Unicast(m) : x = m /\ {x.from, x.to} \in Links
    BY UnicastLinked
  <1>4. \A x \in msgs' : x \in msgs \/ Carried(x)
    BY <1>1, <1>2, <1>3 DEF Carried
  <1>5. QED BY <1>2, <1>4, QuietWInv

LEMMA SendHelloWInv ==
  ASSUME IInv, WInv, NEW n \in Nodes, SendHello(n)
  PROVE  WInv'
  <1> DEFINE m == [type |-> "RREP", from |-> n, to |-> n, dst |-> n,
                   dseq |-> seqNo[n], origin |-> n, hop |-> 0, ttl |-> 1,
                   ack |-> FALSE]
             copy(y) == [m EXCEPT !.from = n, !.to = y]
  <1>1. m \in Rreps BY DEF IInv, Rreps
  <1>2. UNCHANGED rt /\ msgs' = msgs \cup Broadcast(n, m) BY DEF SendHello
  <1>3. ASSUME NEW y PROVE /\ copy(y).type = "RREP" /\ copy(y).from = n
                           /\ copy(y).dst = n /\ copy(y).hop = 0
    OBVIOUS
  <1>4. \A x \in Broadcast(n, m) : \E y \in InRange(n) : x = copy(y)
    BY DEF Broadcast
  <1> HIDE DEF m, copy
  <1>5. \A x \in Broadcast(n, m) : {x.from, x.to} \in Links
    BY <1>1, BroadcastLinked
  <1>6. Walk(n, n, 0) BY WalkNone
  <1>7. \A x \in Broadcast(n, m) : Carried(x)
    BY <1>3, <1>4, <1>5, <1>6 DEF Carried
  <1>8. \A x \in msgs' : x \in msgs \/ Carried(x) BY <1>2, <1>7
  <1>9. QED BY <1>2, <1>8, QuietWInv

LEMMA NextWInv ==
  ASSUME Malicious = {}, IInv, NInv, WInv, [Next]_vars
  PROVE  WInv'
  <1>1. ASSUME NEW n \in Nodes, NEW d \in Nodes, NEW ttl \in Ttls,
               SendRequest(n, d, ttl)
        PROVE  WInv'
    BY <1>1, SendRequestWInv
  <1>2. ASSUME NEW type \in Types, NEW n \in Nodes, Receive(type, n) PROVE WInv'
    BY <1>2, RecvRequestWInv, RecvReplyWInv, ProcessHelloWInv, RecvReplyAckWInv,
       RecvErrorWInv, RouteInputWInv DEF Receive
  <1>3. ASSUME NEW n \in Nodes, NEW d \in Nodes,
               \/ SendRerrWhenBreaksLinkToNextHop(n, d)
               \/ Purge(n, d) \/ GiveUp(n, d) \/ SendData(n, d)
        PROVE  WInv'
    BY <1>3, SendRerrWhenBreaksLinkToNextHopWInv, PurgeWInv, SendDataWInv
  <1>4. ASSUME NEW n \in Nodes, SendHello(n) PROVE WInv' BY <1>4, SendHelloWInv
  <1>5. ASSUME UNCHANGED <<rt, msgs>> PROVE WInv'
    BY <1>5, QuietWInv
  <1>6. ASSUME NEW l \in Links, LoseLink(l) PROVE WInv'
    BY <1>5, <1>6 DEF LoseLink
  <1>7. CASE \E n \in Nodes : RerrRateLimitTimerExpire(n)
    BY <1>5, <1>7 DEF RerrRateLimitTimerExpire
  <1>8. CASE UNCHANGED vars BY <1>5, <1>8 DEF vars
  <1>9. QED BY <1>1, <1>2, <1>3, <1>4, <1>6, <1>7, <1>8 DEF Next

\* In every network without malicious nodes, whatever is lost, late or given
\* up: a valid or invalid entry is as long as a walk over the network's links
\* that begins with its next hop.  RREQs, replies of both kinds, hellos,
\* acknowledgements and errors each set some of these fields, and the entry of
\* a search, whose hop count is a TTL, never turns back into a route.
THEOREM RoutesAreWalked == ASSUME Malicious = {} PROVE Spec => []RoutesAreWalks
  <1>1. Init => WInv
    <2> SUFFICES ASSUME Init PROVE WInv OBVIOUS
    <2>1. \A n, d \in Nodes : EntryWalks(n, rt[n][d], d)
      BY DEF Init, EntryWalks, NoEntry
    <2>2. QED BY <2>1 DEF Init, WInv, TableWalks
  <1>2. Init => NInv
    <2> SUFFICES ASSUME Init PROVE NInv OBVIOUS
    <2>1. \A n, d \in Nodes : EntryNear(rt[n][d], d) BY NoEntryNear DEF Init
    <2>2. QED BY <2>1 DEF Init, NInv, Near
  <1>3. IInv /\ NInv /\ [Next]_vars => NInv' BY NextNInv
  <1>4. IInv /\ NInv /\ WInv /\ [Next]_vars => WInv' BY NextWInv
  <1>5. WInv => RoutesAreWalks BY WInvMeaning
  <1>6. QED BY <1>1, <1>2, <1>3, <1>4, <1>5, Invariance, PTL DEF Spec
=============================================================================
