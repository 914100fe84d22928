-------------------------- MODULE AodvForestProofs --------------------------
(***************************************************************************)
(* Proof about AodvNetwork, for any network without cycles and without     *)
(* malicious nodes: routes follow the only way there is, so no two nodes   *)
(* send packets for a destination to each other, whatever is lost, late or *)
(* overtaken.  The inductive invariant says which way each RREQ and RREP   *)
(* in flight is going, and which nodes have remembered the RREQ.           *)
(***************************************************************************)
EXTENDS AodvWalkProofs

-----------------------------------------------------------------------------
(* Directions.                                                             *)

\* A neighbour is reached directly.
LEMMA NeighbourDirect ==
  ASSUME NEW dir, Directs(dir), NEW n \in Nodes, NEW s \in Nodes,
         {n, s} \in Links, n # s
  PROVE  dir[n][s] = s
  BY DEF Directs

\* A node that n does not go through to x goes through n.
LEMMA OtherSide ==
  ASSUME NEW dir, Directs(dir), NEW n \in Nodes, NEW s \in Nodes,
         NEW x \in Nodes, {n, s} \in Links, n # s
  PROVE  dir[s][x] = n <=> dir[n][x] # s
  BY DEF Directs

\* Node n's entry e for d goes the right way.
EntryFollows(dir, n, e, d) ==
  e.flag \in {"VALID", "INVALID"} => e.next = dir[n][d] /\ e.next # n

TableFollows(dir, n, t) == \A d \in Nodes : EntryFollows(dir, n, t[d], d)

\* A RREQ has come from its originator's side, unless the receiver has seen it,
\* and the sender has seen it.  A RREP has come from its destination's side
\* and goes to its originator's.  The memory of the nodes is sn.
Directed(dir, x, sn) ==
  /\ x.from # x.to
  /\ x.type = "RREQ" =>
       /\ <<x.origin, x.id>> \in sn[x.from]
       /\ dir[x.to][x.origin] = x.from \/ <<x.origin, x.id>> \in sn[x.to]
  /\ x.type = "RREP" =>
       /\ dir[x.to][x.dst] = x.from
       /\ x.dst # x.origin => dir[x.from][x.origin] = x.to

FInv(dir) == /\ \A n \in Nodes : TableFollows(dir, n, rt[n])
             /\ \A x \in msgs : Directed(dir, x, seen)

\* Two neighbours that have each other as next hop would each have the other
\* on its way.
LEMMA FInvMeaning ==
  ASSUME NEW dir, Directs(dir), WInv, FInv(dir)
  PROVE  NoMutualNextHop
  <1> SUFFICES ASSUME NEW p \in Nodes, NEW q \in Nodes, NEW x \in Nodes,
                      rt[p][x].flag = "VALID", rt[p][x].next = q,
                      rt[q][x].flag = "VALID", rt[q][x].next = p
               PROVE  FALSE
    BY DEF NoMutualNextHop
  <1>1. dir[p][x] = q /\ dir[q][x] = p /\ p # q
    BY DEF FInv, TableFollows, EntryFollows
  <1>2. {p, q} \in Links BY DEF WInv, TableWalks, EntryWalks, Walks
  <1>3. QED BY <1>1, <1>2, OtherSide

-----------------------------------------------------------------------------
(* Entries, tables and messages.                                           *)

LEMMA StoreFollows ==
  ASSUME NEW dir, NEW n, NEW t \in Tables, TableFollows(dir, n, t),
         NEW d \in Nodes, NEW e, EntryFollows(dir, n, e, d)
  PROVE  TableFollows(dir, n, [t EXCEPT ![d] = e])
  BY DEF TableFollows, Tables

LEMMA SameRouteFollows ==
  ASSUME NEW dir, NEW n, NEW e, NEW f, NEW d, SameRoute(e, f),
         EntryFollows(dir, n, e, d)
  PROVE  EntryFollows(dir, n, f, d)
  BY DEF SameRoute, EntryFollows

LEMMA SameRoutesFollow ==
  ASSUME NEW dir, NEW n, NEW t, NEW u, SameRoutes(t, u), TableFollows(dir, n, t)
  PROVE  TableFollows(dir, n, u)
  BY SameRouteFollows DEF SameRoutes, TableFollows

LEMMA NextFollows ==
  ASSUME NEW dir, Directs(dir), NEW n \in Nodes, NEW s \in Nodes,
         {n, s} \in Links, n # s, NEW e, e.next = s
  PROVE  EntryFollows(dir, n, e, s)
  BY NeighbourDirect DEF EntryFollows

LEMMA HeardFollows ==
  ASSUME NEW dir, Directs(dir), NEW n \in Nodes, NEW t \in Tables,
         NEW s \in Nodes, TableFollows(dir, n, t), {n, s} \in Links, n # s
  PROVE  TableFollows(dir, n, Heard(t, s))
  <1>1. EntryFollows(dir, n, Route(FALSE, 0, 1, s), s)
    BY NextFollows DEF Route
  <1>2. QED BY <1>1, StoreFollows DEF Heard

LEMMA InvalidatedFollows ==
  ASSUME NEW dir, NEW n, NEW t \in Tables, TableFollows(dir, n, t), NEW S
  PROVE  TableFollows(dir, n, Invalidated(t, S))
  <1> SUFFICES ASSUME NEW d \in Nodes
               PROVE  EntryFollows(dir, n, Invalidated(t, S)[d], d)
    BY DEF TableFollows
  <1> DEFINE r == [t[d] EXCEPT !.flag = "INVALID"]
  <1>1. t[d] \in Entries /\ EntryFollows(dir, n, t[d], d)
    BY DEF Tables, GoodEntries, TableFollows
  <1>2. r.next = t[d].next BY <1>1 DEF Entries
  <1>3. \/ Invalidated(t, S)[d] = t[d]
        \/ t[d].flag = "VALID" /\ Invalidated(t, S)[d] = r
    BY DEF Invalidated
  <1> HIDE DEF r
  <1>4. QED BY <1>1, <1>2, <1>3 DEF EntryFollows

\* The reverse route leads back to where the RREQ came from.
LEMMA ReversedFollows ==
  ASSUME NEW dir, Directs(dir), NEW n \in Nodes, NEW m \in Rreqs,
         rt[n] \in Tables, TableFollows(dir, n, rt[n]),
         {n, m.from} \in Links, n # m.from, dir[n][m.origin] = m.from
  PROVE  /\ TableFollows(dir, n, Reversed(n, m))
         /\ Reversed(n, m)[m.origin].next = m.from
  <1> DEFINE t1 == Heard(rt[n], m.from)
             r == ReverseRoute(t1[m.origin], m.from, m.oseq, HopCount(m))
             t2 == [t1 EXCEPT ![m.origin] = r]
             p == PreviousHop(t2[m.from], m.from, m.oseq)
             t3 == [t2 EXCEPT ![m.from] = p]
  <1>1. /\ m.from \in Nodes /\ m.origin \in Nodes /\ m.oseq \in Nat
        /\ HopCount(m) \in Nat \ {0}
    BY DEF Rreqs, HopCount
  <1>2. t1 \in Tables /\ TableFollows(dir, n, t1)
    BY <1>1, HeardGood, HeardFollows
  <1>3. Reversed(n, m) = t3 BY DEF Reversed
  <1> HIDE DEF t1
  <1>4. t1[m.origin] \in GoodEntries /\ t1[m.origin] \in Entries
    BY <1>1, <1>2 DEF Tables, GoodEntries
  <1>5. r \in GoodEntries /\ r.next = m.from
    BY <1>1, <1>4, ReverseRouteGood DEF ReverseRoute, Route, Entries
  <1> HIDE DEF r
  <1>6. EntryFollows(dir, n, r, m.origin) BY <1>5 DEF EntryFollows
  <1>7. t2 \in Tables /\ TableFollows(dir, n, t2) /\ t2[m.origin] = r
    BY <1>1, <1>2, <1>5, <1>6, StoreGood, StoreFollows DEF Tables
  <1> HIDE DEF t2
  <1>8. t2[m.from] \in Entries BY <1>1, <1>7 DEF Tables, GoodEntries
  <1>9. p.next = m.from BY <1>8 DEF PreviousHop, Route, Entries
  <1> HIDE DEF p
  <1>10. EntryFollows(dir, n, p, m.from) BY <1>1, <1>9, NextFollows
  <1>11. TableFollows(dir, n, t3) BY <1>1, <1>7, <1>10, StoreFollows
  <1>12. t3[m.origin] \in {r, p} BY <1>1, <1>7 DEF Tables
  <1> HIDE DEF t3
  <1>13. QED BY <1>3, <1>5, <1>9, <1>11, <1>12

LEMMA ForwardFollows ==
  ASSUME NEW dir, Directs(dir), NEW n \in Nodes, NEW m \in Rreps,
         rt[n] \in Tables, TableFollows(dir, n, rt[n]),
         {n, m.from} \in Links, n # m.from, dir[n][m.dst] = m.from
  PROVE  TableFollows(dir, n, Forward(n, m))
  <1> DEFINE t == Heard(rt[n], m.from)
             r == Route(TRUE, m.dseq, HopCount(m), m.from)
             u == [t EXCEPT ![m.dst] = r]
  <1>1. m.from \in Nodes /\ m.dst \in Nodes BY DEF Rreps
  <1>2. t \in Tables /\ TableFollows(dir, n, t)
    BY <1>1, HeardGood, HeardFollows
  <1>3. Forward(n, m) \in {t, u} BY DEF Forward
  <1> HIDE DEF t
  <1>4. r.next = m.from BY DEF Route
  <1> HIDE DEF r
  <1>5. EntryFollows(dir, n, r, m.dst) BY <1>4 DEF EntryFollows
  <1>6. TableFollows(dir, n, u) BY <1>1, <1>2, <1>5, StoreFollows
  <1>7. QED BY <1>2, <1>3, <1>6

\* What is sent crosses a link to another node.
LEMMA UnicastAcross ==
  ASSUME IInv, NEW m
  PROVE  \A x \in Unicast(m) :
           x = m /\ x.to \in Nodes /\ {x.from, x.to} \in Links /\ x.from # x.to
  BY DEF Unicast, InRange, IInv

LEMMA BroadcastAcross ==
  ASSUME IInv, NEW n \in Nodes, NEW m \in Rreqs \cup Rreps \cup Rerrs
  PROVE  \A x \in Broadcast(n, m) :
           /\ x.from = n /\ x.to \in Nodes
           /\ {n, x.to} \in Links /\ n # x.to
  <1> SUFFICES ASSUME NEW y \in InRange(n)
               PROVE  LET x == [m EXCEPT !.from = n, !.to = y]
                      IN  /\ x.from = n /\ x.to \in Nodes
                          /\ {n, x.to} \in Links /\ n # x.to
    BY DEF Broadcast
  <1>1. {n, y} \in Links /\ y \in Nodes /\ n # y BY DEF InRange, IInv
  <1> DEFINE x == [m EXCEPT !.from = n, !.to = y]
  <1>2. x.from = n /\ x.to = y BY DEF Rreqs, Rreps, Rerrs
  <1> HIDE DEF x
  <1>3. x.from = n /\ x.to \in Nodes /\ {n, x.to} \in Links /\ n # x.to
    BY <1>1, <1>2
  <1>4. QED BY <1>3 DEF x

LEMMA OtherDirected ==
  ASSUME NEW dir, NEW sn, NEW x, x.type \notin {"RREQ", "RREP"}, x.from # x.to
  PROVE  Directed(dir, x, sn)
  BY DEF Directed

LEMMA RerrDirected ==
  ASSUME IInv, NEW dir, NEW sn, NEW n \in Nodes, NEW t,
         NEW dests \in SUBSET Nodes, NEW prec \in SUBSET Nodes
  PROVE  \A x \in SendRerrMessage(n, t, dests, prec) : Directed(dir, x, sn)
  <1> DEFINE m == [type |-> "RERR", from |-> n, to |-> n, dests |-> dests]
             u == [m EXCEPT !.to = CHOOSE y \in prec : TRUE]
             E == SendRerrMessage(n, t, dests, prec)
  <1>1. m \in Rerrs BY DEF Rerrs
  <1>2. \A x \in E : x \in Unicast(u) \/ x \in Broadcast(n, m)
    BY DEF SendRerrMessage
  <1>3. E \subseteq Rerrs BY RerrSent
  <1> HIDE DEF m, u, E
  <1>4. \A x \in E : x.from # x.to
    <2>1. \A x \in Unicast(u) : x.from # x.to BY UnicastAcross
    <2>2. \A x \in Broadcast(n, m) : x.from # x.to BY <1>1, BroadcastAcross
    <2>3. QED BY <1>2, <2>1, <2>2
  <1>5. \A x \in E : Directed(dir, x, sn)
    BY <1>3, <1>4, OtherDirected DEF Rerrs
  <1>6. QED BY <1>5 DEF E

LEMMA NoRouteRerrDirected ==
  ASSUME IInv, NEW dir, NEW sn, NEW n \in Nodes, NEW dst \in Nodes, NEW origin
  PROVE  \A x \in SendRerrWhenNoRouteToForward(n, dst, origin) :
           Directed(dir, x, sn)
  <1> DEFINE m == [type |-> "RERR", from |-> n, to |-> n, dests |-> {dst}]
             u == [m EXCEPT !.to = rt[n][origin].next]
             E == SendRerrWhenNoRouteToForward(n, dst, origin)
  <1>1. m \in Rerrs BY DEF Rerrs
  <1>2. \A x \in E : x \in Unicast(u) \/ x \in Broadcast(n, m)
    BY DEF SendRerrWhenNoRouteToForward
  <1>3. E \subseteq Rerrs BY NoRouteRerrSent
  <1> HIDE DEF m, u, E
  <1>4. \A x \in E : x.from # x.to
    <2>1. \A x \in Unicast(u) : x.from # x.to BY UnicastAcross
    <2>2. \A x \in Broadcast(n, m) : x.from # x.to BY <1>1, BroadcastAcross
    <2>3. QED BY <1>2, <2>1, <2>2
  <1>5. \A x \in E : Directed(dir, x, sn)
    BY <1>3, <1>4, OtherDirected DEF Rerrs
  <1>6. QED BY <1>5 DEF E

\* Where a reply of node n goes: to a neighbour on the way to origin that is
\* not on the way to dst.
LEMMA ReplyDirected ==
  ASSUME NEW dir, Directs(dir), NEW sn, NEW x, x.type = "RREP",
         x.from \in Nodes, x.to \in Nodes, x.dst \in Nodes,
         {x.from, x.to} \in Links, x.from # x.to,
         dir[x.from][x.origin] = x.to, dir[x.from][x.dst] # x.to
  PROVE  Directed(dir, x, sn)
  BY OtherSide DEF Directed

-----------------------------------------------------------------------------
(* The invariant, action by action.                                        *)

\* Nodes only ever remember more, so what was directed stays so.
LEMMA StillDirected ==
  ASSUME IInv, NEW dir, NEW x \in msgs, Directed(dir, x, seen),
         \A k \in Nodes : seen[k] \subseteq seen'[k]
  PROVE  Directed(dir, x, seen')
  <1>1. x.from \in Nodes /\ x.to \in Nodes
    BY MessageKinds DEF IInv
  <1>2. QED BY <1>1 DEF Directed

LEMMA HandlerFInv ==
  ASSUME IInv, NEW dir, FInv(dir), NEW n \in Nodes, NEW t,
         TableFollows(dir, n, t), rt' = [rt EXCEPT ![n] = t],
         \A k \in Nodes : seen[k] \subseteq seen'[k],
         \A x \in msgs' : x \in msgs \/ Directed(dir, x, seen')
  PROVE  FInv(dir)'
  <1>1. /\ rt'[n] = t
        /\ \A k \in Nodes : k # n => rt'[k] = rt[k]
    BY DEF IInv
  <1>2. \A k \in Nodes : TableFollows(dir, k, rt'[k]) BY <1>1 DEF FInv
  <1>3. \A x \in msgs' : Directed(dir, x, seen')
    BY StillDirected DEF FInv
  <1>4. QED BY <1>2, <1>3 DEF FInv, TableFollows, EntryFollows, Directed

LEMMA QuietFInv ==
  ASSUME NEW dir, FInv(dir), UNCHANGED <<rt, seen>>,
         \A x \in msgs' : x \in msgs \/ Directed(dir, x, seen)
  PROVE  FInv(dir)'
  BY DEF FInv, TableFollows, EntryFollows, Directed

\* The originator remembers the RREQ, and its neighbours are next to it.
LEMMA SendRequestFInv ==
  ASSUME IInv, WInv, NEW dir, Directs(dir), FInv(dir), NEW n \in Nodes,
         NEW dst \in Nodes, NEW ttl \in Ttls, SendRequest(n, dst, ttl)
  PROVE  FInv(dir)'
  <1> DEFINE e == rt[n][dst]
             r == [e EXCEPT !.flag = "IN_SEARCH", !.hop = ttl]
             q == [type |-> "RREQ", from |-> n, to |-> n, origin |-> n,
                   id |-> reqId'[n], oseq |-> seqNo'[n], dst |-> dst,
                   dseq |-> IF rt[n][dst].vseq THEN rt[n][dst].seq ELSE 0,
                   known |-> rt[n][dst].vseq, hop |-> 0, ttl |-> ttl]
  <1>1. rt \in [Nodes -> Tables] /\ rt[n] \in Tables /\ TableFollows(dir, n, rt[n])
    BY DEF IInv, FInv
  <1>2. e \in Entries BY <1>1 DEF Tables, GoodEntries
  <1>3. seqNo' \in [Nodes -> Nat] /\ reqId' \in [Nodes -> Nat]
    BY DEF IInv, SendRequest
  <1>4. q \in Rreqs BY <1>2, <1>3, TtlAssumption DEF Rreqs, Entries
  <1>5. q.origin = n /\ q.id = reqId'[n] OBVIOUS
  <1>6. r.flag = "IN_SEARCH" BY <1>2 DEF Entries
  <1>7. rt' = [rt EXCEPT ![n] = [rt[n] EXCEPT ![dst] = r]]
    BY <1>1, <1>2 DEF SendRequest, Tables, Entries
  <1>8. msgs' = msgs \cup Broadcast(n, q) BY DEF SendRequest
  <1>9. /\ <<n, reqId'[n]>> \in seen'[n]
        /\ \A k \in Nodes : seen[k] \subseteq seen'[k]
    BY DEF SendRequest, Remembered, IInv
  <1> HIDE DEF q, e, r
  <1>10. TableFollows(dir, n, [rt[n] EXCEPT ![dst] = r])
    BY <1>1, <1>6, StoreFollows DEF EntryFollows
  <1>11. ASSUME NEW x \in Broadcast(n, q) PROVE Directed(dir, x, seen')
    <2>1. x \in Rreqs /\ x.origin = n /\ x.id = reqId'[n]
      BY <1>4, <1>5, BroadcastRreq
    <2>2. x.from = n /\ x.to \in Nodes /\ {n, x.to} \in Links /\ n # x.to
      BY <1>4, BroadcastAcross
    <2>3. {x.to, n} = {n, x.to} OBVIOUS
    <2>4. dir[x.to][n] = n BY <2>2, <2>3, NeighbourDirect
    <2>5. x.type = "RREQ" BY <2>1 DEF Rreqs
    <2>6. QED BY <1>9, <2>1, <2>2, <2>4, <2>5 DEF Directed
  <1>12. \A x \in msgs' : x \in msgs \/ Directed(dir, x, seen')
    BY <1>8, <1>11
  <1>13. QED BY <1>7, <1>9, <1>10, <1>12, HandlerFInv

\* The destination replies to the neighbour the RREQ came from.
LEMMA SendReplyFInv ==
  ASSUME IInv, NEW dir, Directs(dir), FInv(dir), NEW n \in Nodes,
         NEW m \in Rreqs, NEW t, SendReply(n, m, t), NEW sn,
         t[m.origin].next = m.from, dir[n][m.origin] = m.from
  PROVE  \A x \in msgs' : x \in msgs \/ Directed(dir, x, sn)
  <1>1. PICK q : /\ q.type = "RREP" /\ q.from = n /\ q.to = m.from /\ q.dst = n
                 /\ q.origin = m.origin
                 /\ msgs' = (msgs \ {m}) \cup Unicast(q)
    BY DEF SendReply
  <1>2. ASSUME NEW x \in Unicast(q) PROVE Directed(dir, x, sn)
    <2>1. x = q /\ m.from \in Nodes /\ {n, m.from} \in Links /\ n # m.from
      BY <1>1, UnicastAcross
    <2>2. {m.from, n} = {n, m.from} OBVIOUS
    <2>3. dir[m.from][n] = n BY <2>1, <2>2, NeighbourDirect
    <2>4. QED BY <1>1, <2>1, <2>3 DEF Directed
  <1>3. QED BY <1>1, <1>2

\* An intermediate node's route to the destination does not lead back, so
\* each reply leaves the node on the other side from the node it is about.
LEMMA IntermediateFInv ==
  ASSUME IInv, NEW dir, Directs(dir), FInv(dir), NEW n \in Nodes,
         NEW m \in Rreqs, NEW t, NEW e, NEW sn,
         SendReplyByIntermediateNode(n, m, t, e),
         t[m.origin].next = m.from, dir[n][m.origin] = m.from,
         e.next = dir[n][m.dst], e.next # m.from
  PROVE  \A x \in msgs' : x \in msgs \/ Directed(dir, x, sn)
  <1> DEFINE q == [type |-> "RREP", from |-> n, to |-> t[m.origin].next,
                   dst |-> m.dst, dseq |-> e.seq, origin |-> m.origin,
                   hop |-> e.hop, ttl |-> t[m.origin].hop,
                   ack |-> e.hop = 1]
             g == [type |-> "RREP", from |-> n, to |-> e.next,
                   dst |-> m.origin, dseq |-> t[m.origin].seq, origin |-> m.dst,
                   hop |-> t[m.origin].hop, ttl |-> e.hop, ack |-> FALSE]
  <1>1. msgs' \subseteq msgs \cup Unicast(q) \cup Unicast(g)
    BY DEF SendReplyByIntermediateNode
  <1>2. /\ q.type = "RREP" /\ q.from = n /\ q.to = m.from /\ q.dst = m.dst
        /\ q.origin = m.origin
        /\ g.type = "RREP" /\ g.from = n /\ g.to = e.next /\ g.dst = m.origin
        /\ g.origin = m.dst
    OBVIOUS
  <1>3. m.dst \in Nodes /\ m.origin \in Nodes BY DEF Rreqs
  <1> HIDE DEF q, g
  <1>4. \A x \in Unicast(q) : Directed(dir, x, sn)
    BY <1>2, <1>3, UnicastAcross, ReplyDirected
  <1>5. \A x \in Unicast(g) : Directed(dir, x, sn)
    BY <1>2, <1>3, UnicastAcross, ReplyDirected
  <1>6. QED BY <1>1, <1>4, <1>5

\* A relayed RREQ goes on, away from its originator, and back to a node that
\* knows it.
LEMMA RelayFInv ==
  ASSUME IInv, NEW dir, Directs(dir), NEW n \in Nodes, NEW m \in Rreqs,
         NEW e \in GoodEntries, NEW sn, dir[n][m.origin] = m.from,
         <<m.origin, m.id>> \in sn[n], <<m.origin, m.id>> \in sn[m.from]
  PROVE  \A x \in Relay(n, m, e) : Directed(dir, x, sn)
  <1> SUFFICES ASSUME NEW x \in Relay(n, m, e) PROVE Directed(dir, x, sn)
    OBVIOUS
  <1>1. x \in Rreqs /\ x.origin = m.origin /\ x.id = m.id BY RelaySent
  <1>2. x.type = "RREQ" /\ m.origin \in Nodes BY <1>1 DEF Rreqs
  <1>3. x.from = n /\ x.to \in Nodes /\ {n, x.to} \in Links /\ n # x.to
    <2>1. PICK y, z : /\ y \in InRange(n) /\ DOMAIN z = DOMAIN m
                      /\ x = [z EXCEPT !.from = n, !.to = y]
      BY DEF Relay, Broadcast
    <2>2. {n, y} \in Links /\ y \in Nodes /\ n # y BY <2>1 DEF InRange, IInv
    <2>3. x.from = n /\ x.to = y BY <2>1 DEF Rreqs
    <2>4. QED BY <2>2, <2>3
  <1>4. dir[x.to][m.origin] = n <=> m.from # x.to
    BY <1>2, <1>3, OtherSide
  <1>5. QED BY <1>1, <1>2, <1>3, <1>4 DEF Directed

\* A RREQ that is not a duplicate has come the way to its originator.
LEMMA RecvRequestFInv ==
  ASSUME Malicious = {}, IInv, WInv, NEW dir, Directs(dir), FInv(dir),
         NEW m \in msgs, RecvRequest(m)
  PROVE  FInv(dir)'
  <1> DEFINE n == m.to
             t == Reversed(n, m)
             e == t[m.dst]
  <1>1. m \in Messages /\ m.type = "RREQ" BY DEF IInv, RecvRequest
  <1>2. m \in Rreqs /\ n \in Nodes /\ m.from \in Nodes BY <1>1, MessageKinds
  <1>3. m.origin \in Nodes /\ m.dst \in Nodes BY <1>2 DEF Rreqs
  <1>4. rt[n] \in Tables /\ TableFollows(dir, n, rt[n])
    BY <1>2 DEF IInv, FInv
  <1>5. {n, m.from} \in Links /\ n # m.from
    <2>1. {m.from, n} \in Links /\ {n, m.from} = {m.from, n}
      BY DEF WInv, Carried
    <2>2. QED BY <2>1 DEF FInv, Directed
  <1>6. /\ <<m.origin, m.id>> \in seen[m.from]
        /\ dir[n][m.origin] = m.from \/ IsDuplicate(n, m)
    BY <1>1 DEF FInv, Directed, IsDuplicate
  <1>7. t \in Tables BY <1>2, <1>4, ReversedGood
  <1>8. \A k \in Nodes : seen[k] \subseteq seen'[k]
    BY <1>2 DEF RecvRequest, IInv
  <1>9. CASE IsDuplicate(n, m)
    <2>1. rt' = [rt EXCEPT ![n] = Heard(rt[n], m.from)] /\ msgs' = msgs \ {m}
      BY <1>2, <1>9 DEF RecvRequest, IInv
    <2>2. TableFollows(dir, n, Heard(rt[n], m.from))
      BY <1>2, <1>4, <1>5, HeardFollows
    <2> HIDE DEF n, t
    <2>3. QED BY <1>2, <1>8, <2>1, <2>2, HandlerFInv
  <1>10. CASE ~IsDuplicate(n, m)
    <2>1. dir[n][m.origin] = m.from BY <1>6, <1>10
    <2>2. TableFollows(dir, n, t) /\ t[m.origin].next = m.from
      BY <1>2, <1>4, <1>5, <2>1, ReversedFollows
    <2>3. e \in GoodEntries /\ EntryFollows(dir, n, e, m.dst)
      BY <1>3, <1>7, <2>2 DEF Tables, TableFollows
    <2>4. /\ <<m.origin, m.id>> \in seen'[n]
          /\ <<m.origin, m.id>> \in seen'[m.from]
      BY <1>2, <1>6, <1>8, <1>10 DEF RecvRequest, IInv
    <2>5. \/ SendReply(n, m, t)
          \/ /\ e.flag = "VALID" /\ e.next # m.from
             /\ SendReplyByIntermediateNode(n, m, t, e)
          \/ /\ rt' = [rt EXCEPT ![n] = t]
             /\ msgs' \subseteq msgs \cup Relay(n, m, e)
      BY <1>10 DEF RecvRequest, MakesLoop
    <2>6. CASE SendReply(n, m, t)
      <3>1. rt' = [rt EXCEPT ![n] = t] BY <2>6 DEF SendReply
      <3> HIDE DEF n, t, e
      <3>2. \A x \in msgs' : x \in msgs \/ Directed(dir, x, seen')
        BY <1>2, <2>1, <2>2, <2>6, SendReplyFInv
      <3>3. QED BY <1>2, <1>8, <2>2, <3>1, <3>2, HandlerFInv
    <2>7. CASE /\ e.flag = "VALID" /\ e.next # m.from
               /\ SendReplyByIntermediateNode(n, m, t, e)
      <3> HIDE DEF n, t, e
      <3>1. e.next = dir[n][m.dst] BY <2>3, <2>7 DEF EntryFollows
      <3>2. \A x \in msgs' : x \in msgs \/ Directed(dir, x, seen')
        BY <1>2, <2>1, <2>2, <2>7, <3>1, IntermediateFInv
      <3>3. t[m.origin].flag # "NONE" /\ t[m.origin].next \in Nodes
        BY <1>2, <1>4, ReversedGood DEF t
      <3>4. \E u \in Tables :
               /\ rt' = [rt EXCEPT ![n] = u]
               /\ \A x \in Nodes :
                    SameRoute(t[x], u[x]) \/ (x = m.dst /\ SameRoute(e, u[x]))
        BY <1>2, <1>7, <2>3, <2>7, <3>3, ReplyByIntermediateSent
      <3>5. PICK u \in Tables :
               /\ rt' = [rt EXCEPT ![n] = u]
               /\ \A x \in Nodes :
                    SameRoute(t[x], u[x]) \/ (x = m.dst /\ SameRoute(e, u[x]))
        BY <3>4
      <3>6. TableFollows(dir, n, u)
        BY <2>2, <2>3, <3>5, SameRouteFollows DEF TableFollows
      <3>7. QED BY <1>2, <1>8, <3>2, <3>5, <3>6, HandlerFInv
    <2>8. CASE /\ rt' = [rt EXCEPT ![n] = t]
               /\ msgs' \subseteq msgs \cup Relay(n, m, e)
      <3> HIDE DEF n, t, e
      <3>1. \A x \in Relay(n, m, e) : Directed(dir, x, seen')
        BY <1>2, <2>1, <2>3, <2>4, RelayFInv
      <3>2. \A x \in msgs' : x \in msgs \/ Directed(dir, x, seen')
        BY <2>8, <3>1
      <3>3. QED BY <1>2, <1>8, <2>2, <2>8, <3>2, HandlerFInv
    <2>9. QED BY <2>5, <2>6, <2>7, <2>8
  <1>11. QED BY <1>9, <1>10

\* A RREP goes on along this node's route to its originator, which is not the
\* way it came: the sender has its originator on this node's side.
LEMMA RecvReplyFInv ==
  ASSUME IInv, WInv, NEW dir, Directs(dir), FInv(dir), NEW m \in msgs,
         RecvReply(m)
  PROVE  FInv(dir)'
  <1> DEFINE n == m.to
             t == Forward(n, m)
             u == Precursors(t, m)
             r == [m EXCEPT !.from = n, !.to = t[m.origin].next,
                            !.hop = HopCount(m), !.ttl = @ - 1, !.ack = FALSE]
             a == [type |-> "RREP_ACK", from |-> n, to |-> m.from]
             ack == IF m.ack THEN Unicast(a) ELSE {}
             done == m.origin = n \/ Unroutable(n, m)
             passed == IF done \/ m.ttl < 2 THEN {} ELSE Unicast(r)
  <1>1. m \in Messages /\ m.type = "RREP" /\ m.dst # m.origin
    BY DEF IInv, RecvReply
  <1>2. m \in Rreps /\ n \in Nodes /\ m.from \in Nodes BY <1>1, MessageKinds
  <1>3. m.dst \in Nodes /\ m.origin \in Nodes BY <1>2 DEF Rreps
  <1>4. rt[n] \in Tables /\ TableFollows(dir, n, rt[n])
    BY <1>2 DEF IInv, FInv
  <1>5. {n, m.from} \in Links /\ n # m.from
    <2>1. {m.from, n} \in Links /\ {n, m.from} = {m.from, n}
      BY DEF WInv, Carried
    <2>2. QED BY <2>1 DEF FInv, Directed
  <1>6. dir[n][m.dst] = m.from /\ dir[m.from][m.origin] = n
    BY <1>1 DEF FInv, Directed
  <1>7. dir[n][m.origin] # m.from BY <1>2, <1>3, <1>5, <1>6, OtherSide
  <1>8. t \in Tables /\ TableFollows(dir, n, t)
    BY <1>2, <1>4, <1>5, <1>6, ForwardGood, ForwardFollows
  <1>9. TableFollows(dir, n, u) BY <1>2, <1>8, PrecursorsGood, SameRoutesFollow
  <1>10. rt' = [rt EXCEPT ![n] = t] \/ rt' = [rt EXCEPT ![n] = u]
    BY DEF RecvReply
  <1>11. msgs' = (msgs \ {m}) \cup ack \cup passed BY DEF RecvReply
  <1>12. passed = {} \/ (passed = Unicast(r) /\ ~done) OBVIOUS
  <1>13. ~done => t[m.origin].next = dir[n][m.origin]
    <2>1. t[m.origin] \in Entries BY <1>3, <1>8 DEF Tables, GoodEntries
    <2>2. ~done => t[m.origin].flag \in {"VALID", "INVALID"}
      BY <2>1 DEF Unroutable, Entries, Flags
    <2> HIDE DEF t, done
    <2>3. QED BY <1>3, <1>8, <2>2 DEF TableFollows, EntryFollows
  <1>14. /\ r.type = "RREP" /\ r.from = n /\ r.to = t[m.origin].next
         /\ r.dst = m.dst /\ r.origin = m.origin
    BY <1>2 DEF Rreps
  <1>15. a.type = "RREP_ACK" OBVIOUS
  <1>16. ack \subseteq Unicast(a) OBVIOUS
  <1>17. UNCHANGED seen BY DEF RecvReply
  <1> HIDE DEF n, t, u, r, a, ack, passed, done
  <1>18. \A x \in ack : Directed(dir, x, seen')
    <2>1. \A x \in ack : x = a /\ x.from # x.to BY <1>16, UnicastAcross
    <2>2. QED BY <1>15, <2>1 DEF Directed
  <1>19. \A x \in passed : Directed(dir, x, seen')
    <2>1. SUFFICES ASSUME ~done, NEW x \in Unicast(r)
                   PROVE  Directed(dir, x, seen')
      BY <1>12
    <2>2. x = r /\ x.to \in Nodes /\ {x.from, x.to} \in Links /\ x.from # x.to
      BY UnicastAcross
    <2>3. dir[n][m.origin] = x.to /\ dir[n][m.dst] # x.to
      BY <1>6, <1>7, <1>13, <1>14, <2>1, <2>2
    <2>4. QED BY <1>2, <1>3, <1>14, <2>2, <2>3, ReplyDirected
  <1>20. \A x \in msgs' : x \in msgs \/ Directed(dir, x, seen')
    BY <1>11, <1>18, <1>19
  <1>21. QED BY <1>2, <1>8, <1>9, <1>10, <1>17, <1>20, HandlerFInv

\* A hello is about the neighbour that sent it.
LEMMA ProcessHelloFInv ==
  ASSUME IInv, WInv, NEW dir, Directs(dir), FInv(dir), NEW m \in msgs,
         ProcessHello(m)
  PROVE  FInv(dir)'
  <1> DEFINE n == m.to
             t == Heard(rt[n], m.from)
             e == t[m.dst]
             u == [e EXCEPT !.flag = "VALID", !.vseq = TRUE, !.seq = m.dseq,
                            !.hop = 1, !.next = m.dst]
             r == IF e.flag = "NONE" THEN Route(TRUE, m.dseq, 1, m.dst) ELSE u
             w == [t EXCEPT ![m.dst] = r]
  <1>1. m \in Messages /\ m.type = "RREP" /\ m.dst = m.origin
    BY DEF IInv, ProcessHello
  <1>2. m \in Rreps /\ n \in Nodes /\ m.from \in Nodes BY <1>1, MessageKinds
  <1>3. m.dst \in Nodes /\ m.dst = m.from
    BY <1>1, <1>2 DEF Rreps, WInv, Carried
  <1>4. {n, m.from} \in Links /\ n # m.from
    <2>1. {m.from, n} \in Links /\ {n, m.from} = {m.from, n}
      BY DEF WInv, Carried
    <2>2. QED BY <2>1 DEF FInv, Directed
  <1>5. rt[n] \in Tables /\ TableFollows(dir, n, rt[n])
    BY <1>2 DEF IInv, FInv
  <1>6. t \in Tables /\ TableFollows(dir, n, t)
    BY <1>2, <1>4, <1>5, HeardGood, HeardFollows
  <1>7. rt' = [rt EXCEPT ![n] = w] /\ msgs' \subseteq msgs
    BY <1>3, <1>6 DEF ProcessHello, Tables
  <1>8. UNCHANGED seen BY DEF ProcessHello
  <1> HIDE DEF t, n
  <1>9. e \in Entries BY <1>3, <1>6 DEF Tables, GoodEntries
  <1>10. r.next = m.dst BY <1>9 DEF Route, Entries
  <1> HIDE DEF r
  <1>11. EntryFollows(dir, n, r, m.dst)
    BY <1>2, <1>3, <1>4, <1>10, NextFollows
  <1>12. TableFollows(dir, n, w) BY <1>3, <1>6, <1>11, StoreFollows
  <1> HIDE DEF w
  <1>13. QED BY <1>2, <1>7, <1>8, <1>12, HandlerFInv

LEMMA RecvReplyAckFInv ==
  ASSUME IInv, NInv, WInv, NEW dir, Directs(dir), FInv(dir), NEW m \in msgs,
         RecvReplyAck(m)
  PROVE  FInv(dir)'
  <1> DEFINE n == m.to
             t == Heard(rt[n], m.from)
             r == [t[m.from] EXCEPT !.flag = "VALID"]
             w == [t EXCEPT ![m.from] = r]
  <1>1. m \in Messages BY DEF IInv
  <1>2. n \in Nodes /\ m.from \in Nodes BY <1>1, MessageKinds
  <1>3. {n, m.from} \in Links /\ n # m.from
    <2>1. {m.from, n} \in Links /\ {n, m.from} = {m.from, n}
      BY DEF WInv, Carried
    <2>2. QED BY <2>1 DEF FInv, Directed
  <1>4. rt[n] \in Tables /\ TableFollows(dir, n, rt[n])
    BY <1>2 DEF IInv, FInv
  <1>5. t \in Tables /\ TableFollows(dir, n, t)
    BY <1>2, <1>3, <1>4, HeardGood, HeardFollows
  <1>6. t[m.from].next = m.from
    <2>1. EntryNear(rt[n][m.from], m.from) BY <1>2 DEF NInv, Near
    <2>2. QED BY <1>2, <1>4, <2>1 DEF Heard, Route, EntryNear, Tables
  <1>7. rt' = [rt EXCEPT ![n] = w] /\ msgs' \subseteq msgs
    BY <1>2, <1>5 DEF RecvReplyAck, Tables, IInv
  <1>8. UNCHANGED seen BY DEF RecvReplyAck
  <1> HIDE DEF t, n
  <1>9. t[m.from] \in Entries BY <1>2, <1>5 DEF Tables, GoodEntries
  <1>10. r.next = m.from BY <1>6, <1>9 DEF Entries
  <1> HIDE DEF r
  <1>11. EntryFollows(dir, n, r, m.from) BY <1>2, <1>3, <1>10, NextFollows
  <1>12. TableFollows(dir, n, w) BY <1>2, <1>5, <1>11, StoreFollows
  <1> HIDE DEF w
  <1>13. QED BY <1>2, <1>7, <1>8, <1>12, HandlerFInv

LEMMA RecvErrorFInv ==
  ASSUME IInv, WInv, NEW dir, Directs(dir), FInv(dir), NEW m \in msgs,
         RecvError(m)
  PROVE  FInv(dir)'
  <1> DEFINE n == m.to
             t == Heard(rt[n], m.from)
             S == m.dests \cap Via(t, m.from)
             prec == UNION {t[d].prec : d \in S}
  <1>1. m \in Messages BY DEF IInv
  <1>2. n \in Nodes /\ m.from \in Nodes BY <1>1, MessageKinds
  <1>3. {n, m.from} \in Links /\ n # m.from
    <2>1. {m.from, n} \in Links /\ {n, m.from} = {m.from, n}
      BY DEF WInv, Carried
    <2>2. QED BY <2>1 DEF FInv, Directed
  <1>4. rt[n] \in Tables /\ TableFollows(dir, n, rt[n])
    BY <1>2 DEF IInv, FInv
  <1>5. t \in Tables /\ TableFollows(dir, n, t)
    BY <1>2, <1>3, <1>4, HeardGood, HeardFollows
  <1>6. TableFollows(dir, n, Invalidated(t, S)) BY <1>5, InvalidatedFollows
  <1>7. S \in SUBSET Nodes BY DEF Via
  <1>8. prec \in SUBSET Nodes BY <1>5, <1>7 DEF Tables, GoodEntries, Entries
  <1>9. /\ rt' = [rt EXCEPT ![n] = Invalidated(t, S)]
        /\ msgs' \subseteq msgs \cup SendRerrMessage(n, t, S, prec)
        /\ UNCHANGED seen
    BY DEF RecvError
  <1> HIDE DEF n, t, S, prec
  <1>10. \A x \in msgs' : x \in msgs \/ Directed(dir, x, seen')
    BY <1>2, <1>7, <1>8, <1>9, RerrDirected
  <1>11. QED BY <1>2, <1>6, <1>9, <1>10, HandlerFInv

LEMMA SendRerrWhenBreaksLinkToNextHopFInv ==
  ASSUME IInv, NEW dir, FInv(dir), NEW n \in Nodes, NEW x \in Nodes,
         SendRerrWhenBreaksLinkToNextHop(n, x)
  PROVE  FInv(dir)'
  <1> DEFINE t == rt[n]
             S == {x} \cup Via(t, x)
             prec == UNION {t[d].prec : d \in S}
  <1>1. t \in Tables /\ TableFollows(dir, n, t) BY DEF IInv, FInv
  <1>2. TableFollows(dir, n, Invalidated(t, S)) BY <1>1, InvalidatedFollows
  <1>3. S \in SUBSET Nodes BY DEF Via
  <1>4. prec \in SUBSET Nodes BY <1>1, <1>3 DEF Tables, GoodEntries, Entries
  <1>5. /\ rt' = [rt EXCEPT ![n] = Invalidated(t, S)]
        /\ msgs' = msgs \cup SendRerrMessage(n, t, S, prec)
        /\ UNCHANGED seen
    BY DEF SendRerrWhenBreaksLinkToNextHop
  <1> HIDE DEF t, S, prec
  <1>6. \A y \in msgs' : y \in msgs \/ Directed(dir, y, seen')
    BY <1>3, <1>4, <1>5, RerrDirected
  <1>7. QED BY <1>2, <1>5, <1>6, HandlerFInv

LEMMA RouteInputFInv ==
  ASSUME IInv, NEW dir, FInv(dir), NEW m \in msgs, RouteInput(m)
  PROVE  FInv(dir)'
  <1> DEFINE n == m.to
             u == [m EXCEPT !.from = n, !.to = rt[n][m.dst].next]
             E == SendRerrWhenNoRouteToForward(n, m.dst, m.origin)
  <1>1. m \in Messages /\ m.type = "DATA" BY DEF IInv, RouteInput
  <1>2. m \in Datas /\ n \in Nodes BY <1>1, MessageKinds
  <1>3. m.dst \in Nodes /\ u.type = "DATA" BY <1>2 DEF Datas
  <1>4. /\ UNCHANGED <<rt, seen>>
        /\ msgs' \subseteq msgs \cup Unicast(u) \cup E
    BY DEF RouteInput
  <1> HIDE DEF u
  <1>5. \A x \in E : Directed(dir, x, seen)
    BY <1>2, <1>3, NoRouteRerrDirected
  <1> HIDE DEF E
  <1>6. \A x \in Unicast(u) : Directed(dir, x, seen)
    <2>1. \A x \in Unicast(u) : x = u /\ x.from # x.to BY UnicastAcross
    <2>2. QED BY <1>3, <2>1 DEF Directed
  <1>7. \A x \in msgs' : x \in msgs \/ Directed(dir, x, seen)
    BY <1>4, <1>5, <1>6
  <1>8. QED BY <1>4, <1>7, QuietFInv

LEMMA PurgeFInv ==
  ASSUME IInv, NEW dir, FInv(dir), NEW n \in Nodes, NEW d \in Nodes,
         Purge(n, d) \/ GiveUp(n, d)
  PROVE  FInv(dir)'
  <1> DEFINE e == rt[n][d]
             r == [e EXCEPT !.flag = "INVALID"]
  <1>1. rt \in [Nodes -> Tables] /\ rt[n] \in Tables /\ TableFollows(dir, n, rt[n])
    BY DEF IInv, FInv
  <1>2. e \in Entries /\ EntryFollows(dir, n, e, d)
    BY <1>1 DEF Tables, GoodEntries, TableFollows
  <1>3. UNCHANGED <<msgs, seen>> BY DEF Purge, GiveUp
  <1>4. \/ e.flag = "VALID" /\ rt' = [rt EXCEPT ![n] = [rt[n] EXCEPT ![d] = r]]
        \/ rt' = [rt EXCEPT ![n] = [rt[n] EXCEPT ![d] = NoEntry]]
    BY <1>1, <1>2 DEF Purge, GiveUp, Tables, Entries
  <1>5. r.next = e.next BY <1>2 DEF Entries
  <1> HIDE DEF r, e
  <1>6. e.flag = "VALID" => EntryFollows(dir, n, r, d)
    BY <1>2, <1>5 DEF EntryFollows
  <1>7. EntryFollows(dir, n, NoEntry, d) BY DEF EntryFollows, NoEntry
  <1>8. CASE e.flag = "VALID" /\ rt' = [rt EXCEPT ![n] = [rt[n] EXCEPT ![d] = r]]
    <2>1. TableFollows(dir, n, [rt[n] EXCEPT ![d] = r])
      BY <1>1, <1>6, <1>8, StoreFollows
    <2>2. QED BY <1>3, <1>8, <2>1, HandlerFInv
  <1>9. CASE rt' = [rt EXCEPT ![n] = [rt[n] EXCEPT ![d] = NoEntry]]
    <2>1. TableFollows(dir, n, [rt[n] EXCEPT ![d] = NoEntry])
      BY <1>1, <1>7, StoreFollows
    <2>2. QED BY <1>3, <1>9, <2>1, HandlerFInv
  <1>10. QED BY <1>4, <1>8, <1>9

LEMMA SendDataFInv ==
  ASSUME IInv, NEW dir, FInv(dir), NEW n \in Nodes, NEW d \in Nodes,
         SendData(n, d)
  PROVE  FInv(dir)'
  <1> DEFINE m == [type |-> "DATA", from |-> n, to |-> rt[n][d].next,
                   origin |-> n, dst |-> d]
  <1>1. m.type = "DATA" OBVIOUS
  <1>2. UNCHANGED <<rt, seen>> /\ msgs' = msgs \cup Unicast(m) BY DEF SendData
  <1> HIDE DEF m
  <1>3. \A x \in Unicast(m) : x = m /\ x.from # x.to BY UnicastAcross
  <1>4. \A x \in msgs' : x \in msgs \/ Directed(dir, x, seen)
    BY <1>1, <1>2, <1>3 DEF Directed
  <1>5. QED BY <1>2, <1>4, QuietFInv

LEMMA SendHelloFInv ==
  ASSUME IInv, NEW dir, Directs(dir), FInv(dir), NEW n \in Nodes, SendHello(n)
  PROVE  FInv(dir)'
  <1> DEFINE m == [type |-> "RREP", from |-> n, to |-> n, dst |-> n,
                   dseq |-> seqNo[n], origin |-> n, hop |-> 0, ttl |-> 1,
                   ack |-> FALSE]
             copy(y) == [m EXCEPT !.from = n, !.to = y]
  <1>1. m \in Rreps BY DEF IInv, Rreps
  <1>2. UNCHANGED <<rt, seen>> /\ msgs' = msgs \cup Broadcast(n, m)
    BY DEF SendHello
  <1>3. ASSUME NEW y PROVE /\ copy(y).type = "RREP" /\ copy(y).dst = n
                           /\ copy(y).origin = n
    OBVIOUS
  <1>4. \A x \in Broadcast(n, m) : \E y \in InRange(n) : x = copy(y)
    BY DEF Broadcast
  <1> HIDE DEF m, copy
  <1>5. ASSUME NEW x \in Broadcast(n, m) PROVE Directed(dir, x, seen)
    <2>1. x.from = n /\ x.to \in Nodes /\ {n, x.to} \in Links /\ n # x.to
      BY <1>1, BroadcastAcross
    <2>2. {x.to, n} = {n, x.to} OBVIOUS
    <2>3. dir[x.to][n] = n BY <2>1, <2>2, NeighbourDirect
    <2>4. x.type = "RREP" /\ x.dst = n /\ x.origin = n BY <1>3, <1>4
    <2>5. QED BY <2>1, <2>3, <2>4 DEF Directed
  <1>6. \A x \in msgs' : x \in msgs \/ Directed(dir, x, seen) BY <1>2, <1>5
  <1>7. QED BY <1>2, <1>6, QuietFInv

LEMMA NextFInv ==
  ASSUME Malicious = {}, IInv, NInv, WInv, NEW dir, Directs(dir), FInv(dir),
         [Next]_vars
  PROVE  FInv(dir)'
  <1>1. ASSUME NEW n \in Nodes, NEW d \in Nodes, NEW ttl \in Ttls,
               SendRequest(n, d, ttl)
        PROVE  FInv(dir)'
    BY <1>1, SendRequestFInv
  <1>2. ASSUME NEW type \in Types, NEW n \in Nodes, Receive(type, n)
        PROVE  FInv(dir)'
    BY <1>2, RecvRequestFInv, RecvReplyFInv, ProcessHelloFInv, RecvReplyAckFInv,
       RecvErrorFInv, RouteInputFInv DEF Receive
  <1>3. ASSUME NEW n \in Nodes, NEW d \in Nodes,
               \/ SendRerrWhenBreaksLinkToNextHop(n, d)
               \/ Purge(n, d) \/ GiveUp(n, d) \/ SendData(n, d)
        PROVE  FInv(dir)'
    BY <1>3, SendRerrWhenBreaksLinkToNextHopFInv, PurgeFInv, SendDataFInv
  <1>4. ASSUME NEW n \in Nodes, SendHello(n) PROVE FInv(dir)'
    BY <1>4, SendHelloFInv
  <1>5. ASSUME UNCHANGED <<rt, msgs, seen>> PROVE FInv(dir)'
    BY <1>5, QuietFInv
  <1>6. ASSUME NEW l \in Links, LoseLink(l) PROVE FInv(dir)'
    BY <1>5, <1>6 DEF LoseLink
  <1>7. CASE \E n \in Nodes : RerrRateLimitTimerExpire(n)
    BY <1>5, <1>7 DEF RerrRateLimitTimerExpire
  <1>8. CASE UNCHANGED vars BY <1>5, <1>8 DEF vars
  <1>9. QED BY <1>1, <1>2, <1>3, <1>4, <1>6, <1>7, <1>8 DEF Next

LEMMA InitFInv == ASSUME NEW dir, Init PROVE FInv(dir)
  <1>1. \A n, d \in Nodes : EntryFollows(dir, n, rt[n][d], d)
    BY DEF Init, EntryFollows, NoEntry
  <1>2. QED BY <1>1 DEF Init, FInv, TableFollows

\* In every network without cycles and without malicious nodes, whatever is
\* lost, late or overtaken, two nodes never have a valid route to the same
\* destination through each other.  RecvRequest's test that the route it
\* answers with does not lead back to the sender is enough for that; the
\* sequence numbers, which an entry may replace by older ones, are not needed.
THEOREM RoutesDoNotTurnBack ==
  ASSUME Malicious = {}, NEW CONSTANT dir, Directs(dir)
  PROVE  Spec => []NoMutualNextHop
  <1>1. Init => WInv /\ NInv
    <2> SUFFICES ASSUME Init PROVE WInv /\ NInv OBVIOUS
    <2>1. \A n, d \in Nodes : EntryWalks(n, rt[n][d], d)
      BY DEF Init, EntryWalks, NoEntry
    <2>2. \A n, d \in Nodes : EntryNear(rt[n][d], d) BY NoEntryNear DEF Init
    <2>3. QED BY <2>1, <2>2 DEF Init, WInv, TableWalks, NInv, Near
  <1>2. Init => FInv(dir) BY InitFInv
  <1>3. IInv /\ NInv /\ [Next]_vars => NInv' BY NextNInv
  <1>4. IInv /\ NInv /\ WInv /\ [Next]_vars => WInv' BY NextWInv
  <1>5. IInv /\ NInv /\ WInv /\ FInv(dir) /\ [Next]_vars => FInv(dir)'
    BY NextFInv
  <1>6. WInv /\ FInv(dir) => NoMutualNextHop BY FInvMeaning
  <1>7. QED
    BY <1>1, <1>2, <1>3, <1>4, <1>5, <1>6, Invariance, PTL DEF Spec
=============================================================================
