-------------------------- MODULE AodvNetworkProofs --------------------------
(***************************************************************************)
(* Proofs about AodvNetwork, for any network and any number of messages:   *)
(* type correctness, that no sequence number is ahead of its owner's, and  *)
(* that no node handles a RREQ of its own.                                 *)
(***************************************************************************)
EXTENDS AodvNetwork, TLAPS

-----------------------------------------------------------------------------
(* Entries and tables.                                                     *)

\* An entry has at least one hop, and a usable one has a next hop.
GoodEntries ==
  {e \in Entries : /\ e.flag # "NONE" => e.hop >= 1
                   /\ e.flag = "VALID" \/ e.vseq => e.next \in Nodes}

Tables == [Nodes -> GoodEntries]

Messages == Rreqs \cup Rreps \cup Acks \cup Rerrs \cup Datas

\* The inductive invariant behind TypeOK.
IInv ==
  /\ rt \in [Nodes -> Tables]
  /\ seqNo \in [Nodes -> Nat] /\ reqId \in [Nodes -> Nat]
  /\ seen \in [Nodes -> SUBSET (Nodes \X Nat)]
  /\ msgs \subseteq Messages
  /\ links \subseteq Links
  /\ hellos \in [Nodes -> Nat] /\ faults \in Nat

\* The counter of the RERR rate limiter.
RateInv == rerrCount \in [Nodes -> 0..RerrRateLimit]

\* The invariants give the types.
LEMMA InvType == ASSUME IInv, RateInv PROVE TypeOK
  <1>1. rt \in [Nodes -> [Nodes -> Entries]]
    <2>1. GoodEntries \subseteq Entries BY DEF GoodEntries
    <2>2. QED BY <2>1 DEF IInv, Tables
  <1>2. QED BY <1>1 DEF IInv, RateInv, TypeOK, Messages

LEMMA RouteGood ==
  ASSUME NEW vseq \in BOOLEAN, NEW seq \in Nat, NEW hop \in Nat \ {0},
         NEW next \in Nodes
  PROVE  Route(vseq, seq, hop, next) \in GoodEntries
  BY DEF Route, GoodEntries, Entries, Flags

LEMMA NoEntryGood == NoEntry \in GoodEntries
  BY DEF NoEntry, GoodEntries, Entries, Flags

\* A table with a good entry stored in it is a table.
LEMMA StoreGood ==
  ASSUME NEW t \in Tables, NEW d \in Nodes, NEW e \in GoodEntries
  PROVE  [t EXCEPT ![d] = e] \in Tables
  BY DEF Tables

LEMMA HeardGood ==
  ASSUME NEW t \in Tables, NEW s \in Nodes
  PROVE  /\ Heard(t, s) \in Tables
         /\ Heard(t, s)[s].flag # "NONE" /\ Heard(t, s)[s].hop = 1
         /\ Heard(t, s)[s].next \in Nodes
  <1>1. Route(FALSE, 0, 1, s) \in GoodEntries
    BY DEF Route, GoodEntries, Entries, Flags
  <1>2. t[s] \in GoodEntries BY DEF Tables
  <1>3. QED BY <1>1, <1>2, StoreGood DEF Heard, Tables, GoodEntries, Route

LEMMA ReverseRouteGood ==
  ASSUME NEW e \in GoodEntries, NEW s \in Nodes, NEW oseq \in Nat,
         NEW hop \in Nat \ {0}
  PROVE  /\ ReverseRoute(e, s, oseq, hop) \in GoodEntries
         /\ ReverseRoute(e, s, oseq, hop).flag # "NONE"
         /\ ReverseRoute(e, s, oseq, hop).next \in Nodes
  <1>1. CASE e.flag = "NONE"
    BY <1>1 DEF ReverseRoute, Route, GoodEntries, Entries, Flags
  <1>2. CASE e.flag # "NONE"
    <2> DEFINE q == IF e.vseq /\ e.seq >= oseq THEN e.seq ELSE oseq
               r == [e EXCEPT !.vseq = TRUE, !.next = s, !.hop = hop, !.seq = q]
    <2>1. q \in Nat BY DEF GoodEntries, Entries
    <2>2. ReverseRoute(e, s, oseq, hop) = r BY <1>2 DEF ReverseRoute
    <2>3. e \in Entries BY DEF GoodEntries
    <2> HIDE DEF q
    <2>4. r \in Entries BY <2>1, <2>3 DEF Entries
    <2>5. r.flag = e.flag /\ r.next = s /\ r.hop = hop BY <2>3 DEF Entries
    <2> HIDE DEF r
    <2>6. QED BY <1>2, <2>2, <2>4, <2>5 DEF GoodEntries
  <1>3. QED BY <1>1, <1>2

LEMMA PreviousHopGood ==
  ASSUME NEW e \in GoodEntries, NEW s \in Nodes, NEW oseq \in Nat
  PROVE  /\ PreviousHop(e, s, oseq) \in GoodEntries
         /\ PreviousHop(e, s, oseq).flag # "NONE"
         /\ PreviousHop(e, s, oseq).next \in Nodes
  <1>1. CASE e.flag = "NONE"
    BY <1>1 DEF PreviousHop, Route, GoodEntries, Entries, Flags
  <1>2. CASE e.flag # "NONE"
    <2> DEFINE r == [e EXCEPT !.flag = "VALID", !.vseq = FALSE, !.seq = oseq,
                              !.hop = 1, !.next = s]
    <2>1. PreviousHop(e, s, oseq) = r BY <1>2 DEF PreviousHop
    <2>2. e \in Entries BY DEF GoodEntries
    <2>3. r \in Entries BY <2>2 DEF Entries, Flags
    <2>4. r.flag = "VALID" /\ r.next = s /\ r.hop = 1 BY <2>2 DEF Entries
    <2> HIDE DEF r
    <2>5. QED BY <2>1, <2>3, <2>4 DEF GoodEntries
  <1>3. QED BY <1>1, <1>2

\* Marking entries invalid, or erasing them, leaves good entries.
LEMMA InvalidatedGood ==
  ASSUME NEW t \in Tables, NEW S
  PROVE  Invalidated(t, S) \in Tables
  <1>1. ASSUME NEW d \in Nodes
        PROVE  [t[d] EXCEPT !.flag = "INVALID"] \in GoodEntries \/ t[d].flag # "VALID"
    <2>1. t[d] \in Entries /\ t[d] \in GoodEntries BY DEF Tables, GoodEntries
    <2> DEFINE r == [t[d] EXCEPT !.flag = "INVALID"]
    <2>2. r \in Entries BY <2>1 DEF Entries, Flags
    <2>3. /\ r.flag = "INVALID" /\ r.hop = t[d].hop
          /\ r.vseq = t[d].vseq /\ r.next = t[d].next
      BY <2>1 DEF Entries
    <2> HIDE DEF r
    <2>4. t[d].flag = "VALID" => r \in GoodEntries
      BY <2>1, <2>2, <2>3 DEF GoodEntries
    <2>5. QED BY <2>4 DEF r
  <1>2. QED BY <1>1 DEF Invalidated, Tables

\* Adding precursors leaves everything else of an entry alone.
LEMMA PrecursorGood ==
  ASSUME NEW e \in GoodEntries, NEW X \in SUBSET Nodes
  PROVE  /\ [e EXCEPT !.prec = @ \cup X] \in GoodEntries
         /\ [e EXCEPT !.prec = @ \cup X].vseq = e.vseq
         /\ [e EXCEPT !.prec = @ \cup X].seq = e.seq
         /\ [e EXCEPT !.prec = @ \cup X].flag = e.flag
         /\ [e EXCEPT !.prec = @ \cup X].next = e.next
         /\ [e EXCEPT !.prec = @ \cup X].hop = e.hop
  <1> DEFINE r == [e EXCEPT !.prec = @ \cup X]
  <1>1. e \in Entries BY DEF GoodEntries
  <1>2. r \in Entries BY <1>1 DEF Entries
  <1>3. /\ r.flag = e.flag /\ r.hop = e.hop /\ r.vseq = e.vseq
        /\ r.next = e.next /\ r.seq = e.seq
    BY <1>1 DEF Entries
  <1> HIDE DEF r
  <1>4. r \in GoodEntries BY <1>2, <1>3 DEF GoodEntries
  <1>5. QED BY <1>3, <1>4 DEF r

\* Entries, and tables, that differ in precursors only.
SameRoute(e, f) == /\ f.vseq = e.vseq /\ f.seq = e.seq /\ f.flag = e.flag
                   /\ f.next = e.next /\ f.hop = e.hop

SameRoutes(t, u) == \A d \in Nodes : SameRoute(t[d], u[d])

LEMMA WithPrecursorGood ==
  ASSUME NEW t \in Tables, NEW d \in Nodes \cup {NoNode},
         NEW x \in Nodes \cup {NoNode}
  PROVE  WithPrecursor(t, d, x) \in Tables /\ SameRoutes(t, WithPrecursor(t, d, x))
  <1>1. CASE d = NoNode \/ x = NoNode
    BY <1>1 DEF WithPrecursor, SameRoutes, SameRoute
  <1>2. CASE d \in Nodes /\ x \in Nodes
    <2> DEFINE e == [t[d] EXCEPT !.prec = @ \cup {x}]
               u == [t EXCEPT ![d] = e]
    <2>1. t[d] \in GoodEntries BY <1>2 DEF Tables
    <2>2. e \in GoodEntries /\ SameRoute(t[d], e)
      BY <1>2, <2>1, PrecursorGood DEF SameRoute
    <2> HIDE DEF e
    <2>3. u \in Tables BY <1>2, <2>2, StoreGood
    <2>4. SameRoutes(t, u) BY <1>2, <2>2 DEF SameRoutes, SameRoute, Tables
    <2>5. SameRoutes(t, t) BY DEF SameRoutes, SameRoute
    <2>6. WithPrecursor(t, d, x) \in {t, u}
      BY <1>2, NodeAssumption DEF WithPrecursor, e
    <2> HIDE DEF u
    <2>7. QED BY <2>3, <2>4, <2>5, <2>6
  <1>3. QED BY <1>1, <1>2

-----------------------------------------------------------------------------
(* Messages.                                                               *)

\* What is sent goes to nodes in range, and is otherwise unchanged.
LEMMA UnicastSent ==
  ASSUME NEW m
  PROVE  \A x \in Unicast(m) : x = m /\ x.to \in Nodes
  BY DEF Unicast, InRange

LEMMA BroadcastRreq ==
  ASSUME NEW n \in Nodes, NEW m \in Rreqs
  PROVE  \A x \in Broadcast(n, m) :
           /\ x \in Rreqs /\ x.origin = m.origin /\ x.oseq = m.oseq
           /\ x.id = m.id /\ x.dst = m.dst /\ x.dseq = m.dseq
           /\ x.known = m.known /\ x.hop = m.hop /\ x.from = n
  <1> DEFINE copy(y) == [m EXCEPT !.from = n, !.to = y]
             Same(x) == /\ x \in Rreqs /\ x.origin = m.origin
                        /\ x.oseq = m.oseq /\ x.id = m.id /\ x.dst = m.dst
                        /\ x.dseq = m.dseq /\ x.known = m.known
                        /\ x.hop = m.hop /\ x.from = n
  <1>1. \A y \in Nodes : Same(copy(y)) BY DEF Rreqs
  <1>2. \A x \in Broadcast(n, m) : \E y \in Nodes : x = copy(y)
    BY DEF Broadcast, InRange
  <1> HIDE DEF copy, Same
  <1>3. \A x \in Broadcast(n, m) : Same(x) BY <1>1, <1>2
  <1>4. QED BY <1>3 DEF Same

LEMMA BroadcastRrep ==
  ASSUME NEW n \in Nodes, NEW m \in Rreps
  PROVE  \A x \in Broadcast(n, m) :
           x \in Rreps /\ x.dst = m.dst /\ x.dseq = m.dseq /\ x.from = n
  <1> DEFINE copy(y) == [m EXCEPT !.from = n, !.to = y]
             Same(x) == x \in Rreps /\ x.dst = m.dst /\ x.dseq = m.dseq
                        /\ x.from = n
  <1>1. \A y \in Nodes : Same(copy(y)) BY DEF Rreps
  <1>2. \A x \in Broadcast(n, m) : \E y \in Nodes : x = copy(y)
    BY DEF Broadcast, InRange
  <1> HIDE DEF copy, Same
  <1>3. \A x \in Broadcast(n, m) : Same(x) BY <1>1, <1>2
  <1>4. QED BY <1>3 DEF Same

LEMMA BroadcastRerr ==
  ASSUME NEW n \in Nodes, NEW m \in Rerrs
  PROVE  Broadcast(n, m) \subseteq Rerrs
  <1>1. ASSUME NEW y \in Nodes PROVE [m EXCEPT !.from = n, !.to = y] \in Rerrs
    BY DEF Rerrs
  <1>2. QED BY <1>1 DEF Broadcast, InRange

\* The kind of a message says which record it is.
LEMMA MessageKinds ==
  ASSUME NEW m \in Messages
  PROVE  /\ m.type = "RREQ" => m \in Rreqs
         /\ m.type = "RREP" => m \in Rreps
         /\ m.type = "RREP_ACK" => m \in Acks
         /\ m.type = "RERR" => m \in Rerrs
         /\ m.type = "DATA" => m \in Datas
         /\ m.from \in Nodes /\ m.to \in Nodes
  BY DEF Messages, Rreqs, Rreps, Acks, Rerrs, Datas

-----------------------------------------------------------------------------
(* What the handlers make of a table and of a message.                     *)

\* No number of table t is ahead of its owner's.
Known(t, sn) == \A d \in Nodes : t[d].vseq => t[d].seq <= sn[d]

LEMMA HeardKnown ==
  ASSUME NEW t \in Tables, NEW s \in Nodes, NEW sn, Known(t, sn)
  PROVE  Known(Heard(t, s), sn)
  <1>1. \A d \in Nodes : \/ Heard(t, s)[d] = t[d]
                        \/ Heard(t, s)[d] = Route(FALSE, 0, 1, s)
    BY DEF Heard, Tables
  <1>2. ~Route(FALSE, 0, 1, s).vseq BY DEF Route
  <1>3. QED BY <1>1, <1>2 DEF Known

\* RecvRequest leaves a reverse route with a next hop.
LEMMA ReversedGood ==
  ASSUME NEW n \in Nodes, NEW m \in Rreqs, rt[n] \in Tables
  PROVE  /\ Reversed(n, m) \in Tables
         /\ Reversed(n, m)[m.origin].flag # "NONE"
         /\ Reversed(n, m)[m.origin].next \in Nodes
  <1> DEFINE t1 == Heard(rt[n], m.from)
             r == ReverseRoute(t1[m.origin], m.from, m.oseq, HopCount(m))
             t2 == [t1 EXCEPT ![m.origin] = r]
             p == PreviousHop(t2[m.from], m.from, m.oseq)
             t3 == [t2 EXCEPT ![m.from] = p]
  <1>1. /\ m.from \in Nodes /\ m.origin \in Nodes /\ m.oseq \in Nat
        /\ HopCount(m) \in Nat \ {0}
    BY DEF Rreqs, HopCount
  <1>2. t1 \in Tables BY <1>1, HeardGood
  <1>3. Reversed(n, m) = t3 BY DEF Reversed
  <1> HIDE DEF t1
  <1>4. t1[m.origin] \in GoodEntries BY <1>1, <1>2 DEF Tables
  <1>5. r \in GoodEntries /\ r.flag # "NONE" /\ r.next \in Nodes
    BY <1>1, <1>4, ReverseRouteGood
  <1> HIDE DEF r
  <1>6. t2 \in Tables /\ t2[m.origin] = r
    BY <1>1, <1>2, <1>5, StoreGood DEF Tables
  <1> HIDE DEF t2
  <1>7. t2[m.from] \in GoodEntries BY <1>1, <1>6 DEF Tables
  <1>8. p \in GoodEntries /\ p.flag # "NONE" /\ p.next \in Nodes
    BY <1>1, <1>7, PreviousHopGood
  <1> HIDE DEF p
  <1>9. t3 \in Tables /\ (t3[m.origin] = p \/ t3[m.origin] = r)
    BY <1>1, <1>6, <1>8, StoreGood DEF Tables
  <1>10. QED BY <1>3, <1>5, <1>8, <1>9

\* The reverse route and the previous hop are no further ahead than the RREQ.
LEMMA ReversedKnown ==
  ASSUME NEW n \in Nodes, NEW m \in Rreqs, rt[n] \in Tables,
         NEW sn \in [Nodes -> Nat], Known(rt[n], sn), m.oseq <= sn[m.origin]
  PROVE  /\ Known(Reversed(n, m), sn)
         /\ Reversed(n, m)[m.origin].seq <= sn[m.origin]
  <1> DEFINE t1 == Heard(rt[n], m.from)
             r == ReverseRoute(t1[m.origin], m.from, m.oseq, HopCount(m))
             t2 == [t1 EXCEPT ![m.origin] = r]
             p == PreviousHop(t2[m.from], m.from, m.oseq)
             t3 == [t2 EXCEPT ![m.from] = p]
  <1>1. /\ m.from \in Nodes /\ m.origin \in Nodes /\ m.oseq \in Nat
        /\ HopCount(m) \in Nat \ {0}
    BY DEF Rreqs, HopCount
  <1>2. t1 \in Tables /\ Known(t1, sn) BY <1>1, HeardGood, HeardKnown
  <1>3. Reversed(n, m) = t3 BY DEF Reversed
  <1> HIDE DEF t1
  <1>4. t1[m.origin] \in GoodEntries BY <1>1, <1>2 DEF Tables
  <1>5. t1[m.origin] \in Entries BY <1>4 DEF GoodEntries
  <1>6. t1[m.origin].vseq => t1[m.origin].seq <= sn[m.origin]
    BY <1>1, <1>2 DEF Known
  <1>7. r.seq <= sn[m.origin]
    BY <1>1, <1>5, <1>6 DEF ReverseRoute, Route, Entries
  <1>8. r \in GoodEntries BY <1>1, <1>4, ReverseRouteGood
  <1> HIDE DEF r
  <1>9. /\ t2 \in Tables /\ t2[m.origin] = r
        /\ \A d \in Nodes \ {m.origin} : t2[d] = t1[d]
    BY <1>1, <1>2, <1>8, StoreGood DEF Tables
  <1>10. Known(t2, sn) BY <1>2, <1>7, <1>9 DEF Known
  <1> HIDE DEF t2
  <1>11. t2[m.from] \in Entries BY <1>1, <1>9 DEF Tables, GoodEntries
  <1>12. ~p.vseq /\ p.seq = m.oseq
    BY <1>11 DEF PreviousHop, Route, Entries
  <1> HIDE DEF p
  <1>13. /\ t3[m.from] = p
         /\ \A d \in Nodes \ {m.from} : t3[d] = t2[d]
    BY <1>1, <1>9 DEF Tables
  <1>14. Known(t3, sn) BY <1>10, <1>12, <1>13 DEF Known
  <1>15. t3[m.origin].seq <= sn[m.origin]
    <2>1. CASE m.origin = m.from BY <2>1, <1>12, <1>13
    <2>2. CASE m.origin # m.from BY <2>2, <1>1, <1>7, <1>9, <1>13
    <2>3. QED BY <2>1, <2>2
  <1>16. QED BY <1>3, <1>14, <1>15

\* RecvReply's forward route is as new as the RREP.
LEMMA ForwardGood ==
  ASSUME NEW n \in Nodes, NEW m \in Rreps, rt[n] \in Tables
  PROVE  /\ Forward(n, m) \in Tables
         /\ \A sn : Known(rt[n], sn) /\ m.dseq <= sn[m.dst]
                       => Known(Forward(n, m), sn)
  <1> DEFINE t == Heard(rt[n], m.from)
             r == Route(TRUE, m.dseq, HopCount(m), m.from)
             u == [t EXCEPT ![m.dst] = r]
  <1>1. /\ m.from \in Nodes /\ m.dst \in Nodes /\ m.dseq \in Nat
        /\ HopCount(m) \in Nat \ {0}
    BY DEF Rreps, HopCount
  <1>2. t \in Tables BY <1>1, HeardGood
  <1>3. \A sn : Known(rt[n], sn) => Known(t, sn) BY <1>1, HeardKnown
  <1>4. Forward(n, m) \in {t, u} BY DEF Forward
  <1> HIDE DEF t
  <1>5. r \in GoodEntries BY <1>1 DEF Route, GoodEntries, Entries, Flags
  <1>6. r.seq = m.dseq BY DEF Route
  <1> HIDE DEF r
  <1>7. /\ u \in Tables /\ u[m.dst] = r
        /\ \A d \in Nodes \ {m.dst} : u[d] = t[d]
    BY <1>1, <1>2, <1>5, StoreGood DEF Tables
  <1> HIDE DEF u
  <1>8. \A sn : Known(t, sn) /\ m.dseq <= sn[m.dst] => Known(u, sn)
    BY <1>6, <1>7 DEF Known
  <1>9. QED BY <1>2, <1>3, <1>4, <1>7, <1>8

\* Relaying a RREP changes precursors only, if its forward route is valid.
LEMMA PrecursorsGood ==
  ASSUME NEW t \in Tables, NEW m \in Rreps
  PROVE  Precursors(t, m) \in Tables /\ SameRoutes(t, Precursors(t, m))
  <1> DEFINE dn == t[m.dst].next
             on == t[m.origin].next
             t1 == WithPrecursor(t, m.dst, on)
             t2 == WithPrecursor(t1, dn, on)
             e == [t[m.origin] EXCEPT !.prec = @ \cup {dn}]
             t3 == [t2 EXCEPT ![m.origin] = e]
             t4 == WithPrecursor(t3, on, dn)
  <1>1. m.dst \in Nodes /\ m.origin \in Nodes BY DEF Rreps
  <1>2. /\ t[m.dst] \in GoodEntries /\ t[m.origin] \in GoodEntries
        /\ dn \in Nodes \cup {NoNode} /\ on \in Nodes \cup {NoNode}
    BY <1>1 DEF Tables, GoodEntries, Entries
  <1>3. CASE t[m.dst].flag # "VALID"
    BY <1>3 DEF Precursors, SameRoutes, SameRoute
  <1>4. CASE t[m.dst].flag = "VALID"
    <2>1. dn \in Nodes BY <1>2, <1>4 DEF GoodEntries
    <2>2. Precursors(t, m) = t4 BY <1>4 DEF Precursors
    <2> HIDE DEF dn, on
    <2>3. t1 \in Tables /\ SameRoutes(t, t1) BY <1>1, <1>2, WithPrecursorGood
    <2> HIDE DEF t1
    <2>4. t2 \in Tables /\ SameRoutes(t1, t2) BY <1>2, <2>1, <2>3, WithPrecursorGood
    <2> HIDE DEF t2
    <2>5. e \in GoodEntries /\ SameRoute(t[m.origin], e)
      BY <1>2, <2>1, PrecursorGood DEF SameRoute
    <2> HIDE DEF e
    <2>6. SameRoutes(t, t2) BY <2>3, <2>4 DEF SameRoutes, SameRoute
    <2>7. /\ t3 \in Tables /\ t3[m.origin] = e
          /\ \A d \in Nodes \ {m.origin} : t3[d] = t2[d]
      BY <1>1, <2>4, <2>5, StoreGood DEF Tables
    <2> HIDE DEF t3
    <2>8. SameRoutes(t, t3) BY <1>1, <2>5, <2>6, <2>7 DEF SameRoutes, SameRoute
    <2>9. t4 \in Tables /\ SameRoutes(t3, t4) BY <1>2, <2>1, <2>7, WithPrecursorGood
    <2> HIDE DEF t4
    <2>10. SameRoutes(t, t4) BY <2>8, <2>9 DEF SameRoutes, SameRoute
    <2>11. QED BY <2>2, <2>9, <2>10
  <1>5. QED BY <1>3, <1>4

LEMMA SameRoutesKnown ==
  ASSUME NEW t, NEW u, NEW sn, SameRoutes(t, u), Known(t, sn)
  PROVE  Known(u, sn)
  BY DEF SameRoutes, SameRoute, Known

\* A relayed RREQ asks for what the RREQ asked for, or for the number the
\* relaying node knows.
LEMMA RelaySent ==
  ASSUME NEW n \in Nodes, NEW m \in Rreqs, NEW e \in GoodEntries
  PROVE  \A x \in Relay(n, m, e) :
           /\ x \in Rreqs /\ x.origin = m.origin /\ x.oseq = m.oseq
           /\ x.id = m.id /\ x.dst = m.dst /\ x.hop = HopCount(m)
           /\ x.from = n
           /\ x.known => \/ m.known /\ x.dseq = m.dseq
                         \/ e.vseq /\ x.dseq = e.seq
  <1> DEFINE q == IF NewEnough(e, m) THEN e.seq ELSE m.dseq
             k == m.known \/ NewEnough(e, m)
             r == [m EXCEPT !.hop = HopCount(m), !.ttl = @ - 1,
                            !.dseq = q, !.known = k]
  <1>1. CASE m.ttl < 2 BY <1>1 DEF Relay
  <1>2. CASE m.ttl >= 2
    <2>1. e.seq \in Nat /\ e.vseq \in BOOLEAN BY DEF GoodEntries, Entries
    <2>2. /\ m.dseq \in Nat /\ m.known \in BOOLEAN /\ HopCount(m) \in Nat
          /\ m.ttl - 1 \in Nat \ {0}
      BY <1>2 DEF Rreqs, HopCount
    <2>3. q \in Nat BY <2>1, <2>2
    <2>4. k \in BOOLEAN BY <2>2 DEF NewEnough
    <2>5. k => (m.known /\ q = m.dseq) \/ (e.vseq /\ q = e.seq)
      BY DEF NewEnough
    <2>6. m.ttl \in Nat BY DEF Rreqs
    <2>7. Relay(n, m, e) = Broadcast(n, r) BY <1>2, <2>6 DEF Relay
    <2> HIDE DEF q, k
    <2>8. /\ r \in Rreqs /\ r.origin = m.origin /\ r.oseq = m.oseq
          /\ r.id = m.id /\ r.dst = m.dst /\ r.dseq = q /\ r.known = k
          /\ r.hop = HopCount(m)
      BY <2>2, <2>3, <2>4 DEF Rreqs
    <2> HIDE DEF r
    <2>9. \A x \in Broadcast(n, r) :
            /\ x \in Rreqs /\ x.origin = r.origin /\ x.oseq = r.oseq
            /\ x.id = r.id /\ x.dst = r.dst /\ x.dseq = r.dseq
            /\ x.known = r.known /\ x.hop = r.hop /\ x.from = n
      BY <2>8, BroadcastRreq
    <2>10. QED BY <2>5, <2>7, <2>8, <2>9
  <1>3. m.ttl \in Nat BY DEF Rreqs
  <1>4. QED BY <1>1, <1>2, <1>3

\* Route errors are well formed.
LEMMA RerrSent ==
  ASSUME NEW n \in Nodes, NEW t, NEW dests \in SUBSET Nodes,
         NEW prec \in SUBSET Nodes
  PROVE  SendRerrMessage(n, t, dests, prec) \subseteq Rerrs
  <1> DEFINE m == [type |-> "RERR", from |-> n, to |-> n, dests |-> dests]
             u == [m EXCEPT !.to = CHOOSE x \in prec : TRUE]
  <1>1. m \in Rerrs BY DEF Rerrs
  <1>2. Broadcast(n, m) \subseteq Rerrs BY <1>1, BroadcastRerr
  <1>3. Unicast(u) \subseteq Rerrs BY UnicastSent, <1>1 DEF Rerrs
  <1>4. QED BY <1>2, <1>3 DEF SendRerrMessage

LEMMA NoRouteRerrSent ==
  ASSUME NEW n \in Nodes, NEW dst \in Nodes, NEW origin
  PROVE  SendRerrWhenNoRouteToForward(n, dst, origin) \subseteq Rerrs
  <1> DEFINE m == [type |-> "RERR", from |-> n, to |-> n, dests |-> {dst}]
             u == [m EXCEPT !.to = rt[n][origin].next]
  <1>1. m \in Rerrs BY DEF Rerrs
  <1>2. Broadcast(n, m) \subseteq Rerrs BY <1>1, BroadcastRerr
  <1>3. Unicast(u) \subseteq Rerrs BY UnicastSent, <1>1 DEF Rerrs
  <1>4. QED BY <1>2, <1>3 DEF SendRerrWhenNoRouteToForward

-----------------------------------------------------------------------------
(* Type correctness, action by action.                                     *)

LEMMA InitInv == Init => IInv
  <1> SUFFICES ASSUME Init PROVE IInv OBVIOUS
  <1>1. [d \in Nodes |-> NoEntry] \in Tables BY NoEntryGood DEF Tables
  <1>2. QED BY <1>1, BoundAssumption DEF Init, IInv

LEMMA SendRequestInv ==
  ASSUME IInv, NEW n \in Nodes, NEW dst \in Nodes, NEW ttl \in Ttls,
         SendRequest(n, dst, ttl)
  PROVE  IInv'
  <1> DEFINE e == rt[n][dst]
             r == [e EXCEPT !.flag = "IN_SEARCH", !.hop = ttl]
             q == [type |-> "RREQ", from |-> n, to |-> n, origin |-> n,
                   id |-> reqId'[n], oseq |-> seqNo'[n], dst |-> dst,
                   dseq |-> IF rt[n][dst].vseq THEN rt[n][dst].seq ELSE 0,
                   known |-> rt[n][dst].vseq, hop |-> 0, ttl |-> ttl]
  <1>1. ttl \in Nat \ {0} BY TtlAssumption
  <1>2. rt \in [Nodes -> Tables] /\ rt[n] \in Tables /\ e \in GoodEntries
    BY DEF IInv, Tables
  <1>3. e \in Entries BY <1>2 DEF GoodEntries
  <1>4. r \in Entries /\ r.flag = "IN_SEARCH" /\ r.hop = ttl
        /\ r.vseq = e.vseq /\ r.next = e.next
    BY <1>1, <1>3 DEF Entries, Flags
  <1>5. rt' = [rt EXCEPT ![n] = [rt[n] EXCEPT ![dst] = r]]
    BY <1>2, <1>3 DEF SendRequest, Tables, Entries
  <1>6. seqNo' \in [Nodes -> Nat] /\ reqId' \in [Nodes -> Nat]
    BY DEF IInv, SendRequest
  <1>7. q \in Rreqs BY <1>1, <1>3, <1>6 DEF Rreqs, Entries
  <1>8. msgs' = msgs \cup Broadcast(n, q) BY DEF SendRequest
  <1> HIDE DEF r, q
  <1>9. r \in GoodEntries BY <1>1, <1>2, <1>4 DEF GoodEntries
  <1>10. [rt[n] EXCEPT ![dst] = r] \in Tables BY <1>2, <1>9, StoreGood
  <1>11. rt' \in [Nodes -> Tables] BY <1>2, <1>5, <1>10
  <1>12. msgs' \subseteq Messages
    BY <1>7, <1>8, BroadcastRreq DEF IInv, Messages
  <1>13. seen' \in [Nodes -> SUBSET (Nodes \X Nat)]
    BY <1>6 DEF IInv, SendRequest, Remembered
  <1>14. QED BY <1>6, <1>11, <1>12, <1>13 DEF IInv, SendRequest

\* A step that stores a table, keeps the bookkeeping and sends messages of the
\* right kinds keeps the invariant.
LEMMA HandlerInv ==
  ASSUME IInv, NEW n \in Nodes, NEW t \in Tables, rt' = [rt EXCEPT ![n] = t],
         msgs' \subseteq msgs \cup Messages,
         UNCHANGED <<reqId, links, hellos>>,
         seqNo' \in [Nodes -> Nat], seen' \in [Nodes -> SUBSET (Nodes \X Nat)],
         faults' \in Nat
  PROVE  IInv'
  BY DEF IInv

\* The destination's reply.
LEMMA SendReplySent ==
  ASSUME IInv, NEW n \in Nodes, NEW m \in Rreqs, NEW t \in Tables,
         t[m.origin].flag # "NONE", SendReply(n, m, t), m.dst = n
  PROVE  /\ seqNo' \in [Nodes -> Nat]
         /\ \A d \in Nodes : seqNo'[d] >= seqNo[d]
         /\ \A x \in msgs' :
              \/ x \in msgs
              \/ /\ x \in Rreps /\ x.dst = n /\ x.dseq = seqNo'[n]
                 /\ x.from = n /\ x.hop = 0
  <1> DEFINE own == IF m.known /\ m.dseq = seqNo[n] + 1 THEN seqNo[n] + 1 ELSE seqNo[n]
             q == [type |-> "RREP", from |-> n, to |-> t[m.origin].next,
                   dst |-> n, dseq |-> own, origin |-> m.origin, hop |-> 0,
                   ttl |-> t[m.origin].hop, ack |-> FALSE]
  <1>1. seqNo \in [Nodes -> Nat] BY DEF IInv
  <1>2. own \in Nat /\ own >= seqNo[n] BY <1>1
  <1>3. /\ seqNo' = [seqNo EXCEPT ![n] = own]
        /\ msgs' = (msgs \ {m}) \cup Unicast(q)
    BY DEF SendReply
  <1> HIDE DEF own
  <1>4. seqNo' \in [Nodes -> Nat] /\ seqNo'[n] = own
        /\ \A d \in Nodes : seqNo'[d] >= seqNo[d]
    BY <1>1, <1>2, <1>3
  <1>5. m.origin \in Nodes /\ t[m.origin] \in GoodEntries BY DEF Rreqs, Tables
  <1>6. t[m.origin].hop \in Nat \ {0} BY <1>5 DEF GoodEntries, Entries
  <1>7. q.to \in Nodes => q \in Rreps BY <1>2, <1>5, <1>6 DEF Rreps
  <1>8. q.dst = n /\ q.dseq = own /\ q.from = n /\ q.hop = 0 OBVIOUS
  <1> HIDE DEF q
  <1>9. \A x \in Unicast(q) :
          x \in Rreps /\ x.dst = n /\ x.dseq = own /\ x.from = n /\ x.hop = 0
    BY <1>7, <1>8, UnicastSent
  <1>10. QED BY <1>3, <1>4, <1>9

\* An intermediate node's reply, and the gratuitous one.
LEMMA ReplyByIntermediateSent ==
  ASSUME IInv, NEW n \in Nodes, NEW m \in Rreqs, NEW t \in Tables,
         NEW toDst \in GoodEntries, toDst.flag = "VALID",
         t[m.origin].flag # "NONE", t[m.origin].next \in Nodes,
         SendReplyByIntermediateNode(n, m, t, toDst)
  PROVE  /\ rt' \in [Nodes -> Tables]
         /\ \E u \in Tables :
              /\ rt' = [rt EXCEPT ![n] = u]
              /\ \A d \in Nodes :
                   SameRoute(t[d], u[d]) \/ (d = m.dst /\ SameRoute(toDst, u[d]))
         /\ \A x \in msgs' :
              \/ x \in msgs
              \/ /\ x \in Rreps /\ x.hop >= 1 /\ x.from = n
                 /\ \/ /\ x.dst = m.dst /\ x.dseq = toDst.seq
                       /\ x.hop = toDst.hop
                    \/ /\ x.dst = m.origin /\ x.dseq = t[m.origin].seq
                       /\ x.hop = t[m.origin].hop
  <1> DEFINE toOrigin == t[m.origin]
             dstIn == [toDst EXCEPT !.prec = @ \cup {toOrigin.next}]
             orgIn == [toOrigin EXCEPT !.prec = @ \cup {toDst.next}]
             t1 == IF t[m.dst].flag # "NONE" THEN [t EXCEPT ![m.dst] = dstIn] ELSE t
             u == [t1 EXCEPT ![m.origin] = orgIn]
             q == [type |-> "RREP", from |-> n, to |-> toOrigin.next,
                   dst |-> m.dst, dseq |-> toDst.seq, origin |-> m.origin,
                   hop |-> toDst.hop, ttl |-> toOrigin.hop, ack |-> toDst.hop = 1]
             g == [type |-> "RREP", from |-> n, to |-> toDst.next,
                   dst |-> m.origin, dseq |-> toOrigin.seq, origin |-> m.dst,
                   hop |-> toOrigin.hop, ttl |-> toDst.hop, ack |-> FALSE]
  <1>1. m.origin \in Nodes /\ m.dst \in Nodes BY DEF Rreqs
  <1>2. /\ toOrigin \in GoodEntries /\ toDst.next \in Nodes
        /\ toOrigin.hop \in Nat \ {0} /\ toDst.hop \in Nat \ {0}
        /\ toOrigin.seq \in Nat /\ toDst.seq \in Nat
    BY <1>1 DEF Tables, GoodEntries, Entries
  <1>3. /\ rt' = [rt EXCEPT ![n] = u]
        /\ msgs' \subseteq msgs \cup Unicast(q) \cup Unicast(g)
    BY DEF SendReplyByIntermediateNode
  <1>4. q \in Rreps /\ g \in Rreps BY <1>1, <1>2 DEF Rreps
  <1>5. /\ q.dst = m.dst /\ q.dseq = toDst.seq
        /\ g.dst = m.origin /\ g.dseq = toOrigin.seq
        /\ q.hop = toDst.hop /\ g.hop = toOrigin.hop
        /\ q.from = n /\ g.from = n
    OBVIOUS
  <1> HIDE DEF q, g
  <1>6. \A x \in msgs' :
          \/ x \in msgs
          \/ /\ x \in Rreps /\ x.hop >= 1 /\ x.from = n
             /\ \/ /\ x.dst = m.dst /\ x.dseq = toDst.seq
                   /\ x.hop = toDst.hop
                \/ /\ x.dst = m.origin /\ x.dseq = toOrigin.seq
                   /\ x.hop = toOrigin.hop
    BY <1>2, <1>3, <1>4, <1>5, UnicastSent
  <1>7. /\ dstIn \in GoodEntries /\ SameRoute(toDst, dstIn)
        /\ orgIn \in GoodEntries /\ SameRoute(toOrigin, orgIn)
    BY <1>2, PrecursorGood DEF SameRoute
  <1> HIDE DEF dstIn, orgIn
  <1>8. t1 \in Tables BY <1>1, <1>7, StoreGood
  <1>9. \A d \in Nodes : t1[d] = t[d] \/ (d = m.dst /\ t1[d] = dstIn)
    BY <1>1, <1>8 DEF Tables
  <1> HIDE DEF t1
  <1>10. u \in Tables BY <1>1, <1>7, <1>8, StoreGood
  <1>11. \A d \in Nodes : u[d] = t1[d] \/ (d = m.origin /\ u[d] = orgIn)
    BY <1>1, <1>8 DEF Tables
  <1> HIDE DEF u
  <1>12. \A d \in Nodes :
           SameRoute(t[d], u[d]) \/ (d = m.dst /\ SameRoute(toDst, u[d]))
    BY <1>7, <1>9, <1>11 DEF SameRoute
  <1>13. rt' \in [Nodes -> Tables] BY <1>3, <1>10 DEF IInv
  <1>14. QED BY <1>3, <1>6, <1>10, <1>12, <1>13

LEMMA FalseRouteGood ==
  ASSUME NEW m \in Rreqs
  PROVE  FalseRoute(m) \in GoodEntries /\ FalseRoute(m).flag = "VALID"
  BY DEF FalseRoute, Route, Rreqs, GoodEntries, Entries, Flags

LEMMA RecvRequestInv ==
  ASSUME IInv, NEW m \in msgs, RecvRequest(m)
  PROVE  IInv'
  <1> DEFINE n == m.to
             t == Reversed(n, m)
             e == t[m.dst]
  <1>1. m \in Messages /\ m.type = "RREQ" BY DEF IInv, RecvRequest
  <1>2. m \in Rreqs /\ n \in Nodes /\ m.from \in Nodes BY <1>1, MessageKinds
  <1>3. m.origin \in Nodes /\ m.dst \in Nodes /\ m.id \in Nat BY <1>2 DEF Rreqs
  <1>4. rt[n] \in Tables BY <1>2 DEF IInv
  <1>5. t \in Tables /\ t[m.origin].flag # "NONE" /\ t[m.origin].next \in Nodes
    BY <1>2, <1>4, ReversedGood
  <1>6. e \in GoodEntries BY <1>3, <1>5 DEF Tables
  <1>7. UNCHANGED <<reqId, links, hellos, faults>> BY DEF RecvRequest
  <1>8. [seen EXCEPT ![n] = @ \cup {<<m.origin, m.id>>}]
          \in [Nodes -> SUBSET (Nodes \X Nat)]
    BY <1>2, <1>3 DEF IInv
  <1>9. CASE IsDuplicate(n, m)
    <2>1. /\ rt' = [rt EXCEPT ![n] = Heard(rt[n], m.from)]
          /\ msgs' = msgs \ {m} /\ UNCHANGED <<seqNo, seen>>
      BY <1>2, <1>9 DEF RecvRequest, IInv
    <2>2. Heard(rt[n], m.from) \in Tables BY <1>2, <1>4, HeardGood
    <2> HIDE DEF n, t
    <2>3. QED BY <1>2, <1>7, <2>1, <2>2, HandlerInv DEF IInv
  <1>10. CASE ~IsDuplicate(n, m)
    <2>1. seen' = [seen EXCEPT ![n] = @ \cup {<<m.origin, m.id>>}]
      BY <1>10 DEF RecvRequest
    <2>2. CASE m.dst = n /\ SendReply(n, m, t)
      <3>1. rt' = [rt EXCEPT ![n] = t] BY <2>2 DEF SendReply
      <3> HIDE DEF t, n
      <3>2. /\ seqNo' \in [Nodes -> Nat]
            /\ \A x \in msgs' : x \in msgs \/ x \in Rreps
        BY <1>2, <1>5, <2>2, SendReplySent
      <3>3. msgs' \subseteq msgs \cup Messages BY <3>2 DEF Messages
      <3>4. QED BY <1>2, <1>5, <1>7, <1>8, <2>1, <3>1, <3>2, <3>3, HandlerInv DEF IInv
    <2>3. ASSUME NEW d \in GoodEntries, d.flag = "VALID",
                 SendReplyByIntermediateNode(n, m, t, d)
          PROVE  IInv'
      <3>1. UNCHANGED seqNo BY <2>3 DEF SendReplyByIntermediateNode
      <3> HIDE DEF t, n
      <3>2. /\ \E u \in Tables : rt' = [rt EXCEPT ![n] = u]
            /\ \A x \in msgs' : x \in msgs \/ x \in Rreps
        BY <1>2, <1>5, <2>3, ReplyByIntermediateSent
      <3>3. msgs' \subseteq msgs \cup Messages BY <3>2 DEF Messages
      <3>4. QED BY <1>2, <1>7, <1>8, <2>1, <3>1, <3>2, <3>3, HandlerInv DEF IInv
    <2>4. CASE SendReplyByIntermediateNode(n, m, t, FalseRoute(m))
      BY <1>2, <2>3, <2>4, FalseRouteGood
    <2>5. CASE e.flag = "VALID" /\ SendReplyByIntermediateNode(n, m, t, e)
      BY <1>6, <2>3, <2>5
    <2>6. CASE /\ rt' = [rt EXCEPT ![n] = t] /\ UNCHANGED seqNo
               /\ msgs' \subseteq msgs \cup Relay(n, m, e)
      <3>1. Relay(n, m, e) \subseteq Rreqs BY <1>2, <1>6, RelaySent
      <3>2. msgs' \subseteq msgs \cup Messages BY <2>6, <3>1 DEF Messages
      <3> HIDE DEF t, n, e
      <3>3. QED BY <1>2, <1>5, <1>7, <1>8, <2>1, <2>6, <3>2, HandlerInv DEF IInv
    <2>7. \/ m.dst = n /\ SendReply(n, m, t)
          \/ SendReplyByIntermediateNode(n, m, t, FalseRoute(m))
          \/ e.flag = "VALID" /\ SendReplyByIntermediateNode(n, m, t, e)
          \/ /\ rt' = [rt EXCEPT ![n] = t] /\ UNCHANGED seqNo
             /\ msgs' \subseteq msgs \cup Relay(n, m, e)
      BY <1>10 DEF RecvRequest
    <2>8. QED BY <2>2, <2>4, <2>5, <2>6, <2>7
  <1>11. QED BY <1>9, <1>10

LEMMA RecvReplyInv ==
  ASSUME IInv, NEW m \in msgs, RecvReply(m)
  PROVE  IInv'
  <1> DEFINE n == m.to
             t == Forward(n, m)
             u == Precursors(t, m)
             nx == t[m.origin].next
             r == [m EXCEPT !.from = n, !.to = nx,
                            !.hop = HopCount(m), !.ttl = @ - 1, !.ack = FALSE]
             a == [type |-> "RREP_ACK", from |-> n, to |-> m.from]
  <1>1. m \in Messages /\ m.type = "RREP" BY DEF IInv, RecvReply
  <1>2. m \in Rreps /\ n \in Nodes /\ m.from \in Nodes BY <1>1, MessageKinds
  <1>3. rt[n] \in Tables BY <1>2 DEF IInv
  <1>4. t \in Tables BY <1>2, <1>3, ForwardGood
  <1>5. u \in Tables BY <1>2, <1>4, PrecursorsGood
  <1>6. m.ttl \in Nat /\ HopCount(m) \in Nat BY <1>2 DEF Rreps, HopCount
  <1>7. a \in Acks BY <1>2 DEF Acks
  <1>8. /\ rt' = [rt EXCEPT ![n] = t] \/ rt' = [rt EXCEPT ![n] = u]
        /\ UNCHANGED <<seqNo, reqId, seen, links, hellos, faults>>
    BY DEF RecvReply
  <1>9. \/ msgs' \subseteq msgs \cup Unicast(a)
        \/ m.ttl >= 2 /\ msgs' \subseteq msgs \cup Unicast(a) \cup Unicast(r)
    <2> DEFINE done == m.origin = n \/ Unroutable(n, m)
               ack == IF m.ack THEN Unicast(a) ELSE {}
               passed == IF done \/ m.ttl < 2 THEN {} ELSE Unicast(r)
    <2>1. msgs' = (msgs \ {m}) \cup ack \cup passed BY DEF RecvReply
    <2>2. ack \subseteq Unicast(a) OBVIOUS
    <2>3. passed = {} \/ (m.ttl >= 2 /\ passed = Unicast(r)) BY <1>6
    <2> HIDE DEF ack, passed, a, r
    <2>4. QED BY <2>1, <2>2, <2>3
  <1> HIDE DEF n, t, u, a, nx
  <1>10. r.to = nx BY <1>2 DEF Rreps
  <1>11. m.ttl >= 2 /\ nx \in Nodes => r \in Rreps
    <2> SUFFICES ASSUME m.ttl >= 2, nx \in Nodes PROVE r \in Rreps OBVIOUS
    <2>1. m.ttl - 1 \in Nat \ {0} BY <1>6
    <2>2. QED BY <1>2, <1>6, <2>1 DEF Rreps
  <1> HIDE DEF r
  <1>12. msgs' \subseteq msgs \cup Messages
    BY <1>7, <1>9, <1>10, <1>11, UnicastSent DEF Messages
  <1>13. QED BY <1>2, <1>4, <1>5, <1>8, <1>12, HandlerInv DEF IInv

LEMMA ProcessHelloInv ==
  ASSUME IInv, NEW m \in msgs, ProcessHello(m)
  PROVE  IInv'
  <1> DEFINE n == m.to
             t == Heard(rt[n], m.from)
             e == t[m.dst]
             u == [e EXCEPT !.flag = "VALID", !.vseq = TRUE, !.seq = m.dseq,
                            !.hop = 1, !.next = m.dst]
             r == IF e.flag = "NONE" THEN Route(TRUE, m.dseq, 1, m.dst) ELSE u
  <1>1. m \in Messages /\ m.type = "RREP" BY DEF IInv, ProcessHello
  <1>2. m \in Rreps /\ n \in Nodes /\ m.from \in Nodes BY <1>1, MessageKinds
  <1>3. m.dst \in Nodes /\ m.dseq \in Nat BY <1>2 DEF Rreps
  <1>4. t \in Tables BY <1>2, HeardGood DEF IInv
  <1>5. rt' = [rt EXCEPT ![n] = [t EXCEPT ![m.dst] = r]]
    BY <1>3, <1>4 DEF ProcessHello, Tables
  <1> HIDE DEF t, n
  <1>6. e \in Entries BY <1>3, <1>4 DEF Tables, GoodEntries
  <1> HIDE DEF e
  <1>7. u \in GoodEntries
    <2>1. u \in Entries BY <1>3, <1>6 DEF Entries, Flags
    <2>2. u.hop = 1 /\ u.next = m.dst BY <1>6 DEF Entries
    <2> HIDE DEF u
    <2>3. QED BY <1>3, <2>1, <2>2 DEF GoodEntries
  <1>8. Route(TRUE, m.dseq, 1, m.dst) \in GoodEntries
    BY <1>3 DEF Route, GoodEntries, Entries, Flags
  <1>9. r \in GoodEntries BY <1>7, <1>8
  <1> HIDE DEF r
  <1>10. [t EXCEPT ![m.dst] = r] \in Tables BY <1>3, <1>4, <1>9, StoreGood
  <1>11. msgs' \subseteq msgs /\ UNCHANGED <<seqNo, reqId, seen, links, hellos, faults>>
    BY DEF ProcessHello
  <1>12. QED BY <1>2, <1>5, <1>10, <1>11, HandlerInv DEF IInv

LEMMA RecvReplyAckInv ==
  ASSUME IInv, NEW m \in msgs, RecvReplyAck(m)
  PROVE  IInv'
  <1> DEFINE n == m.to
             t == Heard(rt[n], m.from)
             e == t[m.from]
             r == [e EXCEPT !.flag = "VALID"]
  <1>1. m \in Messages BY DEF IInv
  <1>2. n \in Nodes /\ m.from \in Nodes BY <1>1, MessageKinds
  <1>3. t \in Tables /\ e.flag # "NONE" /\ e.hop = 1 /\ e.next \in Nodes
    BY <1>2, HeardGood DEF IInv
  <1>4. rt' = [rt EXCEPT ![n] = [t EXCEPT ![m.from] = r]]
    BY <1>2, <1>3 DEF RecvReplyAck, Tables, IInv
  <1> HIDE DEF t, n
  <1>5. e \in Entries BY <1>2, <1>3 DEF Tables, GoodEntries
  <1> HIDE DEF e
  <1>6. r \in GoodEntries BY <1>3, <1>5 DEF GoodEntries, Entries, Flags
  <1> HIDE DEF r
  <1>7. [t EXCEPT ![m.from] = r] \in Tables BY <1>2, <1>3, <1>6, StoreGood
  <1>8. msgs' \subseteq msgs /\ UNCHANGED <<seqNo, reqId, seen, links, hellos, faults>>
    BY DEF RecvReplyAck
  <1>9. QED BY <1>2, <1>4, <1>7, <1>8, HandlerInv DEF IInv

LEMMA RecvErrorInv ==
  ASSUME IInv, NEW m \in msgs, RecvError(m)
  PROVE  IInv'
  <1> DEFINE n == m.to
             t == Heard(rt[n], m.from)
             S == m.dests \cap Via(t, m.from)
             prec == UNION {t[d].prec : d \in S}
  <1>1. m \in Messages BY DEF IInv
  <1>2. n \in Nodes /\ m.from \in Nodes BY <1>1, MessageKinds
  <1>3. t \in Tables BY <1>2, HeardGood DEF IInv
  <1>4. S \in SUBSET Nodes BY DEF Via
  <1>5. prec \in SUBSET Nodes BY <1>3, <1>4 DEF Tables, GoodEntries, Entries
  <1>6. Invalidated(t, S) \in Tables BY <1>3, InvalidatedGood
  <1>7. /\ rt' = [rt EXCEPT ![n] = Invalidated(t, S)]
        /\ msgs' \subseteq msgs \cup SendRerrMessage(n, t, S, prec)
        /\ UNCHANGED <<seqNo, reqId, seen, links, hellos, faults>>
    BY DEF RecvError
  <1> HIDE DEF n, t, S, prec
  <1>8. msgs' \subseteq msgs \cup Messages
    BY <1>2, <1>4, <1>5, <1>7, RerrSent DEF Messages
  <1>9. QED BY <1>2, <1>6, <1>7, <1>8, HandlerInv DEF IInv

LEMMA SendRerrWhenBreaksLinkToNextHopInv ==
  ASSUME IInv, NEW n \in Nodes, NEW x \in Nodes,
         SendRerrWhenBreaksLinkToNextHop(n, x)
  PROVE  IInv'
  <1> DEFINE t == rt[n]
             S == {x} \cup Via(t, x)
             prec == UNION {t[d].prec : d \in S}
  <1>1. t \in Tables BY DEF IInv
  <1>2. S \in SUBSET Nodes BY DEF Via
  <1>3. prec \in SUBSET Nodes BY <1>1, <1>2 DEF Tables, GoodEntries, Entries
  <1>4. Invalidated(t, S) \in Tables BY <1>1, InvalidatedGood
  <1>5. /\ rt' = [rt EXCEPT ![n] = Invalidated(t, S)]
        /\ msgs' = msgs \cup SendRerrMessage(n, t, S, prec)
        /\ UNCHANGED <<seqNo, reqId, seen, links, hellos>>
    BY DEF SendRerrWhenBreaksLinkToNextHop
  <1>6. faults' \in Nat BY DEF SendRerrWhenBreaksLinkToNextHop, IInv
  <1> HIDE DEF t, S, prec
  <1>7. msgs' \subseteq msgs \cup Messages
    BY <1>2, <1>3, <1>5, RerrSent DEF Messages
  <1>8. QED BY <1>4, <1>5, <1>6, <1>7, HandlerInv DEF IInv

LEMMA RouteInputInv ==
  ASSUME IInv, NEW m \in msgs, RouteInput(m)
  PROVE  IInv'
  <1> DEFINE n == m.to
             u == [m EXCEPT !.from = n, !.to = rt[n][m.dst].next]
             E == SendRerrWhenNoRouteToForward(n, m.dst, m.origin)
  <1>1. m \in Messages /\ m.type = "DATA" BY DEF IInv, RouteInput
  <1>2. m \in Datas /\ n \in Nodes BY <1>1, MessageKinds
  <1>3. u.to \in Nodes => u \in Datas BY <1>2 DEF Datas
  <1>4. E \subseteq Rerrs BY <1>2, NoRouteRerrSent DEF Datas
  <1>5. /\ UNCHANGED <<rt, seqNo, reqId, seen, links, hellos, faults>>
        /\ msgs' \subseteq msgs \cup Unicast(u) \cup E
    BY DEF RouteInput
  <1> HIDE DEF u, E
  <1>6. msgs' \subseteq Messages
    BY <1>3, <1>4, <1>5, UnicastSent DEF Messages, IInv
  <1>7. QED BY <1>5, <1>6 DEF IInv

LEMMA PurgeInv ==
  ASSUME IInv, NEW n \in Nodes, NEW d \in Nodes, Purge(n, d) \/ GiveUp(n, d)
  PROVE  IInv'
  <1> DEFINE e == rt[n][d]
             r == [e EXCEPT !.flag = "INVALID"]
  <1>1. rt[n] \in Tables /\ e \in GoodEntries BY DEF IInv, Tables
  <1>2. e \in Entries BY <1>1 DEF GoodEntries
  <1>3. e.flag = "VALID" => r \in GoodEntries
    BY <1>1, <1>2 DEF GoodEntries, Entries, Flags
  <1>4. \/ e.flag = "VALID" /\ rt' = [rt EXCEPT ![n] = [rt[n] EXCEPT ![d] = r]]
        \/ rt' = [rt EXCEPT ![n] = [rt[n] EXCEPT ![d] = NoEntry]]
    BY <1>1, <1>2 DEF Purge, GiveUp, IInv, Tables, Entries
  <1>5. /\ UNCHANGED <<seqNo, reqId, seen, msgs, links, hellos>>
        /\ faults' \in Nat
    BY DEF Purge, GiveUp, IInv
  <1> HIDE DEF r
  <1>6. \E t \in Tables : rt' = [rt EXCEPT ![n] = t]
    BY <1>1, <1>3, <1>4, NoEntryGood, StoreGood
  <1>7. QED BY <1>5, <1>6, HandlerInv DEF IInv

LEMMA SendDataInv ==
  ASSUME IInv, NEW n \in Nodes, NEW d \in Nodes, SendData(n, d)
  PROVE  IInv'
  <1> DEFINE m == [type |-> "DATA", from |-> n, to |-> rt[n][d].next,
                   origin |-> n, dst |-> d]
  <1>1. m.to \in Nodes => m \in Datas BY DEF Datas
  <1>2. /\ UNCHANGED <<rt, seqNo, reqId, seen, links, hellos, faults>>
        /\ msgs' = msgs \cup Unicast(m)
    BY DEF SendData
  <1> HIDE DEF m
  <1>3. QED BY <1>1, <1>2, UnicastSent DEF IInv, Messages

LEMMA SendHelloInv ==
  ASSUME IInv, NEW n \in Nodes, SendHello(n)
  PROVE  IInv'
  <1> DEFINE m == [type |-> "RREP", from |-> n, to |-> n, dst |-> n,
                   dseq |-> seqNo[n], origin |-> n, hop |-> 0, ttl |-> 1,
                   ack |-> FALSE]
  <1>1. m \in Rreps BY DEF Rreps, IInv
  <1>2. /\ UNCHANGED <<rt, seqNo, reqId, seen, links, faults>>
        /\ hellos' = [hellos EXCEPT ![n] = @ + 1]
        /\ msgs' = msgs \cup Broadcast(n, m)
    BY DEF SendHello
  <1> HIDE DEF m
  <1>3. QED BY <1>1, <1>2, BroadcastRrep DEF IInv, Messages

LEMMA NextInv == IInv /\ [Next]_vars => IInv'
  <1> SUFFICES ASSUME IInv, [Next]_vars PROVE IInv' OBVIOUS
  <1>1. ASSUME NEW n \in Nodes, NEW d \in Nodes, NEW ttl \in Ttls,
               SendRequest(n, d, ttl)
        PROVE  IInv'
    BY <1>1, SendRequestInv
  <1>2. ASSUME NEW type \in Types, NEW n \in Nodes, Receive(type, n) PROVE IInv'
    BY <1>2, RecvRequestInv, RecvReplyInv, ProcessHelloInv, RecvReplyAckInv,
       RecvErrorInv, RouteInputInv DEF Receive
  <1>3. ASSUME NEW n \in Nodes, NEW d \in Nodes,
               \/ SendRerrWhenBreaksLinkToNextHop(n, d)
               \/ Purge(n, d) \/ GiveUp(n, d) \/ SendData(n, d)
        PROVE  IInv'
    BY <1>3, SendRerrWhenBreaksLinkToNextHopInv, PurgeInv, SendDataInv
  <1>4. ASSUME NEW n \in Nodes, SendHello(n) PROVE IInv' BY <1>4, SendHelloInv
  <1>5. ASSUME NEW l \in Links, LoseLink(l) PROVE IInv'
    BY <1>5 DEF LoseLink, IInv
  <1>6. CASE UNCHANGED vars BY <1>6 DEF vars, IInv
  <1>7. CASE \E n \in Nodes : RerrRateLimitTimerExpire(n)
    BY <1>7 DEF RerrRateLimitTimerExpire, IInv
  <1>8. QED BY <1>1, <1>2, <1>3, <1>4, <1>5, <1>6, <1>7 DEF Next

LEMMA Invariance == Spec => []IInv
  BY InitInv, NextInv, PTL DEF Spec

\* A RERR is counted below the limit only.
LEMMA NextRate == RateInv /\ [Next]_vars => RateInv'
  <1> SUFFICES ASSUME RateInv, [Next]_vars PROVE RateInv' OBVIOUS
  <1>1. ASSUME NEW n \in Nodes, NEW t, NEW prec,
               rerrCount' = RerrCounted(n, t, prec)
        PROVE  RateInv'
    BY <1>1, RateAssumption DEF RerrCounted, RerrLimited, RateInv
  <1>2. ASSUME NEW type \in Types, NEW n \in Nodes, Receive(type, n)
        PROVE  RateInv'
    <2>1. PICK m \in msgs :
            /\ m.to = n
            /\ \/ RecvRequest(m) \/ RecvReply(m) \/ ProcessHello(m)
               \/ RecvReplyAck(m) \/ RecvError(m) \/ RouteInput(m)
      BY <1>2 DEF Receive
    <2>2. CASE RecvError(m)
      BY <1>1, <2>1, <2>2 DEF RecvError
    <2>3. CASE ~RecvError(m)
      BY <2>1, <2>3 DEF RecvRequest, RecvReply, ProcessHello, RecvReplyAck,
         RouteInput, RateInv
    <2>4. QED BY <2>2, <2>3
  <1>3. ASSUME NEW n \in Nodes, NEW d \in Nodes,
               SendRerrWhenBreaksLinkToNextHop(n, d)
        PROVE  RateInv'
    BY <1>1, <1>3 DEF SendRerrWhenBreaksLinkToNextHop
  <1>4. ASSUME NEW n \in Nodes, RerrRateLimitTimerExpire(n) PROVE RateInv'
    BY <1>4, RateAssumption DEF RerrRateLimitTimerExpire, RateInv
  <1>5. CASE \/ \E n, d \in Nodes, ttl \in Ttls : SendRequest(n, d, ttl)
             \/ \E n, d \in Nodes : Purge(n, d) \/ GiveUp(n, d) \/ SendData(n, d)
             \/ \E n \in Nodes : SendHello(n)
             \/ \E l \in Links : LoseLink(l)
             \/ UNCHANGED vars
    BY <1>5 DEF SendRequest, Purge, GiveUp, SendData, SendHello, LoseLink, vars,
       RateInv
  <1>6. QED BY <1>2, <1>3, <1>4, <1>5 DEF Next

LEMMA RateInvariance == Spec => []RateInv
  <1>1. Init => RateInv BY RateAssumption DEF Init, RateInv
  <1>2. QED BY <1>1, NextRate, PTL DEF Spec

\* TypeOK holds in every reachable state of every network: in particular every
\* message in flight has a positive TTL and goes to a node, and no node is past
\* its RERR rate limit.
THEOREM TypeCorrect == Spec => []TypeOK
  <1>1. IInv /\ RateInv => TypeOK BY InvType
  <1>2. QED BY <1>1, Invariance, RateInvariance, PTL

-----------------------------------------------------------------------------
(* Sequence numbers.                                                       *)

\* What message x claims is not ahead of the owners' numbers.
Claims(x, sn) ==
  /\ x.type = "RREQ" => /\ x.oseq <= sn[x.origin]
                        /\ x.known => x.dseq <= sn[x.dst]
  /\ x.type = "RREP" => x.dseq <= sn[x.dst]

SInv == /\ \A n \in Nodes : Known(rt[n], seqNo)
        /\ \A x \in msgs : Claims(x, seqNo)

LEMMA SInvMeaning == SInv <=> SeqNoNotAhead
  BY DEF SInv, Known, Claims, SeqNoNotAhead, EntryNotAhead, MessageNotAhead

\* A step that raises numbers only, stores a table that is not ahead and sends
\* messages that are not ahead keeps the invariant.
LEMMA HandlerSInv ==
  ASSUME IInv, SInv, seqNo' \in [Nodes -> Nat],
         \A d \in Nodes : seqNo'[d] >= seqNo[d],
         \A n \in Nodes : rt'[n] = rt[n] \/ Known(rt'[n], seqNo'),
         \A x \in msgs' : x \in msgs \/ Claims(x, seqNo')
  PROVE  SInv'
  <1>1. seqNo \in [Nodes -> Nat] BY DEF IInv
  <1>2. ASSUME NEW n \in Nodes PROVE Known(rt'[n], seqNo')
    <2>1. CASE rt'[n] = rt[n]
      <3>1. Known(rt[n], seqNo) BY DEF SInv
      <3>2. \A d \in Nodes : rt[n][d].seq \in Nat
        BY DEF IInv, Tables, GoodEntries, Entries
      <3>3. QED BY <1>1, <2>1, <3>1, <3>2 DEF Known
    <2>2. QED BY <2>1
  <1>3. ASSUME NEW x \in msgs' PROVE Claims(x, seqNo')
    <2>1. CASE x \in msgs
      <3>1. Claims(x, seqNo) BY <2>1 DEF SInv
      <3>2. x \in Messages BY <2>1 DEF IInv
      <3>3. CASE x.type = "RREQ"
        <4>1. x \in Rreqs BY <3>2, <3>3, MessageKinds
        <4>2. x.origin \in Nodes /\ x.dst \in Nodes /\ x.oseq \in Nat
              /\ x.dseq \in Nat
          BY <4>1 DEF Rreqs
        <4>3. QED BY <1>1, <3>1, <3>3, <4>2 DEF Claims
      <3>4. CASE x.type = "RREP"
        <4>1. x \in Rreps BY <3>2, <3>4, MessageKinds
        <4>2. x.dst \in Nodes /\ x.dseq \in Nat BY <4>1 DEF Rreps
        <4>3. QED BY <1>1, <3>1, <3>4, <4>2 DEF Claims
      <3>5. QED BY <3>3, <3>4 DEF Claims
    <2>2. QED BY <1>3, <2>1
  <1>4. QED BY <1>2, <1>3 DEF SInv

\* Messages of the other kinds claim no number.
LEMMA OtherClaims ==
  ASSUME NEW x \in Acks \cup Rerrs \cup Datas, NEW sn
  PROVE  Claims(x, sn)
  BY DEF Claims, Acks, Rerrs, Datas

LEMMA RrepClaims ==
  ASSUME NEW x \in Rreps, NEW sn, x.dseq <= sn[x.dst]
  PROVE  Claims(x, sn)
  BY DEF Claims, Rreps

LEMMA RreqClaims ==
  ASSUME NEW x \in Rreqs, NEW sn, x.oseq <= sn[x.origin],
         x.known => x.dseq <= sn[x.dst]
  PROVE  Claims(x, sn)
  BY DEF Claims, Rreqs

LEMMA SendRequestSInv ==
  ASSUME IInv, SInv, NEW n \in Nodes, NEW dst \in Nodes, NEW ttl \in Ttls,
         SendRequest(n, dst, ttl)
  PROVE  SInv'
  <1> DEFINE e == rt[n][dst]
             q == [type |-> "RREQ", from |-> n, to |-> n, origin |-> n,
                   id |-> reqId'[n], oseq |-> seqNo'[n], dst |-> dst,
                   dseq |-> IF rt[n][dst].vseq THEN rt[n][dst].seq ELSE 0,
                   known |-> rt[n][dst].vseq, hop |-> 0, ttl |-> ttl]
  <1>1. /\ seqNo' \in [Nodes -> Nat] /\ reqId' \in [Nodes -> Nat]
        /\ \A d \in Nodes : seqNo'[d] >= seqNo[d] /\ seqNo'[d] \in Nat
    BY DEF IInv, SendRequest
  <1>2. rt \in [Nodes -> Tables] /\ rt[n] \in Tables BY DEF IInv
  <1>3. e \in Entries BY <1>2 DEF Tables, GoodEntries
  <1>4. Known(rt[n], seqNo) BY DEF SInv
  <1>5. \A d \in Nodes : rt'[n][d].vseq = rt[n][d].vseq /\ rt'[n][d].seq = rt[n][d].seq
    BY <1>2, <1>3 DEF SendRequest, Tables, Entries
  <1>6. \A x \in Nodes \ {n} : rt'[x] = rt[x] BY <1>2 DEF SendRequest
  <1>7. \A d \in Nodes : rt[n][d].seq \in Nat /\ seqNo[d] \in Nat
    BY <1>2 DEF Tables, GoodEntries, Entries, IInv
  <1>8. Known(rt'[n], seqNo') BY <1>1, <1>4, <1>5, <1>7 DEF Known
  <1>9. q \in Rreqs BY <1>1, <1>3, TtlAssumption DEF Rreqs, Entries
  <1>10. q.known => q.dseq = e.seq /\ e.vseq OBVIOUS
  <1>11. q.origin = n /\ q.oseq = seqNo'[n] /\ q.dst = dst OBVIOUS
  <1>12. msgs' = msgs \cup Broadcast(n, q) BY DEF SendRequest
  <1> HIDE DEF q
  <1>13. q.known => q.dseq <= seqNo'[dst]
    BY <1>1, <1>4, <1>7, <1>10 DEF Known
  <1>14. \A x \in Broadcast(n, q) : Claims(x, seqNo')
    <2> SUFFICES ASSUME NEW x \in Broadcast(n, q) PROVE Claims(x, seqNo') OBVIOUS
    <2>1. /\ x \in Rreqs /\ x.origin = n /\ x.oseq = seqNo'[n]
          /\ x.dst = dst /\ x.dseq = q.dseq /\ x.known = q.known
      BY <1>9, <1>11, BroadcastRreq
    <2>2. x.oseq <= seqNo'[x.origin] BY <1>1, <2>1
    <2>3. QED BY <1>13, <2>1, <2>2, RreqClaims
  <1>15. QED BY <1>1, <1>6, <1>8, <1>12, <1>14, HandlerSInv

\* Only honest nodes: a malicious one forges numbers on purpose.
LEMMA RecvRequestSInv ==
  ASSUME Malicious = {}, IInv, SInv, NEW m \in msgs, RecvRequest(m)
  PROVE  SInv'
  <1> DEFINE n == m.to
             t == Reversed(n, m)
             e == t[m.dst]
  <1>1. m \in Messages /\ m.type = "RREQ" BY DEF IInv, RecvRequest
  <1>2. m \in Rreqs /\ n \in Nodes /\ m.from \in Nodes BY <1>1, MessageKinds
  <1>3. m.origin \in Nodes /\ m.dst \in Nodes BY <1>2 DEF Rreqs
  <1>4. rt[n] \in Tables /\ seqNo \in [Nodes -> Nat] BY <1>2 DEF IInv
  <1>5. Known(rt[n], seqNo) /\ Claims(m, seqNo) BY <1>2 DEF SInv
  <1>6. m.oseq <= seqNo[m.origin] /\ (m.known => m.dseq <= seqNo[m.dst])
    BY <1>1, <1>5 DEF Claims
  <1>7. t \in Tables /\ t[m.origin].flag # "NONE" /\ t[m.origin].next \in Nodes
    BY <1>2, <1>4, ReversedGood
  <1>8. Known(t, seqNo) /\ t[m.origin].seq <= seqNo[m.origin]
    BY <1>2, <1>4, <1>5, <1>6, ReversedKnown
  <1>9. e \in GoodEntries /\ (e.vseq => e.seq <= seqNo[m.dst])
    BY <1>3, <1>7, <1>8 DEF Tables, Known
  <1>10. \A d \in Nodes : seqNo[d] \in Nat BY <1>4
  <1>11. CASE IsDuplicate(n, m)
    <2>1. /\ rt' = [rt EXCEPT ![n] = Heard(rt[n], m.from)]
          /\ msgs' = msgs \ {m} /\ UNCHANGED seqNo
      BY <1>2, <1>11 DEF RecvRequest, IInv
    <2>2. Known(Heard(rt[n], m.from), seqNo) BY <1>2, <1>4, <1>5, HeardKnown
    <2>3. \A x \in Nodes : rt'[x] = rt[x] \/ Known(rt'[x], seqNo')
      BY <1>2, <2>1, <2>2 DEF IInv
    <2>4. QED BY <1>4, <1>10, <2>1, <2>3, HandlerSInv
  <1>12. CASE ~IsDuplicate(n, m)
    <2>1. CASE m.dst = n /\ SendReply(n, m, t)
      <3>1. rt' = [rt EXCEPT ![n] = t] BY <2>1 DEF SendReply
      <3> HIDE DEF t, n
      <3>2. /\ seqNo' \in [Nodes -> Nat] /\ \A d \in Nodes : seqNo'[d] >= seqNo[d]
            /\ \A x \in msgs' :
                 \/ x \in msgs
                 \/ x \in Rreps /\ x.dst = n /\ x.dseq = seqNo'[n]
        BY <1>2, <1>7, <2>1, SendReplySent
      <3>3. \A x \in msgs' : x \in msgs \/ Claims(x, seqNo')
        BY <1>2, <3>2, RrepClaims
      <3>4. \A d \in Nodes : t[d].seq \in Nat
        BY <1>7 DEF Tables, GoodEntries, Entries
      <3>5. Known(t, seqNo') BY <1>8, <1>10, <3>2, <3>4 DEF Known
      <3>6. \A x \in Nodes : rt'[x] = rt[x] \/ Known(rt'[x], seqNo')
        BY <1>2, <3>1, <3>5 DEF IInv
      <3>7. QED BY <3>2, <3>3, <3>6, HandlerSInv
    <2>2. CASE e.flag = "VALID" /\ e.vseq /\ SendReplyByIntermediateNode(n, m, t, e)
      <3>1. UNCHANGED seqNo BY <2>2 DEF SendReplyByIntermediateNode
      <3>2. \A d \in Nodes : d = m.dst => e = t[d] OBVIOUS
      <3> HIDE DEF t, n, e
      <3>3. /\ \E u \in Tables :
                 /\ rt' = [rt EXCEPT ![n] = u]
                 /\ \A d \in Nodes :
                      SameRoute(t[d], u[d]) \/ (d = m.dst /\ SameRoute(e, u[d]))
            /\ \A x \in msgs' :
                 \/ x \in msgs
                 \/ /\ x \in Rreps
                    /\ \/ x.dst = m.dst /\ x.dseq = e.seq
                       \/ x.dst = m.origin /\ x.dseq = t[m.origin].seq
        BY <1>2, <1>7, <1>9, <2>2, ReplyByIntermediateSent
      <3>4. PICK u \in Tables : /\ rt' = [rt EXCEPT ![n] = u]
                                /\ SameRoutes(t, u)
        BY <3>2, <3>3 DEF SameRoutes
      <3>5. Known(u, seqNo) BY <1>8, <3>4, SameRoutesKnown
      <3>6. \A x \in Nodes : rt'[x] = rt[x] \/ Known(rt'[x], seqNo')
        BY <1>2, <3>1, <3>4, <3>5 DEF IInv
      <3>7. \A x \in msgs' : x \in msgs \/ Claims(x, seqNo')
        BY <1>8, <1>9, <2>2, <3>1, <3>3, RrepClaims
      <3>8. QED BY <1>4, <1>10, <3>1, <3>6, <3>7, HandlerSInv
    <2>3. CASE /\ rt' = [rt EXCEPT ![n] = t] /\ UNCHANGED seqNo
               /\ msgs' \subseteq msgs \cup Relay(n, m, e)
      <3>1. \A x \in Nodes : rt'[x] = rt[x] \/ Known(rt'[x], seqNo')
        BY <1>2, <1>8, <2>3 DEF IInv
      <3> HIDE DEF t, n, e
      <3>2. ASSUME NEW x \in Relay(n, m, e) PROVE Claims(x, seqNo)
        <4>1. /\ x \in Rreqs /\ x.origin = m.origin /\ x.oseq = m.oseq
              /\ x.dst = m.dst
              /\ x.known => \/ m.known /\ x.dseq = m.dseq
                            \/ e.vseq /\ x.dseq = e.seq
          BY <1>2, <1>9, RelaySent
        <4>2. QED BY <1>6, <1>9, <4>1, RreqClaims
      <3>3. \A x \in msgs' : x \in msgs \/ Claims(x, seqNo') BY <2>3, <3>2
      <3>4. QED BY <1>4, <1>10, <2>3, <3>1, <3>3, HandlerSInv
    <2>4. \/ m.dst = n /\ SendReply(n, m, t)
          \/ /\ e.flag = "VALID" /\ e.vseq
             /\ SendReplyByIntermediateNode(n, m, t, e)
          \/ /\ rt' = [rt EXCEPT ![n] = t] /\ UNCHANGED seqNo
             /\ msgs' \subseteq msgs \cup Relay(n, m, e)
      BY <1>12 DEF RecvRequest, NewEnough
    <2>5. QED BY <2>1, <2>2, <2>3, <2>4
  <1>13. QED BY <1>11, <1>12

LEMMA RecvReplySInv ==
  ASSUME IInv, SInv, NEW m \in msgs, RecvReply(m)
  PROVE  SInv'
  <1> DEFINE n == m.to
             t == Forward(n, m)
             u == Precursors(t, m)
             nx == t[m.origin].next
             r == [m EXCEPT !.from = n, !.to = nx,
                            !.hop = HopCount(m), !.ttl = @ - 1, !.ack = FALSE]
             a == [type |-> "RREP_ACK", from |-> n, to |-> m.from]
  <1>1. m \in Messages /\ m.type = "RREP" BY DEF IInv, RecvReply
  <1>2. m \in Rreps /\ n \in Nodes /\ m.from \in Nodes BY <1>1, MessageKinds
  <1>3. rt[n] \in Tables /\ seqNo \in [Nodes -> Nat] BY <1>2 DEF IInv
  <1>4. Known(rt[n], seqNo) /\ m.dseq <= seqNo[m.dst]
    BY <1>1, <1>2 DEF SInv, Claims
  <1>5. t \in Tables /\ Known(t, seqNo) BY <1>2, <1>3, <1>4, ForwardGood
  <1>6. Known(u, seqNo) BY <1>2, <1>5, PrecursorsGood, SameRoutesKnown
  <1>7. /\ rt' = [rt EXCEPT ![n] = t] \/ rt' = [rt EXCEPT ![n] = u]
        /\ UNCHANGED seqNo
    BY DEF RecvReply
  <1>8. msgs' \subseteq msgs \cup Unicast(a) \cup Unicast(r)
    <2> DEFINE done == m.origin = n \/ Unroutable(n, m)
               ack == IF m.ack THEN Unicast(a) ELSE {}
               passed == IF done \/ m.ttl < 2 THEN {} ELSE Unicast(r)
    <2>1. msgs' = (msgs \ {m}) \cup ack \cup passed BY DEF RecvReply
    <2>2. ack \subseteq Unicast(a) /\ passed \subseteq Unicast(r) OBVIOUS
    <2> HIDE DEF ack, passed, a, r
    <2>3. QED BY <2>1, <2>2
  <1>9. r.type = "RREP" /\ r.dst = m.dst /\ r.dseq = m.dseq
    BY <1>2 DEF Rreps
  <1>10. Claims(r, seqNo) BY <1>4, <1>9 DEF Claims
  <1>11. Claims(a, seqNo) BY DEF Claims
  <1> HIDE DEF n, t, u, r, a, nx
  <1>12. \A x \in msgs' : x \in msgs \/ Claims(x, seqNo')
    BY <1>7, <1>8, <1>10, <1>11, UnicastSent
  <1>13. \A x \in Nodes : rt'[x] = rt[x] \/ Known(rt'[x], seqNo')
    BY <1>2, <1>5, <1>6, <1>7 DEF IInv
  <1>14. \A d \in Nodes : seqNo[d] \in Nat BY <1>3
  <1>15. QED BY <1>3, <1>7, <1>12, <1>13, <1>14, HandlerSInv

LEMMA ProcessHelloSInv ==
  ASSUME IInv, SInv, NEW m \in msgs, ProcessHello(m)
  PROVE  SInv'
  <1> DEFINE n == m.to
             t == Heard(rt[n], m.from)
             e == t[m.dst]
             u == [e EXCEPT !.flag = "VALID", !.vseq = TRUE, !.seq = m.dseq,
                            !.hop = 1, !.next = m.dst]
             r == IF e.flag = "NONE" THEN Route(TRUE, m.dseq, 1, m.dst) ELSE u
             w == [t EXCEPT ![m.dst] = r]
  <1>1. m \in Messages /\ m.type = "RREP" BY DEF IInv, ProcessHello
  <1>2. m \in Rreps /\ n \in Nodes /\ m.from \in Nodes BY <1>1, MessageKinds
  <1>3. m.dst \in Nodes BY <1>2 DEF Rreps
  <1>4. rt[n] \in Tables /\ seqNo \in [Nodes -> Nat] BY <1>2 DEF IInv
  <1>5. Known(rt[n], seqNo) /\ m.dseq <= seqNo[m.dst]
    BY <1>1, <1>2 DEF SInv, Claims
  <1>6. t \in Tables /\ Known(t, seqNo) BY <1>2, <1>4, <1>5, HeardGood, HeardKnown
  <1>7. rt' = [rt EXCEPT ![n] = w] /\ UNCHANGED seqNo /\ msgs' \subseteq msgs
    BY <1>3, <1>6 DEF ProcessHello, Tables
  <1> HIDE DEF t, n
  <1>8. e \in Entries BY <1>3, <1>6 DEF Tables, GoodEntries
  <1>9. r.seq = m.dseq BY <1>8 DEF Route, Entries
  <1> HIDE DEF r
  <1>10. w[m.dst] = r /\ \A d \in Nodes \ {m.dst} : w[d] = t[d]
    BY <1>3, <1>6 DEF Tables
  <1> HIDE DEF w
  <1>11. Known(w, seqNo) BY <1>5, <1>6, <1>9, <1>10 DEF Known
  <1>12. \A x \in Nodes : rt'[x] = rt[x] \/ Known(rt'[x], seqNo')
    BY <1>2, <1>7, <1>11 DEF IInv
  <1>13. \A d \in Nodes : seqNo[d] \in Nat BY <1>4
  <1>14. QED BY <1>4, <1>7, <1>12, <1>13, HandlerSInv

\* Invalidating, expiring or validating an entry leaves its number alone.
LEMMA InvalidatedKnown ==
  ASSUME NEW t \in Tables, NEW S, NEW sn, Known(t, sn)
  PROVE  Known(Invalidated(t, S), sn)
  <1>1. ASSUME NEW d \in Nodes
        PROVE  /\ Invalidated(t, S)[d].vseq = t[d].vseq
               /\ Invalidated(t, S)[d].seq = t[d].seq
    <2>1. t[d] \in Entries BY DEF Tables, GoodEntries
    <2>2. QED BY <2>1 DEF Invalidated, Entries
  <1>2. QED BY <1>1 DEF Known

LEMMA RecvReplyAckSInv ==
  ASSUME IInv, SInv, NEW m \in msgs, RecvReplyAck(m)
  PROVE  SInv'
  <1> DEFINE n == m.to
             t == Heard(rt[n], m.from)
             r == [t[m.from] EXCEPT !.flag = "VALID"]
             w == [t EXCEPT ![m.from] = r]
  <1>1. m \in Messages BY DEF IInv
  <1>2. n \in Nodes /\ m.from \in Nodes BY <1>1, MessageKinds
  <1>3. rt[n] \in Tables /\ seqNo \in [Nodes -> Nat] /\ Known(rt[n], seqNo)
    BY <1>2 DEF IInv, SInv
  <1>4. t \in Tables /\ Known(t, seqNo) BY <1>2, <1>3, HeardGood, HeardKnown
  <1>5. rt' = [rt EXCEPT ![n] = w] /\ UNCHANGED seqNo /\ msgs' \subseteq msgs
    BY <1>2, <1>4 DEF RecvReplyAck, Tables, IInv
  <1> HIDE DEF t, n
  <1>6. t[m.from] \in Entries BY <1>2, <1>4 DEF Tables, GoodEntries
  <1>7. r.vseq = t[m.from].vseq /\ r.seq = t[m.from].seq BY <1>6 DEF Entries
  <1> HIDE DEF r
  <1>8. w[m.from] = r /\ \A d \in Nodes \ {m.from} : w[d] = t[d]
    BY <1>2, <1>4 DEF Tables
  <1> HIDE DEF w
  <1>9. Known(w, seqNo) BY <1>4, <1>7, <1>8 DEF Known
  <1>10. \A x \in Nodes : rt'[x] = rt[x] \/ Known(rt'[x], seqNo')
    BY <1>2, <1>5, <1>9 DEF IInv
  <1>11. \A d \in Nodes : seqNo[d] \in Nat BY <1>3
  <1>12. QED BY <1>3, <1>5, <1>10, <1>11, HandlerSInv

LEMMA RecvErrorSInv ==
  ASSUME IInv, SInv, NEW m \in msgs, RecvError(m)
  PROVE  SInv'
  <1> DEFINE n == m.to
             t == Heard(rt[n], m.from)
             S == m.dests \cap Via(t, m.from)
             prec == UNION {t[d].prec : d \in S}
  <1>1. m \in Messages BY DEF IInv
  <1>2. n \in Nodes /\ m.from \in Nodes BY <1>1, MessageKinds
  <1>3. rt[n] \in Tables /\ seqNo \in [Nodes -> Nat] /\ Known(rt[n], seqNo)
    BY <1>2 DEF IInv, SInv
  <1>4. t \in Tables /\ Known(t, seqNo) BY <1>2, <1>3, HeardGood, HeardKnown
  <1>5. Known(Invalidated(t, S), seqNo) BY <1>4, InvalidatedKnown
  <1>6. S \in SUBSET Nodes BY DEF Via
  <1>7. prec \in SUBSET Nodes BY <1>4, <1>6 DEF Tables, GoodEntries, Entries
  <1>8. /\ rt' = [rt EXCEPT ![n] = Invalidated(t, S)]
        /\ msgs' \subseteq msgs \cup SendRerrMessage(n, t, S, prec)
        /\ UNCHANGED seqNo
    BY DEF RecvError
  <1> HIDE DEF n, t, S, prec
  <1>9. \A x \in msgs' : x \in msgs \/ Claims(x, seqNo')
    BY <1>2, <1>6, <1>7, <1>8, RerrSent, OtherClaims
  <1>10. \A x \in Nodes : rt'[x] = rt[x] \/ Known(rt'[x], seqNo')
    BY <1>2, <1>5, <1>8 DEF IInv
  <1>11. \A d \in Nodes : seqNo[d] \in Nat BY <1>3
  <1>12. QED BY <1>3, <1>8, <1>9, <1>10, <1>11, HandlerSInv

LEMMA SendRerrWhenBreaksLinkToNextHopSInv ==
  ASSUME IInv, SInv, NEW n \in Nodes, NEW x \in Nodes,
         SendRerrWhenBreaksLinkToNextHop(n, x)
  PROVE  SInv'
  <1> DEFINE t == rt[n]
             S == {x} \cup Via(t, x)
             prec == UNION {t[d].prec : d \in S}
  <1>1. t \in Tables /\ seqNo \in [Nodes -> Nat] /\ Known(t, seqNo)
    BY DEF IInv, SInv
  <1>2. Known(Invalidated(t, S), seqNo) BY <1>1, InvalidatedKnown
  <1>3. S \in SUBSET Nodes BY DEF Via
  <1>4. prec \in SUBSET Nodes BY <1>1, <1>3 DEF Tables, GoodEntries, Entries
  <1>5. /\ rt' = [rt EXCEPT ![n] = Invalidated(t, S)]
        /\ msgs' = msgs \cup SendRerrMessage(n, t, S, prec)
        /\ UNCHANGED seqNo
    BY DEF SendRerrWhenBreaksLinkToNextHop
  <1> HIDE DEF t, S, prec
  <1>6. \A y \in msgs' : y \in msgs \/ Claims(y, seqNo')
    BY <1>3, <1>4, <1>5, RerrSent, OtherClaims
  <1>7. \A y \in Nodes : rt'[y] = rt[y] \/ Known(rt'[y], seqNo')
    BY <1>2, <1>5 DEF IInv
  <1>8. \A d \in Nodes : seqNo[d] \in Nat BY <1>1
  <1>9. QED BY <1>1, <1>5, <1>6, <1>7, <1>8, HandlerSInv

LEMMA RouteInputSInv ==
  ASSUME IInv, SInv, NEW m \in msgs, RouteInput(m)
  PROVE  SInv'
  <1> DEFINE n == m.to
             u == [m EXCEPT !.from = n, !.to = rt[n][m.dst].next]
             E == SendRerrWhenNoRouteToForward(n, m.dst, m.origin)
  <1>1. m \in Messages /\ m.type = "DATA" BY DEF IInv, RouteInput
  <1>2. m \in Datas /\ n \in Nodes BY <1>1, MessageKinds
  <1>3. u.to \in Nodes => u \in Datas BY <1>2 DEF Datas
  <1>4. E \subseteq Rerrs BY <1>2, NoRouteRerrSent DEF Datas
  <1>5. UNCHANGED <<rt, seqNo>> /\ msgs' \subseteq msgs \cup Unicast(u) \cup E
    BY DEF RouteInput
  <1> HIDE DEF u, E
  <1>6. \A x \in msgs' : x \in msgs \/ Claims(x, seqNo')
    BY <1>3, <1>4, <1>5, UnicastSent, OtherClaims
  <1>7. seqNo \in [Nodes -> Nat] /\ \A d \in Nodes : seqNo[d] \in Nat BY DEF IInv
  <1>8. QED BY <1>5, <1>6, <1>7, HandlerSInv

LEMMA PurgeSInv ==
  ASSUME IInv, SInv, NEW n \in Nodes, NEW d \in Nodes, Purge(n, d) \/ GiveUp(n, d)
  PROVE  SInv'
  <1> DEFINE r == [rt[n][d] EXCEPT !.flag = "INVALID"]
  <1>1. /\ rt \in [Nodes -> Tables] /\ rt[n] \in Tables /\ Known(rt[n], seqNo)
        /\ seqNo \in [Nodes -> Nat] /\ \A x \in Nodes : seqNo[x] \in Nat
    BY DEF IInv, SInv
  <1>2. rt[n][d] \in Entries BY <1>1 DEF Tables, GoodEntries
  <1>3. r.vseq = rt[n][d].vseq /\ r.seq = rt[n][d].seq BY <1>2 DEF Entries
  <1>4. /\ \/ rt' = [rt EXCEPT ![n] = [rt[n] EXCEPT ![d] = r]]
           \/ rt' = [rt EXCEPT ![n] = [rt[n] EXCEPT ![d] = NoEntry]]
        /\ UNCHANGED <<seqNo, msgs>>
    BY <1>1, <1>2 DEF Purge, GiveUp, Tables, Entries
  <1> HIDE DEF r
  <1>5. Known([rt[n] EXCEPT ![d] = r], seqNo)
    BY <1>1, <1>3 DEF Known, Tables
  <1>6. ~NoEntry.vseq BY DEF NoEntry
  <1>7. Known([rt[n] EXCEPT ![d] = NoEntry], seqNo)
    BY <1>1, <1>6 DEF Known, Tables
  <1>8. \A x \in Nodes : rt'[x] = rt[x] \/ Known(rt'[x], seqNo')
    BY <1>1, <1>4, <1>5, <1>7
  <1>9. QED BY <1>1, <1>4, <1>8, HandlerSInv

LEMMA SendDataSInv ==
  ASSUME IInv, SInv, NEW n \in Nodes, NEW d \in Nodes, SendData(n, d)
  PROVE  SInv'
  <1> DEFINE m == [type |-> "DATA", from |-> n, to |-> rt[n][d].next,
                   origin |-> n, dst |-> d]
  <1>1. Claims(m, seqNo) BY DEF Claims
  <1>2. UNCHANGED <<rt, seqNo>> /\ msgs' = msgs \cup Unicast(m) BY DEF SendData
  <1> HIDE DEF m
  <1>3. \A x \in msgs' : x \in msgs \/ Claims(x, seqNo')
    BY <1>1, <1>2, UnicastSent
  <1>4. seqNo \in [Nodes -> Nat] /\ \A x \in Nodes : seqNo[x] \in Nat BY DEF IInv
  <1>5. QED BY <1>2, <1>3, <1>4, HandlerSInv

LEMMA SendHelloSInv ==
  ASSUME IInv, SInv, NEW n \in Nodes, SendHello(n)
  PROVE  SInv'
  <1> DEFINE m == [type |-> "RREP", from |-> n, to |-> n, dst |-> n,
                   dseq |-> seqNo[n], origin |-> n, hop |-> 0, ttl |-> 1,
                   ack |-> FALSE]
  <1>1. seqNo \in [Nodes -> Nat] /\ \A x \in Nodes : seqNo[x] \in Nat BY DEF IInv
  <1>2. m \in Rreps BY <1>1 DEF Rreps
  <1>3. m.dst = n /\ m.dseq = seqNo[n] OBVIOUS
  <1>4. UNCHANGED <<rt, seqNo>> /\ msgs' = msgs \cup Broadcast(n, m)
    BY DEF SendHello
  <1> HIDE DEF m
  <1>5. ASSUME NEW x \in Broadcast(n, m) PROVE Claims(x, seqNo)
    <2>1. x \in Rreps /\ x.dst = n /\ x.dseq = seqNo[n]
      BY <1>2, <1>3, BroadcastRrep
    <2>2. x.dseq <= seqNo[x.dst] BY <1>1, <2>1
    <2>3. QED BY <2>1, <2>2, RrepClaims
  <1>6. \A x \in msgs' : x \in msgs \/ Claims(x, seqNo') BY <1>4, <1>5
  <1>7. QED BY <1>1, <1>4, <1>6, HandlerSInv

LEMMA NextSInv ==
  ASSUME Malicious = {}, IInv, SInv, [Next]_vars
  PROVE  SInv'
  <1>1. ASSUME NEW n \in Nodes, NEW d \in Nodes, NEW ttl \in Ttls,
               SendRequest(n, d, ttl)
        PROVE  SInv'
    BY <1>1, SendRequestSInv
  <1>2. ASSUME NEW type \in Types, NEW n \in Nodes, Receive(type, n) PROVE SInv'
    BY <1>2, RecvRequestSInv, RecvReplySInv, ProcessHelloSInv, RecvReplyAckSInv,
       RecvErrorSInv, RouteInputSInv DEF Receive
  <1>3. ASSUME NEW n \in Nodes, NEW d \in Nodes,
               \/ SendRerrWhenBreaksLinkToNextHop(n, d)
               \/ Purge(n, d) \/ GiveUp(n, d) \/ SendData(n, d)
        PROVE  SInv'
    BY <1>3, SendRerrWhenBreaksLinkToNextHopSInv, PurgeSInv, SendDataSInv
  <1>4. ASSUME NEW n \in Nodes, SendHello(n) PROVE SInv' BY <1>4, SendHelloSInv
  <1>5. ASSUME NEW l \in Links, LoseLink(l) PROVE SInv'
    BY <1>5 DEF LoseLink, SInv
  <1>6. CASE UNCHANGED vars BY <1>6 DEF vars, SInv
  <1>7. CASE \E n \in Nodes : RerrRateLimitTimerExpire(n)
    BY <1>7 DEF RerrRateLimitTimerExpire, SInv
  <1>8. QED BY <1>1, <1>2, <1>3, <1>4, <1>5, <1>6, <1>7 DEF Next

\* Among honest nodes no table and no message is ever ahead of a sequence
\* number's owner, whatever is lost, delayed, reordered or given up: RREQs, RREPs,
\* hellos and reverse routes only pass numbers on.
THEOREM NumbersNotAhead ==
  ASSUME Malicious = {}
  PROVE  Spec => []SeqNoNotAhead
  <1>1. Init => SInv
    <2> SUFFICES ASSUME Init PROVE SInv OBVIOUS
    <2>1. \A n, d \in Nodes : ~rt[n][d].vseq BY DEF Init, NoEntry
    <2>2. QED BY <2>1 DEF Init, SInv, Known
  <1>2. IInv /\ SInv /\ [Next]_vars => SInv' BY NextSInv
  <1>3. SInv => SeqNoNotAhead BY SInvMeaning
  <1>4. QED BY <1>1, <1>2, <1>3, Invariance, PTL DEF Spec

-----------------------------------------------------------------------------
(* A node knows its own RREQs.                                             *)

\* A new RREQ x is in the hands of its originator, which remembers it, or is
\* the copy of a RREQ m that its sender has received for the first time.
Originated(x) == /\ x.from = x.origin /\ x.hop = 0
                 /\ <<x.origin, x.id>> \in seen'[x.origin]

RelayOf(x, m) ==
  /\ m.type = "RREQ" /\ ~IsDuplicate(m.to, m)
  /\ x.from = m.to /\ x.origin = m.origin /\ x.id = m.id
  /\ x.hop = HopCount(m)

RreqsAreOurs ==
  \A x \in msgs' :
    x.type = "RREQ" =>
      x \in msgs \/ Originated(x) \/ \E m \in msgs : RelayOf(x, m)

LEMMA SendRequestRreqs ==
  ASSUME IInv, NEW n \in Nodes, NEW dst \in Nodes, NEW ttl \in Ttls,
         SendRequest(n, dst, ttl)
  PROVE  RreqsAreOurs
  <1> DEFINE q == [type |-> "RREQ", from |-> n, to |-> n, origin |-> n,
                   id |-> reqId'[n], oseq |-> seqNo'[n], dst |-> dst,
                   dseq |-> IF rt[n][dst].vseq THEN rt[n][dst].seq ELSE 0,
                   known |-> rt[n][dst].vseq, hop |-> 0, ttl |-> ttl]
  <1>1. rt[n][dst] \in Entries BY DEF IInv, Tables, GoodEntries
  <1>2. seqNo' \in [Nodes -> Nat] /\ reqId' \in [Nodes -> Nat]
    BY DEF IInv, SendRequest
  <1>3. q \in Rreqs BY <1>1, <1>2, TtlAssumption DEF Rreqs, Entries
  <1>4. q.origin = n /\ q.id = reqId'[n] /\ q.hop = 0 OBVIOUS
  <1>5. /\ msgs' = msgs \cup Broadcast(n, q)
        /\ <<n, reqId'[n]>> \in seen'[n]
    BY DEF SendRequest, Remembered, IInv
  <1> HIDE DEF q
  <1>6. \A x \in Broadcast(n, q) : Originated(x)
    BY <1>3, <1>4, <1>5, BroadcastRreq DEF Originated
  <1>7. QED BY <1>5, <1>6 DEF RreqsAreOurs

LEMMA RecvRequestRreqs ==
  ASSUME IInv, NEW m \in msgs, RecvRequest(m)
  PROVE  RreqsAreOurs
  <1> DEFINE n == m.to
             t == Reversed(n, m)
             e == t[m.dst]
  <1>1. m \in Messages /\ m.type = "RREQ" BY DEF IInv, RecvRequest
  <1>2. m \in Rreqs /\ n \in Nodes BY <1>1, MessageKinds
  <1>3. m.dst \in Nodes BY <1>2 DEF Rreqs
  <1>4. t \in Tables BY <1>2, ReversedGood DEF IInv
  <1>5. e \in GoodEntries BY <1>3, <1>4 DEF Tables
  <1>6. ASSUME NEW x \in msgs', x.type = "RREQ"
        PROVE  x \in msgs \/ (~IsDuplicate(n, m) /\ x \in Relay(n, m, e))
    <2>1. CASE IsDuplicate(n, m) BY <1>6, <2>1 DEF RecvRequest
    <2>2. CASE SendReply(n, m, t)
      BY <1>6, <2>2, UnicastSent DEF SendReply
    <2>3. CASE \E d : SendReplyByIntermediateNode(n, m, t, d)
      BY <1>6, <2>3, UnicastSent DEF SendReplyByIntermediateNode
    <2>4. CASE ~IsDuplicate(n, m) /\ msgs' \subseteq msgs \cup Relay(n, m, e)
      BY <1>6, <2>4
    <2>5. QED BY <2>1, <2>2, <2>3, <2>4 DEF RecvRequest
  <1>7. ~IsDuplicate(n, m) => \A x \in Relay(n, m, e) : RelayOf(x, m)
    BY <1>1, <1>2, <1>5, RelaySent DEF RelayOf
  <1>8. QED BY <1>6, <1>7 DEF RreqsAreOurs

\* The other handlers send no RREQ.
LEMMA NotRreqs ==
  ASSUME NEW x \in Rreps \cup Acks \cup Rerrs \cup Datas
  PROVE  x.type # "RREQ"
  BY DEF Rreps, Acks, Rerrs, Datas

LEMMA ReceiveRreqs ==
  ASSUME IInv, NEW m \in msgs,
         \/ RecvReply(m) \/ ProcessHello(m) \/ RecvReplyAck(m)
         \/ RecvError(m) \/ RouteInput(m)
  PROVE  RreqsAreOurs
  <1> DEFINE n == m.to
             Quiet == \A x \in msgs' : x \in msgs \/ x.type # "RREQ"
  <1>1. m \in Messages BY DEF IInv
  <1>2. n \in Nodes /\ m.from \in Nodes BY <1>1, MessageKinds
  <1> SUFFICES Quiet BY DEF RreqsAreOurs
  <1>4. CASE RecvReply(m)
    <2> DEFINE r == [m EXCEPT !.from = n, !.to = Forward(n, m)[m.origin].next,
                              !.hop = HopCount(m), !.ttl = @ - 1, !.ack = FALSE]
               a == [type |-> "RREP_ACK", from |-> n, to |-> m.from]
    <2>1. m \in Rreps BY <1>1, <1>4, MessageKinds DEF RecvReply
    <2>2. r.type = "RREP" /\ a.type = "RREP_ACK" BY <2>1 DEF Rreps
    <2>3. msgs' \subseteq msgs \cup Unicast(a) \cup Unicast(r)
      <3> DEFINE ack == IF m.ack THEN Unicast(a) ELSE {}
                 passed == IF m.origin = n \/ Unroutable(n, m) \/ m.ttl < 2
                             THEN {} ELSE Unicast(r)
      <3>1. msgs' = (msgs \ {m}) \cup ack \cup passed BY <1>4 DEF RecvReply
      <3>2. ack \subseteq Unicast(a) /\ passed \subseteq Unicast(r) OBVIOUS
      <3> HIDE DEF ack, passed, a, r
      <3>3. QED BY <3>1, <3>2
    <2> HIDE DEF r, a
    <2>4. QED BY <2>2, <2>3, UnicastSent
  <1>5. CASE ProcessHello(m) \/ RecvReplyAck(m)
    BY <1>5 DEF ProcessHello, RecvReplyAck
  <1>6. CASE RecvError(m)
    <2> DEFINE t == Heard(rt[n], m.from)
               S == m.dests \cap Via(t, m.from)
               prec == UNION {t[d].prec : d \in S}
    <2>1. t \in Tables BY <1>2, HeardGood DEF IInv
    <2>2. S \in SUBSET Nodes BY DEF Via
    <2>3. prec \in SUBSET Nodes BY <2>1, <2>2 DEF Tables, GoodEntries, Entries
    <2>4. msgs' \subseteq msgs \cup SendRerrMessage(n, t, S, prec)
      BY <1>6 DEF RecvError
    <2> HIDE DEF t, S, prec
    <2>5. QED BY <1>2, <2>2, <2>3, <2>4, RerrSent, NotRreqs
  <1>7. CASE RouteInput(m)
    <2> DEFINE u == [m EXCEPT !.from = n, !.to = rt[n][m.dst].next]
               E == SendRerrWhenNoRouteToForward(n, m.dst, m.origin)
    <2>1. m \in Datas BY <1>1, <1>7, MessageKinds DEF RouteInput
    <2>2. u.type = "DATA" BY <2>1 DEF Datas
    <2>3. E \subseteq Rerrs BY <1>2, <2>1, NoRouteRerrSent DEF Datas
    <2>4. msgs' \subseteq msgs \cup Unicast(u) \cup E BY <1>7 DEF RouteInput
    <2> HIDE DEF u, E
    <2>5. QED BY <2>2, <2>3, <2>4, UnicastSent, NotRreqs
  <1>8. QED BY <1>4, <1>5, <1>6, <1>7

LEMMA NextRreqs ==
  ASSUME IInv, [Next]_vars
  PROVE  RreqsAreOurs
  <1>1. ASSUME NEW n \in Nodes, NEW d \in Nodes, NEW ttl \in Ttls,
               SendRequest(n, d, ttl)
        PROVE  RreqsAreOurs
    BY <1>1, SendRequestRreqs
  <1>2. ASSUME NEW type \in Types, NEW n \in Nodes, Receive(type, n)
        PROVE  RreqsAreOurs
    BY <1>2, RecvRequestRreqs, ReceiveRreqs DEF Receive
  <1>3. ASSUME NEW n \in Nodes, NEW d \in Nodes,
               SendRerrWhenBreaksLinkToNextHop(n, d)
        PROVE  RreqsAreOurs
    <2> DEFINE S == {d} \cup Via(rt[n], d)
               prec == UNION {rt[n][x].prec : x \in S}
    <2>1. S \in SUBSET Nodes BY DEF Via
    <2>2. prec \in SUBSET Nodes
      BY <2>1 DEF IInv, Tables, GoodEntries, Entries
    <2>3. msgs' = msgs \cup SendRerrMessage(n, rt[n], S, prec)
      BY <1>3 DEF SendRerrWhenBreaksLinkToNextHop
    <2> HIDE DEF S, prec
    <2>4. QED BY <2>1, <2>2, <2>3, RerrSent, NotRreqs DEF RreqsAreOurs
  <1>4. ASSUME NEW n \in Nodes, NEW d \in Nodes,
               Purge(n, d) \/ GiveUp(n, d) \/ SendData(n, d)
        PROVE  RreqsAreOurs
    BY <1>4, UnicastSent DEF Purge, GiveUp, SendData, RreqsAreOurs
  <1>5. ASSUME NEW n \in Nodes, SendHello(n) PROVE RreqsAreOurs
    <2> DEFINE m == [type |-> "RREP", from |-> n, to |-> n, dst |-> n,
                     dseq |-> seqNo[n], origin |-> n, hop |-> 0, ttl |-> 1,
                     ack |-> FALSE]
    <2>1. m \in Rreps BY DEF Rreps, IInv
    <2>2. msgs' = msgs \cup Broadcast(n, m) BY <1>5 DEF SendHello
    <2> HIDE DEF m
    <2>3. QED BY <2>1, <2>2, BroadcastRrep, NotRreqs DEF RreqsAreOurs
  <1>6. CASE \/ \E l \in Links : LoseLink(l)
             \/ \E n \in Nodes : RerrRateLimitTimerExpire(n)
             \/ UNCHANGED vars
    BY <1>6 DEF LoseLink, RerrRateLimitTimerExpire, vars, RreqsAreOurs
  <1>7. QED BY <1>1, <1>2, <1>3, <1>4, <1>5, <1>6 DEF Next

LEMMA SeenGrows ==
  ASSUME IInv, [Next]_vars
  PROVE  \A n \in Nodes : seen[n] \subseteq seen'[n]
  <1>1. ASSUME NEW n \in Nodes, NEW d \in Nodes, NEW ttl \in Ttls,
               SendRequest(n, d, ttl)
        PROVE  \A k \in Nodes : seen[k] \subseteq seen'[k]
    BY <1>1 DEF SendRequest, Remembered, IInv
  <1>2. ASSUME NEW m \in msgs, RecvRequest(m)
        PROVE  \A k \in Nodes : seen[k] \subseteq seen'[k]
    BY <1>2 DEF RecvRequest, IInv
  <1>3. ASSUME NEW m \in msgs,
               \/ RecvReply(m) \/ ProcessHello(m) \/ RecvReplyAck(m)
               \/ RecvError(m) \/ RouteInput(m)
        PROVE  UNCHANGED seen
    BY <1>3 DEF RecvReply, ProcessHello, RecvReplyAck, RecvError, RouteInput
  <1>4. ASSUME NEW n \in Nodes, NEW d \in Nodes,
               \/ SendRerrWhenBreaksLinkToNextHop(n, d)
               \/ Purge(n, d) \/ GiveUp(n, d) \/ SendData(n, d)
        PROVE  UNCHANGED seen
    BY <1>4 DEF SendRerrWhenBreaksLinkToNextHop, Purge, GiveUp, SendData
  <1>5. ASSUME NEW n \in Nodes, SendHello(n) \/ RerrRateLimitTimerExpire(n)
        PROVE  UNCHANGED seen
    BY <1>5 DEF SendHello, RerrRateLimitTimerExpire
  <1>6. CASE (\E l \in Links : LoseLink(l)) \/ UNCHANGED vars
    BY <1>6 DEF LoseLink, vars
  <1>7. QED BY <1>1, <1>2, <1>3, <1>4, <1>5, <1>6 DEF Next, Receive

LEMMA NextOwn ==
  ASSUME IInv, OwnFloodsIgnored, [Next]_vars
  PROVE  OwnFloodsIgnored'
  <1> SUFFICES ASSUME NEW x \in msgs', x.type = "RREQ"
               PROVE  <<x.origin, x.id>> \in seen'[x.origin]
    BY DEF OwnFloodsIgnored, IsDuplicate
  <1>1. ASSUME NEW y \in msgs, y.type = "RREQ"
        PROVE  <<y.origin, y.id>> \in seen'[y.origin]
    <2>1. y \in Rreqs BY <1>1, MessageKinds DEF IInv
    <2>2. y.origin \in Nodes BY <2>1 DEF Rreqs
    <2>3. <<y.origin, y.id>> \in seen[y.origin]
      BY <1>1 DEF OwnFloodsIgnored, IsDuplicate
    <2>4. QED BY <2>2, <2>3, SeenGrows
  <1>2. \/ x \in msgs \/ Originated(x)
        \/ \E m \in msgs : RelayOf(x, m)
    BY NextRreqs DEF RreqsAreOurs
  <1>3. QED BY <1>1, <1>2 DEF Originated, RelayOf

\* No node ever handles a RREQ it originated, however its copies travel and
\* however long they take.
THEOREM OwnRequestsIgnored == Spec => []OwnFloodsIgnored
  <1>1. Init => OwnFloodsIgnored BY DEF Init, OwnFloodsIgnored
  <1>2. IInv /\ OwnFloodsIgnored /\ [Next]_vars => OwnFloodsIgnored' BY NextOwn
  <1>3. QED BY <1>1, <1>2, Invariance, PTL DEF Spec
=============================================================================
