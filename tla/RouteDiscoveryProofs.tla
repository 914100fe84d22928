------------------------ MODULE RouteDiscoveryProofs ------------------------
(***************************************************************************)
(* Machine-checked proofs about RouteDiscovery, for every value of its     *)
(* constants: the state is typed and the rate limiter holds, no search     *)
(* stalls, no retry aborts, every route has a device, only postponed calls *)
(* exceed the retries, replies empty the queue and the queue keeps its     *)
(* limit.  DiscoveryRefinementProofs says what becomes of the packets.     *)
(***************************************************************************)
EXTENDS RouteDiscovery, FiniteSetTheorems, TLAPS

\* The inductive invariant.  SearchIsDriven needs the types, NeverAborts the
\* order of the TTL constants; RoutesHaveDevice is used for the queue.
IInv == TypeOK /\ SearchIsDriven /\ RoutesHaveDevice /\ NeverAborts

-----------------------------------------------------------------------------
(* What the operators return.                                              *)

\* The entry SendRequest writes is typed, is IN_SEARCH, and never makes the
\* retry timer abort: a TTL of NetDiameter has been counted.
LEMMA SearchingEntry ==
  ASSUME NEW e \in Entries
  PROVE  /\ Searching(e) \in Entries
         /\ Searching(e).flag = "IN_SEARCH"
         /\ ~RetryAborts(Searching(e))
<1> DEFINE ttl == SearchTtl(e)
<1>1. e.hop \in Nat /\ e.cnt \in Nat /\ e.flag \in Flags
  BY DEF Entries
<1>2. ttl \in Nat /\ (ttl >= NetDiameter => ttl = NetDiameter)
  BY <1>1, TtlAssumption DEF SearchTtl, Flags
<1>3. MaxRreqCnt \in Nat /\ MaxRreqCnt > 0
  BY BoundAssumption, LimitAssumption
<1> DEFINE c == IF ttl = NetDiameter /\ e.cnt < MaxRreqCnt
                  THEN e.cnt + 1 ELSE e.cnt
<1>4. c \in Nat /\ (ttl = NetDiameter => c > 0)
  BY <1>1, <1>3
<1>5. Searching(e) = [e EXCEPT !.flag = "IN_SEARCH", !.hop = ttl, !.cnt = c]
  BY DEF Searching
<1> HIDE DEF ttl, c
<1>6. Searching(e) \in Entries
  BY <1>2, <1>4, <1>5 DEF Entries, Flags
<1>7. /\ Searching(e).flag = "IN_SEARCH"
      /\ Searching(e).hop = ttl
      /\ Searching(e).cnt = c
  BY <1>5 DEF Entries
<1>8. ~RetryAborts(Searching(e))
  BY <1>2, <1>4, <1>7 DEF RetryAborts
<1> QED BY <1>6, <1>7, <1>8

\* A route that a message creates is a typed entry.
LEMMA RouteEntry ==
  ASSUME NEW vseq \in BOOLEAN, NEW seq \in Nat, NEW hop \in Nat,
         NEW i \in Ifaces
  PROVE  /\ Route(vseq, seq, hop, i) \in Entries
         /\ Route(vseq, seq, hop, i).flag = "VALID"
         /\ Route(vseq, seq, hop, i).dev = i
BY DEF Route, Entries, Flags, Devices

LEMMA NoEntryType == NoEntry \in Entries /\ NoEntry.flag = "NONE"
BY DEF NoEntry, Entries, Flags, Devices

\* SendRequest keeps the types and the assertion, loses no timer and no
\* postponed call, drives the search for d and changes no other entry.
LEMMA SendRequestStep ==
  ASSUME IInv, NEW d \in Dsts, NEW timers \in SUBSET Dsts,
         SendRequest(d, timers)
  PROVE  /\ table' \in [Dsts -> Entries]
         /\ reqTimer' \in SUBSET Dsts
         /\ rreqCount' \in 0..RreqRateLimit
         /\ deferred' \in [Dsts -> Nat]
         /\ aborted' = FALSE
         /\ timers \subseteq reqTimer'
         /\ d \in reqTimer' \/ deferred'[d] > 0
         /\ \A x \in Dsts : deferred[x] > 0 => deferred'[x] > 0
         /\ \A x \in Dsts : \/ table'[x] = table[x]
                            \/ x = d /\ table'[x].flag = "IN_SEARCH"
<1> USE DEF IInv, TypeOK, NeverAborts
<1>1. CASE LimitReached
  <2>1. /\ deferred' = [deferred EXCEPT ![d] = @ + 1]
        /\ reqTimer' = timers
        /\ table' = table /\ rreqCount' = rreqCount /\ aborted' = aborted
    BY <1>1 DEF SendRequest
  <2> QED BY <2>1
<1>2. CASE ~LimitReached
  <2>1. /\ rreqCount' = rreqCount + 1
        /\ table' = [table EXCEPT ![d] = Searching(@)]
        /\ aborted' = (aborted \/ RetryAborts(Searching(table[d])))
        /\ reqTimer' = timers \cup {d}
        /\ deferred' = deferred
    BY <1>2 DEF SendRequest
  <2>2. /\ Searching(table[d]) \in Entries
        /\ Searching(table[d]).flag = "IN_SEARCH"
        /\ ~RetryAborts(Searching(table[d]))
    BY SearchingEntry
  <2>3. rreqCount' \in 0..RreqRateLimit
    BY <1>2, <2>1, LimitAssumption DEF LimitReached
  <2> QED BY <2>1, <2>2, <2>3
<1> QED BY <1>1, <1>2

\* The sender's entry after UpdateRouteToNeighbor.
LEMMA NeighborStep ==
  ASSUME TypeOK, RoutesHaveDevice, NEW s \in Dsts, NEW i \in Ifaces
  PROVE  /\ NeighborUpdated(s, i) \in [Dsts -> Entries]
         /\ \A x \in Dsts \ {s} : NeighborUpdated(s, i)[x] = table[x]
         /\ NeighborUpdated(s, i)[s].dev = i
         /\ \A x \in Dsts :
              /\ NeighborUpdated(s, i)[x].flag = "IN_SEARCH"
                   => table[x].flag = "IN_SEARCH"
              /\ NeighborUpdated(s, i)[x].flag \in {"VALID", "INVALID"}
                   => NeighborUpdated(s, i)[x].dev \in Ifaces
<1> DEFINE e == table[s]
           kept == e.flag # "NONE" /\ e.vseq /\ e.hop = 1 /\ e.dev = i
<1>1. CASE kept
  BY <1>1 DEF NeighborUpdated, TypeOK, RoutesHaveDevice
<1>2. CASE ~kept
  <2>1. NeighborUpdated(s, i) = [table EXCEPT ![s] = Route(FALSE, 0, 1, i)]
    BY <1>2 DEF NeighborUpdated
  <2>2. /\ Route(FALSE, 0, 1, i) \in Entries
        /\ Route(FALSE, 0, 1, i).flag = "VALID"
        /\ Route(FALSE, 0, 1, i).dev = i
    BY RouteEntry
  <2> QED BY <2>1, <2>2 DEF TypeOK, RoutesHaveDevice
<1> QED BY <1>1, <1>2

\* A received message: the handlers differ in the table and the queue only.
\* The invariant holds if an entry in search was in search before and keeps
\* its timer, and routes have a device.
LEMMA ReceiveStep ==
  ASSUME IInv, NEW i \in Ifaces, Receives(i),
         table' \in [Dsts -> Entries], queue' \subseteq queue,
         reqTimer' \subseteq reqTimer,
         \A x \in Dsts :
           /\ table'[x].flag = "IN_SEARCH"
                => /\ table[x].flag = "IN_SEARCH"
                   /\ x \in reqTimer => x \in reqTimer'
           /\ table'[x].flag \in {"VALID", "INVALID"} => table'[x].dev \in Ifaces
  PROVE  IInv'
<1>1. /\ UNCHANGED <<loopback, rreqCount, deferred, ready, up, aborted, submitted>>
      /\ events' \in Nat
  BY DEF Receives, IInv, TypeOK
<1>2. TypeOK'
  BY <1>1 DEF IInv, TypeOK
<1>3. SearchIsDriven'
  BY <1>1 DEF IInv, SearchIsDriven, Driven
<1>4. RoutesHaveDevice'
  BY DEF RoutesHaveDevice
<1>5. NeverAborts'
  BY <1>1 DEF IInv, NeverAborts
<1> QED BY <1>2, <1>3, <1>4, <1>5 DEF IInv

\* Losing and erasing routes, and losing an interface: what is left of the
\* table was there before, perhaps with a weaker flag.
LEMMA LossStep ==
  ASSUME IInv, table' \in [Dsts -> Entries], up' \subseteq Ifaces,
         events' \in Nat,
         UNCHANGED <<queue, loopback, reqTimer, rreqCount, deferred, ready,
                     aborted, submitted>>,
         \A x \in Dsts :
           /\ table'[x].flag = "IN_SEARCH" => table[x].flag = "IN_SEARCH"
           /\ table'[x].flag \in {"VALID", "INVALID"} => table'[x].dev \in Ifaces
  PROVE  IInv'
<1>1. TypeOK'
  BY DEF IInv, TypeOK
<1>2. SearchIsDriven'
  BY DEF IInv, SearchIsDriven, Driven
<1>3. RoutesHaveDevice' /\ NeverAborts'
  BY DEF IInv, RoutesHaveDevice, NeverAborts
<1> QED BY <1>1, <1>2, <1>3 DEF IInv

\* Marking routes invalid keeps types, searches and devices.
LEMMA InvalidatedTable ==
  ASSUME NEW t \in [Dsts -> Entries], NEW S \in SUBSET Dsts
  PROVE  /\ Invalidated(t, S) \in [Dsts -> Entries]
         /\ \A x \in Dsts :
              /\ Invalidated(t, S)[x].flag = "IN_SEARCH"
                   => t[x].flag = "IN_SEARCH"
              /\ Invalidated(t, S)[x].flag \in {"VALID", "INVALID"}
                   => t[x].flag \in {"VALID", "INVALID"}
              /\ Invalidated(t, S)[x].dev = t[x].dev
<1> SUFFICES ASSUME NEW x \in Dsts
             PROVE  /\ Invalidated(t, S)[x] \in Entries
                    /\ Invalidated(t, S)[x].flag = "IN_SEARCH"
                         => t[x].flag = "IN_SEARCH"
                    /\ Invalidated(t, S)[x].flag \in {"VALID", "INVALID"}
                         => t[x].flag \in {"VALID", "INVALID"}
                    /\ Invalidated(t, S)[x].dev = t[x].dev
  BY DEF Invalidated
<1>1. Invalidated(t, S)[x] = IF x \in S /\ t[x].flag = "VALID"
                               THEN [t[x] EXCEPT !.flag = "INVALID", !.cnt = 0]
                               ELSE t[x]
  BY DEF Invalidated
<1>2. t[x] \in Entries
  OBVIOUS
<1>3. CASE x \in S /\ t[x].flag = "VALID"
  <2> DEFINE e == [t[x] EXCEPT !.flag = "INVALID", !.cnt = 0]
  <2>1. Invalidated(t, S)[x] = e
    BY <1>1, <1>3
  <2>2. e \in Entries /\ e.flag = "INVALID" /\ e.dev = t[x].dev
    BY <1>2 DEF Entries, Flags
  <2> QED BY <1>3, <2>1, <2>2
<1>4. CASE ~(x \in S /\ t[x].flag = "VALID")
  BY <1>1, <1>2, <1>4
<1> QED BY <1>3, <1>4

-----------------------------------------------------------------------------
(* The inductive invariant.                                                *)

LEMMA InitInv == Init => IInv
<1> SUFFICES ASSUME Init PROVE IInv
  OBVIOUS
<1>1. TypeOK
  <2>1. table \in [Dsts -> Entries]
    BY NoEntryType DEF Init
  <2>2. rreqCount \in 0..RreqRateLimit
    BY LimitAssumption DEF Init
  <2>3. deferred \in [Dsts -> Nat] /\ ready \in [Dsts -> Nat]
    BY DEF Init
  <2>4. aborted \in BOOLEAN /\ up \subseteq Ifaces
    BY DEF Init
  <2> QED BY <2>1, <2>2, <2>3, <2>4 DEF Init, TypeOK
<1>2. SearchIsDriven /\ RoutesHaveDevice /\ NeverAborts
  BY NoEntryType DEF Init, SearchIsDriven, RoutesHaveDevice, NeverAborts
<1> QED BY <1>1, <1>2 DEF IInv

LEMMA TimersStep == IInv /\ Timers => IInv'
<1> SUFFICES ASSUME IInv, Timers PROVE IInv'
  OBVIOUS
<1> USE DEF IInv, TypeOK
<1>1. CASE RreqRateLimitTimerExpire
  <2>1. TypeOK'
    BY <1>1, LimitAssumption DEF RreqRateLimitTimerExpire
  <2>2. SearchIsDriven'
    BY <1>1 DEF RreqRateLimitTimerExpire, SearchIsDriven, Driven
  <2>3. RoutesHaveDevice' /\ NeverAborts'
    BY <1>1 DEF RreqRateLimitTimerExpire, RoutesHaveDevice, NeverAborts
  <2> QED BY <2>1, <2>2, <2>3
<1>2. ASSUME NEW d \in Dsts, DeferredSendRequest(d) PROVE IInv'
  <2>1. /\ SendRequest(d, reqTimer)
        /\ ready' = [ready EXCEPT ![d] = @ - 1] /\ ready[d] > 0
        /\ UNCHANGED <<queue, loopback, up, submitted, events>>
    BY <1>2 DEF DeferredSendRequest
  <2>2. ready' \in [Dsts -> Nat]
    BY <2>1
  <2>3. /\ table' \in [Dsts -> Entries] /\ reqTimer' \in SUBSET Dsts
        /\ rreqCount' \in 0..RreqRateLimit /\ deferred' \in [Dsts -> Nat]
        /\ aborted' = FALSE
        /\ reqTimer \subseteq reqTimer'
        /\ d \in reqTimer' \/ deferred'[d] > 0
        /\ \A x \in Dsts : deferred[x] > 0 => deferred'[x] > 0
        /\ \A x \in Dsts : \/ table'[x] = table[x]
                           \/ x = d /\ table'[x].flag = "IN_SEARCH"
    BY <2>1, SendRequestStep
  <2>4. TypeOK'
    BY <2>1, <2>2, <2>3
  <2>5. SearchIsDriven'
    BY <2>1, <2>3 DEF SearchIsDriven, Driven
  <2>6. RoutesHaveDevice' /\ NeverAborts'
    BY <2>3 DEF RoutesHaveDevice, NeverAborts
  <2> QED BY <2>4, <2>5, <2>6
<1>3. ASSUME NEW d \in Dsts, RouteRequestTimerExpire(d) PROVE IInv'
  <2>0. UNCHANGED <<loopback, ready, up, submitted, events>>
    BY <1>3 DEF RouteRequestTimerExpire
  <2>1. CASE /\ table[d].flag = "VALID"
             /\ queue' = Flushed(d, table[d].dev)
             /\ reqTimer' = reqTimer \ {d}
             /\ UNCHANGED <<table, rreqCount, deferred, aborted>>
    <3>1. TypeOK'
      BY <2>0, <2>1 DEF Flushed
    <3>2. SearchIsDriven' /\ RoutesHaveDevice' /\ NeverAborts'
      BY <2>0, <2>1 DEF SearchIsDriven, Driven, RoutesHaveDevice, NeverAborts
    <3> QED BY <3>1, <3>2
  <2>2. CASE GiveUp(d)
    <3>1. /\ table' = [table EXCEPT ![d] = NoEntry]
          /\ queue' \subseteq queue /\ reqTimer' = reqTimer \ {d}
          /\ UNCHANGED <<rreqCount, deferred, aborted>>
      BY <2>2 DEF GiveUp
    <3>2. TypeOK'
      BY <2>0, <3>1, NoEntryType
    <3>3. SearchIsDriven' /\ RoutesHaveDevice' /\ NeverAborts'
      BY <2>0, <3>1, NoEntryType
         DEF SearchIsDriven, Driven, RoutesHaveDevice, NeverAborts
    <3> QED BY <3>2, <3>3
  <2>3. CASE SendRequest(d, reqTimer \ {d}) /\ UNCHANGED queue
    <3>1. /\ table' \in [Dsts -> Entries] /\ reqTimer' \in SUBSET Dsts
          /\ rreqCount' \in 0..RreqRateLimit /\ deferred' \in [Dsts -> Nat]
          /\ aborted' = FALSE
          /\ reqTimer \ {d} \subseteq reqTimer'
          /\ d \in reqTimer' \/ deferred'[d] > 0
          /\ \A x \in Dsts : deferred[x] > 0 => deferred'[x] > 0
          /\ \A x \in Dsts : \/ table'[x] = table[x]
                             \/ x = d /\ table'[x].flag = "IN_SEARCH"
      BY <2>3, SendRequestStep
    <3>2. TypeOK'
      BY <2>0, <2>3, <3>1
    <3>3. SearchIsDriven'
      BY <2>0, <3>1 DEF SearchIsDriven, Driven
    <3>4. RoutesHaveDevice' /\ NeverAborts'
      BY <3>1 DEF RoutesHaveDevice, NeverAborts
    <3> QED BY <3>2, <3>3, <3>4
  <2> QED BY <1>3, <2>1, <2>2, <2>3 DEF RouteRequestTimerExpire
<1> QED BY <1>1, <1>2, <1>3 DEF Timers

LEMMA ApplicationStep == IInv /\ Application => IInv'
<1> SUFFICES ASSUME IInv, Application PROVE IInv'
  OBVIOUS
<1> USE DEF IInv, TypeOK
<1>1. ASSUME NEW d \in Dsts, NEW oif \in Bindings, RouteOutput(d, oif)
      PROVE  IInv'
  <2>1. /\ submitted' = submitted + 1
        /\ loopback' = loopback \cup {[n |-> submitted', dst |-> d, oif |-> oif]}
        /\ UNCHANGED <<table, queue, reqTimer, rreqCount, deferred, ready, up,
                       aborted, events>>
    BY <1>1 DEF RouteOutput
  <2>2. [n |-> submitted', dst |-> d, oif |-> oif] \in Packets
    BY <2>1, InputAssumption DEF Packets, Devices
  <2>3. TypeOK'
    BY <2>1, <2>2
  <2>4. SearchIsDriven' /\ RoutesHaveDevice' /\ NeverAborts'
    BY <2>1 DEF SearchIsDriven, Driven, RoutesHaveDevice, NeverAborts
  <2> QED BY <2>3, <2>4
<1>2. ASSUME NEW p \in loopback, DeferredRouteOutput(p) PROVE IInv'
  <2>1. p \in Packets /\ p.dst \in Dsts
    BY DEF Packets
  <2>2. queue' \subseteq queue \cup {p}
    BY <1>2 DEF DeferredRouteOutput, Enqueued
  <2>3. /\ loopback' \subseteq loopback
        /\ UNCHANGED <<ready, up, submitted, events>>
    BY <1>2 DEF DeferredRouteOutput
  <2>4. CASE UNCHANGED <<table, reqTimer, rreqCount, deferred, aborted>>
    <3>1. TypeOK'
      BY <2>1, <2>2, <2>3, <2>4
    <3>2. SearchIsDriven' /\ RoutesHaveDevice' /\ NeverAborts'
      BY <2>3, <2>4 DEF SearchIsDriven, Driven, RoutesHaveDevice, NeverAborts
    <3> QED BY <3>1, <3>2
  <2>5. CASE SendRequest(p.dst, reqTimer)
    <3>d. PICK d \in Dsts : d = p.dst
      BY <2>1
    <3>s. reqTimer \in SUBSET Dsts /\ SendRequest(d, reqTimer)
      BY <2>5, <3>d
    <3>1. /\ table' \in [Dsts -> Entries] /\ reqTimer' \in SUBSET Dsts
          /\ rreqCount' \in 0..RreqRateLimit /\ deferred' \in [Dsts -> Nat]
          /\ aborted' = FALSE
          /\ reqTimer \subseteq reqTimer'
          /\ d \in reqTimer' \/ deferred'[d] > 0
          /\ \A x \in Dsts : deferred[x] > 0 => deferred'[x] > 0
          /\ \A x \in Dsts : \/ table'[x] = table[x]
                             \/ x = d /\ table'[x].flag = "IN_SEARCH"
      BY <3>s, SendRequestStep
    <3>2. TypeOK'
      BY <2>1, <2>2, <2>3, <3>1
    <3>3. SearchIsDriven'
      BY <2>3, <3>1 DEF SearchIsDriven, Driven
    <3>4. RoutesHaveDevice' /\ NeverAborts'
      BY <3>1 DEF RoutesHaveDevice, NeverAborts
    <3> QED BY <3>2, <3>3, <3>4
  <2> QED BY <1>2, <2>4, <2>5 DEF DeferredRouteOutput
<1>3. ASSUME NEW p \in queue, QueueTimeout(p) PROVE IInv'
  <2>1. /\ queue' \subseteq queue
        /\ UNCHANGED <<table, loopback, reqTimer, rreqCount, deferred, ready,
                       up, aborted, submitted, events>>
    BY <1>3 DEF QueueTimeout
  <2>2. TypeOK'
    BY <2>1
  <2>3. SearchIsDriven' /\ RoutesHaveDevice' /\ NeverAborts'
    BY <2>1 DEF SearchIsDriven, Driven, RoutesHaveDevice, NeverAborts
  <2> QED BY <2>2, <2>3
<1> QED BY <1>1, <1>2, <1>3 DEF Application

LEMMA MessagesStep == IInv /\ Messages => IInv'
<1> SUFFICES ASSUME IInv, NEW s \in Dsts, NEW i \in Ifaces,
                    \/ \E d \in Dsts, seq \in SeqNos, hop \in Hops :
                         \/ \E mine \in BOOLEAN :
                              RecvReply(s, i, d, seq, hop, mine)
                         \/ RecvRequest(s, i, d, seq, hop)
                    \/ \E seq \in SeqNos : ProcessHello(s, i, seq)
                    \/ \E S \in SUBSET Dsts : RecvError(s, i, S)
                    \/ RecvReplyAck(s, i)
                    \/ RecvDuplicate(s, i)
             PROVE  IInv'
  BY DEF Messages
<1> DEFINE heard == NeighborUpdated(s, i)
<1>n. /\ heard \in [Dsts -> Entries]
      /\ \A x \in Dsts \ {s} : heard[x] = table[x]
      /\ heard[s].dev = i
      /\ \A x \in Dsts :
           /\ heard[x].flag = "IN_SEARCH" => table[x].flag = "IN_SEARCH"
           /\ heard[x].flag \in {"VALID", "INVALID"} => heard[x].dev \in Ifaces
  BY NeighborStep DEF IInv
<1> HIDE DEF heard
<1>1. ASSUME NEW d \in Dsts, NEW seq \in SeqNos, NEW hop \in Hops,
             NEW mine \in BOOLEAN, RecvReply(s, i, d, seq, hop, mine)
      PROVE  IInv'
  <2> DEFINE answer == mine /\ heard[d].flag = "IN_SEARCH"
             new == Route(TRUE, seq, hop, i)
  <2>1. /\ Receives(i)
        /\ table' = IF Stored(heard[d], seq, hop, answer)
                      THEN [heard EXCEPT ![d] = new] ELSE heard
        /\ reqTimer' = IF answer THEN reqTimer \ {d} ELSE reqTimer
        /\ queue' = IF mine THEN Flushed(d, table'[d].dev) ELSE queue
    BY <1>1 DEF RecvReply, heard
  <2>2. new \in Entries /\ new.flag = "VALID" /\ new.dev = i
    BY RouteEntry, InputAssumption
  <2>3. queue' \subseteq queue /\ reqTimer' \subseteq reqTimer
    BY <2>1 DEF Flushed
  <2>4. answer => table' = [heard EXCEPT ![d] = new]
    BY <2>1 DEF Stored
  <2> HIDE DEF new
  <2>5. table' = [heard EXCEPT ![d] = new] \/ table' = heard
    BY <2>1
  <2>6. table' \in [Dsts -> Entries]
    BY <1>n, <2>2, <2>5
  <2>7. ASSUME NEW x \in Dsts
        PROVE  /\ table'[x].flag = "IN_SEARCH"
                    => /\ table[x].flag = "IN_SEARCH"
                       /\ x \in reqTimer => x \in reqTimer'
               /\ table'[x].flag \in {"VALID", "INVALID"}
                    => table'[x].dev \in Ifaces
    <3>1. CASE answer
      BY <1>n, <2>1, <2>2, <2>4, <3>1
    <3>2. CASE ~answer
      BY <1>n, <2>1, <2>2, <2>5, <3>2
    <3> QED BY <3>1, <3>2
  <2> QED BY <2>1, <2>3, <2>6, <2>7, ReceiveStep
<1>2. ASSUME NEW o \in Dsts, NEW seq \in SeqNos, NEW hop \in Hops,
             RecvRequest(s, i, o, seq, hop)
      PROVE  IInv'
  <2> DEFINE rev == ReverseRoute(heard[o], i, seq, hop)
             new == Route(FALSE, seq, 1, i)
             reversed == [heard EXCEPT ![o] = rev, ![s] = new]
             made(q) == Route(TRUE, q, 1, i)
  <2>1. /\ Receives(i)
        /\ UNCHANGED <<queue, reqTimer>>
        /\ \/ table' = reversed
           \/ \E d \in Dsts, q \in SeqNos : table' = [reversed EXCEPT ![d] = made(q)]
    BY <1>2 DEF RecvRequest, heard
  <2>2. new \in Entries /\ new.flag = "VALID" /\ new.dev = i
    <3>1. seq \in Nat /\ 1 \in Nat /\ FALSE \in BOOLEAN
      BY InputAssumption
    <3> QED BY <3>1, RouteEntry
  <2>3. /\ rev \in Entries
        /\ rev.flag = "IN_SEARCH" => heard[o].flag = "IN_SEARCH"
        /\ rev.dev = i
    <3>1. CASE heard[o].flag = "NONE"
      BY <3>1, RouteEntry, InputAssumption DEF ReverseRoute
    <3>2. CASE heard[o].flag # "NONE"
      <4>1. seq \in Nat /\ hop \in Nat /\ i \in Devices
        BY InputAssumption DEF Devices
      <4> DEFINE e == heard[o]
                 sq == IF e.vseq /\ e.seq >= seq THEN e.seq ELSE seq
      <4>2. e \in Entries /\ sq \in Nat
        BY <1>n, <4>1 DEF Entries
      <4>3. rev = [e EXCEPT !.vseq = TRUE, !.hop = hop, !.dev = i, !.seq = sq]
        BY <3>2 DEF ReverseRoute
      <4> HIDE DEF e, sq
      <4>4. rev \in Entries /\ rev.flag = e.flag /\ rev.dev = i
        BY <4>1, <4>2, <4>3 DEF Entries
      <4> QED BY <4>4 DEF e
    <3> QED BY <3>1, <3>2
  <2>m. \A q \in SeqNos : /\ made(q) \in Entries
                          /\ made(q).flag = "VALID" /\ made(q).dev = i
    BY RouteEntry, InputAssumption
  <2> HIDE DEF rev, new, made
  <2>4. /\ reversed \in [Dsts -> Entries]
        /\ \A x \in Dsts :
             /\ reversed[x].flag = "IN_SEARCH" => table[x].flag = "IN_SEARCH"
             /\ reversed[x].flag \in {"VALID", "INVALID"}
                  => reversed[x].dev \in Ifaces
    BY <1>n, <2>2, <2>3
  <2> HIDE DEF reversed
  <2>5. /\ table' \in [Dsts -> Entries]
        /\ \A x \in Dsts :
             /\ table'[x].flag = "IN_SEARCH" => table[x].flag = "IN_SEARCH"
             /\ table'[x].flag \in {"VALID", "INVALID"}
                  => table'[x].dev \in Ifaces
    BY <2>1, <2>m, <2>4
  <2> QED BY <2>1, <2>5, ReceiveStep
<1>3. ASSUME NEW seq \in SeqNos, ProcessHello(s, i, seq) PROVE IInv'
  <2> DEFINE new == Route(TRUE, seq, 1, i)
  <2>1. /\ Receives(i)
        /\ table' = [table EXCEPT ![s] = new]
        /\ UNCHANGED <<queue, reqTimer>>
    BY <1>3 DEF ProcessHello
  <2>2. new \in Entries /\ new.flag = "VALID" /\ new.dev = i
    <3>1. seq \in Nat /\ 1 \in Nat /\ TRUE \in BOOLEAN
      BY InputAssumption
    <3> QED BY <3>1, RouteEntry
  <2> HIDE DEF new
  <2>3. table' \in [Dsts -> Entries]
    BY <2>1, <2>2 DEF IInv, TypeOK
  <2>4. ASSUME NEW x \in Dsts
        PROVE  /\ table'[x].flag = "IN_SEARCH" => table[x].flag = "IN_SEARCH"
               /\ table'[x].flag \in {"VALID", "INVALID"}
                    => table'[x].dev \in Ifaces
    BY <2>1, <2>2 DEF IInv, TypeOK, RoutesHaveDevice
  <2> QED BY <2>1, <2>3, <2>4, ReceiveStep
<1>4. ASSUME NEW S \in SUBSET Dsts, RecvError(s, i, S) PROVE IInv'
  <2>1. /\ Receives(i)
        /\ table' = Invalidated(heard, S)
        /\ UNCHANGED <<queue, reqTimer>>
    BY <1>4 DEF RecvError, heard
  <2>2. /\ table' \in [Dsts -> Entries]
        /\ \A x \in Dsts :
             /\ table'[x].flag = "IN_SEARCH" => heard[x].flag = "IN_SEARCH"
             /\ table'[x].flag \in {"VALID", "INVALID"}
                  => heard[x].flag \in {"VALID", "INVALID"}
             /\ table'[x].dev = heard[x].dev
    BY <1>n, <2>1, InvalidatedTable
  <2> QED BY <1>n, <2>1, <2>2, ReceiveStep
<1>5. CASE RecvReplyAck(s, i)
  <2> DEFINE new == [heard[s] EXCEPT !.flag = "VALID", !.cnt = 0]
  <2>1. /\ Receives(i)
        /\ table' = [heard EXCEPT ![s] = new]
        /\ UNCHANGED <<queue, reqTimer>>
    BY <1>5, <1>n DEF RecvReplyAck, heard
  <2>2. new \in Entries /\ new.flag = "VALID" /\ new.dev = i
    <3>1. heard[s] \in Entries
      BY <1>n
    <3>2. new \in Entries /\ new.flag = "VALID" /\ new.dev = heard[s].dev
      BY <3>1 DEF Entries, Flags
    <3> QED BY <1>n, <3>2
  <2> HIDE DEF new
  <2>3. table' \in [Dsts -> Entries]
    BY <1>n, <2>1, <2>2
  <2>4. ASSUME NEW x \in Dsts
        PROVE  /\ table'[x].flag = "IN_SEARCH" => table[x].flag = "IN_SEARCH"
               /\ table'[x].flag \in {"VALID", "INVALID"}
                    => table'[x].dev \in Ifaces
    BY <1>n, <2>1, <2>2
  <2> QED BY <2>1, <2>3, <2>4, ReceiveStep
<1>6. CASE RecvDuplicate(s, i)
  <2>1. Receives(i) /\ table' = heard /\ UNCHANGED <<queue, reqTimer>>
    BY <1>6 DEF RecvDuplicate, heard
  <2> QED BY <1>n, <2>1, ReceiveStep
<1> QED BY <1>1, <1>2, <1>3, <1>4, <1>5, <1>6

LEMMA LossesStep == IInv /\ Losses => IInv'
<1> SUFFICES ASSUME IInv, Losses PROVE IInv'
  OBVIOUS
<1> USE DEF IInv, TypeOK, RoutesHaveDevice
<1>1. ASSUME NEW S \in SUBSET Dsts, LoseRoutes(S) PROVE IInv'
  <2>1. /\ table' = Invalidated(table, S)
        /\ UNCHANGED <<queue, loopback, reqTimer, rreqCount, deferred, ready,
                       up, aborted, submitted, events>>
    BY <1>1 DEF LoseRoutes
  <2> QED BY <2>1, InvalidatedTable, LossStep
<1>2. ASSUME NEW S \in SUBSET Dsts, EraseRoutes(S) PROVE IInv'
  <2>1. /\ table' = [d \in Dsts |-> IF d \in S THEN NoEntry ELSE table[d]]
        /\ UNCHANGED <<queue, loopback, reqTimer, rreqCount, deferred, ready,
                       up, aborted, submitted, events>>
    BY <1>2 DEF EraseRoutes
  <2> QED BY <2>1, NoEntryType, LossStep
<1>3. ASSUME NEW i \in Ifaces, NotifyInterfaceDown(i) PROVE IInv'
  <2>1. /\ table' = [d \in Dsts |-> IF up' = {} \/ table[d].dev = i
                                      THEN NoEntry ELSE table[d]]
        /\ up' = up \ {i} /\ events' = events + 1
        /\ UNCHANGED <<queue, loopback, reqTimer, rreqCount, deferred, ready,
                       aborted, submitted>>
    BY <1>3 DEF NotifyInterfaceDown
  <2>2. up' \subseteq Ifaces /\ events' \in Nat
    BY <2>1
  <2> QED BY <2>1, <2>2, NoEntryType, LossStep
<1>4. ASSUME NEW i \in Ifaces, NotifyInterfaceUp(i) PROVE IInv'
  BY <1>4, LossStep DEF NotifyInterfaceUp
<1> QED BY <1>1, <1>2, <1>3, <1>4 DEF Losses

LEMMA NextStep == IInv /\ [Next]_vars => IInv'
<1>1. IInv /\ UNCHANGED vars => IInv'
  BY DEF vars, IInv, TypeOK, SearchIsDriven, Driven, RoutesHaveDevice,
         NeverAborts
<1> QED BY <1>1, TimersStep, ApplicationStep, MessagesStep, LossesStep DEF Next

\* The invariant holds in every reachable state of every instance.
THEOREM Invariance == Spec => []IInv
<1>1. Init => IInv
  BY InitInv
<1>2. IInv /\ [Next]_vars => IInv'
  BY NextStep
<1> QED BY <1>1, <1>2, PTL DEF Spec

\* The state is typed and at most RreqRateLimit RREQs leave in a window.
THEOREM TypeCorrect == Spec => []TypeOK
<1>1. IInv => TypeOK
  BY DEF IInv
<1> QED BY <1>1, Invariance, PTL

\* No search stalls: SendRequest, the timer and the rate limiter hand an
\* IN_SEARCH entry on to one another, whatever else happens.
THEOREM SearchesAreDriven == Spec => []SearchIsDriven
<1>1. IInv => SearchIsDriven
  BY DEF IInv
<1> QED BY <1>1, Invariance, PTL

\* The assertion in ScheduleRreqRetry holds for every setting of the TTL
\* attributes that TtlAssumption admits.
THEOREM RetriesNeverAbort == Spec => []NeverAborts
<1>1. IInv => NeverAborts
  BY DEF IInv
<1> QED BY <1>1, Invariance, PTL

\* Every valid or broken route has an output device.
THEOREM DevicesAreKnown == Spec => []RoutesHaveDevice
<1>1. IInv => RoutesHaveDevice
  BY DEF IInv
<1> QED BY <1>1, Invariance, PTL

-----------------------------------------------------------------------------
(* The retries.                                                            *)

\* What ends a search resets its counter: the entries that are not in search
\* have counted no RREQ, so a new search starts at 0.
CountersReset ==
  \A d \in Dsts : table[d].flag # "IN_SEARCH" => table[d].cnt = 0

\* A reverse route is new and uncounted, or keeps the flag and the count.
LEMMA ReverseRouteCounts ==
  ASSUME NEW e \in Entries, NEW i, NEW seq, NEW hop
  PROVE  LET r == ReverseRoute(e, i, seq, hop)
         IN  r.cnt = 0 \/ (r.cnt = e.cnt /\ r.flag = e.flag)
<1> DEFINE q == IF e.vseq /\ e.seq >= seq THEN e.seq ELSE seq
           u == [e EXCEPT !.vseq = TRUE, !.hop = hop, !.dev = i, !.seq = q]
<1>1. e.flag = "NONE" => ReverseRoute(e, i, seq, hop) = Route(TRUE, seq, hop, i)
  BY DEF ReverseRoute
<1>2. e.flag # "NONE" => ReverseRoute(e, i, seq, hop) = u
  BY DEF ReverseRoute, Entries
<1>3. Route(TRUE, seq, hop, i).cnt = 0
  BY DEF Route
<1> HIDE DEF q
<1>4. u.cnt = e.cnt /\ u.flag = e.flag
  BY DEF Entries
<1> HIDE DEF u
<1> QED BY <1>1, <1>2, <1>3, <1>4

\* SendRequest counts one RREQ at most.
LEMMA SearchingCounts ==
  ASSUME NEW e \in Entries
  PROVE  Searching(e).cnt \in {e.cnt, e.cnt + 1}
BY DEF Searching, Entries

\* A SendRequest for an entry with retries left, or for one that is not in
\* search, leaves every counter within m_rreqRetries.
LEMMA SendRequestCounts ==
  ASSUME TypeOK, CountersReset, NEW d \in Dsts, NEW timers,
         SendRequest(d, timers)
  PROVE  /\ CountersReset'
         /\ RetriesBounded /\ (table[d].flag = "IN_SEARCH"
                                 => ~RetriesUsedUp(table[d]))
              => RetriesBounded'
<1>1. CASE table' = table
  BY <1>1 DEF CountersReset, RetriesBounded
<1>2. CASE table' = [table EXCEPT ![d] = Searching(@)]
  <2>1. table[d] \in Entries /\ table[d].cnt \in Nat /\ RreqRetries \in Nat \ {0}
    BY LimitAssumption DEF TypeOK, Entries
  <2>2. /\ Searching(table[d]).flag = "IN_SEARCH"
        /\ Searching(table[d]).cnt \in {table[d].cnt, table[d].cnt + 1}
    BY <2>1, SearchingEntry, SearchingCounts
  <2>3. \A x \in Dsts : table'[x] = IF x = d THEN Searching(table[d]) ELSE table[x]
    BY <1>2 DEF TypeOK
  <2>4. CountersReset'
    BY <2>2, <2>3 DEF CountersReset
  <2>5. ASSUME RetriesBounded,
               table[d].flag = "IN_SEARCH" => ~RetriesUsedUp(table[d])
        PROVE  RetriesBounded'
    <3>1. table[d].cnt < RreqRetries
      BY <2>1, <2>5 DEF RetriesBounded, RetriesUsedUp, CountersReset
    <3>2. Searching(table[d]).cnt <= RreqRetries
      BY <2>1, <2>2, <3>1
    <3> QED BY <2>3, <2>5, <3>2 DEF RetriesBounded
  <2> QED BY <2>4, <2>5
<1> QED BY <1>1, <1>2 DEF SendRequest

\* A step that leaves each entry in search as it was, or replaces it by one
\* that has counted nothing.
LEMMA UncountedStep ==
  ASSUME CountersReset,
         \A x \in Dsts : \/ table'[x].cnt = 0
                         \/ /\ table'[x].cnt = table[x].cnt
                            /\ table'[x].flag = table[x].flag
  PROVE  CountersReset' /\ (RetriesBounded => RetriesBounded')
<1>1. CountersReset'
  BY DEF CountersReset
<1>2. ASSUME RetriesBounded PROVE RetriesBounded'
  <2>1. 0 <= RreqRetries
    BY LimitAssumption
  <2> QED BY <1>2, <2>1 DEF RetriesBounded
<1> QED BY <1>1, <1>2

\* UpdateRouteToNeighbor replaces the sender's entry or leaves it.
LEMMA NeighborCounts ==
  ASSUME TypeOK, NEW s \in Dsts, NEW i \in Ifaces, NEW x \in Dsts
  PROVE  \/ NeighborUpdated(s, i)[x] = table[x]
         \/ NeighborUpdated(s, i)[x].cnt = 0
BY DEF NeighborUpdated, Route, TypeOK

\* Invalidate resets the counter of the entry.
LEMMA InvalidatedCounts ==
  ASSUME NEW t, NEW S \in SUBSET Dsts, NEW x \in Dsts, t[x] \in Entries
  PROVE  Invalidated(t, S)[x] = t[x] \/ Invalidated(t, S)[x].cnt = 0
<1>1. [t[x] EXCEPT !.flag = "INVALID", !.cnt = 0].cnt = 0
  BY DEF Entries
<1> QED BY <1>1 DEF Invalidated

\* The messages reset counters or leave them alone; a reverse route keeps the
\* counter with the flag.
LEMMA MessagesCount ==
  ASSUME IInv, CountersReset, Messages
  PROVE  CountersReset' /\ (RetriesBounded => RetriesBounded')
<1>p. PICK s \in Dsts, i \in Ifaces :
       \/ \E d \in Dsts, seq \in SeqNos, hop \in Hops :
            \/ \E mine \in BOOLEAN : RecvReply(s, i, d, seq, hop, mine)
            \/ RecvRequest(s, i, d, seq, hop)
       \/ \E seq \in SeqNos : ProcessHello(s, i, seq)
       \/ \E S \in SUBSET Dsts : RecvError(s, i, S)
       \/ RecvReplyAck(s, i)
       \/ RecvDuplicate(s, i)
  BY Zenon DEF Messages
<1> DEFINE heard == NeighborUpdated(s, i)
           Kept(x) == \/ table'[x].cnt = 0
                      \/ /\ table'[x].cnt = table[x].cnt
                         /\ table'[x].flag = table[x].flag
<1>h. /\ heard \in [Dsts -> Entries]
      /\ \A x \in Dsts : heard[x] = table[x] \/ heard[x].cnt = 0
  BY NeighborStep, NeighborCounts DEF IInv
<1>r. \A v, q, h, j : Route(v, q, h, j).cnt = 0
  BY DEF Route
<1> HIDE DEF heard
<1>1. ASSUME NEW d \in Dsts, NEW seq \in SeqNos, NEW hop \in Hops,
             NEW mine \in BOOLEAN, RecvReply(s, i, d, seq, hop, mine)
      PROVE  \A x \in Dsts : Kept(x)
  <2>1. table' \in {heard, [heard EXCEPT ![d] = Route(TRUE, seq, hop, i)]}
    BY <1>1 DEF RecvReply, heard
  <2>2. Route(TRUE, seq, hop, i).cnt = 0
    BY DEF Route
  <2>3. ASSUME NEW x \in Dsts PROVE table'[x] = heard[x] \/ table'[x].cnt = 0
    <3>1. CASE table' = heard
      BY <3>1
    <3>2. CASE table' = [heard EXCEPT ![d] = Route(TRUE, seq, hop, i)]
      BY <1>h, <2>2, <3>2
    <3> QED BY <2>1, <3>1, <3>2
  <2> QED BY <1>h, <2>3
<1>2. ASSUME NEW o \in Dsts, NEW seq \in SeqNos, NEW hop \in Hops,
             RecvRequest(s, i, o, seq, hop)
      PROVE  \A x \in Dsts : Kept(x)
  <2> DEFINE rev == ReverseRoute(heard[o], i, seq, hop)
             reversed == [heard EXCEPT ![o] = rev, ![s] = Route(FALSE, seq, 1, i)]
  <2>1. \/ table' = reversed
        \/ \E d \in Dsts, q \in SeqNos :
             table' = [reversed EXCEPT ![d] = Route(TRUE, q, 1, i)]
    BY <1>2 DEF RecvRequest, heard
  <2>2. rev.cnt = 0 \/ (rev.cnt = heard[o].cnt /\ rev.flag = heard[o].flag)
    <3>1. heard[o] \in Entries
      BY <1>h
    <3> QED BY <3>1, ReverseRouteCounts
  <2> HIDE DEF rev
  <2>3. ASSUME NEW x \in Dsts
        PROVE  \/ reversed[x].cnt = 0
               \/ /\ reversed[x].cnt = heard[x].cnt
                  /\ reversed[x].flag = heard[x].flag
    BY <1>h, <1>r, <2>2
  <2>4. DOMAIN reversed = Dsts
    BY <1>h
  <2> HIDE DEF reversed
  <2>5. ASSUME NEW x \in Dsts
        PROVE  table'[x] = reversed[x] \/ table'[x].cnt = 0
    <3>1. ASSUME NEW d \in Dsts, NEW q \in SeqNos,
                 table' = [reversed EXCEPT ![d] = Route(TRUE, q, 1, i)]
          PROVE  table'[x] = reversed[x] \/ table'[x].cnt = 0
      <4>1. table'[x] = IF x = d THEN Route(TRUE, q, 1, i) ELSE reversed[x]
        BY <2>4, <3>1
      <4>2. Route(TRUE, q, 1, i).cnt = 0
        BY <1>r
      <4> QED BY <4>1, <4>2
    <3> QED BY <2>1, <3>1
  <2> QED BY <1>h, <2>3, <2>5
<1>3. ASSUME NEW seq \in SeqNos, ProcessHello(s, i, seq)
      PROVE  \A x \in Dsts : Kept(x)
  BY <1>3, <1>r DEF ProcessHello, IInv, TypeOK
<1>4. ASSUME NEW S \in SUBSET Dsts, RecvError(s, i, S)
      PROVE  \A x \in Dsts : Kept(x)
  <2>1. table' = Invalidated(heard, S)
    BY <1>4 DEF RecvError, heard
  <2> QED BY <1>h, <2>1, InvalidatedCounts
<1>5. ASSUME RecvReplyAck(s, i) PROVE \A x \in Dsts : Kept(x)
  <2>1. table' = [heard EXCEPT ![s].flag = "VALID", ![s].cnt = 0]
    BY <1>5 DEF RecvReplyAck, heard
  <2>2. [heard[s] EXCEPT !.flag = "VALID", !.cnt = 0].cnt = 0
    BY <1>h DEF Entries
  <2>3. \A x \in Dsts : table'[x] = IF x = s
                          THEN [heard[s] EXCEPT !.flag = "VALID", !.cnt = 0]
                          ELSE heard[x]
    BY <1>h, <2>1
  <2> QED BY <1>h, <2>2, <2>3
<1>6. ASSUME RecvDuplicate(s, i) PROVE \A x \in Dsts : Kept(x)
  BY <1>6, <1>h DEF RecvDuplicate, heard
<1>7. \A x \in Dsts : Kept(x)
  BY <1>p, <1>1, <1>2, <1>3, <1>4, <1>5, <1>6
<1> QED BY <1>7, UncountedStep

LEMMA LossesCount ==
  ASSUME IInv, CountersReset, Losses
  PROVE  CountersReset' /\ (RetriesBounded => RetriesBounded')
<1> USE DEF IInv
<1>1. NoEntry.cnt = 0
  BY DEF NoEntry
<1>2. ASSUME NEW x \in Dsts
      PROVE  table'[x] = table[x] \/ table'[x].cnt = 0
  <2>1. ASSUME NEW S \in SUBSET Dsts, LoseRoutes(S)
        PROVE  table'[x] = table[x] \/ table'[x].cnt = 0
    BY <2>1, InvalidatedCounts DEF LoseRoutes, TypeOK
  <2>2. ASSUME NEW S \in SUBSET Dsts, EraseRoutes(S)
        PROVE  table'[x] = table[x] \/ table'[x].cnt = 0
    BY <2>2, <1>1 DEF EraseRoutes
  <2>3. ASSUME NEW i \in Ifaces, NotifyInterfaceDown(i)
        PROVE  table'[x] = table[x] \/ table'[x].cnt = 0
    BY <2>3, <1>1 DEF NotifyInterfaceDown
  <2>4. ASSUME NEW i \in Ifaces, NotifyInterfaceUp(i)
        PROVE  table'[x] = table[x]
    BY <2>4 DEF NotifyInterfaceUp
  <2> QED BY <2>1, <2>2, <2>3, <2>4 DEF Losses
<1> QED BY <1>2, UncountedStep

LEMMA ApplicationCounts ==
  ASSUME IInv, CountersReset, Application
  PROVE  CountersReset' /\ (RetriesBounded => RetriesBounded')
<1>1. CASE UNCHANGED table
  BY <1>1, UncountedStep
<1>2. ASSUME NEW p \in loopback, DeferredRouteOutput(p), ~UNCHANGED table
      PROVE  CountersReset' /\ (RetriesBounded => RetriesBounded')
  <2>1. PICK d \in Dsts : d = p.dst
    BY DEF IInv, TypeOK, Packets
  <2>2. SendRequest(d, reqTimer) /\ table[d].flag # "IN_SEARCH"
    BY <1>2, <2>1 DEF DeferredRouteOutput, StartsSearch
  <2> QED BY <2>2, SendRequestCounts DEF IInv
<1> QED BY <1>1, <1>2 DEF Application, RouteOutput, QueueTimeout

\* The timer handler asks for the counter before it sends; the postponed call
\* does not.
LEMMA TimersCount ==
  ASSUME IInv, CountersReset, Timers
  PROVE  /\ CountersReset'
         /\ \/ RetriesBounded => RetriesBounded'
            \/ \E d \in Dsts : DeferredSendRequest(d)
<1>1. CASE RreqRateLimitTimerExpire
  BY <1>1, UncountedStep DEF RreqRateLimitTimerExpire
<1>2. ASSUME NEW d \in Dsts, DeferredSendRequest(d) PROVE CountersReset'
  BY <1>2, SendRequestCounts DEF DeferredSendRequest, IInv
<1>3. ASSUME NEW d \in Dsts, RouteRequestTimerExpire(d)
      PROVE  CountersReset' /\ (RetriesBounded => RetriesBounded')
  <2>1. CASE UNCHANGED table
    BY <2>1, UncountedStep
  <2>2. CASE GiveUp(d)
    <3>1. table' = [table EXCEPT ![d] = NoEntry] /\ NoEntry.cnt = 0
      BY <2>2 DEF GiveUp, NoEntry
    <3> QED BY <3>1, UncountedStep DEF IInv, TypeOK
  <2>3. CASE SendRequest(d, reqTimer \ {d}) /\ ~RetriesUsedUp(table[d])
    BY <2>3, SendRequestCounts DEF IInv
  <2> QED BY <1>3, <2>1, <2>2, <2>3 DEF RouteRequestTimerExpire
<1> QED BY <1>1, <1>2, <1>3 DEF Timers

\* A message is received on one interface; the rate limiter and the loopback
\* device are left alone.
LEMMA MessagesReceive ==
  ASSUME Messages
  PROVE  UNCHANGED <<loopback, rreqCount, deferred, ready>>
<1> PICK s \in Dsts, i \in Ifaces :
       \/ \E d \in Dsts, seq \in SeqNos, hop \in Hops :
            \/ \E mine \in BOOLEAN : RecvReply(s, i, d, seq, hop, mine)
            \/ RecvRequest(s, i, d, seq, hop)
       \/ \E seq \in SeqNos : ProcessHello(s, i, seq)
       \/ \E S \in SUBSET Dsts : RecvError(s, i, S)
       \/ RecvReplyAck(s, i)
       \/ RecvDuplicate(s, i)
  BY Zenon DEF Messages
<1>1. Receives(i)
  BY DEF RecvReply, RecvRequest, ProcessHello, RecvError, RecvReplyAck,
         RecvDuplicate
<1> QED BY <1>1 DEF Receives

\* A message takes packets out of the queue or leaves it alone.
LEMMA MessagesShrink ==
  ASSUME Messages
  PROVE  queue' \subseteq queue
<1> PICK s \in Dsts, i \in Ifaces :
       \/ \E d \in Dsts, seq \in SeqNos, hop \in Hops :
            \/ \E mine \in BOOLEAN : RecvReply(s, i, d, seq, hop, mine)
            \/ RecvRequest(s, i, d, seq, hop)
       \/ \E seq \in SeqNos : ProcessHello(s, i, seq)
       \/ \E S \in SUBSET Dsts : RecvError(s, i, S)
       \/ RecvReplyAck(s, i)
       \/ RecvDuplicate(s, i)
  BY Zenon DEF Messages
<1>1. ASSUME NEW d \in Dsts, NEW seq \in SeqNos, NEW hop \in Hops,
             NEW mine \in BOOLEAN, RecvReply(s, i, d, seq, hop, mine)
      PROVE  queue' \subseteq queue
  <2>1. queue' = IF mine THEN Flushed(d, table'[d].dev) ELSE queue
    BY <1>1 DEF RecvReply
  <2> QED BY <2>1 DEF Flushed
<1> QED BY <1>1 DEF RecvRequest, ProcessHello, RecvError, RecvReplyAck,
                    RecvDuplicate

\* So does a timer.
LEMMA TimersShrink ==
  ASSUME Timers
  PROVE  queue' \subseteq queue
<1>1. ASSUME NEW d \in Dsts, RouteRequestTimerExpire(d)
      PROVE  queue' \subseteq queue
  <2>1. queue' \in {Flushed(d, table[d].dev), queue \ Waiting(d), queue}
    BY <1>1 DEF RouteRequestTimerExpire, GiveUp
  <2> QED BY <2>1 DEF Flushed
<1> QED BY <1>1 DEF Timers, RreqRateLimitTimerExpire, DeferredSendRequest

LEMMA CountStep ==
  ASSUME IInv, CountersReset, [Next]_vars
  PROVE  /\ CountersReset'
         /\ RetriesBounded /\ ~RetriesBounded'
              => \E d \in Dsts : DeferredSendRequest(d)
<1>1. CASE UNCHANGED vars
  BY <1>1, UncountedStep DEF vars
<1>2. CASE Next
  BY <1>2, TimersCount, ApplicationCounts, MessagesCount, LossesCount DEF Next
<1> QED BY <1>1, <1>2

LEMMA CountersAreReset == Spec => []CountersReset
<1>1. Init => CountersReset
  BY DEF Init, CountersReset, NoEntry
<1>2. IInv /\ CountersReset /\ [Next]_vars => CountersReset'
  BY CountStep
<1> QED BY <1>1, <1>2, Invariance, PTL DEF Spec

\* Only a postponed SendRequest exceeds m_rreqRetries, for every setting of the
\* attributes and any order of timers, replies, losses and packets.
THEOREM OnlyPostponedExceed == Spec => ExceededByPostponed
<1>1. IInv /\ CountersReset /\ [Next]_vars
        => [RetriesBounded /\ ~RetriesBounded'
              => \E d \in Dsts : DeferredSendRequest(d)]_vars
  BY CountStep
<1> QED BY <1>1, Invariance, CountersAreReset, PTL
        DEF Spec, ExceededByPostponed

\* The rate limiter postpones nothing.
NothingPostponed == \A d \in Dsts : deferred[d] = 0

\* While the rate limiter postpones nothing, the comment on m_rreqRetries is
\* true: no search sends more than RreqRetries RREQs at the full diameter.
THEOREM RetriesStayBounded == Spec /\ []NothingPostponed => []RetriesBounded
<1> DEFINE Idle == \A d \in Dsts : ready[d] = 0
<1>1. Init => RetriesBounded /\ Idle
  BY DEF Init, RetriesBounded, NoEntry
<1>2. ASSUME IInv, NothingPostponed, Idle, [Next]_vars PROVE Idle'
  <2>1. CASE UNCHANGED ready
    BY <1>2, <2>1
  <2>2. CASE RreqRateLimitTimerExpire
    BY <1>2, <2>2 DEF RreqRateLimitTimerExpire, NothingPostponed
  <2>3. \A d \in Dsts : ~DeferredSendRequest(d)
    <3>1. ~(0 > 0)
      OBVIOUS
    <3> QED BY <1>2, <3>1 DEF DeferredSendRequest
  <2>4. Messages => UNCHANGED ready
    BY MessagesReceive
  <2>5. Timers => RreqRateLimitTimerExpire \/ UNCHANGED ready
    BY <2>3, Zenon DEF Timers, RouteRequestTimerExpire
  <2>6. Application \/ Losses => UNCHANGED ready
    BY DEF Application, RouteOutput, DeferredRouteOutput, QueueTimeout, Losses,
           LoseRoutes, EraseRoutes, NotifyInterfaceDown, NotifyInterfaceUp
  <2> QED BY <1>2, <2>1, <2>2, <2>4, <2>5, <2>6 DEF Next, vars
<1>3. ASSUME IInv, CountersReset, Idle, RetriesBounded, [Next]_vars
      PROVE  RetriesBounded'
  <2>1. \A d \in Dsts : ~DeferredSendRequest(d)
    <3>1. ~(0 > 0)
      OBVIOUS
    <3> QED BY <1>3, <3>1 DEF DeferredSendRequest
  <2> QED BY <1>3, <2>1, CountStep
<1> HIDE DEF Idle
<1>4. IInv /\ NothingPostponed /\ Idle /\ [Next]_vars => Idle'
  BY <1>2
<1>5. IInv /\ CountersReset /\ Idle /\ RetriesBounded /\ [Next]_vars
        => RetriesBounded'
  BY <1>3
<1> QED BY <1>1, <1>4, <1>5, Invariance, CountersAreReset, PTL DEF Spec

-----------------------------------------------------------------------------
(* Packets that no interface is foreign to.                                *)

\* Whatever a packet is bound to, a route over any interface serves it: the
\* node has one interface, or packets are bound to none.
NoneForeign == \A b \in Bindings, i \in Ifaces : b \in {NoIface, i}

\* The packets in the queue and on their way to it are bound as RouteOutput
\* was asked to.
BoundAsAsked == \A p \in queue \cup loopback : p.oif \in Bindings

LEMMA BoundStep ==
  ASSUME BoundAsAsked, [Next]_vars
  PROVE  BoundAsAsked'
<1>1. ASSUME Timers PROVE BoundAsAsked'
  <2>1. loopback' = loopback
    BY <1>1 DEF Timers, RreqRateLimitTimerExpire, DeferredSendRequest,
                RouteRequestTimerExpire
  <2>2. queue' \subseteq queue
    BY <1>1, TimersShrink
  <2> QED BY <2>1, <2>2 DEF BoundAsAsked
<1>2. ASSUME NEW d \in Dsts, NEW oif \in Bindings, RouteOutput(d, oif)
      PROVE  BoundAsAsked'
  BY <1>2 DEF RouteOutput, BoundAsAsked
<1>3. ASSUME NEW p \in loopback, DeferredRouteOutput(p) PROVE BoundAsAsked'
  BY <1>3 DEF DeferredRouteOutput, Enqueued, BoundAsAsked
<1>4. ASSUME NEW p \in queue, QueueTimeout(p) PROVE BoundAsAsked'
  BY <1>4 DEF QueueTimeout, BoundAsAsked
<1>5. ASSUME Messages PROVE BoundAsAsked'
  <2>1. loopback' = loopback
    BY <1>5, MessagesReceive
  <2>2. queue' \subseteq queue
    BY <1>5, MessagesShrink
  <2> QED BY <2>1, <2>2 DEF BoundAsAsked
<1>6. ASSUME Losses \/ UNCHANGED vars PROVE BoundAsAsked'
  <2>1. UNCHANGED <<queue, loopback>>
    BY <1>6 DEF Losses, LoseRoutes, EraseRoutes, NotifyInterfaceDown,
                NotifyInterfaceUp, vars
  <2> QED BY <2>1 DEF BoundAsAsked
<1> QED BY <1>1, <1>2, <1>3, <1>4, <1>5, <1>6 DEF Next, Application

LEMMA PacketsAreBound == Spec => []BoundAsAsked
<1>1. Init => BoundAsAsked
  BY DEF Init, BoundAsAsked
<1>2. BoundAsAsked /\ [Next]_vars => BoundAsAsked'
  BY BoundStep
<1> QED BY <1>1, <1>2, PTL DEF Spec

\* No packet is foreign to the interface, so SendPacketFromQueue empties its
\* destination's part of the queue.
LEMMA FlushedEmpties ==
  ASSUME NoneForeign, BoundAsAsked, NEW d \in Dsts, NEW i \in Ifaces
  PROVE  \A p \in Flushed(d, i) : p \in queue /\ p.dst # d
<1>1. \A p \in Waiting(d) : p.oif \in {NoIface, i}
  BY DEF NoneForeign, BoundAsAsked, Waiting
<1>2. {p \in Waiting(d) : p.oif \notin {NoIface, i}} = {}
  BY <1>1
<1>3. Flushed(d, i) = queue \ Waiting(d)
  BY <1>2 DEF Flushed
<1> QED BY <1>3 DEF Waiting

\* Where no packet is foreign to an interface, a reply to this node's search
\* takes every packet for the destination out of the queue, whether the answer
\* is stored or an entry of before serves.
THEOREM RepliesDoEmptyQueue ==
  ASSUME NoneForeign
  PROVE  Spec => RepliesEmptyQueue
<1>1. ASSUME IInv, BoundAsAsked, NEW s \in Dsts, NEW i \in Ifaces,
             NEW d \in Dsts, NEW seq \in SeqNos, NEW hop \in Hops,
             RecvReply(s, i, d, seq, hop, TRUE)
      PROVE  ~\E p \in queue' : p.dst = d
  <2> DEFINE heard == NeighborUpdated(s, i)
             stored == Stored(heard[d], seq, hop, heard[d].flag = "IN_SEARCH")
  <2>1. /\ queue' = Flushed(d, table'[d].dev)
        /\ table' = IF stored
                      THEN [heard EXCEPT ![d] = Route(TRUE, seq, hop, i)]
                      ELSE heard
    BY <1>1 DEF RecvReply
  <2>2. /\ heard \in [Dsts -> Entries]
        /\ heard[d].flag \in {"VALID", "INVALID"} => heard[d].dev \in Ifaces
    BY <1>1, NeighborStep DEF IInv
  <2>3. table'[d].dev \in Ifaces
    <3>1. CASE stored
      BY <2>1, <2>2, <3>1 DEF Route
    <3>2. CASE ~stored
      <4>1. heard[d].flag \in {"VALID", "INVALID"}
        BY <2>2, <3>2 DEF Stored, Accepts, Entries, Flags
      <4> QED BY <2>1, <2>2, <3>2, <4>1
    <3> QED BY <3>1, <3>2
  <2> QED BY <1>1, <2>1, <2>3, FlushedEmpties
<1>2. IInv /\ BoundAsAsked /\ [Next]_vars
        => [\A s \in Dsts, i \in Ifaces, d \in Dsts, seq \in SeqNos, hop \in Hops :
              RecvReply(s, i, d, seq, hop, TRUE)
                => ~\E p \in queue' : p.dst = d]_vars
  BY <1>1
<1> QED BY <1>2, Invariance, PacketsAreBound, PTL DEF Spec, RepliesEmptyQueue

-----------------------------------------------------------------------------
(* The queue's limit.                                                      *)

QueueLimit == IsFiniteSet(queue) /\ Cardinality(queue) <= MaxQueueLen

\* A subset of the queue keeps the limit.
LEMMA ShrinkStep ==
  ASSUME QueueLimit, queue' \subseteq queue
  PROVE  QueueLimit'
<1>1. IsFiniteSet(queue') /\ Cardinality(queue') <= Cardinality(queue)
  BY FS_Subset DEF QueueLimit
<1>2. {Cardinality(queue), Cardinality(queue'), MaxQueueLen} \subseteq Nat
  BY <1>1, FS_CardinalityType, LimitAssumption DEF QueueLimit
<1> QED BY <1>1, <1>2 DEF QueueLimit

\* The packets that are not the oldest are fewer.
LEMMA OldestDropped ==
  ASSUME QueueLimit, queue \subseteq Packets, queue # {}
  PROVE  LET rest == {x \in queue : \E y \in queue : y.n < x.n}
         IN  IsFiniteSet(rest) /\ Cardinality(rest) < Cardinality(queue)
<1> DEFINE rest == {x \in queue : \E y \in queue : y.n < x.n}
           below == [x \in queue |-> {y \in queue : y.n <= x.n}]
           belows == {below[x] : x \in queue}
<1>1. \A x \in queue : x.n \in Nat
  BY DEF Packets
<1>2. \A x, y \in queue : y.n < x.n =>
        below[y] \in SUBSET below[x] /\ below[y] # below[x]
  <2>1. ASSUME NEW x \in queue, NEW y \in queue, y.n < x.n
        PROVE  below[y] \subseteq below[x] /\ x \in below[x] /\ x \notin below[y]
    BY <1>1, <2>1
  <2> QED BY <2>1
<1>3. PICK x \in queue : \A y \in queue :
        ~(below[y] \in SUBSET below[x] /\ below[y] # below[x])
  <2>1. belows \subseteq FiniteSubsetsOf(queue) /\ belows # {}
    <3>1. \A x \in queue : below[x] \in SUBSET queue
      OBVIOUS
    <3>2. \A x \in queue : IsFiniteSet(below[x])
      BY <3>1, FS_Subset DEF QueueLimit
    <3> QED BY <3>1, <3>2 DEF FiniteSubsetsOf
  <2>2. IsWellFoundedOn(StrictSubsetOrdering(queue), FiniteSubsetsOf(queue))
    BY FS_StrictSubsetOrderingWellFounded
  <2> HIDE DEF belows, below
  <2>3. PICK b \in belows :
          \A c \in belows : ~(<<c, b>> \in StrictSubsetOrdering(queue))
    BY <2>1, <2>2, WFMin
  <2>4. PICK x \in queue : b = below[x]
    BY <2>3 DEF belows
  <2>5. \A y \in queue : ~(<<below[y], below[x]>> \in StrictSubsetOrdering(queue))
    BY <2>3, <2>4 DEF belows
  <2>6. \A y \in queue : below[y] \in SUBSET queue
    BY DEF below
  <2> QED BY <2>5, <2>6 DEF StrictSubsetOrdering
<1>4. x \notin rest
  <2> HIDE DEF below
  <2> QED BY <1>2, <1>3
<1>5. rest \in SUBSET queue /\ rest # queue
  BY <1>3, <1>4
<1> HIDE DEF rest
<1>6. /\ IsFiniteSet(rest) /\ Cardinality(rest) <= Cardinality(queue)
      /\ Cardinality(rest) # Cardinality(queue)
  BY <1>5, FS_Subset DEF QueueLimit
<1>7. Cardinality(rest) \in Nat /\ Cardinality(queue) \in Nat
  BY <1>6, FS_CardinalityType DEF QueueLimit
<1>8. IsFiniteSet(rest) /\ Cardinality(rest) < Cardinality(queue)
  BY <1>6, <1>7
<1> QED BY <1>8 DEF rest

\* Enqueue at the limit and below it.
LEMMA EnqueueStep ==
  ASSUME QueueLimit, queue \subseteq Packets, NEW p, queue' = Enqueued(p)
  PROVE  QueueLimit'
<1> DEFINE rest == {x \in queue : \E y \in queue : y.n < x.n}
<1>1. Cardinality(queue) \in Nat /\ MaxQueueLen \in Nat \ {0}
  BY FS_CardinalityType, LimitAssumption DEF QueueLimit
<1>2. PICK kept : /\ queue' = kept \cup {p}
                  /\ IsFiniteSet(kept) /\ Cardinality(kept) < MaxQueueLen
  <2>1. CASE Cardinality(queue) = MaxQueueLen
    <3>1. queue # {}
      BY <1>1, <2>1, FS_EmptySet
    <3>2. IsFiniteSet(rest) /\ Cardinality(rest) < MaxQueueLen
      BY <2>1, <3>1, OldestDropped
    <3>3. queue' = rest \cup {p}
      BY <2>1 DEF Enqueued
    <3> QED BY <3>2, <3>3
  <2>2. CASE Cardinality(queue) # MaxQueueLen
    <3>1. queue' = queue \cup {p}
      BY <2>2 DEF Enqueued
    <3>2. Cardinality(queue) < MaxQueueLen
      BY <1>1, <2>2 DEF QueueLimit
    <3> QED BY <3>1, <3>2 DEF QueueLimit
  <2> QED BY <2>1, <2>2
<1>3. Cardinality(kept) \in Nat
  BY <1>2, FS_CardinalityType
<1>4. /\ IsFiniteSet(kept \cup {p})
      /\ Cardinality(kept \cup {p}) =
           IF p \in kept THEN Cardinality(kept) ELSE Cardinality(kept) + 1
  BY <1>2, FS_AddElement
<1>5. Cardinality(kept \cup {p}) <= MaxQueueLen
  BY <1>1, <1>2, <1>3, <1>4
<1> QED BY <1>2, <1>4, <1>5 DEF QueueLimit

\* Every other step leaves the queue alone or takes packets out of it.
LEMMA LimitStep ==
  ASSUME IInv, QueueLimit, [Next]_vars
  PROVE  QueueLimit'
<1>t. queue \subseteq Packets
  BY DEF IInv, TypeOK
<1>1. ASSUME Timers PROVE queue' \subseteq queue
  BY <1>1, TimersShrink
<1>2. ASSUME Application
      PROVE  queue' \subseteq queue \/ \E p \in loopback : queue' = Enqueued(p)
  BY <1>2 DEF Application, RouteOutput, DeferredRouteOutput, QueueTimeout
<1>3. ASSUME Messages PROVE queue' \subseteq queue
  BY <1>3, MessagesShrink
<1>4. ASSUME Losses PROVE queue' \subseteq queue
  BY <1>4 DEF Losses, LoseRoutes, EraseRoutes, NotifyInterfaceDown,
              NotifyInterfaceUp
<1>5. ASSUME UNCHANGED vars PROVE queue' \subseteq queue
  BY <1>5 DEF vars
<1>6. queue' \subseteq queue \/ \E p \in loopback : queue' = Enqueued(p)
  BY <1>1, <1>2, <1>3, <1>4, <1>5 DEF Next
<1> QED BY <1>t, <1>6, ShrinkStep, EnqueueStep

\* The queue never holds more than MaxQueueLen packets.
THEOREM QueueStaysBounded == Spec => []QueueBounded
<1>1. Init => QueueLimit
  <2>1. IsFiniteSet({}) /\ Cardinality({}) = 0 /\ 0 <= MaxQueueLen
    BY FS_EmptySet, LimitAssumption
  <2> QED BY <2>1 DEF Init, QueueLimit
<1>2. IInv /\ QueueLimit /\ [Next]_vars => QueueLimit'
  BY LimitStep
<1>3. QueueLimit => QueueBounded
  BY DEF QueueLimit, QueueBounded
<1> QED BY <1>1, <1>2, <1>3, Invariance, PTL DEF Spec
=============================================================================
