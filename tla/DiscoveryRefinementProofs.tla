---------------------- MODULE DiscoveryRefinementProofs ----------------------
(***************************************************************************)
(* RouteDiscovery implements Discovery for every value of the constants    *)
(* under which no packet is bound to one of several interfaces.  What the  *)
(* mapping turns on is SearchIsDriven: DeferredRouteOutput sends no RREQ   *)
(* for an IN_SEARCH destination, and the packet it enqueues is pursued     *)
(* only because the search already is.                                     *)
(***************************************************************************)
EXTENDS RouteDiscoveryProofs

\* The value of the abstract variable pursued.
Pursued == {d \in Dsts : Driven(d)}

\* An abstract stutter.
Unmoved == UNCHANGED <<loopback, queue, Pursued, submitted>>

LEMMA UnmovedIsStutter == Unmoved => UNCHANGED D!vars
BY DEF Unmoved, D!vars, Pursued

\* SendRequest pursues its destination, whether it sends or postpones, and
\* ends no other pursuit.
LEMMA SendRequestPursues ==
  ASSUME IInv, NEW d \in Dsts, NEW timers \in SUBSET Dsts,
         SendRequest(d, timers),
         timers \subseteq reqTimer, reqTimer \ {d} \subseteq timers,
         \A x \in Dsts \ {d} : ready'[x] = ready[x]
  PROVE  Pursued' = Pursued \cup {d}
<1>1. d \in reqTimer' \/ deferred'[d] > 0
  BY SendRequestStep
<1>2. \A x \in Dsts \ {d} : /\ x \in reqTimer' <=> x \in reqTimer
                            /\ deferred'[x] = deferred[x]
  <2>1. /\ reqTimer' \in {timers, timers \cup {d}}
        /\ deferred' \in {deferred, [deferred EXCEPT ![d] = @ + 1]}
    BY DEF SendRequest
  <2> QED BY <2>1 DEF IInv, TypeOK
<1>3. ASSUME NEW x \in Dsts
      PROVE  x \in Pursued' <=> x \in Pursued \/ x = d
  BY <1>1, <1>2 DEF Pursued, Driven
<1> QED BY <1>3 DEF Pursued

\* SendPacketFromQueue lets the oldest packets for its destination go.
LEMMA FlushedDeparts ==
  ASSUME TypeOK, NEW d \in Dsts, NEW dev, queue' = Flushed(d, dev)
  PROVE  /\ D!Oldest(D!WaitingFor(d), queue \ queue')
         /\ queue' \subseteq queue
<1>1. \A p \in queue : p.n \in Nat
  BY DEF TypeOK, Packets
<1>2. \A p : p \in queue \ queue' <=>
        /\ p \in queue /\ p.dst = d
        /\ \A f \in Waiting(d) : f.oif \notin {NoIface, dev} => p.n <= f.n
  BY DEF Flushed, Waiting
<1>3. ASSUME NEW p \in queue \ queue', NEW q \in queue, q.dst = d, q.n <= p.n
      PROVE  q \in queue \ queue'
  <2>1. \A f \in Waiting(d) : f.oif \notin {NoIface, dev} => q.n <= f.n
    <3>1. \A f \in Waiting(d) : f.n \in Nat
      BY <1>1 DEF Waiting
    <3> QED BY <1>1, <1>2, <1>3, <3>1
  <2> QED BY <1>2, <1>3, <2>1
<1> QED BY <1>2, <1>3 DEF D!Oldest, D!WaitingFor, Flushed

\* A step that only takes packets for d out of the queue and at most stops
\* the work on d, when no packet stays.
LEMMA DepartStep ==
  ASSUME NEW d \in Dsts,
         D!Oldest(D!WaitingFor(d), queue \ queue'), queue' \subseteq queue,
         Pursued' = Pursued
           \/ (Pursued' = Pursued \ {d} /\ \A p \in queue' : p.dst # d),
         UNCHANGED <<loopback, submitted>>
  PROVE  D!Next
<1>1. D!Depart(d)
  BY DEF D!Depart, Pursued
<1> QED BY <1>1 DEF D!Next

\* Stopping the timer of d ends the work on d, unless a SendRequest is
\* postponed.
LEMMA TimerStopped ==
  ASSUME NEW d \in Dsts, reqTimer' = reqTimer \ {d},
         UNCHANGED <<deferred, ready>>
  PROVE  Pursued' = Pursued \/ Pursued' = Pursued \ {d}
BY DEF Pursued, Driven

-----------------------------------------------------------------------------
(* The steps.                                                              *)

LEMMA TimersMap ==
  ASSUME NoneForeign, BoundAsAsked, IInv, Timers
  PROVE  D!Next \/ Unmoved
<1> USE DEF IInv
<1>1. CASE RreqRateLimitTimerExpire
  <2>1. Pursued' = Pursued
    BY <1>1 DEF RreqRateLimitTimerExpire, Pursued, Driven, TypeOK
  <2> QED BY <1>1, <2>1 DEF RreqRateLimitTimerExpire, Unmoved
<1>2. ASSUME NEW d \in Dsts, DeferredSendRequest(d) PROVE Unmoved
  <2>1. /\ SendRequest(d, reqTimer)
        /\ ready' = [ready EXCEPT ![d] = @ - 1] /\ ready[d] > 0
        /\ UNCHANGED <<loopback, queue, submitted>>
    BY <1>2 DEF DeferredSendRequest
  <2>2. reqTimer \in SUBSET Dsts /\ d \in Pursued
    BY <2>1 DEF TypeOK, Pursued, Driven
  <2>3. \A x \in Dsts \ {d} : ready'[x] = ready[x]
    BY <2>1 DEF TypeOK
  <2>4. Pursued' = Pursued \cup {d}
    BY <2>1, <2>2, <2>3, SendRequestPursues
  <2> QED BY <2>1, <2>2, <2>4 DEF Unmoved
<1>3. ASSUME NEW d \in Dsts, RouteRequestTimerExpire(d)
      PROVE  D!Next \/ Unmoved
  <2>0. d \in reqTimer /\ UNCHANGED <<loopback, ready, submitted>>
    BY <1>3 DEF RouteRequestTimerExpire
  <2>1. CASE /\ table[d].flag = "VALID"
             /\ queue' = Flushed(d, table[d].dev)
             /\ reqTimer' = reqTimer \ {d}
             /\ UNCHANGED <<table, rreqCount, deferred, aborted>>
    <3>1. table[d].dev \in Ifaces
      BY <2>1 DEF RoutesHaveDevice
    <3>2. \A p \in queue' : p.dst # d
      BY <2>1, <3>1, FlushedEmpties
    <3>3. Pursued' = Pursued \/ Pursued' = Pursued \ {d}
      BY <2>0, <2>1, TimerStopped
    <3> QED BY <2>0, <2>1, <3>2, <3>3, FlushedDeparts, DepartStep
  <2>2. CASE GiveUp(d)
    <3>1. /\ queue' = queue \ Waiting(d)
          /\ reqTimer' = reqTimer \ {d} /\ deferred' = deferred
      BY <2>2 DEF GiveUp
    <3>2. \A p \in queue' : p.dst # d
      BY <3>1 DEF Waiting
    <3>3. Pursued' = Pursued \/ Pursued' = Pursued \ {d}
      BY <2>0, <3>1, TimerStopped
    <3>4. D!Oldest(D!WaitingFor(d), queue \ queue') /\ queue' \subseteq queue
      BY <3>1 DEF D!Oldest, D!WaitingFor, Waiting
    <3> QED BY <2>0, <3>2, <3>3, <3>4, DepartStep
  <2>3. CASE SendRequest(d, reqTimer \ {d}) /\ UNCHANGED queue
    <3>1. reqTimer \ {d} \in SUBSET Dsts /\ d \in Pursued
      BY <2>0 DEF TypeOK, Pursued, Driven
    <3>2. Pursued' = Pursued \cup {d}
      BY <2>0, <2>3, <3>1, SendRequestPursues
    <3> QED BY <2>0, <2>3, <3>1, <3>2 DEF Unmoved
  <2> QED BY <1>3, <2>1, <2>2, <2>3 DEF RouteRequestTimerExpire
<1> QED BY <1>1, <1>2, <1>3 DEF Timers

LEMMA ApplicationMaps ==
  ASSUME IInv, Application
  PROVE  D!Next
<1> USE DEF IInv
<1>1. ASSUME NEW d \in Dsts, NEW i \in Bindings, RouteOutput(d, i)
      PROVE  D!Next
  <2>1. i \in Devices
    BY InputAssumption DEF Devices
  <2>2. D!Submit(d, i)
    BY <1>1 DEF RouteOutput, D!Submit, Driven
  <2> QED BY <2>1, <2>2 DEF D!Next
<1>2. ASSUME NEW p \in loopback, DeferredRouteOutput(p) PROVE D!Next
  <2>1. /\ \A q \in loopback : p.n <= q.n
        /\ loopback' = loopback \ {p}
        /\ UNCHANGED <<ready, submitted>>
    BY <1>2 DEF DeferredRouteOutput
  <2>2. p.dst \in Dsts /\ reqTimer \in SUBSET Dsts
    BY DEF TypeOK, Packets
  <2>3. CASE up = {}
    <3>1. UNCHANGED <<queue, reqTimer, deferred>>
      BY <1>2, <2>3 DEF DeferredRouteOutput
    <3>2. D!Arrive(p)
      BY <2>1, <3>1 DEF D!Arrive, Driven
    <3> QED BY <3>2 DEF D!Next
  <2>4. CASE up # {}
    <3>1. Pursued' = Pursued \cup {p.dst}
      <4>1. CASE StartsSearch(table[p.dst])
        <5>1. PICK d \in Dsts : d = p.dst
          BY <2>2
        <5>2. SendRequest(d, reqTimer)
          BY <1>2, <2>4, <4>1, <5>1 DEF DeferredRouteOutput
        <5> QED BY <2>1, <2>2, <5>1, <5>2, SendRequestPursues
      <4>2. CASE ~StartsSearch(table[p.dst])
        <5>1. p.dst \in Pursued
          BY <2>2, <4>2 DEF StartsSearch, SearchIsDriven, Pursued
        <5>2. UNCHANGED <<reqTimer, deferred>>
          BY <1>2, <4>2 DEF DeferredRouteOutput
        <5> QED BY <2>1, <5>1, <5>2 DEF Pursued, Driven
      <4> QED BY <4>1, <4>2
    <3>2. queue' = {p} \cup D!Kept
      <4>0. D!Cardinality(queue) = Cardinality(queue)
        BY DEF D!Cardinality, Cardinality
      <4>1. queue' = Enqueued(p)
        BY <1>2, <2>4 DEF DeferredRouteOutput
      <4>2. CASE Cardinality(queue) = MaxQueueLen
        BY <4>1, <4>2, <4>0 DEF Enqueued, D!Kept
      <4>3. CASE Cardinality(queue) # MaxQueueLen
        BY <4>1, <4>3, <4>0 DEF Enqueued, D!Kept
      <4> QED BY <4>2, <4>3
    <3>3. D!Arrive(p)
      BY <2>1, <3>1, <3>2 DEF D!Arrive, Pursued
    <3> QED BY <3>3 DEF D!Next
  <2> QED BY <2>3, <2>4
<1>3. ASSUME NEW p \in queue, QueueTimeout(p) PROVE D!Next
  <2>1. /\ queue' = {q \in queue : q.n > p.n}
        /\ UNCHANGED <<loopback, reqTimer, deferred, ready, submitted>>
    BY <1>3 DEF QueueTimeout
  <2>2. \A q \in queue : q.n \in Nat
    BY DEF TypeOK, Packets
  <2>3. D!Oldest(queue, queue \ queue') /\ queue' \subseteq queue
    BY <2>1, <2>2 DEF D!Oldest
  <2>4. D!Age
    BY <2>1, <2>3 DEF D!Age, Driven
  <2> QED BY <2>4 DEF D!Next
<1> QED BY <1>1, <1>2, <1>3 DEF Application

LEMMA MessagesMap ==
  ASSUME NoneForeign, BoundAsAsked, IInv, Messages
  PROVE  D!Next \/ Unmoved
<1> USE DEF IInv
<1> PICK s \in Dsts, i \in Ifaces :
       \/ \E d \in Dsts, seq \in SeqNos, hop \in Hops :
            \/ \E mine \in BOOLEAN : RecvReply(s, i, d, seq, hop, mine)
            \/ RecvRequest(s, i, d, seq, hop)
       \/ \E seq \in SeqNos : ProcessHello(s, i, seq)
       \/ \E S \in SUBSET Dsts : RecvError(s, i, S)
       \/ RecvReplyAck(s, i)
       \/ RecvDuplicate(s, i)
  BY Zenon DEF Messages
<1>1. ASSUME NEW d \in Dsts, NEW seq \in SeqNos, NEW hop \in Hops,
             NEW mine \in BOOLEAN, RecvReply(s, i, d, seq, hop, mine)
      PROVE  D!Next \/ Unmoved
  <2> DEFINE heard == NeighborUpdated(s, i)
             answer == mine /\ heard[d].flag = "IN_SEARCH"
  <2>1. /\ UNCHANGED <<deferred, ready, loopback, submitted>>
        /\ reqTimer' = IF answer THEN reqTimer \ {d} ELSE reqTimer
        /\ queue' = IF mine THEN Flushed(d, table'[d].dev) ELSE queue
        /\ table' = IF Stored(heard[d], seq, hop, answer)
                      THEN [heard EXCEPT ![d] = Route(TRUE, seq, hop, i)]
                      ELSE heard
    BY <1>1 DEF RecvReply, Receives
  <2>2. heard \in [Dsts -> Entries]
    BY NeighborStep
  <2> HIDE DEF heard
  <2>3. CASE ~answer
    <3>1. Pursued' = Pursued
      BY <2>1, <2>3 DEF Pursued, Driven
    <3>2. CASE mine
      BY <2>1, <3>1, <3>2, FlushedDeparts, DepartStep
    <3>3. CASE ~mine
      BY <2>1, <3>1, <3>3 DEF Unmoved
    <3> QED BY <3>2, <3>3
  <2>4. CASE answer
    <3>1. table' = [heard EXCEPT ![d] = Route(TRUE, seq, hop, i)]
      BY <2>1, <2>4 DEF Stored
    <3>2. table'[d].dev = i
      BY <2>2, <3>1 DEF Route
    <3>3. queue' = Flushed(d, i) /\ reqTimer' = reqTimer \ {d}
      BY <2>1, <2>4, <3>2
    <3>4. \A p \in queue' : p.dst # d
      BY <3>3, FlushedEmpties
    <3>5. Pursued' = Pursued \/ Pursued' = Pursued \ {d}
      BY <2>1, <3>3, TimerStopped
    <3> QED BY <2>1, <3>3, <3>4, <3>5, FlushedDeparts, DepartStep
  <2> QED BY <2>3, <2>4
<1>2. ASSUME Receives(i), UNCHANGED <<queue, reqTimer>> PROVE Unmoved
  BY <1>2 DEF Receives, Unmoved, Pursued, Driven
<1>3. CASE \E d \in Dsts, seq \in SeqNos, hop \in Hops :
             RecvRequest(s, i, d, seq, hop)
  BY <1>2, <1>3 DEF RecvRequest
<1>4. CASE \/ \E seq \in SeqNos : ProcessHello(s, i, seq)
           \/ \E S \in SUBSET Dsts : RecvError(s, i, S)
           \/ RecvReplyAck(s, i)
           \/ RecvDuplicate(s, i)
  BY <1>2, <1>4 DEF ProcessHello, RecvError, RecvReplyAck, RecvDuplicate
<1> QED BY <1>1, <1>3, <1>4

LEMMA LossesMap ==
  ASSUME Losses
  PROVE  Unmoved
<1>1. UNCHANGED <<queue, loopback, reqTimer, deferred, ready, submitted>>
  BY DEF Losses, LoseRoutes, EraseRoutes, NotifyInterfaceDown, NotifyInterfaceUp
<1> QED BY <1>1 DEF Unmoved, Pursued, Driven

LEMMA StepMaps ==
  ASSUME NoneForeign, BoundAsAsked, IInv, [Next]_vars
  PROVE  [D!Next]_D!vars
<1>1. CASE UNCHANGED vars
  BY <1>1, UnmovedIsStutter DEF vars, Unmoved, Pursued, Driven
<1>2. CASE Next
  BY <1>2, TimersMap, ApplicationMaps, MessagesMap, LossesMap,
     UnmovedIsStutter DEF Next
<1> QED BY <1>1, <1>2

LEMMA InitMaps == Init => D!Init
BY DEF Init, D!Init, Driven

\* At a node with one interface, and at any node for packets bound to none,
\* timers, messages, losses and interface changes do to the packets what
\* Discovery allows: packets for one destination keep their order, a full queue loses its oldest packet, and no
\* packet waits for a destination whose pursuit has ended.
THEOREM DiscoveryImplemented ==
  ASSUME NoneForeign
  PROVE  Spec => ImplementsDiscovery
<1>1. IInv /\ BoundAsAsked /\ [Next]_vars => [D!Next]_D!vars
  BY StepMaps
<1> QED BY <1>1, InitMaps, Invariance, PacketsAreBound, PTL
        DEF Spec, ImplementsDiscovery, D!Spec

-----------------------------------------------------------------------------
(* What follows for the queue.                                             *)

\* Discovery keeps its promise: Arrive pursues the packet's destination and
\* Depart ends a pursuit only when nothing waits for it.
LEMMA PromiseKept == D!Spec => []D!WaitingIsPursued
<1>1. D!Init => D!WaitingIsPursued
  BY DEF D!Init, D!WaitingIsPursued
<1>2. ASSUME D!WaitingIsPursued, [D!Next]_D!vars PROVE D!WaitingIsPursued'
  <2>1. ASSUME NEW d \in Dsts, NEW i \in Devices, D!Submit(d, i)
        PROVE  D!WaitingIsPursued'
    BY <1>2, <2>1 DEF D!Submit, D!WaitingIsPursued
  <2>2. ASSUME NEW d \in Dsts, D!Depart(d) PROVE D!WaitingIsPursued'
    BY <1>2, <2>2 DEF D!Depart, D!WaitingIsPursued
  <2>3. ASSUME NEW p \in loopback, D!Arrive(p) PROVE D!WaitingIsPursued'
    BY <1>2, <2>3 DEF D!Arrive, D!Kept, D!WaitingIsPursued
  <2>4. CASE D!Age
    BY <1>2, <2>4 DEF D!Age, D!WaitingIsPursued
  <2>5. CASE UNCHANGED D!vars
    BY <1>2, <2>5 DEF D!vars, D!WaitingIsPursued
  <2> QED BY <1>2, <2>1, <2>2, <2>3, <2>4, <2>5 DEF D!Next
<1> QED BY <1>1, <1>2, PTL DEF D!Spec

\* Where no packet is foreign to an interface none is forgotten: its destination always
\* has a timer or a postponed SendRequest that will look at the queue again.
THEOREM QueueIsNeverForgotten ==
  ASSUME NoneForeign
  PROVE  Spec => []QueueIsDriven
<1>1. D!WaitingIsPursued => QueueIsDriven
  BY DEF D!WaitingIsPursued, QueueIsDriven
<1> QED BY <1>1, DiscoveryImplemented, PromiseKept, PTL DEF ImplementsDiscovery
=============================================================================
