------------------------------ MODULE Discovery ------------------------------
(***************************************************************************)
(* What route discovery promises the packets of one node, without routes,  *)
(* timers, messages or a rate limiter: a packet without a route waits,     *)
(* packets for one destination leave in the order they came, a full queue  *)
(* drops its oldest packet, and a packet waits only while its destination  *)
(* is being pursued.  RouteDiscovery implements it.                        *)
(***************************************************************************)
EXTENDS Naturals, FiniteSets

CONSTANTS
  Dsts,        \* destinations
  Devices,     \* what a packet may be bound to
  MaxQueueLen  \* packets that wait at most

VARIABLES
  coming,   \* packets on their way to the queue
  waiting,  \* packets in the queue
  pursued,  \* destinations that work goes on for
  count     \* packets submitted so far; numbers them

vars == <<coming, waiting, pursued, count>>

\* The part of S that leaves first: with a packet, all that are older.
Oldest(S, T) == T \subseteq S /\ \A p \in T, q \in S : q.n <= p.n => q \in T

WaitingFor(d) == {p \in waiting : p.dst = d}

\* The packets that stay when one more comes.
Kept == IF Cardinality(waiting) = MaxQueueLen
          THEN {p \in waiting : \E q \in waiting : q.n < p.n}
          ELSE waiting

\* A packet is handed over.
Submit(d, i) ==
  /\ count' = count + 1
  /\ coming' = coming \cup {[n |-> count', dst |-> d, oif |-> i]}
  /\ UNCHANGED <<waiting, pursued>>

\* It is refused, or it waits and its destination is pursued from now on.
Arrive(p) ==
  /\ \A q \in coming : p.n <= q.n
  /\ coming' = coming \ {p}
  /\ \/ UNCHANGED <<waiting, pursued>>
     \/ /\ waiting' = {p} \cup Kept
        /\ pursued' = pursued \cup {p.dst}
  /\ UNCHANGED count

\* The first packets for d leave; the pursuit may end if none stays.
Depart(d) ==
  /\ Oldest(WaitingFor(d), waiting \ waiting')
  /\ waiting' \subseteq waiting
  /\ \/ UNCHANGED pursued
     \/ /\ \A p \in waiting' : p.dst # d
        /\ pursued' = pursued \ {d}
  /\ UNCHANGED <<coming, count>>

\* The packets that have waited longest are given up.
Age ==
  /\ Oldest(waiting, waiting \ waiting')
  /\ waiting' \subseteq waiting
  /\ UNCHANGED <<coming, pursued, count>>

Init == coming = {} /\ waiting = {} /\ pursued = {} /\ count = 0

Next ==
  \/ \E d \in Dsts : (\E i \in Devices : Submit(d, i)) \/ Depart(d)
  \/ \E p \in coming : Arrive(p)
  \/ Age

Spec == Init /\ [][Next]_vars

\* No packet waits for a destination nobody pursues.
WaitingIsPursued == \A p \in waiting : p.dst \in pursued
=============================================================================
