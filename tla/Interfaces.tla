----------------------------- MODULE Interfaces -----------------------------
(***************************************************************************)
(* The interfaces of an AODV node (aodv-routing-protocol.cc): the notifi-  *)
(* cations of the IP layer, the two sockets they open and close for each   *)
(* interface, the maps from socket to address that the senders and the     *)
(* receiver look up, the routes learned through an interface, and the      *)
(* hello timer that runs while there is one.                               *)
(*                                                                         *)
(* Environment: an interface has an address when it is brought up or down, *)
(* is not brought up twice, and an address is on one interface at a time.  *)
(* The loopback interface, which the handlers skip, is left out.           *)
(***************************************************************************)
EXTENDS HelloTimer, FiniteSets

CONSTANTS
  Ifaces,     \* interfaces, each with its device
  Addrs,      \* interface addresses
  NoAddr,     \* no address, and no route
  Broadcast,  \* the subnet broadcast address of each interface address
  Peers,      \* other nodes
  MaxChanges  \* bound: notifications

Broadcasts == {Broadcast[a] : a \in Addrs}

ASSUME AddrAssumption ==
  /\ NoAddr \notin Addrs
  /\ DOMAIN Broadcast = Addrs
  /\ Broadcasts \cap Addrs = {}
ASSUME ChangesAssumption == MaxChanges \in Nat

VARIABLES
  first,     \* GetAddress(i, 0): the first address of the interface
  others,    \* its further addresses; which comes next is left open
  up,        \* interfaces that are up
  main,      \* m_socketAddresses
  bcast,     \* m_socketSubnetBroadcastAddresses
  ends,      \* sockets bound to a device and an address, that receive there
  opened,    \* sockets created so far; names them
  via,       \* routing table: the interface address of the route to a node or
             \* a broadcast address
  disposed,  \* DoDispose has run
  changes    \* notifications so far

netVars == <<first, others, up, main, bcast, ends, opened, via, disposed,
             changes>>
vars == <<netVars, helloVars>>

Dests == Peers \cup Broadcasts
OwnAddrs(i) == ({first[i]} \ {NoAddr}) \cup others[i]
Own == UNION {OwnAddrs(i) : i \in Ifaces}

-----------------------------------------------------------------------------
(* Sockets and routes.                                                     *)

\* FindSocketWithInterfaceAddress and its twin for the broadcast sockets.  The
\* maps are ordered by the sockets' places in memory, so if several sockets
\* have the address any of them may come first.
Find(map, a) == {e.sock : e \in {f \in map : f.addr = a}}

\* Mutant: the socket stays in its map.
ErasedKept(map, s) == map

Erased(map, s) == {e \in map : e.sock # s}

\* Mutant: a socket that is dropped is not closed.
ClosedNot(E, s) == E

Closed(E, s) == {e \in E : e.sock # s}

\* Bind fails if a socket has the address on this device; nobody looks.
Bound(E, s, i, x) ==
  IF \E e \in E : e.dev = i /\ e.at = x
    THEN E ELSE E \cup {[sock |-> s, dev |-> i, at |-> x]}

\* DeleteAllRoutesFromInterface.
Without(t, a) == [d \in Dests |-> IF t[d] = a THEN NoAddr ELSE t[d]]

\* Mutant: destination and interface are swapped.
AddedSwapped(t, d, a) == [t EXCEPT ![d] = IF @ = NoAddr THEN d ELSE @]

\* AddRoute leaves a known destination alone.
Added(t, d, a) == [t EXCEPT ![d] = IF @ = NoAddr THEN a ELSE @]

\* Mutant: the address gets no broadcast socket.
OpenMain(i, a, M, B, E, t) ==
  /\ main' = M \cup {[sock |-> opened + 1, addr |-> a]}
  /\ bcast' = B
  /\ ends' = Bound(E, opened + 1, i, a)
  /\ opened' = opened + 2
  /\ via' = Added(t, Broadcast[a], a)

\* Mutant: the entries name the address the interface had before.
OpenStale(i, a, M, B, E, t) ==
  /\ main' = M \cup {[sock |-> opened + 1, addr |-> first[i]]}
  /\ bcast' = B \cup {[sock |-> opened + 2, addr |-> first[i]]}
  /\ ends' = Bound(Bound(E, opened + 1, i, a), opened + 2, i, Broadcast[a])
  /\ opened' = opened + 2
  /\ via' = Added(t, Broadcast[a], a)

\* The two sockets and the broadcast route of interface i with address a, given
\* the maps, the bound sockets and the routes that are left.
Open(i, a, M, B, E, t) ==
  /\ main' = M \cup {[sock |-> opened + 1, addr |-> a]}
  /\ bcast' = B \cup {[sock |-> opened + 2, addr |-> a]}
  /\ ends' = Bound(Bound(E, opened + 1, i, a), opened + 2, i, Broadcast[a])
  /\ opened' = opened + 2
  /\ via' = Added(t, Broadcast[a], a)

\* With the last AODV interface the hello timer and the routes go.  Mutant: the
\* routes stay.
LeaveKeepRoutes(M, t) ==
  /\ main' = M
  /\ hrunning' = (hrunning /\ M # {})
  /\ hdelay' = IF M = {} THEN 0 ELSE hdelay
  /\ via' = via
  /\ UNCHANGED <<opened, bcastSet, bcastAge, silence, begun>>

Leave(M, t) ==
  /\ main' = M
  /\ hrunning' = (hrunning /\ M # {})
  /\ hdelay' = IF M = {} THEN 0 ELSE hdelay
  /\ via' = IF M = {} THEN [d \in Dests |-> NoAddr] ELSE t
  /\ UNCHANGED <<opened, bcastSet, bcastAge, silence, begun>>

-----------------------------------------------------------------------------
(* The notifications.                                                      *)

Changes ==
  /\ changes < MaxChanges
  /\ changes' = changes + 1
  /\ UNCHANGED disposed

NotifyInterfaceUp(i) ==
  /\ Changes
  /\ i \notin up /\ first[i] # NoAddr
  /\ up' = up \cup {i}
  /\ Open(i, first[i], main, bcast, ends, via)
  /\ UNCHANGED <<first, others, helloVars>>

\* Both lookups assert that there is a socket.
NotifyInterfaceDown(i) ==
  /\ Changes
  /\ i \in up /\ first[i] # NoAddr
  /\ up' = up \ {i}
  /\ \E s \in Find(main, first[i]), t \in Find(bcast, first[i]) :
       /\ Leave(Erased(main, s), Without(via, first[i]))
       /\ bcast' = Erased(bcast, t)
       /\ ends' = Closed(Closed(ends, s), t)
  /\ UNCHANGED <<first, others>>

\* Only the first address of an interface is used.
NotifyAddAddress(i, a) ==
  /\ Changes
  /\ a \notin Own
  /\ IF first[i] = NoAddr
       THEN first' = [first EXCEPT ![i] = a] /\ UNCHANGED others
       ELSE others' = [others EXCEPT ![i] = @ \cup {a}] /\ UNCHANGED first
  /\ IF i \in up /\ first[i] = NoAddr /\ Find(main, a) = {}
       THEN Open(i, a, main, bcast, ends, via)
       ELSE UNCHANGED <<main, bcast, ends, opened, via>>
  /\ UNCHANGED <<up, helloVars>>

\* Address a is taken away, and `next' becomes the first one.
RemovedFrom(i, a, next) ==
  IF first[i] = a
    THEN /\ \/ next \in others[i]
            \/ others[i] = {} /\ next = NoAddr
         /\ first' = [first EXCEPT ![i] = next]
         /\ others' = [others EXCEPT ![i] = @ \ {next}]
    ELSE /\ next = first[i]
         /\ others' = [others EXCEPT ![i] = @ \ {a}]
         /\ UNCHANGED first

\* The sockets of the address are closed; the broadcast socket is erased from
\* the wrong map, where it is not, so it stays in its own.  The interface goes
\* on with its next address.
NotifyRemoveAddress(i, a, next) ==
  /\ Changes
  /\ a \in OwnAddrs(i)
  /\ RemovedFrom(i, a, next)
  /\ IF Find(main, a) = {}
       THEN UNCHANGED <<main, bcast, ends, opened, via, helloVars>>
       ELSE \E s \in Find(main, a) :
              LET M == Erased(main, s)
                  t == Without(via, a)
              IN  \E E \in IF Find(bcast, a) = {} THEN {Closed(ends, s)}
                           ELSE {Closed(Closed(ends, s), b) :
                                   b \in Find(bcast, a)} :
                    IF next # NoAddr
                      THEN Open(i, next, M, bcast, E, t) /\ UNCHANGED helloVars
                      ELSE Leave(M, t) /\ ends' = E /\ UNCHANGED bcast
  /\ UNCHANGED up

\* DoDispose closes every socket of both maps.
DoDispose ==
  /\ disposed' = TRUE
  /\ main' = {} /\ bcast' = {}
  /\ ends' = {e \in ends : \A f \in main \cup bcast : e.sock # f.sock}
  /\ UNCHANGED <<first, others, up, opened, via, changes, helloVars>>

-----------------------------------------------------------------------------
(* What the maps are for.                                                  *)

\* A packet to the address the socket is bound to comes in through its device.
Hears(e) ==
  /\ e.dev \in up
  /\ \E a \in OwnAddrs(e.dev) : e.at \in {a, Broadcast[a]}

\* RecvAodv: the address that the socket stands for, from the first map or else
\* the second; it asserts that one of them has the socket.
Receiver(s) ==
  LET M == {e \in main : e.sock = s}
      B == {e \in bcast : e.sock = s}
  IN  {e.addr : e \in IF M # {} THEN M ELSE B}

\* RecvAodv and UpdateRouteToNeighbor: the route to the sender goes through the
\* interface that has the receiver's address, whose first address it names; a
\* one-hop route that is known on this device may be kept.
RecvAodv(e, p) ==
  /\ Hears(e)
  /\ \E a \in Receiver(e.sock), i \in Ifaces :
       /\ a \in OwnAddrs(i)
       /\ \/ via' = [via EXCEPT ![p] = first[i]]
          \/ via[p] # NoAddr /\ UNCHANGED via
  /\ UNCHANGED <<first, others, up, main, bcast, ends, opened, disposed,
                 changes, helloVars>>

\* A route expires.
ForgetRoute(p) ==
  /\ via[p] # NoAddr
  /\ via' = [via EXCEPT ![p] = NoAddr]
  /\ UNCHANGED <<first, others, up, main, bcast, ends, opened, disposed,
                 changes, helloVars>>

\* SendRequest, or RecvRequest relaying one, broadcasts on every main socket.
BroadcastRequest == main # {} /\ NoteBroadcast /\ UNCHANGED netVars

SendsHello == HelloTimerExpire(main # {}) /\ UNCHANGED netVars

TimePasses == Tick(main # {}) /\ UNCHANGED netVars

-----------------------------------------------------------------------------
Init ==
  /\ first = [i \in Ifaces |-> NoAddr]
  /\ others = [i \in Ifaces |-> {}]
  /\ up = {}
  /\ main = {} /\ bcast = {} /\ ends = {}
  /\ opened = 0
  /\ via = [d \in Dests |-> NoAddr]
  /\ disposed = FALSE
  /\ changes = 0
  /\ HelloInit

Notifications ==
  \E i \in Ifaces :
    \/ NotifyInterfaceUp(i)
    \/ NotifyInterfaceDown(i)
    \/ \E a \in Addrs : \/ NotifyAddAddress(i, a)
                        \/ \E n \in Addrs \cup {NoAddr} :
                             NotifyRemoveAddress(i, a, n)

Traffic ==
  \/ \E p \in Peers : (\E e \in ends : RecvAodv(e, p)) \/ ForgetRoute(p)
  \/ BroadcastRequest \/ SendsHello \/ TimePasses

Next == ~disposed /\ (Notifications \/ Traffic \/ DoDispose)

Spec == Init /\ [][Next]_vars

-----------------------------------------------------------------------------
(* Properties.                                                             *)

Sockets == Nat
Entries == [sock : Sockets, addr : Addrs]

TypeOK ==
  /\ first \in [Ifaces -> Addrs \cup {NoAddr}]
  /\ others \in [Ifaces -> SUBSET Addrs]
  /\ up \subseteq Ifaces
  /\ main \subseteq Entries /\ bcast \subseteq Entries
  /\ ends \subseteq [sock : Sockets, dev : Ifaces, at : Addrs \cup Broadcasts]
  /\ opened \in Nat
  /\ via \in [Dests -> Addrs \cup {NoAddr}]
  /\ disposed \in BOOLEAN
  /\ changes \in Nat
  /\ HelloTypeOK

\* The interfaces AODV runs on: those that are up and have an address.
Served == {i \in up : first[i] # NoAddr}

\* "Raw unicast socket per each IP interface": whatever order the notifications
\* come in, each interface that is up with an address has exactly one main
\* socket, bound to its first address on its device, and there is no other.
\* The senders loop over these sockets, and NotifyInterfaceDown asserts that
\* there is one.
MainSocketsExact ==
  ~disposed =>
    /\ \A i \in Served : \E e \in main :
         /\ e.addr = first[i]
         /\ [sock |-> e.sock, dev |-> i, at |-> first[i]] \in ends
    /\ \A e \in main : \E i \in Served : e.addr = first[i]
    /\ \A e, f \in main : e.addr = f.addr => e = f

\* Every route goes through an address that has a main socket: the senders of
\* RREPs and RERRs look the socket up by the route's interface and assert that
\* there is one.
RoutesHaveSocket ==
  ~disposed => \A d \in Dests : via[d] # NoAddr => Find(main, via[d]) # {}

\* The second assertion of NotifyInterfaceDown, and what the socket is for: an
\* interface that is up has an entry for broadcasts, and some socket is bound
\* to its broadcast address.
BroadcastsHeard ==
  ~disposed => \A i \in Served :
    /\ Find(bcast, first[i]) # {}
    /\ \E e \in ends : e.dev = i /\ e.at = Broadcast[first[i]]

\* RecvAodv's assertion "Received a packet from an unknown socket": a socket
\* that can receive is in a map, also when a broadcast socket was left behind;
\* so DoDispose reaches them all.
NoUnknownSocket ==
  \A e \in ends : e.sock \in {f.sock : f \in main \cup bcast}

\* "map socket -> iface address": the address a receiving socket stands for is
\* one of this node's; UpdateRouteToNeighbor takes its interface unchecked.
ReceiverIsOwn ==
  \A e \in ends : Hears(e) => Receiver(e.sock) \subseteq Own

\* "Every HelloInterval the node checks whether it has sent a broadcast": as
\* long as the node has an interface, the hello timer runs.
HelloGoesOn == main # {} => hrunning
=============================================================================
