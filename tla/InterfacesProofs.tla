--------------------------- MODULE InterfacesProofs ---------------------------
(***************************************************************************)
(* Machine-checked proofs about Interfaces, for every value of its         *)
(* constants: types, the silence of a node whose hello timer runs, and the *)
(* maps from socket to address against the interfaces that are up.  What   *)
(* is said of broadcasts and routes assumes that no two addresses share a  *)
(* broadcast address; without it ReceiverIsOwn does not hold.              *)
(***************************************************************************)
EXTENDS Interfaces, TLAPS

DistinctBroadcasts ==
  \A a, b \in Addrs : Broadcast[a] = Broadcast[b] => a = b

Ends == [sock : Nat, dev : Ifaces, at : Addrs \cup Broadcasts]

-----------------------------------------------------------------------------
(* The hello timer.                                                        *)

\* The time left before the next expiry and the time since the last broadcast
\* add up to HelloInterval at most.  A broadcast since the last expiry is what
\* the next one counts from; without an interface there is no silence.
HelloInv ==
  /\ HelloTypeOK
  /\ hrunning /\ bcastSet =>
       silence <= bcastAge /\ bcastAge + hdelay <= HelloInterval
  /\ hrunning /\ ~bcastSet => silence + hdelay <= HelloInterval
  /\ hrunning /\ main = {} /\ ~disposed => silence = 0

LEMMA BroadcastAddrs == \A a \in Addrs : Broadcast[a] \in Broadcasts
BY DEF Broadcasts

LEMMA HelloInitInv == Init => HelloInv
<1> SUFFICES ASSUME Init PROVE HelloInv
  OBVIOUS
<1>1. /\ hrunning = TRUE /\ bcastSet = FALSE /\ begun = FALSE
      /\ hdelay \in 0..StartDelay /\ bcastAge = 0 /\ silence = 0
  BY DEF Init, HelloInit
<1>2. hdelay \in 0..HelloInterval
  BY <1>1, HelloAssumption
<1>z. 0 \in 0..HelloInterval + 1
  BY HelloAssumption
<1>3. HelloTypeOK
  BY <1>1, <1>2, <1>z DEF HelloTypeOK
<1>4. ~bcastSet /\ silence + hdelay <= HelloInterval
  BY <1>1, <1>2, HelloAssumption
<1> QED BY <1>1, <1>3, <1>4 DEF HelloInv

\* Steps that may stop the timer, when the last interface goes, and leave the
\* rest of it alone.
LEMMA StopStep ==
  ASSUME HelloInv,
         UNCHANGED <<bcastSet, bcastAge, silence, begun>>,
         hrunning' => hrunning /\ hdelay' = hdelay,
         hrunning' \in BOOLEAN, hdelay' \in {0, hdelay},
         hrunning' /\ main' = {} /\ ~disposed' => main = {} /\ ~disposed
  PROVE  HelloInv'
<1>1. HelloTypeOK'
  <2>1. hdelay' \in 0..HelloInterval
    BY HelloAssumption DEF HelloInv, HelloTypeOK
  <2> QED BY <2>1 DEF HelloInv, HelloTypeOK
<1>2. CASE hrunning'
  BY <1>1, <1>2 DEF HelloInv
<1>3. CASE ~hrunning'
  BY <1>1, <1>3 DEF HelloInv
<1> QED BY <1>2, <1>3

LEMMA TickStep ==
  ASSUME HelloInv, ~disposed, TimePasses
  PROVE  HelloInv'
<1>1. /\ ~(hrunning /\ hdelay = 0)
      /\ hdelay' = IF hrunning THEN hdelay - 1 ELSE 0
      /\ bcastAge' = IF bcastSet THEN Passed(bcastAge) ELSE 0
      /\ silence' = IF main # {} THEN Passed(silence) ELSE 0
      /\ begun' = TRUE
      /\ UNCHANGED <<hrunning, bcastSet, main, disposed>>
  BY DEF TimePasses, Tick, netVars
<1>2. \A t \in 0..HelloInterval + 1 :
        /\ Passed(t) \in 0..HelloInterval + 1
        /\ Passed(t) <= t + 1
        /\ t <= HelloInterval => Passed(t) = t + 1
  BY HelloAssumption DEF Passed
<1>3. HelloTypeOK'
  BY <1>1, <1>2, HelloAssumption DEF HelloInv, HelloTypeOK
<1>4. ASSUME hrunning, bcastSet
      PROVE  silence' <= bcastAge' /\ bcastAge' + hdelay' <= HelloInterval
  BY <1>1, <1>2, <1>4, HelloAssumption DEF HelloInv, HelloTypeOK
<1>5. ASSUME hrunning, ~bcastSet
      PROVE  silence' + hdelay' <= HelloInterval
  BY <1>1, <1>2, <1>5, HelloAssumption DEF HelloInv, HelloTypeOK
<1>6. main' = {} => silence' = 0
  BY <1>1
<1> QED BY <1>1, <1>3, <1>4, <1>5, <1>6 DEF HelloInv

LEMMA ExpireStep ==
  ASSUME HelloInv, ~disposed, SendsHello
  PROVE  HelloInv'
<1>1. /\ hrunning /\ hdelay = 0
      /\ hdelay' = DelayAfter(IF bcastSet THEN bcastAge ELSE 0)
      /\ silence' = IF main # {} /\ ~bcastSet THEN 0 ELSE silence
      /\ bcastSet' = FALSE /\ bcastAge' = 0
      /\ UNCHANGED <<hrunning, begun, main, disposed>>
  BY DEF SendsHello, HelloTimerExpire, netVars
<1>z. 0 \in 0..HelloInterval + 1 /\ HelloInterval \in 0..HelloInterval
  BY HelloAssumption
<1>2. \A t \in 0..HelloInterval : DelayAfter(t) = HelloInterval - t
  BY HelloAssumption DEF DelayAfter
<1>3. CASE bcastSet
  <2>1. bcastAge \in 0..HelloInterval /\ silence <= bcastAge
    BY <1>1, <1>3, HelloAssumption DEF HelloInv, HelloTypeOK
  <2>2. hdelay' = HelloInterval - bcastAge /\ silence' = silence
    BY <1>1, <1>2, <1>3, <2>1
  <2>3. /\ silence' + hdelay' <= HelloInterval
        /\ hdelay' \in 0..HelloInterval /\ silence' \in 0..HelloInterval + 1
    BY <2>1, <2>2, HelloAssumption DEF HelloInv, HelloTypeOK
  <2>4. HelloTypeOK'
    BY <1>1, <1>z, <2>3 DEF HelloInv, HelloTypeOK
  <2>5. ~bcastSet' /\ (main' = {} /\ ~disposed' => silence' = 0)
    BY <1>1, <2>2 DEF HelloInv
  <2> QED BY <2>3, <2>4, <2>5 DEF HelloInv
<1>4. CASE ~bcastSet
  <2>1. hdelay' = HelloInterval /\ silence' = 0
    BY <1>1, <1>2, <1>4, HelloAssumption DEF HelloInv
  <2>2. HelloTypeOK'
    BY <1>1, <1>z, <2>1 DEF HelloInv, HelloTypeOK
  <2>3. ~bcastSet' /\ silence' + hdelay' <= HelloInterval
    BY <1>1, <2>1, HelloAssumption
  <2> QED BY <2>1, <2>2, <2>3 DEF HelloInv
<1> QED BY <1>3, <1>4

LEMMA RequestStep ==
  ASSUME HelloInv, BroadcastRequest
  PROVE  HelloInv'
<1>1. /\ main # {} /\ silence' = 0 /\ bcastSet' = begun /\ bcastAge' = 0
      /\ UNCHANGED <<hrunning, hdelay, begun, main, disposed>>
  BY DEF BroadcastRequest, NoteBroadcast, netVars
<1> QED BY <1>1, HelloAssumption DEF HelloInv, HelloTypeOK

LEMMA HelloStep == HelloInv /\ [Next]_vars => HelloInv'
<1> SUFFICES ASSUME HelloInv, [Next]_vars PROVE HelloInv'
  OBVIOUS
<1>o. ASSUME NEW i, NEW a, NEW M, NEW B, NEW E, NEW t, Open(i, a, M, B, E, t)
      PROVE  main' # {}
  BY <1>o DEF Open
<1>l. ASSUME NEW M, NEW t, Leave(M, t)
      PROVE  /\ UNCHANGED <<bcastSet, bcastAge, silence, begun>>
             /\ hrunning' => hrunning /\ hdelay' = hdelay
             /\ hrunning' \in BOOLEAN /\ hdelay' \in {0, hdelay}
             /\ hrunning' => main' # {}
  BY <1>l DEF Leave
<1>1. ASSUME NEW i \in Ifaces, NotifyInterfaceUp(i) PROVE HelloInv'
  <2>1. main' # {} /\ UNCHANGED helloVars
    BY <1>1, <1>o DEF NotifyInterfaceUp
  <2> QED BY <2>1, StopStep DEF helloVars, HelloInv, HelloTypeOK
<1>2. ASSUME NEW i \in Ifaces, NotifyInterfaceDown(i) PROVE HelloInv'
  <2>1. PICK M, t : Leave(M, t)
    BY <1>2 DEF NotifyInterfaceDown
  <2> QED BY <2>1, <1>l, StopStep
<1>3. ASSUME NEW i \in Ifaces, NEW a \in Addrs, NotifyAddAddress(i, a)
      PROVE  HelloInv'
  <2>1. UNCHANGED helloVars /\ (main' # {} \/ main' = main)
    BY <1>3, <1>o DEF NotifyAddAddress
  <2>2. disposed' = disposed
    BY <1>3 DEF NotifyAddAddress, Changes
  <2> QED BY <2>1, <2>2, StopStep DEF helloVars, HelloInv, HelloTypeOK
<1>4. ASSUME NEW i \in Ifaces, NEW a \in Addrs, NEW n \in Addrs \cup {NoAddr},
             NotifyRemoveAddress(i, a, n)
      PROVE  HelloInv'
  <2>1. \/ UNCHANGED <<main, helloVars>>
        \/ (\E M, B, E, t : Open(i, n, M, B, E, t)) /\ UNCHANGED helloVars
        \/ \E M, t : Leave(M, t)
    BY <1>4 DEF NotifyRemoveAddress
  <2>2. disposed' = disposed
    BY <1>4 DEF NotifyRemoveAddress, Changes
  <2>3. CASE UNCHANGED <<main, helloVars>>
    BY <2>2, <2>3, StopStep DEF helloVars, HelloInv, HelloTypeOK
  <2>4. CASE (\E M, B, E, t : Open(i, n, M, B, E, t)) /\ UNCHANGED helloVars
    BY <2>4, <1>o, StopStep DEF helloVars, HelloInv, HelloTypeOK
  <2>5. CASE \E M, t : Leave(M, t)
    BY <2>5, <1>l, StopStep
  <2> QED BY <2>1, <2>3, <2>4, <2>5
<1>5. CASE DoDispose
  <2>1. UNCHANGED helloVars /\ disposed'
    BY <1>5 DEF DoDispose
  <2> QED BY <2>1, StopStep DEF helloVars, HelloInv, HelloTypeOK
<1>6. ASSUME UNCHANGED <<main, disposed, helloVars>> PROVE HelloInv'
  BY <1>6, StopStep DEF helloVars, HelloInv, HelloTypeOK
<1>7. ASSUME NEW p \in Peers, (\E e \in ends : RecvAodv(e, p)) \/ ForgetRoute(p)
      PROVE  HelloInv'
  BY <1>6, <1>7 DEF RecvAodv, ForgetRoute
<1>8. CASE UNCHANGED vars
  BY <1>6, <1>8 DEF vars, netVars
<1> QED BY <1>1, <1>2, <1>3, <1>4, <1>5, <1>7, <1>8,
           TickStep, ExpireStep, RequestStep
        DEF Next, Notifications, Traffic

\* While the hello timer runs, no more than HelloInterval passes between two
\* broadcasts of a node that has an interface.
THEOREM SilenceStaysBounded == Spec => []SilenceBounded
<1>1. HelloInv => SilenceBounded
  BY HelloAssumption DEF HelloInv, HelloTypeOK, SilenceBounded
<1> QED BY <1>1, HelloInitInv, HelloStep, PTL DEF Spec

-----------------------------------------------------------------------------
(* The maps: one predicate over the maps, bound sockets and routes that a  *)
(* handler has in its hands, between closing the sockets of one address    *)
(* and opening those of the next.  S is the set of interfaces served and f *)
(* their addresses; n sockets have been created.                           *)

Typed(M, B, E, t, n) ==
  /\ M \subseteq Entries /\ B \subseteq Entries /\ E \subseteq Ends
  /\ t \in [Dests -> Addrs \cup {NoAddr}]
  /\ n \in Nat
  /\ \A e \in M \cup B : e.sock <= n

\* No socket is entered twice, and a bound socket has the address of its entry.
Entered(M, B, E) ==
  /\ \A e \in M, b \in B : e.sock # b.sock
  /\ \A e, g \in M : e.sock = g.sock => e = g
  /\ \A e, g \in B : e.sock = g.sock => e = g
  /\ \A x \in E : \/ \E e \in M : e.sock = x.sock /\ e.addr = x.at
                  \/ \E b \in B : b.sock = x.sock /\ Broadcast[b.addr] = x.at

\* Each interface served has its main socket, and no other address has one.
Exact(M, E, S, f) ==
  /\ \A i \in S : \E e \in M :
       /\ e.addr = f[i]
       /\ [sock |-> e.sock, dev |-> i, at |-> f[i]] \in E
  /\ \A e \in M : \E i \in S : e.addr = f[i]
  /\ \A e, g \in M : e.addr = g.addr => e = g

\* With distinct broadcast addresses each interface served has a socket bound to
\* its broadcast address, and every route goes through an address of M.
Heard(B, E, S, f) ==
  \A i \in S : /\ \E b \in B : b.addr = f[i]
              /\ \E x \in E : x.dev = i /\ x.at = Broadcast[f[i]]

Routed(M, t) ==
  \A d \in Dests : t[d] # NoAddr => \E e \in M : e.addr = t[d]

Wired(M, B, E, t, S, f, n) ==
  /\ Typed(M, B, E, t, n) /\ Entered(M, B, E) /\ Exact(M, E, S, f)
  /\ DistinctBroadcasts => Heard(B, E, S, f) /\ Routed(M, t)

\* Opening the sockets of an address that has none.
LEMMA OpenWired ==
  ASSUME NEW M, NEW B, NEW E, NEW t, NEW S \in SUBSET Ifaces, NEW f, NEW g,
         NEW i \in Ifaces, NEW a \in Addrs,
         Wired(M, B, E, t, S, f, opened), Open(i, a, M, B, E, t),
         \A j \in S : f[j] # a /\ g[j] = f[j],
         i \notin S, g[i] = a
  PROVE  Wired(main', bcast', ends', via', S \cup {i}, g, opened')
<1> DEFINE m == [sock |-> opened + 1, addr |-> a]
           b == [sock |-> opened + 2, addr |-> a]
           xm == [sock |-> opened + 1, dev |-> i, at |-> a]
           xb == [sock |-> opened + 2, dev |-> i, at |-> Broadcast[a]]
<1>1. /\ main' = M \cup {m} /\ bcast' = B \cup {b} /\ opened' = opened + 2
      /\ ends' = Bound(Bound(E, opened + 1, i, a), opened + 2, i, Broadcast[a])
      /\ via' = Added(t, Broadcast[a], a)
  BY DEF Open
<1>2. /\ opened \in Nat /\ M \subseteq Entries /\ B \subseteq Entries
      /\ E \subseteq Ends
      /\ \A e \in M \cup B : e.sock \in Nat /\ e.sock <= opened
  BY DEF Wired, Typed, Entries, Sockets
<1>3. a \notin Broadcasts /\ Broadcast[a] \in Broadcasts
      /\ Broadcast[a] \in Dests
  BY AddrAssumption, BroadcastAddrs DEF Dests
<1>4. m \in Entries /\ b \in Entries /\ xm \in Ends /\ xb \in Ends
  BY <1>2, <1>3 DEF Entries, Ends, Sockets
<1>5. \A x \in E : ~(x.dev = i /\ x.at = a)
  <2>1. ASSUME NEW x \in E, x.at = a PROVE FALSE
    <3>1. \A e \in B : Broadcast[e.addr] \in Broadcasts
      BY <1>2, BroadcastAddrs DEF Entries
    <3>2. PICK e \in M : e.addr = a
      BY <1>3, <2>1, <3>1 DEF Wired, Entered
    <3> QED BY <3>2 DEF Wired, Exact
  <2> QED BY <2>1
<1>6. Bound(E, opened + 1, i, a) = E \cup {xm}
  BY <1>5 DEF Bound
<1>7. ends' = E \cup {xm} \/ ends' = E \cup {xm, xb}
  BY <1>1, <1>6 DEF Bound
<1>w. /\ m \in main' /\ m.sock = opened + 1 /\ m.addr = a
      /\ b \in bcast' /\ b.sock = opened + 2 /\ b.addr = a
      /\ xm \in ends' /\ xm.sock = opened + 1 /\ xm.at = a
      /\ xb.sock = opened + 2 /\ xb.at = Broadcast[a]
      /\ xm = [sock |-> m.sock, dev |-> i, at |-> g[i]]
  BY <1>1, <1>7
<1>8. Typed(main', bcast', ends', via', opened')
  <2>1. via' \in [Dests -> Addrs \cup {NoAddr}]
    BY <1>1 DEF Added, Wired, Typed
  <2>2. \A e \in main' \cup bcast' : e.sock <= opened'
    BY <1>1, <1>2
  <2> QED BY <1>1, <1>2, <1>4, <1>7, <2>1, <2>2 DEF Typed
<1>9. Entered(main', bcast', ends')
  <2>1. \A e \in M \cup B : e.sock # opened + 1 /\ e.sock # opened + 2
    BY <1>2
  <2>2. \A e \in main', c \in bcast' : e.sock # c.sock
    BY <1>1, <1>2, <2>1 DEF Wired, Entered
  <2>3. /\ \A e, c \in main' : e.sock = c.sock => e = c
        /\ \A e, c \in bcast' : e.sock = c.sock => e = c
    BY <1>1, <2>1 DEF Wired, Entered
  <2>4. ASSUME NEW x \in ends'
        PROVE  \/ \E e \in main' : e.sock = x.sock /\ e.addr = x.at
               \/ \E c \in bcast' : c.sock = x.sock /\ Broadcast[c.addr] = x.at
    <3>1. CASE x \in E
      BY <1>1, <3>1 DEF Wired, Entered
    <3>2. CASE x = xm
      <4>1. m.sock = x.sock /\ m.addr = x.at
        BY <1>w, <3>2
      <4> QED BY <1>w, <4>1
    <3>3. CASE x = xb
      <4>1. b.sock = x.sock /\ Broadcast[b.addr] = x.at
        BY <1>w, <3>3
      <4> QED BY <1>w, <4>1
    <3> QED BY <1>7, <3>1, <3>2, <3>3
  <2> QED BY <2>2, <2>3, <2>4 DEF Entered
<1>10. Exact(main', ends', S \cup {i}, g)
  <2>1. ASSUME NEW j \in S \cup {i}
        PROVE  \E e \in main' :
                 /\ e.addr = g[j]
                 /\ [sock |-> e.sock, dev |-> j, at |-> g[j]] \in ends'
    <3>1. CASE j \in S
      BY <1>1, <1>7, <3>1 DEF Wired, Exact
    <3>2. CASE j = i
      <4> HIDE DEF m, xm
      <4>1. /\ m \in main' /\ m.addr = g[j]
            /\ [sock |-> m.sock, dev |-> j, at |-> g[j]] \in ends'
        BY <1>w, <3>2
      <4> QED BY <4>1
    <3> QED BY <3>1, <3>2
  <2>2. \A e \in M : e.addr # a
    BY DEF Wired, Exact
  <2>3. \A e \in main' : \E j \in S \cup {i} : e.addr = g[j]
    BY <1>1 DEF Wired, Exact
  <2>4. \A e, c \in main' : e.addr = c.addr => e = c
    BY <1>1, <2>2 DEF Wired, Exact
  <2> QED BY <2>1, <2>3, <2>4 DEF Exact
<1>11. ASSUME Heard(B, E, S, f) PROVE Heard(bcast', ends', S \cup {i}, g)
  <2>1. \E x \in ends' : x.dev = i /\ x.at = Broadcast[a]
    <3>1. CASE ends' = E \cup {xm, xb}
      <4>1. xb \in ends' /\ xb.dev = i /\ xb.at = Broadcast[a]
        BY <3>1
      <4> QED BY <4>1
    <3>2. CASE \E x \in E \cup {xm} : x.dev = i /\ x.at = Broadcast[a]
      BY <1>7, <3>2
    <3> QED BY <1>1, <1>6, <3>1, <3>2 DEF Bound
  <2>2. \A j \in S : /\ \E c \in bcast' : c.addr = g[j]
                    /\ \E x \in ends' : x.dev = j /\ x.at = Broadcast[g[j]]
    BY <1>1, <1>7, <1>11 DEF Heard
  <2> HIDE DEF b
  <2>3. \E c \in bcast' : c.addr = g[i]
    BY <1>w
  <2> QED BY <2>1, <2>2, <2>3 DEF Heard
<1>12. ASSUME Routed(M, t) PROVE Routed(main', via')
  <2>1. \A d \in Dests : via'[d] = t[d] \/ via'[d] = a
    BY <1>1, <1>8 DEF Added, Wired, Typed
  <2> HIDE DEF m
  <2> QED BY <1>1, <1>w, <1>12, <2>1 DEF Routed
<1> QED BY <1>8, <1>9, <1>10, <1>11, <1>12 DEF Wired

\* Of the bound sockets E and the broadcast entries B, C and D are left when the
\* sockets of address a are closed, s among them.
Shut(E, C, B, D, s, a) ==
  /\ C \subseteq E /\ D \subseteq B
  /\ \A x \in C : x.sock # s
  /\ \A x \in E \ C : x.sock = s \/ \E b \in B : x.sock = b.sock /\ b.addr = a
  /\ \A b \in B \ D : b.addr = a /\ \A x \in C : x.sock # b.sock

\* Closing the main socket of an address, and perhaps broadcast sockets: C is
\* what is still bound, and D has lost no entry of those.
LEMMA CloseWired ==
  ASSUME NEW M, NEW B, NEW E, NEW t, NEW S, NEW f, NEW n,
         Wired(M, B, E, t, S, f, n), NEW i \in S, NEW s \in Find(M, f[i]),
         NEW C, NEW D, Shut(E, C, B, D, s, f[i]),
         \A j, k \in S : f[j] = f[k] => j = k
  PROVE  Wired(Erased(M, s), D, C, Without(t, f[i]), S \ {i}, f, n)
<1> DEFINE R == Erased(M, s)
<1>1. PICK m \in M : m.sock = s /\ m.addr = f[i]
  BY DEF Find
<1>2. R = M \ {m}
  BY <1>1 DEF Erased, Wired, Entered
<1>3. /\ C \subseteq E /\ D \subseteq B
      /\ \A x \in C : x.sock # s
      /\ \A x \in E \ C :
           x.sock = s \/ \E b \in B : x.sock = b.sock /\ b.addr = f[i]
      /\ \A b \in B \ D : b.addr = f[i] /\ \A x \in C : x.sock # b.sock
  BY DEF Shut
<1>4. Typed(R, D, C, Without(t, f[i]), n)
  BY <1>2, <1>3 DEF Wired, Typed, Without
<1>5. Entered(R, D, C)
  <2>1. ASSUME NEW x \in C
        PROVE  \/ \E e \in R : e.sock = x.sock /\ e.addr = x.at
               \/ \E c \in D : c.sock = x.sock /\ Broadcast[c.addr] = x.at
    <3>1. CASE \E e \in M : e.sock = x.sock /\ e.addr = x.at
      BY <1>1, <1>2, <1>3, <3>1
    <3>2. CASE \E c \in B : c.sock = x.sock /\ Broadcast[c.addr] = x.at
      BY <1>3, <3>2
    <3> QED BY <1>3, <3>1, <3>2 DEF Wired, Entered
  <2> QED BY <1>2, <1>3, <2>1 DEF Wired, Entered
<1>6. Exact(R, C, S \ {i}, f)
  <2>1. ASSUME NEW j \in S \ {i}
        PROVE  \E e \in R :
                 /\ e.addr = f[j]
                 /\ [sock |-> e.sock, dev |-> j, at |-> f[j]] \in C
    <3>1. PICK e \in M :
            /\ e.addr = f[j]
            /\ [sock |-> e.sock, dev |-> j, at |-> f[j]] \in E
      BY DEF Wired, Exact
    <3>2. f[j] # f[i] /\ e # m /\ e.sock # s
      BY <1>1, <3>1 DEF Wired, Entered
    <3>3. \A b \in B : e.sock # b.sock
      BY DEF Wired, Entered
    <3> DEFINE x == [sock |-> e.sock, dev |-> j, at |-> f[j]]
    <3>4. x \in E /\ x.sock = e.sock
      BY <3>1
    <3>5. x \in C
      BY <1>3, <3>2, <3>3, <3>4
    <3> QED BY <1>2, <3>1, <3>2, <3>5
  <2>2. ASSUME NEW e \in R PROVE \E j \in S \ {i} : e.addr = f[j]
    BY <1>1, <1>2 DEF Wired, Exact
  <2>3. \A e, c \in R : e.addr = c.addr => e = c
    BY <1>2 DEF Wired, Exact
  <2> QED BY <2>1, <2>2, <2>3 DEF Exact
<1>7. ASSUME DistinctBroadcasts PROVE Heard(D, C, S \ {i}, f)
  <2> SUFFICES ASSUME NEW j \in S \ {i}
               PROVE  /\ \E b \in D : b.addr = f[j]
                      /\ \E x \in C : x.dev = j /\ x.at = Broadcast[f[j]]
    BY DEF Heard
  <2>1. f[j] # f[i] /\ f[j] \in Addrs /\ f[i] \in Addrs
    BY <1>1 DEF Wired, Exact, Typed, Entries
  <2>2. PICK b \in B : b.addr = f[j]
    BY <1>7 DEF Wired, Heard
  <2>3. b \in D
    BY <1>3, <2>1, <2>2
  <2>4. PICK x \in E : x.dev = j /\ x.at = Broadcast[f[j]]
    BY <1>7 DEF Wired, Heard
  <2>5. x.at \notin Addrs
    BY <2>1, <2>4, AddrAssumption, BroadcastAddrs
  <2>6. PICK c \in B : c.sock = x.sock /\ Broadcast[c.addr] = x.at
    BY <2>5 DEF Wired, Entered, Typed, Entries
  <2>7. c.addr = f[j]
    BY <1>7, <2>1, <2>4, <2>6 DEF DistinctBroadcasts, Wired, Typed, Entries
  <2>8. x.sock # s
    BY <1>1, <2>6 DEF Wired, Entered
  <2>9. \A e \in B : x.sock = e.sock => e.addr # f[i]
    BY <2>1, <2>6, <2>7 DEF Wired, Entered
  <2> QED BY <1>3, <2>2, <2>3, <2>4, <2>8, <2>9
<1>8. ASSUME DistinctBroadcasts PROVE Routed(R, Without(t, f[i]))
  <2>1. Routed(M, t) /\ t \in [Dests -> Addrs \cup {NoAddr}]
    BY <1>8 DEF Wired, Typed
  <2>2. \A d \in Dests : Without(t, f[i])[d] # NoAddr =>
          Without(t, f[i])[d] = t[d] /\ t[d] # f[i]
    BY <2>1 DEF Without
  <2> QED BY <1>1, <1>2, <2>1, <2>2 DEF Routed
<1> QED BY <1>4, <1>5, <1>6, <1>7, <1>8 DEF Wired

\* Only the types of the routes matter, and the addresses of S.
LEMMA WiredElsewhere ==
  ASSUME NEW M, NEW B, NEW E, NEW t, NEW S, NEW f, NEW n,
         Wired(M, B, E, t, S, f, n),
         NEW u \in [Dests -> Addrs \cup {NoAddr}],
         DistinctBroadcasts => Routed(M, u),
         NEW g, \A j \in S : g[j] = f[j]
  PROVE  Wired(M, B, E, u, S, g, n)
<1>1. Typed(M, B, E, u, n)
  BY DEF Wired, Typed
<1>2. Exact(M, E, S, g)
  BY DEF Wired, Exact
<1>3. DistinctBroadcasts => Heard(B, E, S, g)
  BY DEF Wired, Heard
<1> QED BY <1>1, <1>2, <1>3 DEF Wired

LEMMA LeaveWired ==
  ASSUME NEW M, NEW B, NEW E, NEW t, NEW S, NEW f,
         Wired(M, B, E, t, S, f, opened), Leave(M, t)
  PROVE  Wired(main', B, E, via', S, f, opened')
<1>1. /\ main' = M /\ opened' = opened
      /\ via' = IF M = {} THEN [d \in Dests |-> NoAddr] ELSE t
  BY DEF Leave
<1>2. via' \in [Dests -> Addrs \cup {NoAddr}]
  BY <1>1 DEF Wired, Typed
<1>3. DistinctBroadcasts => Routed(M, via')
  BY <1>1 DEF Wired, Routed
<1> QED BY <1>1, <1>2, <1>3, WiredElsewhere

-----------------------------------------------------------------------------
(* The inductive invariant.                                                *)

\* An address is on one interface at a time, and an interface with addresses
\* has a first one.
AddrInv ==
  /\ first \in [Ifaces -> Addrs \cup {NoAddr}]
  /\ others \in [Ifaces -> SUBSET Addrs]
  /\ up \subseteq Ifaces
  /\ \A i, j \in Ifaces : \A a \in OwnAddrs(i) : a \in OwnAddrs(j) => i = j
  /\ \A i \in Ifaces : first[i] \notin others[i]
  /\ \A i \in Ifaces : others[i] # {} => first[i] # NoAddr

MapInv ==
  /\ Typed(main, bcast, ends, via, opened)
  /\ disposed \in BOOLEAN /\ changes \in Nat
  /\ IF disposed THEN ends = {}
                 ELSE Wired(main, bcast, ends, via, Served, first, opened)

LEMMA NetInitInv == Init => AddrInv /\ MapInv
<1> SUFFICES ASSUME Init PROVE AddrInv /\ MapInv
  OBVIOUS
<1>1. AddrInv
  BY DEF Init, AddrInv, OwnAddrs
<1>2. Served = {}
  BY DEF Init, Served
<1>3. Typed(main, bcast, ends, via, opened)
  BY DEF Init, Typed
<1>4. Entered(main, bcast, ends) /\ Exact(main, ends, Served, first)
  BY <1>2 DEF Init, Entered, Exact
<1>5. Heard(bcast, ends, Served, first) /\ Routed(main, via)
  BY <1>2 DEF Init, Heard, Routed
<1> QED BY <1>1, <1>3, <1>4, <1>5 DEF Init, MapInv, Wired

LEMMA OwnOfAddrs ==
  ASSUME AddrInv
  PROVE  /\ \A i \in Ifaces : \A a \in OwnAddrs(i) : a \in Addrs
         /\ \A i \in Served : i \in Ifaces /\ i \in up /\ first[i] \in Addrs
         /\ \A i, j \in Served : first[i] = first[j] => i = j
BY DEF AddrInv, OwnAddrs, Served

LEMMA AddAddrs ==
  ASSUME AddrInv, NEW i \in Ifaces, NEW a \in Addrs, NotifyAddAddress(i, a)
  PROVE  AddrInv'
<1>1. /\ a \notin Own /\ up' = up
      /\ \/ /\ first[i] = NoAddr
            /\ first' = [first EXCEPT ![i] = a] /\ others' = others
         \/ /\ first[i] # NoAddr
            /\ others' = [others EXCEPT ![i] = @ \cup {a}] /\ first' = first
  BY DEF NotifyAddAddress
<1>2. \A j \in Ifaces : a \notin OwnAddrs(j)
  BY <1>1 DEF Own
<1>3. a # NoAddr
  BY AddrAssumption
<1>4. \A j \in Ifaces : OwnAddrs(j)' = IF j = i THEN OwnAddrs(i) \cup {a}
                                              ELSE OwnAddrs(j)
  BY <1>1, <1>3 DEF OwnAddrs, AddrInv
<1>5. \A j \in Ifaces : first[j] # a /\ a \notin others[j]
  BY <1>2, <1>3 DEF OwnAddrs
<1> QED BY <1>1, <1>2, <1>3, <1>4, <1>5 DEF AddrInv

LEMMA RemoveAddrs ==
  ASSUME AddrInv, NEW i \in Ifaces, NEW a \in OwnAddrs(i),
         NEW next \in Addrs \cup {NoAddr}, RemovedFrom(i, a, next), up' = up
  PROVE  /\ AddrInv'
         /\ \A j \in Ifaces \ {i} : first'[j] = first[j]
         /\ first'[i] = next
         /\ first[i] # a => next = first[i]
         /\ first[i] = a => next \notin {first[j] : j \in Ifaces} \/ next = NoAddr
<1>a. a \in Addrs /\ a # NoAddr /\ \A j \in Ifaces : NoAddr \notin others[j]
  BY OwnOfAddrs, AddrAssumption DEF AddrInv
<1>1. CASE first[i] = a
  <2>1. /\ next \in others[i] \/ (others[i] = {} /\ next = NoAddr)
        /\ first' = [first EXCEPT ![i] = next]
        /\ others' = [others EXCEPT ![i] = @ \ {next}]
    BY <1>1 DEF RemovedFrom
  <2>2. \A j \in Ifaces : \A c \in OwnAddrs(j)' : c \in OwnAddrs(j)
    BY <1>a, <2>1 DEF OwnAddrs, AddrInv
  <2>3. AddrInv'
    BY <1>a, <2>1, <2>2 DEF AddrInv
  <2>4. ASSUME next # NoAddr, NEW j \in Ifaces, first[j] = next PROVE FALSE
    <3>1. next \in OwnAddrs(i) /\ next \in OwnAddrs(j) /\ next \in others[i]
      BY <2>1, <2>4 DEF OwnAddrs
    <3> QED BY <2>4, <3>1 DEF AddrInv
  <2> QED BY <1>1, <2>1, <2>3, <2>4 DEF AddrInv
<1>2. CASE first[i] # a
  <2>1. /\ next = first[i]
        /\ others' = [others EXCEPT ![i] = @ \ {a}]
        /\ first' = first
    BY <1>2 DEF RemovedFrom
  <2>2. \A j \in Ifaces : \A c \in OwnAddrs(j)' : c \in OwnAddrs(j)
    BY <2>1 DEF OwnAddrs, AddrInv
  <2> QED BY <1>2, <2>1, <2>2 DEF AddrInv
<1> QED BY <1>1, <1>2

LEMMA AddrStep == AddrInv /\ [Next]_vars => AddrInv'
<1> SUFFICES ASSUME AddrInv, [Next]_vars PROVE AddrInv'
  OBVIOUS
<1>1. ASSUME UNCHANGED <<first, others>>, up' \subseteq Ifaces PROVE AddrInv'
  BY <1>1 DEF AddrInv, OwnAddrs
<1>2. ASSUME NEW i \in Ifaces, NotifyInterfaceUp(i) \/ NotifyInterfaceDown(i)
      PROVE  AddrInv'
  BY <1>1, <1>2 DEF NotifyInterfaceUp, NotifyInterfaceDown, AddrInv
<1>3. ASSUME NEW i \in Ifaces, NEW a \in Addrs, NEW n \in Addrs \cup {NoAddr},
             NotifyRemoveAddress(i, a, n)
      PROVE  AddrInv'
  BY <1>3, RemoveAddrs DEF NotifyRemoveAddress
<1>4. CASE Traffic \/ DoDispose \/ UNCHANGED vars
  <2>1. UNCHANGED <<first, others, up>>
    BY <1>4 DEF Traffic, RecvAodv, ForgetRoute, BroadcastRequest, SendsHello,
                TimePasses, DoDispose, vars, netVars
  <2> QED BY <1>1, <2>1 DEF AddrInv
<1> QED BY <1>2, <1>3, <1>4, AddAddrs DEF Next, Notifications

\* A packet comes in for an address of the interface it comes in through.
LEMMA HeardOnOwn ==
  ASSUME DistinctBroadcasts, AddrInv,
         Wired(main, bcast, ends, via, Served, first, opened),
         NEW e \in ends, Hears(e), NEW r \in Receiver(e.sock)
  PROVE  e.dev \in up /\ r \in OwnAddrs(e.dev)
<1>1. PICK a \in OwnAddrs(e.dev) : e.at \in {a, Broadcast[a]}
  BY DEF Hears
<1>2. e.dev \in Ifaces /\ e.dev \in up /\ a \in Addrs
  BY <1>1, OwnOfAddrs DEF Hears, AddrInv
<1>3. CASE \E m \in main : m.sock = e.sock
  <2>1. PICK m \in main : m.sock = e.sock /\ r = m.addr
    BY <1>3 DEF Receiver
  <2>2. m.addr = e.at /\ m.addr \in Addrs
    BY <2>1 DEF Wired, Entered, Typed, Entries
  <2>3. e.at = a
    BY <1>1, <1>2, <2>2, AddrAssumption, BroadcastAddrs
  <2> QED BY <1>1, <1>2, <2>1, <2>2, <2>3
<1>4. CASE ~\E m \in main : m.sock = e.sock
  <2>1. PICK b \in bcast : b.sock = e.sock /\ r = b.addr
    BY <1>4 DEF Receiver
  <2>2. Broadcast[b.addr] = e.at /\ b.addr \in Addrs
    BY <1>4, <2>1 DEF Wired, Entered, Typed, Entries
  <2>3. e.at = Broadcast[a]
    BY <1>1, <1>2, <2>2, AddrAssumption, BroadcastAddrs
  <2>4. b.addr = a
    BY <1>2, <2>2, <2>3 DEF DistinctBroadcasts
  <2> QED BY <1>1, <1>2, <2>1, <2>4
<1> QED BY <1>3, <1>4

\* So the route to its sender goes through an address that has a main socket.
LEMMA TrafficRouted ==
  ASSUME DistinctBroadcasts, AddrInv, Traffic,
         Wired(main, bcast, ends, via, Served, first, opened)
  PROVE  Routed(main, via')
<1>r. Routed(main, via) /\ via \in [Dests -> Addrs \cup {NoAddr}]
  BY DEF Wired, Typed
<1>1. ASSUME NEW p \in Peers, NEW e \in ends, RecvAodv(e, p)
      PROVE  Routed(main, via')
  <2>1. PICK a \in Receiver(e.sock), i \in Ifaces :
          /\ a \in OwnAddrs(i)
          /\ via' = [via EXCEPT ![p] = first[i]] \/ via' = via
    BY <1>1 DEF RecvAodv
  <2>2. e.dev \in up /\ a \in OwnAddrs(e.dev)
    BY <1>1, HeardOnOwn DEF RecvAodv
  <2>3. i \in up
    BY <2>1, <2>2 DEF AddrInv
  <2>4. first[i] # NoAddr
    BY <2>1 DEF AddrInv, OwnAddrs
  <2>5. \E m \in main : m.addr = first[i]
    BY <2>3, <2>4 DEF Served, Wired, Exact
  <2>6. \A d \in Dests : via'[d] \in {via[d], first[i]}
    BY <1>r, <2>1
  <2> QED BY <1>r, <2>5, <2>6 DEF Routed
<1>2. ASSUME NEW p \in Peers, ForgetRoute(p) PROVE Routed(main, via')
  BY <1>r, <1>2 DEF ForgetRoute, Routed
<1>3. CASE BroadcastRequest \/ SendsHello \/ TimePasses
  BY <1>r, <1>3 DEF BroadcastRequest, SendsHello, TimePasses, netVars
<1> QED BY <1>1, <1>2, <1>3 DEF Traffic

LEMMA MapStep == AddrInv /\ MapInv /\ [Next]_vars => MapInv'
<1> SUFFICES ASSUME AddrInv, MapInv, [Next]_vars PROVE MapInv'
  OBVIOUS
<1> DEFINE W == Wired(main, bcast, ends, via, Served, first, opened)
<1>s. /\ Served \in SUBSET Ifaces
      /\ \A i \in Served : i \in up /\ first[i] \in Addrs
      /\ \A i, j \in Served : first[i] = first[j] => i = j
  BY OwnOfAddrs DEF Served
<1>c. ASSUME Changes, ~disposed,
             Wired(main, bcast, ends, via, Served, first, opened)'
      PROVE  MapInv'
  BY <1>c DEF Changes, MapInv, Wired
<1>1. ASSUME ~disposed, W, NEW i \in Ifaces, NotifyInterfaceUp(i) PROVE MapInv'
  <2>1. /\ i \notin up /\ first[i] # NoAddr /\ up' = up \cup {i}
        /\ first' = first /\ Changes
        /\ Open(i, first[i], main, bcast, ends, via)
    BY <1>1 DEF NotifyInterfaceUp
  <2>2. first[i] \in Addrs /\ i \notin Served /\ Served' = Served \cup {i}
    BY <2>1 DEF AddrInv, Served
  <2>3. \A j \in Served : first[j] # first[i]
    BY <1>s, <2>1 DEF AddrInv, OwnAddrs, Served
  <2>4. Wired(main', bcast', ends', via', Served \cup {i}, first, opened')
    BY <1>1, <1>s, <2>1, <2>2, <2>3, OpenWired
  <2> QED BY <1>1, <1>c, <2>1, <2>2, <2>4
<1>2. ASSUME ~disposed, W, NEW i \in Ifaces, NotifyInterfaceDown(i) PROVE MapInv'
  <2>1. PICK s \in Find(main, first[i]), t \in Find(bcast, first[i]) :
          /\ Leave(Erased(main, s), Without(via, first[i]))
          /\ bcast' = Erased(bcast, t)
          /\ ends' = Closed(Closed(ends, s), t)
    BY <1>2 DEF NotifyInterfaceDown
  <2>2. /\ i \in up /\ first[i] # NoAddr /\ up' = up \ {i}
        /\ first' = first /\ Changes
    BY <1>2 DEF NotifyInterfaceDown
  <2>3. i \in Served /\ Served' = Served \ {i}
    BY <2>2 DEF Served
  <2>c. Shut(ends, ends', bcast, bcast', s, first[i])
    <3>1. PICK c \in bcast : c.sock = t /\ c.addr = first[i]
      BY DEF Find
    <3>2. \A b \in bcast : b.sock = t => b = c
      BY <1>2, <3>1 DEF Wired, Entered
    <3> QED BY <2>1, <3>1, <3>2 DEF Closed, Erased, Shut
  <2>4. Wired(Erased(main, s), bcast', ends', Without(via, first[i]),
              Served \ {i}, first, opened)
    BY <1>2, <1>s, <2>1, <2>3, <2>c, CloseWired
  <2>5. Wired(main', bcast', ends', via', Served \ {i}, first, opened')
    BY <2>1, <2>4, LeaveWired
  <2> QED BY <1>2, <1>c, <2>2, <2>3, <2>5
<1>3. ASSUME ~disposed, W, NEW i \in Ifaces, NEW a \in Addrs,
             NotifyAddAddress(i, a)
      PROVE  MapInv'
  <2>1. /\ Changes /\ a \notin Own /\ up' = up
        /\ first' = IF first[i] = NoAddr THEN [first EXCEPT ![i] = a] ELSE first
    BY <1>3 DEF NotifyAddAddress
  <2>2. a # NoAddr /\ \A j \in Ifaces : first[j] # a
    <3>1. a # NoAddr
      BY AddrAssumption
    <3> QED BY <2>1, <3>1 DEF Own, OwnAddrs
  <2>3. \A j \in Served : first'[j] = first[j] /\ first[j] # a
    BY <1>s, <2>1, <2>2 DEF Served, AddrInv
  <2>4. CASE i \in up /\ first[i] = NoAddr
    <3>1. i \notin Served /\ Served' = Served \cup {i} /\ first'[i] = a
      BY <2>1, <2>2, <2>4 DEF Served, AddrInv
    <3>2. Find(main, a) = {}
      BY <1>3, <2>3 DEF Find, Wired, Exact
    <3>3. Open(i, a, main, bcast, ends, via)
      BY <1>3, <2>4, <3>2 DEF NotifyAddAddress
    <3>4. Wired(main', bcast', ends', via', Served \cup {i}, first', opened')
      BY <1>3, <1>s, <2>3, <3>1, <3>3, OpenWired
    <3> QED BY <1>3, <1>c, <2>1, <3>1, <3>4
  <2>5. CASE ~(i \in up /\ first[i] = NoAddr)
    <3>1. UNCHANGED <<main, bcast, ends, opened, via>>
      BY <1>3, <2>5 DEF NotifyAddAddress
    <3>2. Served' = Served
      BY <2>1, <2>2, <2>5 DEF Served, AddrInv
    <3>3. Wired(main, bcast, ends, via, Served, first', opened)
      <4>1. /\ via \in [Dests -> Addrs \cup {NoAddr}]
            /\ DistinctBroadcasts => Routed(main, via)
        BY <1>3 DEF Wired, Typed
      <4> QED BY <1>3, <2>3, <4>1, WiredElsewhere
    <3> QED BY <1>3, <1>c, <2>1, <3>1, <3>2, <3>3
  <2> QED BY <2>4, <2>5
<1>4. ASSUME ~disposed, W, NEW i \in Ifaces, NEW a \in Addrs,
             NEW n \in Addrs \cup {NoAddr}, NotifyRemoveAddress(i, a, n)
      PROVE  MapInv'
  <2>1. Changes /\ a \in OwnAddrs(i) /\ RemovedFrom(i, a, n) /\ up' = up
    BY <1>4 DEF NotifyRemoveAddress
  <2>2. /\ \A j \in Ifaces \ {i} : first'[j] = first[j]
        /\ first'[i] = n
        /\ first[i] # a => n = first[i]
        /\ first[i] = a => n \notin {first[j] : j \in Ifaces} \/ n = NoAddr
    BY <2>1, RemoveAddrs
  <2>3. CASE Find(main, a) = {}
    <3>1. UNCHANGED <<main, bcast, ends, opened, via>>
      BY <1>4, <2>3 DEF NotifyRemoveAddress
    <3>2. first[i] = a => i \notin up
      <4>1. i \in Served => first[i] # a
        <5>1. \A e \in main : e.addr # a
          BY <2>3 DEF Find
        <5> QED BY <1>4, <5>1 DEF Wired, Exact
      <4>2. a # NoAddr
        BY AddrAssumption
      <4> QED BY <4>1, <4>2 DEF Served
    <3>3. Served' = Served /\ \A j \in Served : first'[j] = first[j]
      BY <1>s, <2>1, <2>2, <3>2 DEF Served, AddrInv
    <3>4. Wired(main, bcast, ends, via, Served, first', opened)
      <4>1. /\ via \in [Dests -> Addrs \cup {NoAddr}]
            /\ DistinctBroadcasts => Routed(main, via)
        BY <1>4 DEF Wired, Typed
      <4> QED BY <1>4, <3>3, <4>1, WiredElsewhere
    <3> QED BY <1>4, <1>c, <2>1, <3>1, <3>3, <3>4
  <2>4. CASE Find(main, a) # {}
    <3> DEFINE t == Without(via, a)
    <3>p. PICK s \in Find(main, a) :
            \E E \in IF Find(bcast, a) = {} THEN {Closed(ends, s)}
                     ELSE {Closed(Closed(ends, s), b) : b \in Find(bcast, a)} :
              IF n # NoAddr
                THEN /\ Open(i, n, Erased(main, s), bcast, E, t)
                     /\ UNCHANGED helloVars
                ELSE Leave(Erased(main, s), t) /\ ends' = E /\ UNCHANGED bcast
      BY <1>4, <2>4 DEF NotifyRemoveAddress
    <3>1. PICK E \in IF Find(bcast, a) = {} THEN {Closed(ends, s)}
                     ELSE {Closed(Closed(ends, s), b) : b \in Find(bcast, a)} :
            IF n # NoAddr
              THEN Open(i, n, Erased(main, s), bcast, E, t)
              ELSE Leave(Erased(main, s), t) /\ ends' = E /\ UNCHANGED bcast
      BY <3>p
    <3>2. i \in Served /\ first[i] = a
      <4>1. PICK j \in Served : first[j] = a
        BY <1>4, <2>4 DEF Find, Wired, Exact
      <4>2. a \in OwnAddrs(j) /\ j \in Ifaces
        BY <1>s, <4>1 DEF OwnAddrs, Served
      <4> QED BY <2>1, <4>1, <4>2 DEF AddrInv
    <3>3. /\ E \in SUBSET ends /\ \A x \in E : x.sock # s
          /\ \A x \in ends \ E :
               x.sock = s \/ \E b \in bcast : x.sock = b.sock /\ b.addr = a
      <4>1. CASE E = Closed(ends, s)
        BY <4>1 DEF Closed
      <4>2. CASE \E b \in Find(bcast, a) : E = Closed(Closed(ends, s), b)
        BY <4>2 DEF Closed, Find
      <4> QED BY <3>1, <4>1, <4>2
    <3>4. Wired(Erased(main, s), bcast, E, t, Served \ {i}, first, opened)
      <4>1. /\ s \in Find(main, first[i])
            /\ Shut(ends, E, bcast, bcast, s, first[i])
        BY <3>p, <3>2, <3>3 DEF Shut
      <4>2. Wired(Erased(main, s), bcast, E, Without(via, first[i]),
                  Served \ {i}, first, opened)
        BY <1>4, <1>s, <3>2, <4>1, CloseWired
      <4> QED BY <3>2, <4>2
    <3>u. /\ t \in [Dests -> Addrs \cup {NoAddr}]
          /\ DistinctBroadcasts => Routed(Erased(main, s), t)
      BY <3>4 DEF Wired, Typed
    <3> HIDE DEF t
    <3>f. \A j \in Served \ {i} : first'[j] = first[j]
      BY <1>s, <2>2
    <3>5. CASE n # NoAddr
      <4>1. n \in Addrs /\ Served' = Served /\ Served = (Served \ {i}) \cup {i}
        BY <2>1, <2>2, <3>2, <3>5 DEF Served, AddrInv
      <4>2. \A j \in Served \ {i} : first[j] # n /\ first'[j] = first[j]
        BY <1>s, <2>2, <3>2, <3>5, <3>f
      <4>3. Open(i, n, Erased(main, s), bcast, E, t)
        BY <3>1, <3>5
      <4>4. Served \ {i} \in SUBSET Ifaces
        BY <1>s
      <4>5. Wired(main', bcast', ends', via', (Served \ {i}) \cup {i}, first',
                  opened')
        BY <2>2, <3>4, <4>1, <4>2, <4>3, <4>4, OpenWired
      <4> QED BY <1>4, <1>c, <2>1, <4>1, <4>5
    <3>6. CASE n = NoAddr
      <4>1. Served' = Served \ {i}
        BY <2>1, <2>2, <3>2, <3>6 DEF Served, AddrInv
      <4>2. Wired(Erased(main, s), bcast, E, t, Served \ {i}, first', opened)
        BY <3>4, <3>f, <3>u, WiredElsewhere
      <4>3. Leave(Erased(main, s), t) /\ ends' = E /\ bcast' = bcast
        BY <3>1, <3>6
      <4>4. Wired(main', bcast', ends', via', Served \ {i}, first', opened')
        BY <4>2, <4>3, LeaveWired
      <4> QED BY <1>4, <1>c, <2>1, <4>1, <4>4
    <3> QED BY <3>5, <3>6
  <2> QED BY <2>3, <2>4
<1>5. ASSUME ~disposed, W, DoDispose PROVE MapInv'
  <2>1. ends' = {}
    BY <1>5 DEF DoDispose, Wired, Entered
  <2>2. Typed(main, bcast, ends, via, opened)'
    BY <1>5, <2>1 DEF DoDispose, MapInv, Typed
  <2> QED BY <1>5, <2>1, <2>2 DEF DoDispose, MapInv
<1>6. ASSUME ~disposed, W, Traffic PROVE MapInv'
  <2>1. /\ UNCHANGED <<first, up, main, bcast, ends, opened, disposed, changes>>
        /\ \/ via' = via
           \/ \E p \in Peers, a \in Addrs \cup {NoAddr} :
                via' = [via EXCEPT ![p] = a]
    BY <1>6 DEF Traffic, RecvAodv, ForgetRoute, BroadcastRequest, SendsHello,
                TimePasses, netVars, AddrInv
  <2>2. via' \in [Dests -> Addrs \cup {NoAddr}]
    BY <2>1 DEF MapInv, Typed
  <2>3. Served' = Served
    BY <2>1 DEF Served
  <2>r. DistinctBroadcasts => Routed(main, via')
    BY <1>6, TrafficRouted
  <2>4. Wired(main, bcast, ends, via', Served, first, opened)
    BY <1>6, <2>2, <2>r, WiredElsewhere
  <2> QED BY <1>6, <2>1, <2>3, <2>4 DEF MapInv, Wired
<1>7. CASE UNCHANGED vars
  <2>1. UNCHANGED <<first, up, main, bcast, ends, opened, via, disposed, changes>>
    BY <1>7 DEF vars, netVars
  <2>2. Served' = Served
    BY <2>1 DEF Served
  <2> QED BY <2>1, <2>2 DEF MapInv
<1>8. ~disposed => W
  BY DEF MapInv
<1> HIDE DEF W
<1> QED BY <1>1, <1>2, <1>3, <1>4, <1>5, <1>6, <1>7, <1>8
        DEF Next, Notifications

LEMMA NetInvariance == Spec => [](AddrInv /\ MapInv)
BY NetInitInv, AddrStep, MapStep, PTL DEF Spec

\* The state is typed.
THEOREM TypeCorrect == Spec => []TypeOK
<1>1. AddrInv /\ MapInv /\ HelloInv => TypeOK
  BY DEF AddrInv, MapInv, Typed, HelloInv, TypeOK, Ends, Sockets
<1> QED BY <1>1, NetInvariance, HelloInitInv, HelloStep, PTL DEF Spec

\* Whatever order interfaces and addresses come and go in, m_socketAddresses
\* has exactly one entry for each interface that is up with an address: its
\* first one, with a socket that is bound to it.
THEOREM MainSocketsAreExact == Spec => []MainSocketsExact
<1>1. MapInv => MainSocketsExact
  BY DEF MapInv, Wired, Exact, MainSocketsExact
<1> QED BY <1>1, NetInvariance, PTL

\* Every socket that can receive is in a map, so RecvAodv's assertion holds.
THEOREM SocketsAreKnown == Spec => []NoUnknownSocket
<1>1. MapInv => NoUnknownSocket
  BY DEF MapInv, Wired, Entered, NoUnknownSocket
<1> QED BY <1>1, NetInvariance, PTL

\* With distinct broadcast addresses the assertion of the senders holds: the
\* interface address of a route has a main socket.
THEOREM RoutesAreServed ==
  ASSUME DistinctBroadcasts
  PROVE  Spec => []RoutesHaveSocket
<1>1. MapInv => RoutesHaveSocket
  BY DEF MapInv, Wired, Routed, RoutesHaveSocket, Find
<1> QED BY <1>1, NetInvariance, PTL

\* So does the second assertion of NotifyInterfaceDown, and every interface in
\* use hears what is broadcast to it, though a Bind may have failed unnoticed.
THEOREM BroadcastsAreHeard ==
  ASSUME DistinctBroadcasts
  PROVE  Spec => []BroadcastsHeard
<1>1. MapInv => BroadcastsHeard
  BY DEF MapInv, Wired, Heard, BroadcastsHeard, Find
<1> QED BY <1>1, NetInvariance, PTL

\* So does what RecvAodv takes for granted: a packet is attributed to an address
\* of this node, whatever sockets a removed address has left behind.
THEOREM ReceiversAreOwn ==
  ASSUME DistinctBroadcasts
  PROVE  Spec => []ReceiverIsOwn
<1>1. ASSUME AddrInv, MapInv PROVE ReceiverIsOwn
  <2>1. ASSUME NEW e \in ends, Hears(e), NEW r \in Receiver(e.sock)
        PROVE  r \in Own
    <3>1. Wired(main, bcast, ends, via, Served, first, opened)
      BY <1>1, <2>1 DEF MapInv
    <3>2. e.dev \in up /\ r \in OwnAddrs(e.dev)
      BY <1>1, <2>1, <3>1, HeardOnOwn
    <3> QED BY <1>1, <3>2 DEF Own, AddrInv
  <2> QED BY <2>1 DEF ReceiverIsOwn
<1> QED BY <1>1, NetInvariance, PTL
=============================================================================
