----------------------------- MODULE HelloTimer -----------------------------
(***************************************************************************)
(* The hello timer of an AODV node (aodv-routing-protocol.cc): a hello is  *)
(* due HelloInterval after the last broadcast, and a broadcast puts it     *)
(* off.  Interfaces composes it with the interfaces the hellos go out on.  *)
(*                                                                         *)
(* Time passes in ticks, and not past a timer that is due.  The jitter of  *)
(* at most 10 ms between a decision to send and the sending is left out.   *)
(***************************************************************************)
EXTENDS Naturals

CONSTANTS
  HelloInterval,
  StartDelay     \* the latest tick at which DoInitialize starts the timer

\* The start is drawn from 0 to 100 ms and HelloInterval is 1 s by default.
ASSUME HelloAssumption ==
  HelloInterval \in Nat \ {0} /\ StartDelay \in 0..HelloInterval

VARIABLES
  hrunning,  \* m_htimer is scheduled
  hdelay,    \* ticks until it expires
  bcastSet,  \* m_lastBcastTime is not zero
  bcastAge,  \* ticks since m_lastBcastTime, when it is not zero
  silence,   \* ticks since the last broadcast of a node with an interface
  begun      \* simulated time is past zero

helloVars == <<hrunning, hdelay, bcastSet, bcastAge, silence, begun>>

HelloInit ==
  /\ hrunning = TRUE
  /\ hdelay \in 0..StartDelay
  /\ bcastSet = FALSE
  /\ bcastAge = 0
  /\ silence = 0
  /\ begun = FALSE

\* A RREQ leaves, this node's or a relayed one: m_lastBcastTime is set to the
\* current time, which at time zero is the value that means none.
NoteBroadcast ==
  /\ silence' = 0
  /\ bcastSet' = begun
  /\ bcastAge' = 0
  /\ UNCHANGED <<hrunning, hdelay, begun>>

\* Mutant: a broadcast puts the next check off by the whole interval.
DelayAfterFull(offset) == HelloInterval

\* HelloTimerExpire: the time that is left until HelloInterval has passed.
DelayAfter(offset) ==
  IF offset < HelloInterval THEN HelloInterval - offset ELSE 0

\* A hello leaves unless there was a broadcast since the last expiry; SendHello
\* sends on every interface, so on none if `sends' is false.
HelloTimerExpire(sends) ==
  /\ hrunning /\ hdelay = 0
  /\ hdelay' = DelayAfter(IF bcastSet THEN bcastAge ELSE 0)
  /\ silence' = IF sends /\ ~bcastSet THEN 0 ELSE silence
  /\ bcastSet' = FALSE /\ bcastAge' = 0
  /\ UNCHANGED <<hrunning, begun>>

\* One tick; the counters stop one past HelloInterval.
Passed(t) == IF t > HelloInterval THEN t ELSE t + 1

Tick(serving) ==
  /\ ~(hrunning /\ hdelay = 0)
  /\ hdelay' = IF hrunning THEN hdelay - 1 ELSE 0
  /\ bcastAge' = IF bcastSet THEN Passed(bcastAge) ELSE 0
  /\ silence' = IF serving THEN Passed(silence) ELSE 0
  /\ begun' = TRUE
  /\ UNCHANGED <<hrunning, bcastSet>>

HelloTypeOK ==
  /\ hrunning \in BOOLEAN /\ bcastSet \in BOOLEAN /\ begun \in BOOLEAN
  /\ hdelay \in 0..HelloInterval
  /\ bcastAge \in 0..HelloInterval + 1
  /\ silence \in 0..HelloInterval + 1

\* While the timer runs, a node with an interface is never silent for longer
\* than HelloInterval, wherever its own RREQs and those it relays fall between
\* the expiries: the expiry that follows a broadcast is brought forward.
SilenceBounded == hrunning => silence <= HelloInterval
=============================================================================
