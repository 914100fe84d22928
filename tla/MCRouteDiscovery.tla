-------------------------- MODULE MCRouteDiscovery --------------------------
(***************************************************************************)
(* Small instances of RouteDiscovery for TLC; the configurations give the  *)
(* constants their values.                                                 *)
(***************************************************************************)
EXTENDS RouteDiscovery, TLC

\* Destinations are interchangeable; so are interfaces.  Sound for the safety
\* runs, which do not mention a particular one.
Symmetry == Permutations(Dsts) \cup Permutations(Ifaces)
=============================================================================
