--------------------------- MODULE MCAodvNetwork ---------------------------
(***************************************************************************)
(* Small instances of AodvNetwork for TLC.                                 *)
(***************************************************************************)
EXTENDS AodvNetwork, Integers

CONSTANTS a, b, c, d

\* Nodes in range of each other: two chains and a square.
Chain == {{a, b}, {b, c}}
Chain4 == Chain \cup {{c, d}}
Square == Chain4 \cup {{a, d}}

\* The way from n to x along a chain; it makes Directs true of the chains.
Order == <<a, b, c, d>>
At(n) == CHOOSE k \in 1..4 : Order[k] = n
Along == [n \in Nodes |-> [x \in Nodes |->
            Order[At(n) + IF At(n) < At(x) THEN 1
                          ELSE IF At(n) > At(x) THEN -1 ELSE 0]]]

ASSUME ChainsAreDirected == Links \subseteq Chain4 => Directs(Along)

\* Who searches for whom.
OneWay == {<<a, c>>}
Relayed == {<<a, d>>, <<b, d>>}
Crossing == {<<a, d>>, <<c, a>>}
=============================================================================
