---------------------------- MODULE MCInterfaces ----------------------------
(***************************************************************************)
(* Small instances of Interfaces for TLC.                                  *)
(***************************************************************************)
EXTENDS Interfaces, TLC

CONSTANTS a, b, x, y

\* Every address in a subnet of its own.
Separate == a :> x @@ b :> y

\* Addresses a and b in one subnet.
Shared == a :> x @@ b :> x
=============================================================================
