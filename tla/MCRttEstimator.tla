--------------------------- MODULE MCRttEstimator ---------------------------
(* Small values for the constants of RttEstimator. *)
EXTENDS RttEstimator, TLC

CONSTANTS original, copy

(* Nothing distinguishes the two estimators. *)
Objects == Permutations({original, copy})
=============================================================================
