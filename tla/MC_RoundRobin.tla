--------------------------- MODULE MC_RoundRobin ---------------------------
(* Model-checking instance of RoundRobin: five identifiers and thresholds *)
(* 4 and 2 (for 30 and 10), so that the index is built, used, destroyed   *)
(* and rebuilt.                                                            *)
EXTENDS RoundRobin, TLC

CONSTANTS a, b, c, d, e, NoneVal

MC_Ids == {a, b, c, d, e}

\* The liveness run: three identifiers (symmetry cannot be used with a
\* liveness property), thresholds 2 and 1 so that the index still comes
\* and goes.
MC_IdsLive == {a, b, c}

\* Identifiers are interchangeable.
MC_Symmetry == Permutations(MC_Ids)
=============================================================================
