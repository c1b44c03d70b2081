---------------------------- MODULE MCTrustCache ----------------------------
(* Small instances of TrustCache for TLC.                                  *)
EXTENDS TrustCache, TLC

\* Requests are interchangeable.
RequestSymmetry == Permutations(Requests)
===============================================================================
