---------------------------- MODULE MCRateLimit -----------------------------
(* RateLimit for TLC: keys and calls are interchangeable.                  *)
EXTENDS RateLimit, TLC

Interchangeable == Permutations(Keys) \cup Permutations(Callers)
=============================================================================
