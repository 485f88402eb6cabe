---------------------------- MODULE MCEmailStep -----------------------------
(* EmailStep for TLC: requests, browsers, emails and users are             *)
(* interchangeable.                                                        *)
EXTENDS EmailStep, TLC

Interchangeable == Permutations(Handlers) \cup Permutations(Browsers) \cup Permutations(Emails)
=============================================================================
