--------------------------- MODULE MCSessionStart ---------------------------
(* SessionStart for TLC: requests, browsers, users, sessions and prompts   *)
(* are interchangeable.                                                    *)
EXTENDS SessionStart, TLC

Interchangeable ==
  Permutations(Handlers) \cup Permutations(Browsers) \cup Permutations(Users)
  \cup Permutations(Sessions) \cup Permutations(Ceremonies)
=============================================================================
