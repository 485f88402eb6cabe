----------------------------- MODULE MCAccount ------------------------------
(* Account for TLC: requests, passkeys, prompts and sessions are           *)
(* interchangeable.                                                        *)
EXTENDS Account, TLC

Interchangeable ==
  Permutations(Handlers) \cup Permutations(Passkeys) \cup Permutations(Prompts)
  \cup Permutations(Sessions)
=============================================================================
