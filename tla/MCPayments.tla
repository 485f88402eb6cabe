----------------------------- MODULE MCPayments -----------------------------
(* Payments for TLC: requests are interchangeable.                         *)
EXTENDS Payments, TLC

Interchangeable == Permutations(Handlers)
=============================================================================
