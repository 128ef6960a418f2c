---- MODULE MCPaymentFlow ----
EXTENDS PaymentFlow, TLC

Symmetry == Permutations(Workers) \cup Permutations(Refs)

(* A delivery the relay retries, or a crash or database error, but not both. *)
OneTrouble == evt.attempts + faults <= 1
=============================================================================
