---------------------------- MODULE MCRefundFlow ----------------------------
(* RefundFlow for TLC. *)
EXTENDS RefundFlow, TLC

Symmetry == Permutations(Workers) \cup Permutations(Refunds)
=============================================================================
