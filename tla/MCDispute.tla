----------------------------- MODULE MCDispute -----------------------------
(* Dispute, and with it RefundFlow, for TLC. *)
EXTENDS Dispute
=============================================================================
