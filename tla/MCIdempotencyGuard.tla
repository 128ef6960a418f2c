------------------------- MODULE MCIdempotencyGuard -------------------------
(* IdempotencyGuard for TLC. Two bodies may differ in what RequestHash      *)
(* covers, or in what it leaves out.                                        *)
EXTENDS IdempotencyGuard

MCBodies == [hashed : {"a", "b"}, rest : {"x"}] \cup {[hashed |-> "a", rest |-> "y"]}
MCRequestHash(body) == body.hashed
=============================================================================
