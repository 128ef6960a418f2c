---------------------------- MODULE MCRateLimiter ----------------------------
(* RateLimiter for TLC: two users of one tenant behind one address.          *)
EXTENDS RateLimiter, TLC

CONSTANTS g1, g2

MCRequests == g1 :> {<<"u1", "t", "ip">>} @@ g2 :> {<<"u2", "t", "ip">>}
=============================================================================
