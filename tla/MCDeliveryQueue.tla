--------------------------- MODULE MCDeliveryQueue ---------------------------
(* DeliveryQueue for TLC: an outbox whose event is retried, and one whose    *)
(* dead letter two operators may replay; deliveries and notifications two    *)
(* by two.                                                                   *)
EXTENDS DeliveryQueue

MCQueues == {
    [kind |-> "outbox",       written |-> {1},    spare |-> {2},    maxAttempts |-> 2],
    [kind |-> "outbox",       written |-> {1},    spare |-> {2, 3}, maxAttempts |-> 1],
    [kind |-> "webhook",      written |-> {1, 2}, spare |-> {},     maxAttempts |-> 2],
    [kind |-> "notification", written |-> {1, 2}, spare |-> {},     maxAttempts |-> 1]}
=============================================================================
