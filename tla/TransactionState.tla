-------------------------- MODULE TransactionState --------------------------
(***************************************************************************)
(* The transaction state machine of internal/domain/transaction: the       *)
(* statuses, the transition table and what TransitionState does to a row.  *)
(* A transaction t is a record with at least the fields status, started    *)
(* (ProcessingStartedAt and ProcessingTimeout are both set) and intent     *)
(* (CancelIntent).                                                         *)
(***************************************************************************)

Status ==
    {"PENDING", "PROCESSING", "AUTHORIZED", "CAPTURED", "SETTLED", "FAILED",
     "CANCELLED", "REFUND_PENDING", "PARTIALLY_REFUNDED", "REFUNDED",
     "REFUND_FAILED", "DISPUTED"}

transitionTable ==
    [PENDING            |-> {"PROCESSING", "AUTHORIZED", "CAPTURED", "FAILED", "CANCELLED"},
     PROCESSING         |-> {"CAPTURED", "AUTHORIZED", "FAILED", "CANCELLED"},
     AUTHORIZED         |-> {"PROCESSING", "CAPTURED", "FAILED", "CANCELLED"},
     CAPTURED           |-> {"SETTLED", "REFUND_PENDING", "REFUNDED", "REFUND_FAILED", "DISPUTED"},
     SETTLED            |-> {"REFUND_PENDING", "REFUNDED", "REFUND_FAILED", "DISPUTED"},
     FAILED             |-> {"CANCELLED"},
     REFUND_PENDING     |-> {"REFUNDED", "REFUND_FAILED", "PARTIALLY_REFUNDED"},
     PARTIALLY_REFUNDED |-> {"REFUND_PENDING", "REFUNDED", "REFUND_FAILED"},
     REFUNDED           |-> {},
     REFUND_FAILED      |-> {"REFUND_PENDING"},
     DISPUTED           |-> {"CAPTURED", "REFUNDED"},
     CANCELLED          |-> {}]

isValidTransition(from, to) == to \in transitionTable[from]

(* TransitionState returns no error. *)
CanTransition(t, to) ==
    /\ isValidTransition(t.status, to)
    /\ t.status = "FAILED" /\ to = "CANCELLED" => t.intent

(* The fields TransitionState writes, applyTransitionEffects included. *)
Transitioned(t, to) ==
    [t EXCEPT
        !.status  = to,
        !.started = /\ @
                    /\ ~ /\ t.status = "PROCESSING"
                         /\ to \in {"FAILED", "CANCELLED", "CAPTURED", "SETTLED", "AUTHORIZED"}]

(* Status.IsTerminal: no longer cancellable. *)
IsTerminal(s) == s \notin {"PENDING", "PROCESSING", "AUTHORIZED"}

(* The statuses for which EventTypeForTransactionStatus has an event type. *)
Announced == {"CAPTURED", "CANCELLED", "AUTHORIZED", "FAILED", "SETTLED", "REFUNDED"}

=============================================================================
