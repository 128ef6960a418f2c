--------------------------- MODULE GatewayAdapters ---------------------------
(***************************************************************************)
(* What the Stripe, Razorpay and FIB adapters make of a gateway's answers: *)
(* an error category or a payment status, and what the payment service and *)
(* the webhook handler conclude from it.                                   *)
(*                                                                         *)
(* The exchange with a gateway ends in a reply:                            *)
(*   lost       the transport failed, before or after the gateway acted    *)
(*   config     the tenant's configuration could not be read: nothing sent *)
(*   cancelled  the caller's context ended while FIB's token was fetched   *)
(*   refused    an HTTP status of 400 or more, with the gateway's code     *)
(*   garbled    a body that cannot be decoded                              *)
(*   object     the gateway's payment object                               *)
(***************************************************************************)
EXTENDS Naturals, FiniteSets

Providers == {"stripe", "razorpay", "fib"}

(* ports.ErrorCategory, and an adapter's result: a category or a status.     *)
Categories == {"hard_decline", "soft_decline", "network_timeout", "gateway_error",
               "idempotency_conflict", "ambiguous"}
failure(category) == [err |-> category, status |-> "NONE"]
answer(status) == [err |-> "none", status |-> status]

-----------------------------------------------------------------------------
(* The codes of a refusal, as far as the adapters tell them apart.           *)
StripeCodes == {"card_error", "card_error_transient", "rate_limit_error",
                "idempotency_error", "api_error", "no_envelope"}

classifyStripe(code) ==
    CASE code = "card_error_transient" -> "soft_decline"
      [] code = "card_error" -> "hard_decline"
      [] code = "rate_limit_error" -> "network_timeout"
      [] code = "idempotency_error" -> "idempotency_conflict"
      [] OTHER -> "gateway_error"                   \* no_envelope is read as api_error

RazorpayCodes == {"GATEWAY_ERROR", "SERVER_ERROR", "BAD_REQUEST_ERROR", "payment_failed",
                  "insufficient_funds", "no_envelope"}

classifyRazorpay(code) ==
    CASE code \in {"SERVER_ERROR", "no_envelope"} -> "network_timeout"
      [] code = "payment_failed" -> "hard_decline"  \* reasons of BAD_REQUEST_ERROR
      [] code = "insufficient_funds" -> "soft_decline"
      [] OTHER -> "gateway_error"

FibCodes == {"HTTP_500", "HTTP_401", "HTTP_404", "HTTP_409", "HTTP_422", "HTTP_429", "HTTP_400"}

classifyFib(code) ==
    CASE code = "HTTP_409" -> "soft_decline"
      [] code = "HTTP_422" -> "hard_decline"
      [] code = "HTTP_429" -> "network_timeout"
      [] OTHER -> "gateway_error"

codesOf(p) == CASE p = "stripe" -> StripeCodes
                [] p = "razorpay" -> RazorpayCodes
                [] p = "fib" -> FibCodes

classifyError(p, code) == CASE p = "stripe" -> classifyStripe(code)
                            [] p = "razorpay" -> classifyRazorpay(code)
                            [] p = "fib" -> classifyFib(code)

-----------------------------------------------------------------------------
(* The payment as the gateway keeps it (external), and how each gateway      *)
(* shows it: Stripe's payment intent, Razorpay's order, FIB's status. A      *)
(* declined payment may be attempted again.                                  *)
Payments == {"open", "declined", "processing", "authorized", "collected", "cancelled", "refunded"}

paymentSteps(p) ==
    {<<"open", "declined">>, <<"open", "collected">>, <<"open", "cancelled">>,
     <<"collected", "refunded">>}
    \cup (IF p = "fib" THEN {} ELSE {<<"declined", "collected">>})
    \cup (IF p = "stripe" THEN {<<"open", "processing">>, <<"processing", "collected">>,
                                <<"processing", "declined">>, <<"declined", "cancelled">>} ELSE {})
    \cup (IF p = "razorpay" THEN {<<"open", "authorized">>, <<"authorized", "collected">>} ELSE {})

shownByStripe(pay) ==
    [status |-> CASE pay \in {"collected", "refunded"} -> "succeeded"
                  [] pay = "processing" -> "processing"
                  [] pay = "cancelled" -> "canceled"
                  [] OTHER -> "requires_payment_method",
     lastError |-> pay = "declined",
     refunded |-> pay = "refunded"]

shownByRazorpay(pay) ==
    [order |-> CASE pay \in {"collected", "refunded"} -> "paid"
                 [] pay \in {"declined", "authorized"} -> "attempted"
                 [] OTHER -> "created",
     payment |-> CASE pay = "collected" -> "captured"
                   [] pay = "declined" -> "failed"
                   [] pay = "authorized" -> "authorized"
                   [] pay = "refunded" -> "refunded"
                   [] OTHER -> "created"]

shownByFib(pay) ==
    CASE pay = "open" -> "UNPAID"
      [] pay = "collected" -> "PAID"
      [] pay = "declined" -> "DECLINED"
      [] pay = "cancelled" -> "CANCELLED"
      [] pay = "refunded" -> "REFUNDED"
      [] OTHER -> "UNKNOWN"

(* The statuses the adapters read from it, asked (CheckStatus, and the       *)
(* answer to InitiatePayment) ...                                            *)
mapPaymentStatusStripe(pi) ==
    CASE pi.lastError -> "FAILED"
      [] ~pi.lastError /\ pi.status = "succeeded" -> "SUCCEEDED"
      [] ~pi.lastError /\ pi.status = "processing" -> "PROCESSING"
      [] ~pi.lastError /\ pi.status = "canceled" -> "CANCELLED"
      [] OTHER -> "PENDING"

mapOrderStatus(order) ==
    CASE order = "paid" -> "SUCCEEDED"
      [] order = "attempted" -> "PROCESSING"
      [] OTHER -> "PENDING"

mapPaymentStatusFib(s) ==
    CASE s = "UNPAID" -> "PENDING"
      [] s = "PAID" -> "SUCCEEDED"
      [] s = "DECLINED" -> "FAILED"
      [] s = "CANCELLED" -> "CANCELLED"
      [] s = "REFUNDED" -> "REFUNDED"
      [] OTHER -> "PROCESSING"

(* ... and told, in a webhook.                                               *)
mapStatusString(object) ==
    CASE object.lastError -> "FAILED"
      [] ~object.lastError /\ object.refunded -> "REFUNDED"
      [] OTHER -> mapPaymentStatusStripe(object)

mapWebhookPaymentStatus(payment) ==
    CASE payment = "captured" -> "SUCCEEDED"
      [] payment = "failed" -> "FAILED"
      [] payment = "authorized" -> "AUTHORIZED"
      [] OTHER -> "PENDING"

checkedByStripe(pay) == mapPaymentStatusStripe(shownByStripe(pay))
checkedByRazorpay(pay) == mapOrderStatus(shownByRazorpay(pay).order)
checkedByFib(pay) == mapPaymentStatusFib(shownByFib(pay))

checkedStatus(p, pay) == CASE p = "stripe" -> checkedByStripe(pay)
                           [] p = "razorpay" -> checkedByRazorpay(pay)
                           [] p = "fib" -> checkedByFib(pay)

toldByStripe(pay) == mapStatusString(shownByStripe(pay))
toldByRazorpay(pay) == mapWebhookPaymentStatus(shownByRazorpay(pay).payment)
toldByFib(pay) == mapPaymentStatusFib(shownByFib(pay))

ParseWebhook(p, pay) == CASE p = "stripe" -> toldByStripe(pay)
                          [] p = "razorpay" -> toldByRazorpay(pay)
                          [] p = "fib" -> toldByFib(pay)

(* registry.WebhookRequiresRefetch: FIB does not sign its webhooks.          *)
WebhookRequiresRefetch(p) == p = "fib"

-----------------------------------------------------------------------------
(* What an exchange may end in. FIB's first fetches a token, whose errors    *)
(* are those of the exchange itself but for one: the caller's context ends   *)
(* while it waits for the token of another request.                          *)
tokenReplies(p) == IF p = "fib" THEN {[kind |-> "cancelled"]} ELSE {}

Replies(p, pay) ==
    tokenReplies(p)
    \cup {[kind |-> "lost"], [kind |-> "config"], [kind |-> "garbled"], [kind |-> "object", pay |-> pay]}
    \cup {[kind |-> "refused", code |-> c] : c \in codesOf(p)}

(* The adapters' do, which the three write alike. The end of the caller's    *)
(* context is no GatewayError and is made one by callGateway.                *)
doLostIsError(p, reply) ==
    CASE reply.kind = "refused" -> failure(classifyError(p, reply.code))
      [] reply.kind \in {"lost", "config", "cancelled", "garbled"} -> failure("gateway_error")
      [] reply.kind = "object" -> answer(checkedStatus(p, reply.pay))

do(p, reply) ==
    CASE reply.kind = "lost" -> failure("network_timeout")
      [] reply.kind = "refused" -> failure(classifyError(p, reply.code))
      [] reply.kind \in {"config", "cancelled", "garbled"} -> failure("gateway_error")
      [] reply.kind = "object" -> answer(checkedStatus(p, reply.pay))

(* FIB's InitiatePayment does not look at the status it gets.                *)
InitiatePayment(p, reply) ==
    IF p = "fib" /\ reply.kind = "object" THEN answer("PENDING") ELSE do(p, reply)

CheckStatus(p, reply) == do(p, reply)

(* resolveOutcome of the payment service: a transaction status, or OPEN when *)
(* the outcome is not terminal.                                              *)
resolveOutcome(r) ==
    CASE r.err \in {"ambiguous", "network_timeout"} -> "OPEN"
      [] r.err \in Categories \ {"ambiguous", "network_timeout"} -> "FAILED"
      [] r.status = "SUCCEEDED" -> "CAPTURED"
      [] r.status = "AUTHORIZED" -> "AUTHORIZED"
      [] r.status = "FAILED" -> "FAILED"
      [] r.status = "CANCELLED" -> "CANCELLED"
      [] OTHER -> "OPEN"

(* normalizeStatus of the webhook handler, and mapWebhookStatus of the       *)
(* service behind it.                                                        *)
normalizeStatus(s) ==
    CASE s = "SUCCEEDED" -> "succeeded"
      [] s = "AUTHORIZED" -> "authorized"
      [] s = "FAILED" -> "failed"
      [] s = "CANCELLED" -> "cancelled"
      [] s = "REFUNDED" -> "refunded"
      [] OTHER -> "pending"

mapWebhookStatus(s) ==
    CASE s \in {"succeeded", "captured"} -> "CAPTURED"
      [] s = "authorized" -> "AUTHORIZED"
      [] s = "failed" -> "FAILED"
      [] s = "cancelled" -> "CANCELLED"
      [] s = "refunded" -> "REFUNDED"
      [] OTHER -> "OPEN"

(* isGatewayHealthFailure: what the circuit breaker counts against a gateway. *)
isGatewayHealthFailureAny(err) == err # "none"

isGatewayHealthFailure(err) == err \in {"network_timeout", "gateway_error", "ambiguous"}
=============================================================================
