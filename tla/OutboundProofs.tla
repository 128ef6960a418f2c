--------------------------- MODULE OutboundProofs ---------------------------
(***************************************************************************)
(* Proofs about the service's outward side, the gateways it calls and the  *)
(* queues by which its events leave.                                       *)
(*                                                                         *)
(* GatewayHealth: what the service is told of a payment has happened at    *)
(* the gateway, a CLOSED breaker counts exactly the gateway's troubles,    *)
(* and the breaker moves along its circuit. First come the adapters'       *)
(* tables, gateway by gateway, then the induction over the calls,          *)
(* recordings and listings.                                                *)
(*                                                                         *)
(* DeliveryQueue: a row is done only with every handler reached, no outbox *)
(* event is lost, and what the outbox has finished with stays finished.    *)
(* Two invariants carry them: what a worker has handled on its way along   *)
(* the routes, and that a dead letter exists exactly for the events the    *)
(* relay gave up.                                                          *)
(*                                                                         *)
(* RelayRing: for any ring and number of workers, a rolling deploy of the  *)
(* relay leaves no shard alone.                                            *)
(***************************************************************************)
EXTENDS GatewayHealth, DeliveryQueue, RelayRing,
        FiniteSetTheorems, WellFoundedInduction, TLAPS

-----------------------------------------------------------------------------
(* The gateways' adapters and the circuit breaker *)

Breaker == [state : {"CLOSED", "OPEN", "HALF_OPEN"}, cool : Nat, fails : Nat]
CallOf == [pc : {"idle", "answered"}, counts : BOOLEAN, troubled : BOOLEAN]

HType ==
    /\ provider \in Providers
    /\ payment \in Payments /\ took \subseteq Payments
    /\ breaker \in Breaker
    /\ caller \in [Callers -> CallOf]
    /\ lister \in [Listers -> Nat]
    /\ streak \in Nat

(* A payment has been in the state it is in, and one that was refunded had  *)
(* been collected.                                                          *)
TookOK == payment \in took /\ ("refunded" \in took => "collected" \in took)

(* A call counts against the gateway exactly when the gateway was in        *)
(* trouble.                                                                 *)
CountsTrouble == \A c \in Callers : caller[c].counts = caller[c].troubled

HInv == HType /\ TookOK /\ CountsTrouble /\ NothingInvented /\ ClosedCountsTrouble

-----------------------------------------------------------------------------
(* The tables of the adapters. *)

(* What a status read from a payment says of it.                            *)
Shows(status, pay) ==
    /\ status = "SUCCEEDED" => pay \in {"collected", "refunded"}
    /\ status = "AUTHORIZED" => pay = "authorized"
    /\ status = "FAILED" => pay = "declined"
    /\ status = "CANCELLED" => pay = "cancelled"
    /\ status = "REFUNDED" => pay = "refunded"

(* Stripe's status is read for what it is, polled or told by webhook.        *)
LEMMA StripeShows ==
    ASSUME NEW pay \in Payments
    PROVE  Shows(checkedByStripe(pay), pay) /\ Shows(toldByStripe(pay), pay)
<1> DEFINE o == shownByStripe(pay)
<1>1. /\ o.status = "succeeded" => pay \in {"collected", "refunded"}
      /\ o.status = "canceled" => pay = "cancelled"
      /\ o.lastError <=> pay = "declined"
      /\ o.refunded <=> pay = "refunded"
      /\ o.status \in {"succeeded", "processing", "canceled", "requires_payment_method"}
  BY Zenon DEF shownByStripe
<1> HIDE DEF o
<1>2. Shows(mapPaymentStatusStripe(o), pay) /\ mapPaymentStatusStripe(o) # "REFUNDED"
  BY <1>1 DEF mapPaymentStatusStripe, Shows
<1>3. Shows(mapStatusString(o), pay)
  BY <1>1, <1>2 DEF mapStatusString, Shows
<1>4. QED
  BY <1>2, <1>3 DEF o, checkedByStripe, toldByStripe

(* So is Razorpay's.                                                         *)
LEMMA RazorpayShows ==
    ASSUME NEW pay \in Payments
    PROVE  Shows(checkedByRazorpay(pay), pay) /\ Shows(toldByRazorpay(pay), pay)
<1>1. shownByRazorpay(pay).order = "paid" => pay \in {"collected", "refunded"}
  BY DEF shownByRazorpay
<1>2. /\ shownByRazorpay(pay).payment = "captured" => pay = "collected"
      /\ shownByRazorpay(pay).payment = "failed" => pay = "declined"
      /\ shownByRazorpay(pay).payment = "authorized" => pay = "authorized"
  BY DEF shownByRazorpay
<1>3. Shows(checkedByRazorpay(pay), pay)
  BY <1>1 DEF checkedByRazorpay, mapOrderStatus, Shows
<1>4. Shows(toldByRazorpay(pay), pay)
  BY <1>2 DEF toldByRazorpay, mapWebhookPaymentStatus, Shows
<1>5. QED
  BY <1>3, <1>4

(* So is FIB's.                                                              *)
LEMMA FibShows ==
    ASSUME NEW pay \in Payments
    PROVE  Shows(checkedByFib(pay), pay) /\ Shows(toldByFib(pay), pay)
BY DEF checkedByFib, toldByFib, shownByFib, mapPaymentStatusFib, Shows

(* Asked or told, no adapter shows a payment as what it is not.             *)
LEMMA AdaptersShow ==
    ASSUME NEW p \in Providers, NEW pay \in Payments
    PROVE  Shows(checkedStatus(p, pay), pay) /\ Shows(ParseWebhook(p, pay), pay)
<1>1. p = "stripe" \/ p = "razorpay" \/ p = "fib"
  BY DEF Providers
<1>2. QED
  BY <1>1, StripeShows, RazorpayShows, FibShows DEF checkedStatus, ParseWebhook

(* The categories of the refusals: a decline is never one that counts.      *)
LEMMA RefusalCounts ==
    ASSUME NEW p \in Providers, NEW code \in codesOf(p)
    PROVE  /\ classifyError(p, code) \in Categories \ {"ambiguous"}
           /\ isGatewayHealthFailure(classifyError(p, code)) <=> code \notin declines
<1>1. CASE p = "stripe"
  <2>1. code \in StripeCodes /\ classifyError(p, code) = classifyStripe(code)
    BY <1>1 DEF codesOf, classifyError
  <2>2. QED
    BY <2>1 DEF StripeCodes, classifyStripe, Categories, isGatewayHealthFailure, declines
<1>2. CASE p = "razorpay"
  <2>1. code \in RazorpayCodes /\ classifyError(p, code) = classifyRazorpay(code)
    BY <1>2 DEF codesOf, classifyError
  <2>2. QED
    BY <2>1 DEF RazorpayCodes, classifyRazorpay, Categories, isGatewayHealthFailure, declines
<1>3. CASE p = "fib"
  <2>1. code \in FibCodes /\ classifyError(p, code) = classifyFib(code)
    BY <1>3 DEF codesOf, classifyError
  <2>2. QED
    BY <2>1 DEF FibCodes, classifyFib, Categories, isGatewayHealthFailure, declines
<1>4. QED
  BY <1>1, <1>2, <1>3 DEF Providers

(* An exchange and what it tells: a status only with a payment that shows   *)
(* it, FAILED without one only after an error; and it counts against the    *)
(* gateway exactly when the gateway was in trouble.                         *)
Tells(status, reply, pay) ==
    /\ status = "CAPTURED" => pay \in {"collected", "refunded"}
    /\ status = "AUTHORIZED" => pay = "authorized"
    /\ status = "CANCELLED" => pay = "cancelled"
    /\ status # "REFUNDED"
    /\ status = "FAILED" => pay = "declined" \/ reply.kind \notin {"lost", "object"}

(* An answer that shows the payment tells the truth and is no failure.       *)
LEMMA AnswerTells ==
    ASSUME NEW s, NEW pay, Shows(s, pay), NEW reply
    PROVE  Tells(resolveOutcome(answer(s)), reply, pay) /\ ~ isGatewayHealthFailure(answer(s).err)
<1>1. answer(s).err = "none" /\ answer(s).status = s
  BY DEF answer
<1>2. "none" \notin Categories /\ "none" \notin {"ambiguous", "network_timeout"}
  BY DEF Categories
<1>3. Tells(resolveOutcome(answer(s)), reply, pay)
  BY <1>1, <1>2 DEF resolveOutcome, Tells, Shows
<1>4. QED
  BY <1>1, <1>3 DEF isGatewayHealthFailure

(* A failure claims nothing, and keeps its category.                         *)
LEMMA FailureTells ==
    ASSUME NEW c \in Categories, NEW pay, NEW reply,
           reply.kind = "lost" => c = "network_timeout", reply.kind # "object"
    PROVE  Tells(resolveOutcome(failure(c)), reply, pay) /\ failure(c).err = c
<1>1. failure(c).err = c /\ failure(c).status = "NONE"
  BY DEF failure
<1>2. resolveOutcome(failure(c)) = IF c \in {"ambiguous", "network_timeout"} THEN "OPEN" ELSE "FAILED"
  BY <1>1 DEF resolveOutcome
<1>3. QED
  BY <1>1, <1>2 DEF Tells

(* What a gateway may reply.                                                 *)
LEMMA RepliesAre ==
    ASSUME NEW p \in Providers, NEW pay \in Payments, NEW reply \in Replies(p, pay)
    PROVE  \/ reply.kind = "object" /\ reply.pay = pay
           \/ reply.kind = "refused" /\ reply.code \in codesOf(p)
           \/ reply.kind \in {"lost", "config", "cancelled", "garbled"}
<1>1. CASE reply \in tokenReplies(p)
  BY <1>1 DEF tokenReplies
<1>2. CASE reply \in {[kind |-> "lost"], [kind |-> "config"], [kind |-> "garbled"], [kind |-> "object", pay |-> pay]}
  BY <1>2
<1>3. CASE reply \in {[kind |-> "refused", code |-> c] : c \in codesOf(p)}
  BY <1>3
<1>4. QED
  BY <1>1, <1>2, <1>3 DEF Replies

(* So what the service concludes from a call is true, and counts as          *)
(* trouble of the gateway exactly when it was.                               *)
LEMMA ExchangeTells ==
    ASSUME NEW p \in Providers, NEW pay \in Payments, NEW reply \in Replies(p, pay),
           NEW r \in {InitiatePayment(p, reply), CheckStatus(p, reply)}
    PROVE  /\ Tells(resolveOutcome(r), reply, pay)
           /\ isGatewayHealthFailure(r.err) <=> troubled(reply)
<1>1. CASE reply.kind = "object" /\ reply.pay = pay
  <2>1. do(p, reply) = answer(checkedStatus(p, pay))
    BY <1>1 DEF do
  <2>2. Shows(checkedStatus(p, pay), pay) /\ Shows("PENDING", pay)
    BY AdaptersShow DEF Shows
  <2>3. r = answer(checkedStatus(p, pay)) \/ r = answer("PENDING")
    BY <2>1 DEF InitiatePayment, CheckStatus
  <2>4. Tells(resolveOutcome(r), reply, pay) /\ ~ isGatewayHealthFailure(r.err)
    BY <2>2, <2>3, AnswerTells
  <2>5. ~ troubled(reply)
    BY <1>1 DEF troubled
  <2>6. QED
    BY <2>4, <2>5
<1>2. CASE reply.kind = "refused" /\ reply.code \in codesOf(p)
  <2> DEFINE c == classifyError(p, reply.code)
  <2>1. r = failure(c)
    BY <1>2 DEF InitiatePayment, CheckStatus, do
  <2>2. c \in Categories /\ (isGatewayHealthFailure(c) <=> reply.code \notin declines)
    BY <1>2, RefusalCounts
  <2> HIDE DEF c
  <2>3. Tells(resolveOutcome(r), reply, pay) /\ r.err = c
    BY <1>2, <2>1, <2>2, FailureTells
  <2>4. troubled(reply) <=> reply.code \notin declines
    BY <1>2 DEF troubled
  <2>5. QED
    BY <2>2, <2>3, <2>4
<1>3. CASE reply.kind \in {"lost", "config", "cancelled", "garbled"}
  <2>1. PICK c \in {"network_timeout", "gateway_error"} :
            r = failure(c) /\ (reply.kind = "lost" => c = "network_timeout")
    BY <1>3 DEF InitiatePayment, CheckStatus, do
  <2>2. c \in Categories /\ isGatewayHealthFailure(c)
    BY DEF Categories, isGatewayHealthFailure
  <2>3. Tells(resolveOutcome(r), reply, pay) /\ r.err = c
    BY <1>3, <2>1, <2>2, FailureTells
  <2>4. troubled(reply)
    BY <1>3 DEF troubled
  <2>5. QED
    BY <2>2, <2>3, <2>4
<1>4. QED
  BY <1>1, <1>2, <1>3, RepliesAre

-----------------------------------------------------------------------------
(* The calls, recordings and listings. *)

(* Counters that stop at their bound stay numbers.                           *)
LEMMA MoreType ==
    ASSUME NEW n \in Nat
    PROVE  more(n) \in Nat
<1>1. MaxFails \in Nat /\ n + 1 \in Nat
  BY HealthConstants
<1>2. \E m \in {n + 1, MaxFails} : \A y \in {n + 1, MaxFails} : m <= y
  BY <1>1
<1>3. Min({n + 1, MaxFails}) \in {n + 1, MaxFails}
  BY <1>2 DEF Min
<1>4. QED
  BY <1>1, <1>3 DEF more

(* What was told stays true as the payment moves on.                        *)
LEMMA ToldKept ==
    ASSUME NothingInvented, took \subseteq took', told' = told
    PROVE  NothingInvented'
BY DEF NothingInvented

(* A payment that moves at the gateway makes no earlier conclusion false.    *)
LEMMA PaymentMovesKeeps ==
    ASSUME HInv, PaymentMoves
    PROVE  HInv'
<1>0. HType /\ TookOK /\ CountsTrouble /\ NothingInvented /\ ClosedCountsTrouble
  BY DEF HInv
<1>1. PICK s \in paymentSteps(provider) : payment = s[1] /\ payment' = s[2] /\ took' = took \cup {s[2]}
  BY DEF PaymentMoves
<1>2. UNCHANGED <<provider, breaker, caller, lister, told, streak>>
  BY DEF PaymentMoves
<1>3. s[2] \in Payments /\ (s[2] = "refunded" => s[1] = "collected")
  BY DEF paymentSteps, Payments
<1>4. HType' /\ TookOK'
  BY <1>0, <1>1, <1>2, <1>3 DEF HType, TookOK
<1>5. NothingInvented'
  BY <1>0, <1>1, <1>2, ToldKept
<1>6. CountsTrouble' /\ ClosedCountsTrouble'
  BY <1>0, <1>2 DEF CountsTrouble, ClosedCountsTrouble
<1>7. QED
  BY <1>4, <1>5, <1>6 DEF HInv

(* What is told of the payment as it is, or was when a webhook was sent.    *)
LEMMA TellsTrue ==
    ASSUME HInv, took' = took, NEW pay \in took, NEW status, NEW error,
           told' = [status |-> status, error |-> error],
           status = "CAPTURED" => pay \in {"collected", "refunded"},
           status = "AUTHORIZED" => pay = "authorized",
           status = "CANCELLED" => pay = "cancelled",
           status = "REFUNDED" => pay = "refunded",
           status = "FAILED" /\ pay # "declined" => error
    PROVE  NothingInvented'
<1>1. told'.status = status /\ (error => told'.error)
  OBVIOUS
<1>2. TookOK
  BY DEF HInv
<1>3. QED
  BY <1>1, <1>2 DEF NothingInvented, TookOK

(* A caller that is told something is told what happened.                    *)
LEMMA CallKeeps ==
    ASSUME HInv, NEW c \in Callers, Call(c)
    PROVE  HInv'
<1>0. HType /\ TookOK /\ CountsTrouble /\ ClosedCountsTrouble
  BY DEF HInv
<1>1. UNCHANGED <<breaker, lister, streak>> /\ UNCHANGED <<provider, payment, took>>
  BY DEF Call, outside
<1>2. PICK reply \in Replies(provider, payment) :
         \E r \in {InitiatePayment(provider, reply), CheckStatus(provider, reply)} :
           /\ told' = [status |-> resolveOutcome(r), error |-> reply.kind \notin {"lost", "object"}]
           /\ caller' = [caller EXCEPT ![c] = [pc |-> "answered", counts |-> isGatewayHealthFailure(r.err),
                                               troubled |-> troubled(reply)]]
  BY Zenon DEF Call
<1>3. PICK r \in {InitiatePayment(provider, reply), CheckStatus(provider, reply)} :
           /\ told' = [status |-> resolveOutcome(r), error |-> reply.kind \notin {"lost", "object"}]
           /\ caller' = [caller EXCEPT ![c] = [pc |-> "answered", counts |-> isGatewayHealthFailure(r.err),
                                               troubled |-> troubled(reply)]]
  BY Zenon, <1>2
<1>4. Tells(resolveOutcome(r), reply, payment) /\ (isGatewayHealthFailure(r.err) <=> troubled(reply))
  <2>1. provider \in Providers /\ payment \in Payments
    BY <1>0 DEF HType
  <2>2. QED
    BY <2>1, ExchangeTells
<1>5. NothingInvented'
  <2>1. payment \in took
    BY <1>0 DEF TookOK
  <2> DEFINE status == resolveOutcome(r)
             error == reply.kind \notin {"lost", "object"}
  <2>2. told' = [status |-> status, error |-> error]
    BY <1>3
  <2>3. /\ status = "CAPTURED" => payment \in {"collected", "refunded"}
        /\ status = "AUTHORIZED" => payment = "authorized"
        /\ status = "CANCELLED" => payment = "cancelled"
        /\ status # "REFUNDED"
        /\ status = "FAILED" /\ payment # "declined" => error
    BY <1>4 DEF Tells
  <2> HIDE DEF status, error
  <2>4. QED
    BY <1>1, <2>1, <2>2, <2>3, TellsTrue
<1>6. caller' \in [Callers -> CallOf] /\ CountsTrouble'
  <2> DEFINE b == isGatewayHealthFailure(r.err)
             t == troubled(reply)
  <2>1. b \in BOOLEAN /\ t \in BOOLEAN /\ b = t
    <3>1. b \in BOOLEAN
      BY DEF isGatewayHealthFailure
    <3>2. t \in BOOLEAN
      BY DEF troubled
    <3>3. b <=> t
      BY <1>4
    <3> HIDE DEF b, t
    <3>4. QED
      BY <3>1, <3>2, <3>3
  <2> DEFINE q == [pc |-> "answered", counts |-> b, troubled |-> t]
  <2>2. caller' = [caller EXCEPT ![c] = q] /\ caller \in [Callers -> CallOf]
    BY <1>0, <1>3 DEF HType
  <2> HIDE DEF b, t
  <2>3. q \in CallOf /\ q.counts = q.troubled
    BY <2>1 DEF CallOf
  <2> HIDE DEF q
  <2>4. QED
    BY <1>0, <2>2, <2>3 DEF CountsTrouble
<1>7. HType' /\ TookOK' /\ ClosedCountsTrouble'
  BY <1>0, <1>1, <1>6 DEF HType, TookOK, ClosedCountsTrouble
<1>8. QED
  BY <1>5, <1>6, <1>7 DEF HInv

(* So is the service by a webhook.                                           *)
LEMMA WebhookKeeps ==
    ASSUME HInv, Webhook
    PROVE  HInv'
<1>0. HType /\ TookOK /\ CountsTrouble /\ ClosedCountsTrouble /\ provider \in Providers /\ took \subseteq Payments
  BY DEF HInv, HType
<1>1. UNCHANGED <<breaker, caller, lister, streak>> /\ UNCHANGED <<provider, payment, took>>
  BY DEF Webhook, outside
<1>2. \E pay \in took : \E s : Shows(s, pay) /\ tellWebhook(s)
  <2>1. CASE \E sent \in took : tellWebhook(ParseWebhook(provider, sent))
    BY <1>0, <2>1, AdaptersShow
  <2>2. CASE \E reply \in Replies(provider, payment) :
               LET r == CheckStatus(provider, reply) IN r.err = "none" /\ tellWebhook(r.status)
    <3>1. PICK reply \in Replies(provider, payment) :
               CheckStatus(provider, reply).err = "none" /\ tellWebhook(CheckStatus(provider, reply).status)
      BY <2>2
    <3>2. payment \in Payments /\ payment \in took
      BY <1>0 DEF HType, TookOK
    <3>3. reply.kind = "object" /\ reply.pay = payment
      <4>1. \/ reply.kind = "object" /\ reply.pay = payment
            \/ reply.kind = "refused" /\ reply.code \in codesOf(provider)
            \/ reply.kind \in {"lost", "config", "cancelled", "garbled"}
        BY <1>0, <3>2, RepliesAre
      <4>2. ASSUME NEW c \in Categories
            PROVE  failure(c).err # "none"
        BY DEF failure, Categories
      <4>3. CASE reply.kind = "refused" /\ reply.code \in codesOf(provider)
        <5>1. CheckStatus(provider, reply) = failure(classifyError(provider, reply.code))
          BY <4>3 DEF CheckStatus, do
        <5>2. classifyError(provider, reply.code) \in Categories
          BY <1>0, <4>3, RefusalCounts
        <5>3. QED
          BY <3>1, <4>2, <5>1, <5>2
      <4>4. CASE reply.kind \in {"lost", "config", "cancelled", "garbled"}
        <5>1. \E c \in {"network_timeout", "gateway_error"} : CheckStatus(provider, reply) = failure(c)
          BY <4>4 DEF CheckStatus, do
        <5>2. {"network_timeout", "gateway_error"} \subseteq Categories
          BY DEF Categories
        <5>3. QED
          BY <3>1, <4>2, <5>1, <5>2
      <4>5. QED
        BY <4>1, <4>3, <4>4
    <3>4. CheckStatus(provider, reply).status = checkedStatus(provider, payment)
      BY <3>3 DEF CheckStatus, do, answer
    <3>5. QED
      BY <1>0, <3>1, <3>2, <3>4, AdaptersShow
  <2>3. QED
    BY <2>1, <2>2 DEF Webhook
<1>3. PICK pay \in took : \E s : Shows(s, pay) /\ tellWebhook(s)
  BY <1>2
<1>4. PICK s : Shows(s, pay) /\ tellWebhook(s)
  BY <1>3
<1>5. NothingInvented'
  <2> DEFINE status == mapWebhookStatus(normalizeStatus(s))
  <2>1. told' = [status |-> status, error |-> FALSE]
    BY <1>4 DEF tellWebhook
  <2>2. /\ status = "CAPTURED" => s = "SUCCEEDED"
        /\ status = "AUTHORIZED" => s = "AUTHORIZED"
        /\ status = "CANCELLED" => s = "CANCELLED"
        /\ status = "REFUNDED" => s = "REFUNDED"
        /\ status = "FAILED" => s = "FAILED"
    BY DEF mapWebhookStatus, normalizeStatus
  <2> HIDE DEF status
  <2>3. QED
    BY <1>1, <1>4, <2>1, <2>2, TellsTrue DEF Shows
<1>6. HType' /\ TookOK' /\ CountsTrouble' /\ ClosedCountsTrouble'
  BY <1>0, <1>1 DEF HType, TookOK, CountsTrouble, ClosedCountsTrouble
<1>7. QED
  BY <1>5, <1>6 DEF HInv

(* The scripts, run on whatever state the breaker is in.                    *)
LEMMA ScriptTypes ==
    ASSUME breaker \in Breaker, RecordFailure \/ RecordSuccess
    PROVE  breaker' \in Breaker
<1>1. breaker.fails \in Nat /\ breaker.cool \in Nat /\ breaker.state \in {"CLOSED", "OPEN", "HALF_OPEN"}
  BY DEF Breaker
<1>2. more(breaker.fails) \in Nat
  BY <1>1, MoreType
<1>3. CASE RecordSuccess
  BY <1>1, <1>3 DEF RecordSuccess, Breaker
<1>4. CASE RecordFailure
  <2> DEFINE n == more(breaker.fails)
  <2>1. cooldown(n) \in Nat
    BY DEF cooldown
  <2>2. breaker' \in {[state |-> "OPEN", cool |-> cooldown(n), fails |-> n], [breaker EXCEPT !.fails = n]}
    BY <1>4 DEF RecordFailure
  <2>3. [state |-> "OPEN", cool |-> cooldown(n), fails |-> n] \in Breaker
    BY <1>2, <2>1 DEF Breaker
  <2>4. [breaker EXCEPT !.fails = n] \in Breaker
    BY <1>2 DEF Breaker
  <2>5. QED
    BY <2>2, <2>3, <2>4
<1>5. QED
  BY <1>3, <1>4

(* A recorded result moves the breaker along its legal steps.                *)
LEMMA RecordKeeps ==
    ASSUME HInv, NEW c \in Callers, RecordBreaker(c) \/ RecordingFails(c)
    PROVE  HInv'
<1>0. /\ HType /\ TookOK /\ CountsTrouble /\ NothingInvented /\ ClosedCountsTrouble
      /\ breaker \in Breaker /\ streak \in Nat /\ caller \in [Callers -> CallOf] /\ Threshold \in Nat
  BY HealthConstants DEF HInv, HType
<1>1. /\ UNCHANGED <<lister, told>> /\ UNCHANGED <<provider, payment, took>>
      /\ caller' = [caller EXCEPT ![c] = NoCall]
  BY DEF RecordBreaker, RecordingFails, outside
<1>2. NothingInvented'
  BY <1>0, <1>1, ToldKept
<1>3. caller' \in [Callers -> CallOf] /\ CountsTrouble'
  <2>1. NoCall \in CallOf /\ NoCall.counts = NoCall.troubled
    BY DEF NoCall, CallOf
  <2>2. QED
    BY <1>0, <1>1, <2>1 DEF CountsTrouble
<1>4. breaker' \in Breaker /\ streak' \in Nat /\ ClosedCountsTrouble'
  <2>1. CASE RecordingFails(c)
    BY <1>0, <2>1 DEF RecordingFails, ClosedCountsTrouble
  <2>2. CASE RecordBreaker(c)
    <3>1. caller[c].counts = caller[c].troubled
      BY <1>0 DEF CountsTrouble
    <3>2. CASE caller[c].counts
      <4>1. RecordFailure /\ streak' = more(streak)
        BY <2>2, <3>1, <3>2 DEF RecordBreaker
      <4>2. breaker' \in Breaker /\ streak' \in Nat
        BY <1>0, <4>1, ScriptTypes, MoreType
      <4>3. ASSUME breaker'.state = "CLOSED"
            PROVE  breaker'.fails = streak' /\ streak' < Threshold
        <5> DEFINE n == more(breaker.fails)
        <5>1. breaker.fails \in Nat
          BY <1>0 DEF Breaker
        <5>2. n \in Nat
          BY <5>1, MoreType
        <5>3. breaker' = [breaker EXCEPT !.fails = n] /\ ~ (breaker.state = "CLOSED" /\ n >= Threshold)
          BY <4>1, <4>3 DEF RecordFailure
        <5> HIDE DEF n
        <5>4. breaker.state = "CLOSED" /\ breaker'.fails = n
          BY <1>0, <4>3, <5>3 DEF Breaker
        <5>5. breaker.fails = streak
          BY <1>0, <5>4 DEF ClosedCountsTrouble
        <5>6. streak' = n
          BY <4>1, <5>5 DEF n
        <5>7. QED
          BY <1>0, <5>2, <5>3, <5>4, <5>6
      <4>4. QED
        BY <4>2, <4>3 DEF ClosedCountsTrouble
    <3>3. CASE ~ caller[c].counts
      <4>1. RecordSuccess /\ streak' = 0
        BY <2>2, <3>1, <3>3 DEF RecordBreaker
      <4>2. breaker' \in Breaker
        BY <1>0, <4>1, ScriptTypes
      <4>3. breaker'.fails = 0 /\ 0 < Threshold
        BY <4>1, HealthConstants DEF RecordSuccess
      <4>4. QED
        BY <4>1, <4>2, <4>3 DEF ClosedCountsTrouble
    <3>4. QED
      BY <3>2, <3>3
  <2>3. QED
    BY <2>1, <2>2
<1>5. HType' /\ TookOK'
  BY <1>0, <1>1, <1>3, <1>4 DEF HType, TookOK
<1>6. QED
  BY <1>2, <1>3, <1>4, <1>5 DEF HInv

(* Listing and time never close the breaker and touch no count of a CLOSED  *)
(* one.                                                                     *)
LEMMA ListKeeps ==
    ASSUME HInv, Minute \/ \E l \in Listers : List(l) \/ HalfOpen(l)
    PROVE  HInv'
<1>0. /\ HType /\ TookOK /\ CountsTrouble /\ NothingInvented /\ ClosedCountsTrouble
      /\ breaker \in Breaker /\ lister \in [Listers -> Nat] /\ MaxFails \in Nat
  BY HealthConstants DEF HInv, HType
<1>1. UNCHANGED <<caller, told, streak>> /\ UNCHANGED <<provider, payment, took>>
  BY DEF Minute, List, HalfOpen, outside
<1>2. /\ breaker' \in Breaker /\ lister' \in [Listers -> Nat]
      /\ breaker'.state = "CLOSED" => breaker.state = "CLOSED" /\ breaker'.fails = breaker.fails
  <2>1. NoReading \in Nat /\ breaker.fails \in Nat /\ breaker.cool \in Nat
    BY <1>0 DEF NoReading, Breaker
  <2>2. CASE Minute
    <3>1. breaker.cool - 1 \in Nat /\ breaker' = [breaker EXCEPT !.cool = breaker.cool - 1] /\ lister' = lister
      BY <2>1, <2>2 DEF Minute
    <3>2. QED
      BY <1>0, <3>1 DEF Breaker
  <2>3. ASSUME NEW l \in Listers, List(l)
        PROVE  breaker' = breaker /\ lister' \in [Listers -> Nat]
    BY <1>0, <2>1, <2>3 DEF List
  <2>4. ASSUME NEW l \in Listers, HalfOpen(l)
        PROVE  /\ breaker' \in Breaker /\ lister' \in [Listers -> Nat]
               /\ breaker'.state = "CLOSED" => breaker' = breaker
    <3>1. lister' \in [Listers -> Nat] /\ lister[l] \in Nat
      BY <1>0, <2>1, <2>4 DEF HalfOpen
    <3>2. breaker' = breaker \/ breaker' = [state |-> "HALF_OPEN", cool |-> 0, fails |-> lister[l]]
      BY <2>4 DEF HalfOpen, Transition
    <3>3. QED
      BY <1>0, <3>1, <3>2 DEF Breaker
  <2>5. QED
    BY <1>0, <2>2, <2>3, <2>4
<1>3. NothingInvented'
  BY <1>0, <1>1, ToldKept
<1>4. ClosedCountsTrouble'
  BY <1>0, <1>1, <1>2 DEF ClosedCountsTrouble
<1>5. HType' /\ TookOK' /\ CountsTrouble'
  BY <1>0, <1>1, <1>2 DEF HType, TookOK, CountsTrouble
<1>6. QED
  BY <1>3, <1>4, <1>5 DEF HInv

-----------------------------------------------------------------------------
(* The theorems. *)

(* The invariant holds at first.                                             *)
LEMMA InitHInv ==
    ASSUME HInit
    PROVE  HInv
<1>1. MaxFails \in Nat /\ Threshold \in Nat \ {0}
  BY HealthConstants
<1>2. HType
  <2>1. breaker \in Breaker /\ NoCall \in CallOf /\ NoReading \in Nat
    BY <1>1 DEF HInit, Breaker, NoCall, CallOf, NoReading
  <2>2. QED
    BY <2>1 DEF HInit, HType, Payments
<1>3. TookOK /\ NothingInvented
  BY DEF HInit, TookOK, NothingInvented
<1>4. CountsTrouble
  BY Zenon DEF HInit, CountsTrouble, NoCall
<1>5. ClosedCountsTrouble
  BY <1>1 DEF HInit, ClosedCountsTrouble
<1>6. QED
  BY <1>2, <1>3, <1>4, <1>5 DEF HInv

(* Every step keeps it.                                                      *)
LEMMA NextHInv ==
    ASSUME HInv, [HNext]_healthVars
    PROVE  HInv'
<1>1. CASE UNCHANGED healthVars
  BY <1>1 DEF healthVars, HInv, HType, TookOK, CountsTrouble, NothingInvented, ClosedCountsTrouble
<1>2. CASE HNext
  BY <1>2, PaymentMovesKeeps, WebhookKeeps, CallKeeps, RecordKeeps, ListKeeps DEF HNext
<1>3. QED
  BY <1>1, <1>2

(* The invariant holds in every behaviour, for any threshold and any number *)
(* of callers and listers.                                                  *)
THEOREM HealthInvariant == HSpec => []HInv
<1>1. HInit => HInv
  BY InitHInv
<1>2. HInv /\ [HNext]_healthVars => HInv'
  BY NextHInv
<1>3. QED
  BY <1>1, <1>2, PTL DEF HSpec

(* The service is told only what has happened at the gateway, by every      *)
(* adapter, in answers and in webhooks however late.                        *)
THEOREM ToldWhatHappened == HSpec => []NothingInvented
<1>1. HInv => NothingInvented
  BY DEF HInv
<1>2. QED
  BY <1>1, HealthInvariant, PTL

(* A CLOSED breaker counts the gateway's troubles since the last other      *)
(* answer, and no decline.                                                  *)
THEOREM ClosedBreakerCounts == HSpec => []ClosedCountsTrouble
<1>1. HInv => ClosedCountsTrouble
  BY DEF HInv
<1>2. QED
  BY <1>1, HealthInvariant, PTL

(* The breaker moves along its circuit, whichever state the answers that    *)
(* are recorded were given in.                                              *)
THEOREM CircuitIsLegal == HSpec => LegalCircuit
<1> DEFINE A == \/ breaker'.state = breaker.state
                \/ <<breaker.state, breaker'.state>> \in
                     {<<"CLOSED", "OPEN">>, <<"OPEN", "HALF_OPEN">>,
                      <<"HALF_OPEN", "CLOSED">>, <<"HALF_OPEN", "OPEN">>}
<1>1. HInv /\ [HNext]_healthVars => [A]_breaker
  <2>1. SUFFICES ASSUME HInv, HNext
                 PROVE  A
    BY DEF healthVars
  <2>2. breaker \in Breaker /\ breaker.state \in {"CLOSED", "OPEN", "HALF_OPEN"}
    BY <2>1 DEF HInv, HType, Breaker
  <2>3. CASE breaker' = breaker
    BY <2>3
  <2>4. CASE RecordSuccess
    BY <2>2, <2>4 DEF RecordSuccess
  <2>5. CASE RecordFailure
    <3>1. \/ breaker'.state = "OPEN" /\ breaker.state \in {"CLOSED", "HALF_OPEN"}
          \/ breaker' = [breaker EXCEPT !.fails = more(breaker.fails)]
      BY <2>5 DEF RecordFailure
    <3>2. breaker' = [breaker EXCEPT !.fails = more(breaker.fails)] => breaker'.state = breaker.state
      BY <2>2 DEF Breaker
    <3>3. QED
      BY <3>1, <3>2
  <2>6. CASE Minute
    BY <2>2, <2>6 DEF Minute, Breaker
  <2>7. CASE \E l \in Listers : HalfOpen(l)
    BY <2>7 DEF HalfOpen, Transition
  <2>8. \/ breaker' = breaker \/ RecordSuccess \/ RecordFailure \/ Minute
        \/ \E l \in Listers : HalfOpen(l)
    BY <2>1 DEF HNext, PaymentMoves, Webhook, Call, RecordBreaker, RecordingFails, List
  <2>9. QED
    BY <2>3, <2>4, <2>5, <2>6, <2>7, <2>8
<1>2. QED
  BY <1>1, HealthInvariant, PTL DEF HSpec, LegalCircuit

-----------------------------------------------------------------------------
(* The delivery queues *)

Row == [status : {"none", "PENDING", "PUBLISHING", "DONE", "FAILED"}, attempts : Nat,
        lock : {"none", "fresh", "stale"}]

Claim == [id : Events, attempts : Nat]

WorkerState == [batch : SUBSET Claim, cur : Claim \cup {NoClaim}, route : {1, 2},
                result : {"none", "ok", "failed"}]

QType ==
    /\ queue \in Queues
    /\ row \in [Events -> Row]
    /\ handled \in [Events -> SUBSET (1..Routes)]
    /\ letter \in [Events -> {"none", "open", "resolved"}]
    /\ origin \in [Events -> Events]
    /\ proc \in [Workers -> WorkerState]
    /\ replaying \in [Operators -> Events \cup {0}]

(* A worker has taken its event along every route before the one it is at.  *)
WorkerOK(w) ==
    /\ proc[w].result # "none" => proc[w].cur # NoClaim
    /\ proc[w].cur # NoClaim =>
           /\ proc[w].route <= Routes
           /\ \A i \in {1, 2} : i < proc[w].route => i \in handled[proc[w].cur.id]
    /\ proc[w].result = "ok" => handled[proc[w].cur.id] = 1..Routes

LettersOK ==
    /\ kind = "outbox" => \A e \in Events : row[e].status = "FAILED" <=> letter[e] # "none"
    /\ \A o \in Operators : replaying[o] # 0 => letter[replaying[o]] # "none"

OriginsOK == \A e \in Events : e \in queue.written \/ row[e] = NoRow => origin[e] = e

QInv ==
    /\ QType
    /\ \A w \in Workers : WorkerOK(w)
    /\ DoneIsDelivered
    /\ LettersOK /\ OriginsOK
    /\ NothingLost

-----------------------------------------------------------------------------
(* Types. *)

(* Events are numbers, and no claim is the empty one.                        *)
LEMMA EventIds ==
    /\ Events \subseteq Nat \ {0}
    /\ \A c \in Claim : c # NoClaim
    /\ queue \in Queues =>
           queue.written \subseteq Events /\ queue.spare \subseteq Events /\ queue.written \cap queue.spare = {}
<1>1. Events \subseteq Nat \ {0}
  BY QueueConstants DEF Events
<1>2. \A c \in Claim : c # NoClaim
  BY <1>1 DEF Claim, NoClaim
<1>3. QED
  BY <1>1, <1>2, QueueConstants DEF Events

(* The types of the constants that rows and workers start from.              *)
LEMMA RowTypes ==
    /\ NoRow \in Row /\ NoRow.status = "none" /\ NoRow.lock = "none"
    /\ Fresh \in Row /\ Fresh.status = "PENDING" /\ Fresh # NoRow
    /\ Idle \in WorkerState /\ Idle.cur = NoClaim /\ Idle.result = "none" /\ Idle.route = 1
BY DEF NoRow, Fresh, Row, Idle, WorkerState, NoClaim

(* A row has one or two destinations.                                        *)
LEMMA RoutesType == Routes \in {1, 2}
BY DEF Routes

(* A worker that takes up a claim starts at its first destination.           *)
LEMMA TakesUp ==
    ASSUME NEW b \in SUBSET Claim, NEW c \in Claim
    PROVE  LET q == [Idle EXCEPT !.batch = b, !.cur = c]
           IN  q \in WorkerState /\ q.result = "none" /\ q.route = 1
BY Zenon DEF Idle, WorkerState

(* A worker that turns to a row of its batch, or ends, starts at the first  *)
(* route.                                                                   *)
LEMMA ProceedTypes ==
    ASSUME QType, NEW w \in Workers, NEW B \in SUBSET Claim, Proceed(w, B)
    PROVE  /\ proc' \in [Workers -> WorkerState]
           /\ proc'[w].result = "none" /\ proc'[w].route = 1
           /\ \A v \in Workers : v # w => proc'[v] = proc[v]
<1> DEFINE ready == {c \in B : c.id \notin noTemplate}
<1>1. PICK p \in WorkerState : proc' = [proc EXCEPT ![w] = p] /\ p.result = "none" /\ p.route = 1
  <2>1. CASE ready = {} /\ Become(w, Idle)
    BY Zenon, <2>1, RowTypes DEF Become
  <2>2. CASE \E c \in ready : Become(w, [Idle EXCEPT !.batch = ready \ {c}, !.cur = c])
    <3>1. PICK c \in ready : Become(w, [Idle EXCEPT !.batch = ready \ {c}, !.cur = c])
      BY Zenon, <2>2
    <3>2. c \in Claim /\ ready \ {c} \in SUBSET Claim
      OBVIOUS
    <3> DEFINE q == [Idle EXCEPT !.batch = ready \ {c}, !.cur = c]
    <3> HIDE DEF ready
    <3>3. q \in WorkerState /\ q.result = "none" /\ q.route = 1
      BY Zenon, <3>2, TakesUp
    <3>4. proc' = [proc EXCEPT ![w] = q]
      BY <3>1 DEF Become
    <3> HIDE DEF q
    <3>5. QED
      BY Zenon, <3>3, <3>4
  <2>3. QED
    BY Zenon, <2>1, <2>2 DEF Proceed
<1>2. QED
  BY <1>1 DEF QType

-----------------------------------------------------------------------------
(* What a step does. *)

(* What becomes of one event of the outbox.                                 *)
Stays(e) ==
    /\ row'[e] = NoRow <=> row[e] = NoRow
    /\ row'[e].status = row[e].status \/ {row[e].status, row'[e].status} \subseteq {"PENDING", "PUBLISHING"}
    /\ letter'[e] = letter[e] /\ origin'[e] = origin[e]

IsDone(e) ==
    /\ row[e].status = "PUBLISHING" /\ row'[e].status = "DONE"
    /\ letter'[e] = letter[e] /\ origin'[e] = origin[e]

IsGivenUp(e) ==
    /\ row[e].status = "PUBLISHING" /\ row'[e].status = "FAILED"
    /\ letter'[e] = "open" /\ origin'[e] = origin[e]

IsWritten(e) ==
    /\ row[e] = NoRow /\ row'[e] = Fresh
    /\ letter'[e] = letter[e]
    /\ e \in queue.written => origin'[e] = origin[e]

IsResolved(e) ==
    /\ row'[e].status = row[e].status /\ row[e] # NoRow /\ row'[e] # NoRow /\ origin'[e] = origin[e]
    /\ letter[e] # "none" /\ letter'[e] = "resolved"
    /\ \E n \in Events : row'[n] = Fresh /\ origin'[n] = origin[e]

Line(e) == Stays(e) \/ IsDone(e) \/ IsGivenUp(e) \/ IsWritten(e) \/ IsResolved(e)

Steps ==
    /\ QType' /\ queue' = queue
    /\ \A w \in Workers : WorkerOK(w)'
    /\ \A e \in Events : handled[e] \subseteq handled'[e]
    /\ \A e \in Events : row'[e].status = "DONE" => row[e].status = "DONE" \/ handled[e] = 1..Routes
    /\ kind = "outbox" => \A e \in Events : Line(e)
    /\ \A o \in Operators : replaying'[o] # 0 =>
           replaying'[o] = replaying[o] \/ letter[replaying'[o]] # "none"
    /\ \A e \in Events : letter[e] # "none" => letter'[e] # "none"
    /\ \A e \in Events : row'[e] = NoRow => row[e] = NoRow
    /\ \A e \in Events : origin'[e] = origin[e] \/ (e \notin queue.written /\ row'[e] # NoRow)

(* A worker that takes no step keeps what it relies on.                     *)
LEMMA OthersKeep ==
    ASSUME QType, QType', queue' = queue, \A e \in Events : handled[e] \subseteq handled'[e],
           NEW v \in Workers, WorkerOK(v), proc'[v] = proc[v]
    PROVE  WorkerOK(v)'
<1>1. Routes' = Routes
  BY DEF Routes, kind
<1>2. proc[v] \in WorkerState /\ (proc[v].cur # NoClaim => proc[v].cur.id \in Events)
  BY DEF QType, WorkerState, Claim
<1>3. \A e \in Events : handled'[e] \subseteq 1..Routes
  BY <1>1 DEF QType
<1>4. QED
  BY Zenon, <1>1, <1>2, <1>3 DEF WorkerOK

(* One that starts over relies on nothing.                                  *)
LEMMA StartsOver ==
    ASSUME NEW w \in Workers, proc'[w].result = "none", proc'[w].route = 1
    PROVE  WorkerOK(w)'
<1>1. Routes' \in {1, 2}
  BY DEF Routes
<1>2. QED
  BY <1>1 DEF WorkerOK

(* A step that writes no row.                                               *)
LEMMA RowsKept ==
    ASSUME QInv, UNCHANGED <<queue, row, letter, origin>>, QType',
           \A w \in Workers : WorkerOK(w)',
           \A e \in Events : handled[e] \subseteq handled'[e],
           \A o \in Operators : replaying'[o] # 0 =>
               replaying'[o] = replaying[o] \/ letter[replaying'[o]] # "none"
    PROVE  Steps
<1>1. \A e \in Events : Stays(e)
  BY DEF Stays
<1>2. QED
  BY <1>1 DEF Steps, Line

-----------------------------------------------------------------------------
(* Each action is such a step. *)

(* Idle workers and operators: the routes stay what they are.               *)
LEMMA TypeKept ==
    ASSUME QType, queue' = queue, row' \in [Events -> Row],
           handled' \in [Events -> SUBSET (1..Routes)],
           letter' \in [Events -> {"none", "open", "resolved"}], origin' \in [Events -> Events],
           proc' \in [Workers -> WorkerState], replaying' \in [Operators -> Events \cup {0}]
    PROVE  QType'
<1>1. Routes' = Routes
  BY DEF Routes, kind
<1>2. QED
  BY <1>1 DEF QType

(* A step that takes no worker's place leaves all of them as they are.      *)
LEMMA WorkersKept ==
    ASSUME QInv, QType', queue' = queue, proc' = proc, handled' = handled
    PROVE  /\ \A w \in Workers : WorkerOK(w)'
           /\ \A e \in Events : handled[e] \subseteq handled'[e]
<1>1. QType /\ \A w \in Workers : WorkerOK(w)
  BY DEF QInv
<1>2. \A e \in Events : handled[e] \subseteq handled'[e]
  OBVIOUS
<1>3. \A w \in Workers : WorkerOK(w)'
  BY <1>1, <1>2, OthersKeep
<1>4. QED
  BY <1>2, <1>3

(* A row is written: a fresh one takes an unused place.                      *)
LEMMA EnqueueSteps ==
    ASSUME QInv, NEW e \in Events, Enqueue(e)
    PROVE  Steps
<1>0. QType /\ row \in [Events -> Row]
  BY DEF QInv, QType
<1>1. /\ row[e] = NoRow /\ row' = [row EXCEPT ![e] = Fresh]
      /\ UNCHANGED <<queue, handled, letter, origin, proc, replaying>>
  BY DEF Enqueue
<1>2. \A d \in Events : row'[d] = IF d = e THEN Fresh ELSE row[d]
  BY <1>0, <1>1
<1>3. QType'
  BY <1>0, <1>1, RowTypes, TypeKept DEF QType
<1>4. (\A w \in Workers : WorkerOK(w)') /\ \A d \in Events : handled[d] \subseteq handled'[d]
  BY <1>1, <1>3, WorkersKept
<1>5. ASSUME NEW d \in Events
      PROVE  Stays(d) \/ IsWritten(d)
  BY <1>1, <1>2 DEF Stays, IsWritten
<1>6. QED
  BY <1>1, <1>2, <1>3, <1>4, <1>5, RowTypes DEF Steps, Line

(* A lock runs out: the row may be claimed again, and its holder works on.   *)
LEMMA ExpireSteps ==
    ASSUME QInv, NEW e \in Events, LockExpires(e)
    PROVE  Steps
<1>0. QType /\ row \in [Events -> Row] /\ row[e] \in Row
  BY DEF QInv, QType
<1> DEFINE x == [row[e] EXCEPT !.lock = "stale"]
<1>1. /\ row[e].lock = "fresh" /\ row' = [row EXCEPT ![e] = x]
      /\ UNCHANGED <<queue, handled, letter, origin, proc, replaying>>
  BY DEF LockExpires
<1>2. x \in Row /\ x.status = row[e].status /\ x.lock = "stale"
  BY <1>0 DEF Row
<1> HIDE DEF x
<1>3. \A d \in Events : row'[d] = IF d = e THEN x ELSE row[d]
  BY <1>0, <1>1
<1>4. row[e] # NoRow /\ x # NoRow
  BY <1>1, <1>2, RowTypes
<1>5. row' \in [Events -> Row]
  BY <1>0, <1>1, <1>2
<1>6. QType'
  BY <1>0, <1>1, <1>5, TypeKept DEF QType
<1>7. (\A w \in Workers : WorkerOK(w)') /\ \A d \in Events : handled[d] \subseteq handled'[d]
  BY <1>1, <1>6, WorkersKept
<1>8. ASSUME NEW d \in Events
      PROVE  Stays(d) /\ row'[d].status = row[d].status /\ (row'[d] = NoRow => row[d] = NoRow)
  BY <1>1, <1>2, <1>3, <1>4 DEF Stays
<1>9. QED
  BY <1>1, <1>6, <1>7, <1>8 DEF Steps, Line

(* An operator reads a letter before replaying it.                           *)
LEMMA ReadSteps ==
    ASSUME QInv, NEW o \in Operators, NEW e \in Events, ReadLetter(o, e)
    PROVE  Steps
<1>0. QType /\ replaying \in [Operators -> Events \cup {0}]
  BY DEF QInv, QType
<1>1. /\ letter[e] = "open" /\ replaying' = [replaying EXCEPT ![o] = e]
      /\ UNCHANGED <<queue, row, handled, letter, origin, proc>>
  BY DEF ReadLetter
<1>2. QType'
  BY <1>0, <1>1, TypeKept DEF QType
<1>3. (\A w \in Workers : WorkerOK(w)') /\ \A d \in Events : handled[d] \subseteq handled'[d]
  BY <1>1, <1>2, WorkersKept
<1>4. \A p \in Operators : replaying'[p] # 0 =>
          replaying'[p] = replaying[p] \/ letter[replaying'[p]] # "none"
  BY <1>0, <1>1
<1>5. QED
  BY <1>1, <1>2, <1>3, <1>4, RowsKept

(* A lost update or a crash: the row keeps its lock until it expires.        *)
LEMMA LostSteps ==
    ASSUME QInv, NEW w \in Workers, MarkLost(w) \/ Crash(w)
    PROVE  Steps
<1>0. QType /\ proc[w] \in WorkerState /\ \A v \in Workers : WorkerOK(v)
  BY DEF QInv, QType
<1>1. UNCHANGED <<queue, row, handled, letter, origin, replaying>>
  BY DEF MarkLost, Crash
<1>2. /\ proc' \in [Workers -> WorkerState]
      /\ proc'[w].result = "none" /\ proc'[w].route = 1
      /\ \A v \in Workers : v # w => proc'[v] = proc[v]
  <2>1. CASE MarkLost(w)
    <3>1. proc[w].batch \in SUBSET Claim /\ Proceed(w, proc[w].batch)
      BY <1>0, <2>1 DEF MarkLost, WorkerState
    <3>2. QED
      BY <1>0, <3>1, ProceedTypes
  <2>2. CASE Crash(w)
    BY <1>0, <2>2, RowTypes DEF Crash, Become, QType
  <2>3. QED
    BY <2>1, <2>2
<1>3. QType'
  BY <1>0, <1>1, <1>2, TypeKept DEF QType
<1>4. \A e \in Events : handled[e] \subseteq handled'[e]
  BY <1>1
<1>5. ASSUME NEW v \in Workers
      PROVE  WorkerOK(v)'
  BY <1>0, <1>1, <1>2, <1>3, <1>4, StartsOver, OthersKeep
<1>6. QED
  BY <1>1, <1>3, <1>4, <1>5, RowsKept

(* A poll claims rows that are PENDING, or PUBLISHING with an old lock.     *)
LEMMA PollSteps ==
    ASSUME QInv, NEW w \in Workers, Poll(w)
    PROVE  Steps
<1>0. /\ QType /\ row \in [Events -> Row] /\ (\A v \in Workers : WorkerOK(v))
      /\ \A e \in Events : row[e] \in Row
  BY DEF QInv, QType
<1> DEFINE x(e) == [row[e] EXCEPT !.lock = "fresh", !.status = IF kind = "outbox" THEN "PUBLISHING" ELSE @]
           B == {[id |-> e, attempts |-> row[e].attempts] : e \in Batch}
<1>1. /\ row' = [e \in Events |-> IF e \notin Batch THEN row[e] ELSE x(e)]
      /\ Proceed(w, B)
      /\ UNCHANGED <<queue, handled, letter, origin, replaying>>
  BY Zenon DEF Poll
<1>2. \A e \in Batch : e \in Events /\ row[e].status \in {"PENDING", "PUBLISHING"}
                       /\ (kind # "outbox" => row[e].status = "PENDING")
  BY DEF Batch, Claimable, PollPending, ListPending, ListPendingNotifications
<1>3. \A e \in Batch : /\ x(e) \in Row /\ x(e).lock = "fresh"
                       /\ x(e).status = IF kind = "outbox" THEN "PUBLISHING" ELSE row[e].status
  BY Zenon, <1>0, <1>2 DEF Row
<1>4. B \in SUBSET Claim
  <2>1. \A e \in Batch : row[e].attempts \in Nat /\ e \in Events
    BY <1>0, <1>2 DEF Row
  <2>2. QED
    BY <2>1 DEF Claim
<1> HIDE DEF x, B
<1>5. row' \in [Events -> Row]
  BY <1>0, <1>1, <1>3
<1>6. /\ proc' \in [Workers -> WorkerState]
      /\ proc'[w].result = "none" /\ proc'[w].route = 1
      /\ \A v \in Workers : v # w => proc'[v] = proc[v]
  BY <1>0, <1>1, <1>4, ProceedTypes
<1>7. QType'
  BY <1>0, <1>1, <1>5, <1>6, TypeKept DEF QType
<1>8. \A e \in Events : handled[e] \subseteq handled'[e]
  BY <1>1
<1>9. ASSUME NEW v \in Workers
      PROVE  WorkerOK(v)'
  BY Zenon, <1>0, <1>1, <1>6, <1>7, <1>8, StartsOver, OthersKeep
<1>10. ASSUME NEW e \in Events
       PROVE  /\ kind = "outbox" => Stays(e)
              /\ row'[e].status = "DONE" => row[e].status = "DONE"
              /\ row'[e] = NoRow => row[e] = NoRow
  <2>1. CASE e \in Batch
    <3>1. row'[e] = x(e) /\ row[e] # NoRow /\ row'[e] # NoRow
      BY <1>1, <1>2, <1>3, <2>1, RowTypes
    <3>2. QED
      BY <1>1, <1>2, <1>3, <2>1, <3>1 DEF Stays
  <2>2. CASE e \notin Batch
    BY <1>1, <2>2 DEF Stays
  <2>3. QED
    BY <2>1, <2>2
<1>11. QED
  BY <1>1, <1>7, <1>8, <1>9, <1>10 DEF Steps, Line

(* Along the routes: the one reached is added to what has been handled, and *)
(* the result is ok only after the last.                                    *)
LEMMA PublishSteps ==
    ASSUME QInv, NEW w \in Workers, Publish(w)
    PROVE  Steps
<1>0. /\ QType /\ proc[w] \in WorkerState /\ (\A v \in Workers : WorkerOK(v))
      /\ proc \in [Workers -> WorkerState] /\ handled \in [Events -> SUBSET (1..Routes)]
  BY DEF QInv, QType
<1> DEFINE p == proc[w]
           e == p.cur.id
<1>1. p.cur # NoClaim /\ p.result = "none" /\ UNCHANGED <<queue, row, letter, origin, replaying>>
  BY DEF Publish
<1>2. e \in Events /\ p.route \in {1, 2} /\ Routes \in {1, 2}
  BY <1>0, <1>1, RoutesType DEF WorkerState, Claim
<1>3. p.route <= Routes /\ \A i \in {1, 2} : i < p.route => i \in handled[e]
  BY <1>0, <1>1 DEF WorkerOK
<1>4. ASSUME NEW q \in WorkerState, proc' = [proc EXCEPT ![w] = q], q.cur = p.cur,
             handled' \in [Events -> SUBSET (1..Routes)],
             \A d \in Events : handled[d] \subseteq handled'[d],
             q.route <= Routes, \A i \in {1, 2} : i < q.route => i \in handled'[e],
             q.result = "ok" => handled'[e] = 1..Routes
      PROVE  Steps
  <2>1. proc' \in [Workers -> WorkerState] /\ proc'[w] = q /\ \A v \in Workers : v # w => proc'[v] = proc[v]
    BY <1>0, <1>4
  <2>2. QType'
    BY <1>0, <1>1, <1>4, <2>1, TypeKept DEF QType
  <2>3. Routes' = Routes
    BY <1>1 DEF Routes, kind
  <2>4. WorkerOK(w)'
    BY <1>1, <1>4, <2>1, <2>3 DEF WorkerOK
  <2>5. ASSUME NEW v \in Workers
        PROVE  WorkerOK(v)'
    BY <1>0, <1>1, <1>4, <2>1, <2>2, <2>4, OthersKeep
  <2>6. QED
    BY <1>1, <1>4, <2>2, <2>5, RowsKept
<1>5. CASE UNCHANGED handled /\ Become(w, [p EXCEPT !.result = "failed"])
  <2> DEFINE q == [p EXCEPT !.result = "failed"]
  <2>1. q \in WorkerState /\ q.cur = p.cur /\ q.route = p.route /\ q.result = "failed"
    BY <1>0 DEF WorkerState
  <2>2. proc' = [proc EXCEPT ![w] = q] /\ handled' = handled
    BY <1>5 DEF Become
  <2> HIDE DEF q
  <2>3. QED
    BY Zenon, <1>0, <1>3, <1>4, <2>1, <2>2
<1>6. CASE Reach(w) /\ Routed(w)
  <2>1. handled' = [handled EXCEPT ![e] = @ \cup {p.route}]
    BY <1>6 DEF Reach
  <2>2. p.route \in 1..Routes
    BY <1>2, <1>3
  <2>3. /\ handled' \in [Events -> SUBSET (1..Routes)] /\ handled'[e] = handled[e] \cup {p.route}
        /\ \A d \in Events : handled[d] \subseteq handled'[d]
    BY <1>0, <1>2, <2>1, <2>2
  <2>4. \A i \in {1, 2} : i <= p.route => i \in handled'[e]
    BY <1>2, <1>3, <2>3
  <2>5. CASE p.route = Routes
    <3> DEFINE q == [p EXCEPT !.result = "ok"]
    <3>1. q \in WorkerState /\ q.cur = p.cur /\ q.route = p.route /\ q.result = "ok"
      BY <1>0 DEF WorkerState
    <3>2. proc' = [proc EXCEPT ![w] = q]
      BY <1>6, <2>5 DEF Routed, Become
    <3> HIDE DEF q
    <3>3. handled'[e] = 1..Routes
      <4>1. handled'[e] \subseteq 1..Routes
        BY <1>2, <2>3
      <4>2. \A i \in 1..Routes : i \in {1, 2} /\ i <= p.route
        BY <1>2, <2>5
      <4>3. QED
        BY Zenon, <2>4, <4>1, <4>2
    <3>4. \A i \in {1, 2} : i < p.route => i <= p.route
      BY <1>2
    <3>5. QED
      BY Zenon, <1>3, <1>4, <2>3, <2>4, <3>1, <3>2, <3>3, <3>4
  <2>6. CASE p.route # Routes
    <3> DEFINE q == [p EXCEPT !.route = @ + 1]
    <3>1. p.route + 1 \in {1, 2} /\ p.route + 1 <= Routes /\ \A i \in {1, 2} : i < p.route + 1 => i <= p.route
      BY <1>2, <1>3, <2>6
    <3>2. q \in WorkerState /\ q.cur = p.cur /\ q.route = p.route + 1 /\ q.result = "none"
      BY <1>0, <1>1, <3>1 DEF WorkerState
    <3>3. proc' = [proc EXCEPT ![w] = q]
      BY <1>6, <2>6 DEF Routed, Become
    <3> HIDE DEF q
    <3>4. QED
      BY Zenon, <1>4, <2>3, <2>4, <3>1, <3>2, <3>3
  <2>7. QED
    BY <2>5, <2>6
<1>7. QED
  BY <1>5, <1>6 DEF Publish

(* A row that is marked.                                                    *)
LEMMA MarkedRows ==
    ASSUME QType, NEW r \in Row, NEW c \in Claim
    PROVE  /\ MarkDone(r) \in Row
           /\ MarkDone(r) # r => MarkDone(r).status = "DONE"
           /\ kind = "outbox" /\ MarkDone(r) # r => r.status = "PUBLISHING"
           /\ MarkFailed(r, c) \in Row
           /\ MarkFailed(r, c) # r => MarkFailed(r, c).status \in {"PENDING", "FAILED"}
           /\ kind = "outbox" /\ MarkFailed(r, c) # r =>
                  r.status = "PUBLISHING" /\ MarkFailed(r, c).status = "PENDING"
<1>0. kind \in {"outbox", "webhook", "notification"} /\ queue.maxAttempts \in Nat
  BY QueueConstants DEF QType, kind
<1>1. Done(r) \in Row /\ Done(r).status = "DONE"
  BY Zenon DEF Done, Row
<1>2. \A a \in Nat : \A g \in BOOLEAN : Again(a, g) \in Row /\ Again(a, g).status \in {"PENDING", "FAILED"}
  BY DEF Again, Row
<1>3. \A a \in Nat : Again(a, FALSE).status = "PENDING"
  BY DEF Again
<1>4. MarkDone(r) = Done(r) \/ (kind = "outbox" /\ r.status # "PUBLISHING" /\ MarkDone(r) = r)
  BY <1>0 DEF MarkDone, MarkPublished, MarkDelivered, MarkNotificationSent
<1>5. kind = "outbox" /\ r.status # "PUBLISHING" => MarkDone(r) = r
  BY DEF MarkDone, MarkPublished
<1>6. r.attempts + 1 \in Nat /\ c.attempts + 1 \in Nat
  BY DEF Row, Claim
<1>7. CASE kind = "outbox"
  <2>1. MarkFailed(r, c) = IF r.status = "PUBLISHING" THEN Again(r.attempts + 1, FALSE) ELSE r
    BY <1>7 DEF MarkFailed, MarkEventFailed
  <2>2. QED
    BY Zenon, <1>1, <1>2, <1>3, <1>4, <1>5, <1>6, <2>1
<1>8. CASE kind # "outbox"
  <2>1. PICK a \in Nat, g \in BOOLEAN : MarkFailed(r, c) = Again(a, g)
    <3>1. CASE kind = "webhook"
      <4> DEFINE g == c.attempts + 1 >= queue.maxAttempts
      <4>1. MarkFailed(r, c) = Again(c.attempts + 1, g)
        BY <3>1 DEF MarkFailed, MarkDeliveryFailed
      <4>2. g \in BOOLEAN
        OBVIOUS
      <4> HIDE DEF g
      <4>3. QED
        BY <1>6, <4>1, <4>2
    <3>2. CASE kind = "notification"
      <4> DEFINE g == r.attempts >= queue.maxAttempts
      <4>1. MarkFailed(r, c) = Again(r.attempts + 1, g)
        BY <3>2 DEF MarkFailed, MarkNotificationFailed
      <4>2. g \in BOOLEAN
        OBVIOUS
      <4> HIDE DEF g
      <4>3. QED
        BY <1>6, <4>1, <4>2
    <3>3. QED
      BY <1>0, <1>8, <3>1, <3>2
  <2>2. QED
    BY <1>1, <1>2, <1>4, <1>8, <2>1
<1>9. QED
  BY <1>7, <1>8

(* Marking: only a worker whose event has been along every route makes a    *)
(* row DONE, and an outbox row leaves PUBLISHING only with its letter.      *)
LEMMA MarkSteps ==
    ASSUME QInv, NEW w \in Workers, Mark(w)
    PROVE  Steps
<1>0. /\ QType /\ proc[w] \in WorkerState /\ (\A v \in Workers : WorkerOK(v))
      /\ row \in [Events -> Row] /\ letter \in [Events -> {"none", "open", "resolved"}]
  BY DEF QInv, QType
<1> DEFINE p == proc[w]
           e == p.cur.id
<1>1. /\ p.result # "none" /\ Proceed(w, p.batch)
      /\ UNCHANGED <<queue, handled, origin, replaying>>
  BY DEF Mark
<1>2. p.cur # NoClaim /\ p.cur \in Claim /\ e \in Events /\ p.batch \in SUBSET Claim
  <2>1. p.cur # NoClaim
    BY <1>0, <1>1 DEF WorkerOK
  <2>2. QED
    BY <1>0, <2>1 DEF WorkerState, Claim
<1>3. /\ proc' \in [Workers -> WorkerState]
      /\ proc'[w].result = "none" /\ proc'[w].route = 1
      /\ \A v \in Workers : v # w => proc'[v] = proc[v]
  BY <1>0, <1>1, <1>2, ProceedTypes
<1>4. \A d \in Events : handled[d] \subseteq handled'[d]
  BY <1>1
<1>5. ASSUME NEW x \in Row, row' = [row EXCEPT ![e] = x],
             NEW l \in {"none", "open", "resolved"}, letter' = [letter EXCEPT ![e] = l],
             letter[e] # "none" => l # "none",
             x = row[e] \/ x.status # "none",
             x.status = "DONE" => row[e].status = "DONE" \/ handled[e] = 1..Routes,
             kind = "outbox" =>
                 \/ x = row[e] /\ l = letter[e]
                 \/ row[e].status = "PUBLISHING" /\ x.status \in {"PENDING", "DONE"} /\ l = letter[e]
                 \/ row[e].status = "PUBLISHING" /\ x.status = "FAILED" /\ l = "open"
      PROVE  Steps
  <2>1. row' \in [Events -> Row] /\ letter' \in [Events -> {"none", "open", "resolved"}]
    BY Zenon, <1>0, <1>5
  <2>2. /\ row'[e] = x /\ letter'[e] = l
        /\ \A d \in Events : d # e => row'[d] = row[d] /\ letter'[d] = letter[d]
    BY <1>0, <1>2, <1>5
  <2>3. QType'
    BY <1>0, <1>1, <1>3, <2>1, TypeKept DEF QType
  <2>4. ASSUME NEW v \in Workers
        PROVE  WorkerOK(v)'
    BY <1>0, <1>1, <1>3, <1>4, <2>3, StartsOver, OthersKeep
  <2>5. x = NoRow => row[e] = NoRow
    BY <1>5, RowTypes
  <2>6. ASSUME NEW d \in Events, kind = "outbox"
        PROVE  Line(d)
    <3>1. CASE d # e
      BY <1>1, <2>2, <3>1 DEF Line, Stays
    <3>2. CASE d = e
      <4>1. CASE x = row[e] /\ l = letter[e]
        BY Zenon, <1>1, <2>2, <3>2, <4>1 DEF Line, Stays
      <4>2. CASE row[e].status = "PUBLISHING" /\ x.status \in {"PENDING", "DONE"} /\ l = letter[e]
        <5>1. row[e] # NoRow /\ x # NoRow
          BY <4>2, RowTypes
        <5>2. QED
          BY <1>1, <2>2, <3>2, <4>2, <5>1 DEF Line, Stays, IsDone
      <4>3. CASE row[e].status = "PUBLISHING" /\ x.status = "FAILED" /\ l = "open"
        BY Zenon, <1>1, <2>2, <3>2, <4>3 DEF Line, IsGivenUp
      <4>4. QED
        BY <1>5, <2>6, <4>1, <4>2, <4>3
    <3>3. QED
      BY <3>1, <3>2
  <2>7. \A d \in Events : row'[d].status = "DONE" => row[d].status = "DONE" \/ handled[d] = 1..Routes
    BY <1>5, <2>2
  <2>8. /\ \A d \in Events : letter[d] # "none" => letter'[d] # "none"
        /\ \A d \in Events : row'[d] = NoRow => row[d] = NoRow
    BY <1>5, <2>2, <2>5
  <2>9. QED
    BY <1>1, <1>4, <2>3, <2>4, <2>6, <2>7, <2>8 DEF Steps
<1>6. /\ row[e] \in Row /\ letter[e] \in {"none", "open", "resolved"}
      /\ row = [row EXCEPT ![e] = row[e]] /\ letter = [letter EXCEPT ![e] = letter[e]]
  BY <1>0, <1>2
<1>7. CASE p.result = "ok" /\ row' = [row EXCEPT ![e] = MarkDone(@)] /\ letter' = letter
  <2> DEFINE x == MarkDone(row[e])
  <2>1. x \in Row /\ (x # row[e] => x.status = "DONE") /\ (kind = "outbox" /\ x # row[e] => row[e].status = "PUBLISHING")
    BY <1>0, <1>2, <1>6, MarkedRows
  <2>2. handled[e] = 1..Routes /\ row' = [row EXCEPT ![e] = x]
    BY <1>0, <1>7 DEF WorkerOK
  <2> HIDE DEF x
  <2>3. QED
    BY Zenon, <1>5, <1>6, <1>7, <2>1, <2>2
<1>8. CASE p.result = "failed" /\ row' = [row EXCEPT ![e] = MarkFailed(@, p.cur)] /\ letter' = letter
  <2> DEFINE x == MarkFailed(row[e], p.cur)
  <2>1. /\ x \in Row /\ (x # row[e] => x.status \in {"PENDING", "FAILED"})
        /\ kind = "outbox" /\ x # row[e] => row[e].status = "PUBLISHING" /\ x.status = "PENDING"
    <3> HIDE DEF e
    <3>1. QType /\ row[e] \in Row /\ p.cur \in Claim
      BY <1>0, <1>2, <1>6
    <3> HIDE DEF p
    <3>2. x \in Row /\ (x # row[e] => x.status \in {"PENDING", "FAILED"})
      BY <3>1, MarkedRows
    <3>3. kind = "outbox" /\ x # row[e] => row[e].status = "PUBLISHING" /\ x.status = "PENDING"
      BY <3>1, MarkedRows
    <3>4. QED
      BY <3>2, <3>3
  <2>2. row' = [row EXCEPT ![e] = x]
    BY <1>8
  <2> HIDE DEF x
  <2>3. QED
    BY Zenon, <1>5, <1>6, <1>8, <2>1, <2>2
<1>9. CASE /\ MarkExhausted(row[e])
           /\ row' = [row EXCEPT ![e].status = "FAILED", ![e].lock = "none"]
           /\ letter' = [letter EXCEPT ![e] = "open"]
  <2> DEFINE x == [row[e] EXCEPT !.status = "FAILED", !.lock = "none"]
  <2>1. x \in Row /\ x.status = "FAILED" /\ row[e].status = "PUBLISHING"
    BY Zenon, <1>6, <1>9 DEF Row, MarkExhausted
  <2>2. row' = [row EXCEPT ![e] = x]
    BY Zenon, <1>0, <1>2, <1>9
  <2> HIDE DEF x
  <2>3. QED
    BY Zenon, <1>5, <1>9, <2>1, <2>2
<1>10. CASE row' = row /\ letter' = letter
  BY <1>5, <1>6, <1>10
<1>11. QED
  BY Zenon, <1>7, <1>8, <1>9, <1>10 DEF Mark

(* A replay resolves the letter and writes the row that continues its line, *)
(* in one transaction.                                                      *)
LEMMA ReplaySteps ==
    ASSUME QInv, NEW o \in Operators, ReplayDeadLetter(o)
    PROVE  Steps
<1>0. /\ QType /\ LettersOK
      /\ row \in [Events -> Row] /\ letter \in [Events -> {"none", "open", "resolved"}]
      /\ origin \in [Events -> Events] /\ replaying \in [Operators -> Events \cup {0}] /\ queue \in Queues
  BY DEF QInv, QType
<1> DEFINE e == replaying[o]
<1>1. /\ e # 0 /\ letter' = [letter EXCEPT ![e] = "resolved"]
      /\ replaying' = [replaying EXCEPT ![o] = 0]
      /\ UNCHANGED <<queue, handled, proc>>
  BY DEF ReplayDeadLetter
<1>2. PICK n \in queue.spare : /\ row[n] = NoRow /\ row' = [row EXCEPT ![n] = Fresh]
                               /\ origin' = [origin EXCEPT ![n] = origin[e]]
  BY Zenon DEF ReplayDeadLetter
<1>3. e \in Events /\ n \in Events /\ n \notin queue.written /\ letter[e] # "none"
  BY <1>0, <1>1, <1>2, EventIds DEF LettersOK
<1> HIDE DEF e
<1>4. /\ row' \in [Events -> Row] /\ letter' \in [Events -> {"none", "open", "resolved"}]
      /\ origin' \in [Events -> Events] /\ replaying' \in [Operators -> Events \cup {0}]
  BY <1>0, <1>1, <1>2, <1>3, RowTypes
<1>5. QType'
  BY <1>0, <1>1, <1>4, TypeKept DEF QType
<1>6. (\A w \in Workers : WorkerOK(w)') /\ \A d \in Events : handled[d] \subseteq handled'[d]
  BY <1>1, <1>5, WorkersKept
<1>7. /\ row'[n] = Fresh /\ origin'[n] = origin[e] /\ letter'[e] = "resolved"
      /\ \A d \in Events : d # n => row'[d] = row[d] /\ origin'[d] = origin[d]
      /\ \A d \in Events : d # e => letter'[d] = letter[d]
  BY <1>0, <1>1, <1>2, <1>3
<1>8. ASSUME NEW d \in Events, kind = "outbox"
      PROVE  Line(d)
  <2>1. row[e].status = "FAILED" /\ row[e] # NoRow /\ e # n
    BY <1>0, <1>2, <1>3, <1>8, RowTypes DEF LettersOK
  <2>2. CASE d = e
    <3>1. row'[e] = row[e] /\ origin'[e] = origin[e]
      BY Zenon, <1>3, <1>7, <2>1
    <3>2. IsResolved(e)
      BY <1>3, <1>7, <2>1, <3>1 DEF IsResolved
    <3>3. QED
      BY <2>2, <3>2 DEF Line
  <2>3. CASE d = n
    <3>1. IsWritten(n)
      BY <1>2, <1>3, <1>7, <2>1 DEF IsWritten
    <3>2. QED
      BY <2>3, <3>1 DEF Line
  <2>4. CASE d # e /\ d # n
    BY <1>7, <2>4 DEF Line, Stays
  <2>5. QED
    BY <2>2, <2>3, <2>4
<1>9. \A p \in Operators : replaying'[p] # 0 => replaying'[p] = replaying[p]
  BY <1>0, <1>1
<1>10. \A d \in Events :
          /\ row'[d].status = "DONE" => row[d].status = "DONE"
          /\ letter[d] # "none" => letter'[d] # "none"
          /\ row'[d] = NoRow => row[d] = NoRow
          /\ origin'[d] = origin[d] \/ (d \notin queue.written /\ row'[d] # NoRow)
  BY <1>2, <1>3, <1>7, RowTypes
<1>11. QED
  BY <1>1, <1>5, <1>6, <1>8, <1>9, <1>10 DEF Steps

(* So every step is one of these.                                            *)
LEMMA NextSteps ==
    ASSUME QInv, [QNext]_qvars
    PROVE  Steps
<1>1. CASE UNCHANGED qvars
  <2>1. UNCHANGED <<queue, row, handled, letter, origin, proc, replaying>> /\ QType
    BY <1>1 DEF qvars, QInv
  <2>2. QType'
    BY <2>1, TypeKept DEF QType
  <2>3. (\A w \in Workers : WorkerOK(w)') /\ \A d \in Events : handled[d] \subseteq handled'[d]
    BY <2>1, <2>2, WorkersKept
  <2>4. QED
    BY <2>1, <2>2, <2>3, RowsKept
<1>2. CASE QNext
  BY <1>2, EnqueueSteps, ExpireSteps, PollSteps, PublishSteps, MarkSteps, LostSteps, ReplaySteps, ReadSteps
     DEF QNext, Work
<1>3. QED
  BY <1>1, <1>2

-----------------------------------------------------------------------------
(* The inductive invariant and the theorems. *)

(* A row of the outbox is FAILED exactly when it has a letter.               *)
LEMMA LettersKept ==
    ASSUME QInv, Steps
    PROVE  LettersOK'
<1>0. LettersOK /\ kind' = kind
  BY DEF QInv, Steps, kind
<1>1. ASSUME NEW e \in Events, kind = "outbox"
      PROVE  row'[e].status = "FAILED" <=> letter'[e] # "none"
  <2>1. Line(e) /\ (row[e].status = "FAILED" <=> letter[e] # "none")
    BY <1>0, <1>1 DEF Steps, LettersOK
  <2>2. CASE Stays(e)
    BY <2>1, <2>2 DEF Stays
  <2>3. CASE IsDone(e) \/ IsGivenUp(e) \/ IsWritten(e) \/ IsResolved(e)
    BY <2>1, <2>3, RowTypes DEF IsDone, IsGivenUp, IsWritten, IsResolved
  <2>4. QED
    BY <2>1, <2>2, <2>3 DEF Line
<1>2. ASSUME NEW o \in Operators, replaying'[o] # 0
      PROVE  letter'[replaying'[o]] # "none"
  <2>1. replaying'[o] \in Events
    BY <1>2 DEF Steps, QType
  <2>2. letter[replaying'[o]] # "none"
    BY <1>0, <1>2 DEF Steps, LettersOK
  <2>3. QED
    BY <2>1, <2>2 DEF Steps
<1>3. QED
  BY <1>0, <1>1, <1>2 DEF LettersOK

(* The line of an event goes on: a row that is given up leaves its letter,  *)
(* and a letter that is resolved leaves the row of its replay.              *)
LEMMA LineGoesOn ==
    ASSUME QInv, Steps
    PROVE  NothingLost'
<1>0. QType /\ LettersOK /\ OriginsOK /\ NothingLost /\ queue' = queue /\ kind' = kind
      /\ queue.written \subseteq Events
  BY EventIds DEF QInv, QType, Steps, kind
<1>1. SUFFICES ASSUME kind = "outbox", NEW e \in queue.written, row'[e] # NoRow
               PROVE  \E d \in Events :
                         /\ origin'[d] = e
                         /\ \/ row'[d].status \in {"PENDING", "PUBLISHING", "DONE"}
                            \/ letter'[d] = "open"
  BY <1>0 DEF NothingLost
<1>2. \A d \in Events : Line(d) /\ (row[d].status = "FAILED" <=> letter[d] # "none")
  BY <1>0, <1>1 DEF Steps, LettersOK
<1>3. CASE row[e] = NoRow
  <2>1. e \in Events /\ origin[e] = e /\ origin'[e] = origin[e]
    BY <1>0, <1>1 DEF OriginsOK, Steps
  <2>2. row[e].status = "none"
    BY <1>3, RowTypes
  <2>3. row'[e].status = "PENDING"
    BY <1>1, <1>2, <1>3, <2>1, <2>2, RowTypes DEF Line, Stays, IsDone, IsGivenUp, IsWritten, IsResolved
  <2>4. QED
    BY <2>1, <2>3
<1>4. CASE row[e] # NoRow
  <2>1. PICK d \in Events : /\ origin[d] = e
                            /\ \/ row[d].status \in {"PENDING", "PUBLISHING", "DONE"}
                               \/ letter[d] = "open"
    BY <1>0, <1>1, <1>4 DEF NothingLost
  <2>2. row[d] # NoRow /\ Line(d)
    BY <1>2, <2>1, RowTypes
  <2>3. CASE Stays(d)
    BY <2>1, <2>3 DEF Stays
  <2>4. CASE IsDone(d) \/ IsGivenUp(d)
    BY <2>1, <2>4 DEF IsDone, IsGivenUp
  <2>5. CASE IsResolved(d)
    <3>1. PICK n \in Events : row'[n] = Fresh /\ origin'[n] = origin[d]
      BY <2>5 DEF IsResolved
    <3>2. QED
      BY <2>1, <3>1, RowTypes
  <2>6. QED
    BY Zenon, <2>2, <2>3, <2>4, <2>5 DEF Line, IsWritten
<1>5. QED
  BY <1>3, <1>4

(* Every step keeps the invariant.                                           *)
LEMMA NextQInv ==
    ASSUME QInv, [QNext]_qvars
    PROVE  QInv'
<1>1. Steps
  BY NextSteps
<1>2. QType' /\ (\A w \in Workers : WorkerOK(w)') /\ queue' = queue
  BY <1>1 DEF Steps
<1>3. LettersOK' /\ NothingLost'
  BY <1>1, LettersKept, LineGoesOn
<1>4. OriginsOK'
  <2>1. OriginsOK
    BY DEF QInv
  <2>2. QED
    BY <1>1, <2>1 DEF OriginsOK, Steps
<1>5. DoneIsDelivered'
  <2>1. DoneIsDelivered /\ Routes' = Routes
    BY <1>2 DEF QInv, Routes, kind
  <2>2. ASSUME NEW e \in Events, row'[e].status = "DONE"
        PROVE  handled'[e] = 1..Routes
    <3>1. handled[e] = 1..Routes
      BY <1>1, <2>1, <2>2 DEF Steps, DoneIsDelivered
    <3>2. handled[e] \subseteq handled'[e] /\ handled'[e] \subseteq 1..Routes
      BY <1>1, <1>2, <2>1 DEF Steps, QType
    <3>3. QED
      BY Zenon, <3>1, <3>2
  <2>3. QED
    BY <2>1, <2>2 DEF DoneIsDelivered
<1>6. QED
  BY <1>2, <1>3, <1>4, <1>5 DEF QInv

(* It holds at first.                                                        *)
LEMMA InitQInv ==
    ASSUME QInit
    PROVE  QInv
<1>1. QType
  BY RowTypes DEF QInit, QType
<1>2. \A w \in Workers : WorkerOK(w)
  BY RowTypes DEF QInit, WorkerOK
<1>3. DoneIsDelivered /\ LettersOK /\ OriginsOK
  BY RowTypes DEF QInit, DoneIsDelivered, LettersOK, OriginsOK
<1>4. NothingLost
  BY EventIds DEF QInit, NothingLost
<1>5. QED
  BY <1>1, <1>2, <1>3, <1>4 DEF QInv

(* The invariant holds in every behaviour of every queue.                   *)
THEOREM QueueInvariant == QSpec => []QInv
<1>1. QInit => QInv
  BY InitQInv
<1>2. QInv /\ [QNext]_qvars => QInv'
  BY NextQInv
<1>3. QED
  BY <1>1, <1>2, PTL DEF QSpec

(* A row is done only when every handler of its event has been reached,     *)
(* whatever crashes, stale claims and late marks there are.                 *)
THEOREM DoneRowsDelivered == QSpec => []DoneIsDelivered
<1>1. QInv => DoneIsDelivered
  BY DEF QInv
<1>2. QED
  BY <1>1, QueueInvariant, PTL

(* No event of the outbox is lost, for any number of workers, operators and *)
(* replays.                                                                 *)
THEOREM NoEventLost == QSpec => []NothingLost
<1>1. QInv => NothingLost
  BY DEF QInv
<1>2. QED
  BY <1>1, QueueInvariant, PTL

(* What the outbox has finished with stays finished: MarkPublished,         *)
(* MarkFailed and MarkExhausted touch only a row that is PUBLISHING.        *)
THEOREM FinishedStays == QSpec => OutboxFinal
<1> DEFINE A == kind = "outbox" =>
                  \A e \in Events :
                     /\ row[e].status \in {"DONE", "FAILED"} => row'[e].status = row[e].status
                     /\ (row'[e].status = "FAILED") <=> (letter'[e] # "none")
                     /\ letter[e] = "resolved" => letter'[e] = "resolved"
<1>1. QInv /\ QInv' /\ [QNext]_qvars => [A]_qvars
  <2>1. SUFFICES ASSUME QInv, QInv', [QNext]_qvars, kind = "outbox", NEW e \in Events
                 PROVE  /\ row[e].status \in {"DONE", "FAILED"} => row'[e].status = row[e].status
                        /\ (row'[e].status = "FAILED") <=> (letter'[e] # "none")
                        /\ letter[e] = "resolved" => letter'[e] = "resolved"
    OBVIOUS
  <2>2. Steps
    BY <2>1, NextSteps
  <2>3. Line(e) /\ (row[e].status = "FAILED" <=> letter[e] # "none") /\ kind' = kind
    BY <2>1, <2>2 DEF Steps, QInv, LettersOK, kind
  <2>4. row'[e].status = "FAILED" <=> letter'[e] # "none"
    BY <2>1, <2>3 DEF QInv, LettersOK
  <2>5. row[e].status \in {"DONE", "FAILED"} => row'[e].status = row[e].status
    BY <2>3, RowTypes DEF Line, Stays, IsDone, IsGivenUp, IsWritten, IsResolved
  <2>6. letter[e] = "resolved" => letter'[e] = "resolved"
    BY <2>3 DEF Line, Stays, IsDone, IsGivenUp, IsWritten, IsResolved
  <2>7. QED
    BY <2>4, <2>5, <2>6
<1>2. QED
  BY <1>1, QueueInvariant, PTL DEF QSpec, OutboxFinal

-----------------------------------------------------------------------------
(* The relay ring. A set of naturals that is not empty has a least one.      *)
LEMMA LeastNatural ==
    ASSUME NEW S \in SUBSET Nat, S # {}
    PROVE  \E x \in S : \A y \in S : x <= y
<1> DEFINE R == OpToRel(<, Nat)
<1>1. IsWellFoundedOn(R, Nat)
  BY Zenon, NatLessThanWellFounded
<1>2. R = {ss \in Nat \X Nat : ss[1] < ss[2]}
  BY Zenon DEF OpToRel
<1> HIDE DEF R
<1>3. PICK x \in S : \A y \in S : ~ (<<y, x>> \in R)
  BY Zenon, <1>1, WFMin
<1>4. ASSUME NEW y \in S, y < x
      PROVE  FALSE
  <2> DEFINE ss == <<y, x>>
  <2>1. ss \in Nat \X Nat /\ ss[1] < ss[2]
    BY <1>4
  <2> HIDE DEF ss
  <2>2. ss \in R
    BY <1>2, <2>1
  <2>3. QED
    BY <1>3, <2>2 DEF ss
<1>5. QED
  BY <1>4

(* Every worker is met at some distance.                                     *)
LEMMA ReachedAt ==
    ASSUME NEW r \in Rings, NEW h \in 0 .. Positions, NEW w \in Indexes
    PROVE  reached(r, h, w) \in Nat
<1> DEFINE S == {distance(h, p) : p \in {q \in 0 .. Positions - 1 : r[q] = w}}
<1>0. Positions \in Nat /\ DOMAIN r = 0 .. Positions - 1
  BY RingConstants DEF Rings
<1>1. \A p \in 0 .. Positions - 1 : distance(h, p) \in 0 .. Positions - 1
  BY <1>0 DEF distance
<1>2. PICK p \in 0 .. Positions - 1 : r[p] = w
  BY <1>0 DEF Rings
<1>3. distance(h, p) \in S
  BY Zenon, <1>2
<1>4. \A d \in S : d \in Nat
  <2>1. TAKE d \in S
  <2>2. PICK q \in 0 .. Positions - 1 : d = distance(h, q)
    BY Zenon
  <2>3. QED
    BY <1>0, <1>1, <2>2
<1> HIDE DEF S
<1>5. PICK d \in S : \A y \in S : d <= y
  BY <1>3, <1>4, LeastNatural
<1> USE DEF S
<1>6. /\ d \in 0 .. Positions - 1
      /\ \E q \in DOMAIN r : r[q] = w /\ distance(h, q) = d
      /\ \A q \in DOMAIN r : r[q] = w => distance(h, q) >= d
  BY <1>0, <1>1, <1>5
<1> HIDE DEF S
<1>7. reached(r, h, w) \in 0 .. Positions - 1
  BY <1>6, Zenon DEF reached
<1>8. QED
  BY <1>0, <1>7

(* Among some workers, the one met first.                                    *)
LEMMA MetFirst ==
    ASSUME NEW r \in Rings, NEW h \in 0 .. Positions, NEW W \in SUBSET Indexes, W # {}
    PROVE  \E w \in W : \A v \in W : ~(reached(r, h, v) < reached(r, h, w))
<1> DEFINE S == {reached(r, h, w) : w \in W}
<1>1. \A w \in W : reached(r, h, w) \in Nat
  BY ReachedAt
<1>2. S \in SUBSET Nat /\ S # {}
  BY <1>1
<1> HIDE DEF S
<1>3. PICK d \in S : \A y \in S : d <= y
  BY <1>2, LeastNatural
<1>4. PICK w \in W : d = reached(r, h, w)
  BY <1>3 DEF S
<1>5. \A v \in W : reached(r, h, v) \in S
  BY DEF S
<1>6. QED
  BY <1>1, <1>3, <1>4, <1>5

(* A worker that all but one other are met after is a replica.               *)
LEMMA IsReplica ==
    ASSUME NEW r \in Rings, NEW h \in 0 .. Positions, NEW n \in 2 .. MaxWorkers,
           NEW w \in 0 .. n - 1, NEW x,
           \A v \in 0 .. n - 1 : v # x => ~(reached(r, h, v) < reached(r, h, w))
    PROVE  w \in replicaSet(r, n, h)
<1> DEFINE B == {v \in 0 .. n - 1 : reached(r, h, v) < reached(r, h, w)}
<1>0. n \in Nat /\ ~(n <= 1)
  BY RingConstants
<1>1. B \subseteq {x}
  OBVIOUS
<1>2. Cardinality(B) <= 1 /\ Cardinality(B) \in Nat
  <2> HIDE DEF B
  <2>1. IsFiniteSet({x}) /\ Cardinality({x}) = 1
    BY FS_Singleton
  <2>2. IsFiniteSet(B) /\ Cardinality(B) <= Cardinality({x})
    BY <1>1, <2>1, FS_Subset
  <2>3. QED
    BY <2>1, <2>2, FS_CardinalityType
<1>3. Cardinality(B) < ReplicationFactor
  BY <1>2 DEF ReplicationFactor
<1>4. QED
  BY <1>0, <1>3 DEF replicaSet

(* Of some workers, the one met first has a shard, whether it counts them    *)
(* alone or one more.                                                        *)
LEMMA FirstOwns ==
    ASSUME NEW r \in Rings, NEW h \in 0 .. Positions, NEW n \in 1 .. MaxWorkers, NEW w \in 0 .. n - 1,
           \A v \in 0 .. n - 1 : ~(reached(r, h, v) < reached(r, h, w))
    PROVE  /\ h \in OwnedShards(r, w, n)
           /\ n < MaxWorkers => h \in OwnedShards(r, w, n + 1)
<1>0. MaxWorkers \in Nat /\ n \in Nat
  BY RingConstants
<1>1. w \in replicaSet(r, n, h)
  <2>1. CASE n = 1
    BY <1>0, <2>1 DEF replicaSet
  <2>2. CASE n # 1
    <3>1. n \in 2 .. MaxWorkers
      BY <1>0, <2>2
    <3>2. QED
      BY <3>1, IsReplica
  <2>3. QED
    BY <2>1, <2>2
<1>2. ASSUME n < MaxWorkers
      PROVE  w \in replicaSet(r, n + 1, h)
  <2>1. n + 1 \in 2 .. MaxWorkers /\ w \in 0 .. (n + 1) - 1
    BY <1>0, <1>2
  <2>2. \A v \in 0 .. (n + 1) - 1 : v # n => v \in 0 .. n - 1
    BY <1>0
  <2>3. QED
    BY <2>1, <2>2, IsReplica
<1>3. QED
  BY <1>1, <1>2 DEF OwnedShards

(* With two workers or more, a shard has two.                                *)
LEMMA TwoOwn ==
    ASSUME NEW r \in Rings, NEW h \in 0 .. Positions, NEW n \in 2 .. MaxWorkers
    PROVE  \E v, w \in 0 .. n - 1 : v # w /\ h \in OwnedShards(r, v, n) /\ h \in OwnedShards(r, w, n)
<1>0. MaxWorkers \in Nat /\ n \in Nat /\ 0 .. n - 1 \in SUBSET Indexes /\ 0 \in 0 .. n - 1 /\ 1 \in 0 .. n - 1
  BY RingConstants DEF Indexes
<1>1. PICK v \in 0 .. n - 1 : \A u \in 0 .. n - 1 : ~(reached(r, h, u) < reached(r, h, v))
  BY Zenon, <1>0, MetFirst
<1> DEFINE W == (0 .. n - 1) \ {v}
<1>2. W \in SUBSET Indexes /\ W # {}
  <2>1. W \subseteq Indexes /\ (0 \in W \/ 1 \in W)
    BY <1>0
  <2> HIDE DEF W
  <2>2. QED
    BY <2>1
<1>3. PICK w \in W : \A u \in W : ~(reached(r, h, u) < reached(r, h, w))
  <2> HIDE DEF W
  <2>1. QED
    BY <1>2, MetFirst
<1>4. w \in 0 .. n - 1 /\ v # w /\ \A u \in 0 .. n - 1 : u # v => ~(reached(r, h, u) < reached(r, h, w))
  BY <1>3
<1>5. v \in replicaSet(r, n, h)
  BY <1>1, IsReplica
<1>6. w \in replicaSet(r, n, h)
  BY <1>4, IsReplica
<1>7. QED
  BY <1>4, <1>5, <1>6 DEF OwnedShards

(* One more worker gives the others nothing.                                 *)
LEMMA NothingMoved ==
    ASSUME NEW r \in Rings, NEW n \in 1 .. MaxWorkers, NEW w \in 0 .. n - 1
    PROVE  OwnedShards(r, w, n + 1) \subseteq OwnedShards(r, w, n)
<1>0. n \in Nat /\ n >= 1 /\ ~(n + 1 <= 1)
  BY RingConstants
<1>1. SUFFICES ASSUME NEW h \in 0 .. Positions, w \in replicaSet(r, n + 1, h)
               PROVE  w \in replicaSet(r, n, h)
  BY DEF OwnedShards
<1>2. CASE n = 1
  BY <1>2 DEF replicaSet
<1>3. CASE n # 1
  <2> DEFINE B(m) == {v \in 0 .. m - 1 : reached(r, h, v) < reached(r, h, w)}
  <2>1. Cardinality(B(n + 1)) < ReplicationFactor
    BY <1>0, <1>1 DEF replicaSet
  <2>2. B(n) \in SUBSET B(n + 1) /\ B(n + 1) \in SUBSET (0 .. n)
    BY <1>0
  <2> HIDE DEF B
  <2>3. IsFiniteSet(B(n + 1))
    <3>1. IsFiniteSet(0 .. n)
      BY <1>0, FS_Interval
    <3>2. QED
      BY <2>2, <3>1, FS_Subset
  <2>4. IsFiniteSet(B(n)) /\ Cardinality(B(n)) <= Cardinality(B(n + 1))
    BY <2>2, <2>3, FS_Subset
  <2>5. Cardinality(B(n)) < ReplicationFactor
    BY <2>1, <2>3, <2>4, FS_CardinalityType DEF ReplicationFactor
  <2>6. QED
    BY <1>0, <1>3, <2>5 DEF replicaSet, B
<1>4. QED
  BY <1>2, <1>3

-----------------------------------------------------------------------------
(* A worker runs with the count before or the one after.                     *)
RingInv ==
    /\ ring \in Rings /\ deploy \in Deploys
    /\ count \in [Indexes -> {0, deploy.from, deploy.to}]

LEMMA RingInvariant == RingSpec => []RingInv
<1>1. RingInit => RingInv
  BY DEF RingInit, RingInv
<1>2. RingInv /\ [RingNext]_ringVars => RingInv'
  <2> SUFFICES ASSUME RingInv, [RingNext]_ringVars
               PROVE  RingInv'
    OBVIOUS
  <2>1. CASE UNCHANGED ringVars
    BY <2>1 DEF RingInv, ringVars
  <2>2. ASSUME NEW w \in Indexes, StartRelay(w)
        PROVE  RingInv'
    BY <2>2 DEF RingInv, StartRelay
  <2>3. ASSUME NEW w \in Indexes, StopRelay(w)
        PROVE  RingInv'
    BY <2>3 DEF RingInv, StopRelay
  <2>4. QED
    BY <2>1, <2>2, <2>3 DEF RingNext
<1>3. QED
  BY <1>1, <1>2, PTL DEF RingSpec

LEMMA DeployCounts ==
    ASSUME RingInv
    PROVE  /\ fewer \in 1 .. MaxWorkers /\ fewer + 1 \in 1 .. MaxWorkers
           /\ deploy.from \in 1 .. MaxWorkers /\ deploy.to \in 1 .. MaxWorkers
           /\ {deploy.from, deploy.to} = {fewer, fewer + 1}
BY RingConstants DEF RingInv, Deploys, fewer

(* A shard of a running worker is polled.                                    *)
LEMMA PolledBy ==
    ASSUME NEW w \in Indexes, count[w] # 0, NEW h \in OwnedShards(ring, w, count[w])
    PROVE  h \in Polled
BY DEF Polled

(* With workers of both counts running, or one of a single count down, every *)
(* shard is polled; and the larger count moves no shard between workers that *)
(* stay (ring.go:12-28, 43-89): for any number of workers, any ring, and any *)
(* order of starts, stops and deaths.                                        *)
THEOREM DeployServed == RingSpec => []RollingDeployServed
<1>1. RingInv => RollingDeployServed
  <2> SUFFICES ASSUME RingInv
               PROVE  RollingDeployServed
    OBVIOUS
  <2>0. /\ ring \in Rings /\ MaxWorkers \in Nat /\ Positions \in Nat
        /\ \A w \in Indexes : count[w] \in {0, fewer, fewer + 1}
        /\ fewer \in 1 .. MaxWorkers /\ fewer + 1 \in 1 .. MaxWorkers
    BY RingConstants, DeployCounts DEF RingInv
  <2>1. Polled \subseteq 0 .. Positions
    BY DEF Polled, OwnedShards
  <2>2. ASSUME \A w \in Indexes : w < fewer => count[w] # 0, NEW h \in 0 .. Positions
        PROVE  h \in Polled
    <3>1. 0 .. fewer - 1 \in SUBSET Indexes /\ 0 \in 0 .. fewer - 1
      BY <2>0 DEF Indexes
    <3>2. PICK w \in 0 .. fewer - 1 :
             \A v \in 0 .. fewer - 1 : ~(reached(ring, h, v) < reached(ring, h, w))
      BY Zenon, <2>0, <3>1, MetFirst
    <3>3. w \in Indexes /\ w < fewer /\ count[w] \in {fewer, fewer + 1}
      BY <2>0, <2>2, <3>1
    <3>4. h \in OwnedShards(ring, w, fewer) /\ h \in OwnedShards(ring, w, fewer + 1)
      BY <2>0, <3>2, FirstOwns
    <3>5. QED
      BY <2>2, <3>3, <3>4, PolledBy
  <2>3. ASSUME NEW n \in {deploy.from, deploy.to}, n > 1, NEW down \in Indexes,
               \A w \in Indexes : w < n /\ w # down => count[w] = n, NEW h \in 0 .. Positions
        PROVE  h \in Polled
    <3>1. n \in 2 .. MaxWorkers
      BY <2>0, <2>3, DeployCounts
    <3>2. PICK v, w \in 0 .. n - 1 :
             v # w /\ h \in OwnedShards(ring, v, n) /\ h \in OwnedShards(ring, w, n)
      BY <2>0, <3>1, TwoOwn
    <3>3. PICK u \in {v, w} : u # down /\ h \in OwnedShards(ring, u, n)
      BY <3>2
    <3>4. u \in Indexes /\ u < n /\ n # 0
      BY <2>0, <3>1 DEF Indexes
    <3>5. QED
      BY <2>3, <3>3, <3>4, PolledBy
  <2>4. ASSUME NEW w \in Indexes, w < fewer
        PROVE  OwnedShards(ring, w, fewer + 1) \subseteq OwnedShards(ring, w, fewer)
    <3>1. w \in 0 .. fewer - 1
      BY <2>0, <2>4 DEF Indexes
    <3>2. QED
      BY <2>0, <3>1, NothingMoved
  <2>5. QED
    BY Zenon, <2>1, <2>2, <2>3, <2>4 DEF RollingDeployServed
<1>2. QED
  BY <1>1, RingInvariant, PTL

=============================================================================
