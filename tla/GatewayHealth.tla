---------------------------- MODULE GatewayHealth ----------------------------
(***************************************************************************)
(* A gateway, the calls and webhooks through which the service learns of a *)
(* payment there, and the circuit breaker in Valkey that the calls feed    *)
(* and the list of active gateways reads.                                  *)
(*                                                                         *)
(* A call's answer is recorded some time after it came, by a script that   *)
(* runs on whatever state the breaker is in by then. Listing reads the     *)
(* breaker and moves it from OPEN to HALF_OPEN in a second step. Time      *)
(* is in minutes, the unit of the cooldown.                                *)
(***************************************************************************)
EXTENDS GatewayAdapters, FiniteSetsExt

CONSTANTS
    Callers,      \* payment workers
    Listers,      \* requests for the list of gateways
    Threshold,    \* consecutive failures that open the breaker
    MaxFails      \* bound: the count stops here; 3 and more give one cooldown

ASSUME HealthConstants ==
    Threshold \in Nat \ {0} /\ MaxFails \in Nat /\ MaxFails >= Threshold /\ MaxFails >= 3

VARIABLES
    provider,
    payment,      \* the payment at the gateway (external)
    took,         \* history: the states it has been in
    breaker,      \* the breaker's record: state, minutes of cooldown left, failures
    caller,       \* the calls
    lister,       \* the failures a lister read of an OPEN breaker to move
    told,         \* what the service was told last of the payment, and whether by an error
    streak        \* history: troubled answers recorded since the last other one

healthVars == <<provider, payment, took, breaker, caller, lister, told, streak>>

NoCall == [pc |-> "idle", counts |-> FALSE, troubled |-> FALSE]
NoReading == MaxFails + 1

HInit ==
    /\ provider \in Providers
    /\ payment = "open" /\ took = {"open"}
    /\ breaker = [state |-> "CLOSED", cool |-> 0, fails |-> 0]
    /\ caller = [c \in Callers |-> NoCall]
    /\ lister = [l \in Listers |-> NoReading]
    /\ told = [status |-> "OPEN", error |-> FALSE] /\ streak = 0

outside == UNCHANGED <<provider, payment, took>>

-----------------------------------------------------------------------------
(* The payment moves on at the gateway.                                      *)
PaymentMoves ==
    /\ \E s \in paymentSteps(provider) :
         payment = s[1] /\ payment' = s[2] /\ took' = took \cup {s[2]}
    /\ UNCHANGED <<provider, breaker, caller, lister, told, streak>>

(* An answer the documentation calls the gateway's trouble, not the payer's. *)
declines == {"card_error", "card_error_transient", "idempotency_error",
             "payment_failed", "insufficient_funds", "HTTP_409", "HTTP_422"}
troubled(reply) == \/ reply.kind \in {"lost", "config", "cancelled", "garbled"}
                   \/ reply.kind = "refused" /\ reply.code \notin declines

(* callGateway and checkStatus: the exchange, what it tells of the payment,  *)
(* and whether it counts against the gateway.                                *)
Call(c) ==
    /\ caller[c] = NoCall
    /\ \E reply \in Replies(provider, payment) :
       \E r \in {InitiatePayment(provider, reply), CheckStatus(provider, reply)} :
         /\ told' = [status |-> resolveOutcome(r), error |-> reply.kind \notin {"lost", "object"}]
         /\ caller' = [caller EXCEPT ![c] = [pc |-> "answered", counts |-> isGatewayHealthFailure(r.err),
                                             troubled |-> troubled(reply)]]
    /\ UNCHANGED <<breaker, lister, streak>> /\ outside

-----------------------------------------------------------------------------
(* cbRecordFailureLua: minutes of cooldown 1, 2, then 4.                     *)
cooldown(fails) == IF fails >= 3 THEN 4 ELSE IF fails = 2 THEN 2 ELSE 1

more(fails) == Min({fails + 1, MaxFails})

RecordFailureAlways ==
    LET fails == more(breaker.fails)
    IN breaker' = IF breaker.state # "CLOSED" \/ fails >= Threshold
                  THEN [state |-> "OPEN", cool |-> cooldown(fails), fails |-> fails]
                  ELSE [breaker EXCEPT !.fails = fails]

RecordFailure ==
    LET fails == more(breaker.fails)
    IN breaker' = IF breaker.state = "HALF_OPEN" \/ (breaker.state = "CLOSED" /\ fails >= Threshold)
                  THEN [state |-> "OPEN", cool |-> cooldown(fails), fails |-> fails]
                  ELSE [breaker EXCEPT !.fails = fails]

(* cbRecordSuccessLua: failures and cooldown are cleared in every state.     *)
RecordSuccessCloses == breaker' = [state |-> "CLOSED", cool |-> 0, fails |-> 0]

RecordSuccess ==
    breaker' = [state |-> IF breaker.state = "HALF_OPEN" THEN "CLOSED" ELSE breaker.state,
                cool |-> 0, fails |-> 0]

(* recordBreaker, when its script runs.                                      *)
RecordBreaker(c) ==
    /\ caller[c].pc = "answered"
    /\ \/ caller[c].counts /\ RecordFailure
       \/ ~caller[c].counts /\ RecordSuccess
    /\ streak' = IF caller[c].troubled THEN more(streak) ELSE 0
    /\ caller' = [caller EXCEPT ![c] = NoCall]
    /\ UNCHANGED <<lister, told>> /\ outside

(* Its failure is logged and forgotten.                                      *)
RecordingFails(c) ==
    /\ caller[c].pc = "answered"
    /\ caller' = [caller EXCEPT ![c] = NoCall]
    /\ UNCHANGED <<breaker, lister, told, streak>> /\ outside

(* A webhook, sent in some earlier state of the payment, perhaps not for the *)
(* first time. FIB's only make the handler ask; an error there ends it.      *)
tellWebhook(status) ==
    told' = [status |-> mapWebhookStatus(normalizeStatus(status)), error |-> FALSE]

Webhook ==
    /\ \/ /\ ~WebhookRequiresRefetch(provider)
          /\ \E sent \in took : tellWebhook(ParseWebhook(provider, sent))
       \/ /\ WebhookRequiresRefetch(provider)
          /\ \E reply \in Replies(provider, payment) :
               LET r == CheckStatus(provider, reply) IN r.err = "none" /\ tellWebhook(r.status)
    /\ UNCHANGED <<breaker, caller, lister, streak>> /\ outside

-----------------------------------------------------------------------------
(* ListActiveGateways, IsRoutable: read the breaker; an OPEN one whose       *)
(* cooldown is over is to be moved.                                          *)
ShouldTransitionToHalfOpen == breaker.state = "OPEN" /\ breaker.cool = 0

List(l) ==
    /\ lister[l] = NoReading
    /\ lister' = [lister EXCEPT ![l] =
                    IF ShouldTransitionToHalfOpen THEN breaker.fails ELSE NoReading]
    /\ UNCHANGED <<breaker, caller, told, streak>> /\ outside

(* Transition, cbTransitionLua: only from OPEN, with the failures read.      *)
Transition(fails) ==
    breaker' = IF breaker.state = "OPEN"
               THEN [state |-> "HALF_OPEN", cool |-> 0, fails |-> fails] ELSE breaker

HalfOpen(l) ==
    /\ lister[l] # NoReading
    /\ Transition(lister[l])
    /\ lister' = [lister EXCEPT ![l] = NoReading]
    /\ UNCHANGED <<caller, told, streak>> /\ outside

Minute ==
    /\ breaker.cool > 0
    /\ breaker' = [breaker EXCEPT !.cool = @ - 1]
    /\ UNCHANGED <<caller, lister, told, streak>> /\ outside

-----------------------------------------------------------------------------
HNext ==
    \/ PaymentMoves \/ Webhook \/ Minute
    \/ \E c \in Callers : Call(c) \/ RecordBreaker(c) \/ RecordingFails(c)
    \/ \E l \in Listers : List(l) \/ HalfOpen(l)

HSpec == HInit /\ [][HNext]_healthVars

(* Time passes, and clients keep asking for the gateways.                    *)
FairHSpec ==
    /\ HSpec
    /\ WF_healthVars(Minute)
    /\ \A l \in Listers : SF_healthVars(List(l)) /\ WF_healthVars(HalfOpen(l))

-----------------------------------------------------------------------------
(* Whatever the gateway and however late, doubled or reordered its answers   *)
(* and webhooks: the service is told of a collected, authorized, cancelled   *)
(* or refunded payment only if it has been so at the gateway, and that it    *)
(* failed only if an attempt was declined or the exchange ended in an error; *)
(* a lost exchange tells nothing (the adapters' mappings; resolveOutcome,    *)
(* gateway.go:278; handlers/webhook.go:219).                                 *)
NothingInvented ==
    /\ told.status = "CAPTURED" => "collected" \in took
    /\ told.status = "AUTHORIZED" => "authorized" \in took
    /\ told.status = "CANCELLED" => "cancelled" \in took
    /\ told.status = "REFUNDED" => "refunded" \in took
    /\ told.status = "FAILED" => "declined" \in took \/ told.error

(* A CLOSED breaker counts exactly the troubled answers recorded since the   *)
(* last other one, and stays below the threshold: a decline never counts     *)
(* against a gateway and always clears the count (isGatewayHealthFailure,    *)
(* gateway.go:228; scripts.go:82-119), whatever recordings and transitions   *)
(* of other processes came between.                                          *)
ClosedCountsTrouble ==
    breaker.state = "CLOSED" => breaker.fails = streak /\ streak < Threshold

(* The breaker moves only from CLOSED to OPEN, from OPEN to HALF_OPEN and    *)
(* from HALF_OPEN to either (cbTransitionLua, scripts.go:70-74), also when   *)
(* the answers of calls made in one state are recorded in another.           *)
LegalCircuit ==
    [][ \/ breaker'.state = breaker.state
        \/ <<breaker.state, breaker'.state>> \in
             {<<"CLOSED", "OPEN">>, <<"OPEN", "HALF_OPEN">>,
              <<"HALF_OPEN", "CLOSED">>, <<"HALF_OPEN", "OPEN">>} ]_breaker

(* An OPEN breaker does not stay OPEN as long as clients list the gateways,  *)
(* even if every call of the workers that still use the gateway fails: a     *)
(* failure recorded while OPEN does not prolong the cooldown                 *)
(* (scripts.go:92-98, api.go:155-174).                                       *)
OpenEnds == (breaker.state = "OPEN") ~> (breaker.state # "OPEN")
=============================================================================
