----------------------------- MODULE RefundFlow -----------------------------
(***************************************************************************)
(* The refunds of one captured transaction: InitiateRefund (an API request *)
(* or the cancel resolution), ProcessRefund driven by the outbox relay,    *)
(* RetryStaleRefund driven by the refund reaper, the gateway's refund call *)
(* and the gateway's own "refunded" webhook, which moves the parent too.   *)
(*                                                                         *)
(* The parent is loaded through the valkey cache, before the claim of the  *)
(* refund and before the gateway call, and written back with a version     *)
(* check in the transaction that records the result. A step is one         *)
(* statement or one database transaction.                                  *)
(***************************************************************************)
EXTENDS Integers, FiniteSets, FiniteSetsExt, TransactionState

CONSTANTS
    Workers,        \* API requests, relay workers, reapers and webhooks in flight
    Refunds,        \* refund ids (bound: refunds ever requested)
    NoRow,          \* a cache miss, or nothing loaded
    Amount,         \* the transaction's amount, in the smallest unit
    Starts,         \* the statuses the transaction may be found in
    MaxAttempts,    \* refund reaper: attempts before it gives up
    MaxDeliveries,  \* outbox: deliveries before the dead letter
    MaxFaults,      \* bound: lost answers and crashes
    KeyedRefunds,   \* the gateway treats a repeated refund id as a lookup
    RefundWebhooks  \* the gateway may report a full refund by webhook

ASSUME RefundConstants ==
    /\ Amount \in Nat \ {0}
    /\ Starts \subseteq {"CAPTURED", "SETTLED"}
    /\ MaxAttempts \in Nat \ {0}
    /\ MaxDeliveries \in Nat \ {0}
    /\ MaxFaults \in Nat
    /\ KeyedRefunds \in BOOLEAN
    /\ RefundWebhooks \in BOOLEAN
    /\ Workers # {} /\ IsFiniteSet(Refunds)

(* A transaction, as its row, the cache and the workers hold it.             *)
Transaction == [status : Status, version : Nat]

ASSUME NoRowAssumption == NoRow \notin Transaction

VARIABLES
    parent,     \* the transactions row: status and version
    cache,      \* valkey: the cached transaction
    refunds,    \* the refunds table
    evt,        \* the REFUND_INITIATED outbox event of each refund
    effects,    \* outbox events, notifications and tenant webhooks written
    old,        \* refunds whose updated_at is older than StaleAfter
    gw,         \* the gateway's record of each refund
    hook,       \* the gateway's "refunded" webhook
    proc,       \* what each worker is doing
    faults      \* lost answers and crashes so far

rvars == <<parent, cache, refunds, evt, effects, old, gw, hook, proc, faults>>

Outstanding == {"REFUND_INITIATED", "REFUND_PROCESSING"}
Active == Outstanding \cup {"REFUNDED"}

NoRefund == [status |-> "none", amount |-> 0, reason |-> "request", attempts |-> 0, version |-> 0]

Idle == [op |-> "idle", pc |-> "idle", id |-> NoRow, rf |-> NoRefund, snap |-> NoRow,
         answer |-> "none", todo |-> {}]

RInit ==
    /\ parent \in [status : Starts, version : {1}]
    /\ cache = NoRow
    /\ refunds = [r \in Refunds |-> NoRefund]
    /\ evt = [r \in Refunds |-> [status |-> "none", failures |-> 0]]
    /\ effects = {}
    /\ old = {}
    /\ gw = [r \in Refunds |-> [status |-> "none", times |-> 0]]
    /\ hook \in IF RefundWebhooks THEN {"off", "quiet"} ELSE {"off"}
    /\ proc = [w \in Workers |-> Idle]
    /\ faults = 0

At(w, ops, pc) == proc[w].op \in ops /\ proc[w].pc = pc
Become(w, p) == proc' = [proc EXCEPT ![w] = p]
Goto(w, pc) == proc' = [proc EXCEPT ![w].pc = pc]

-----------------------------------------------------------------------------
(* GetByID of the parent: the cached copy, else the row, which is put into  *)
(* the cache by a later command.                                            *)
GetByID(p) ==
    IF cache # NoRow THEN [p EXCEPT !.snap = cache, !.pc = "loaded"]
    ELSE [p EXCEPT !.snap = parent, !.pc = "fill"]

LoadParent(w) ==
    /\ proc[w].pc = "load"
    /\ Become(w, GetByID(proc[w]))
    /\ UNCHANGED <<parent, cache, refunds, evt, effects, old, gw, hook, faults>>

CacheFill(w) ==
    /\ proc[w].pc = "fill"
    /\ cache' = proc[w].snap
    /\ Goto(w, "loaded")
    /\ UNCHANGED <<parent, refunds, evt, effects, old, gw, hook, faults>>

(* The version check of TransactionRepository.UpdateStatus, and its effect. *)
ParentCurrentUnchecked(w) == TRUE

ParentCurrent(w) == proc[w].snap.version = parent.version

UpdateParent(to) ==
    /\ parent' = [status |-> to, version |-> parent.version + 1]
    /\ cache' = NoRow

-----------------------------------------------------------------------------
(* How a run of ProcessRefund or RetryStaleRefund ends. The relay marks the *)
(* event published, or failed until it becomes a dead letter; the reaper    *)
(* logs the error and goes on to its next refund.                           *)
Return(w, ok) ==
    CASE proc[w].op = "process" ->
            /\ evt' = [evt EXCEPT ![proc[w].id] =
                         IF @.status # "pending" THEN @
                         ELSE IF ok THEN [@ EXCEPT !.status = "published"]
                         ELSE [status   |-> IF @.failures + 1 >= MaxDeliveries THEN "dead" ELSE "pending",
                               failures |-> @.failures + 1]]
            /\ Become(w, Idle)
      [] proc[w].op = "retry" /\ proc[w].todo # {} ->
            /\ Become(w, [Idle EXCEPT !.op = "retry", !.pc = "next", !.todo = proc[w].todo])
            /\ UNCHANGED evt
      [] OTHER -> Become(w, Idle) /\ UNCHANGED evt

-----------------------------------------------------------------------------
(* InitiateRefund *)

isRefundableStatus(s) == s \in {"CAPTURED", "SETTLED", "PARTIALLY_REFUNDED", "REFUND_FAILED"}

SumActiveRefunds ==
    MapThenSumSet(LAMBDA r : refunds[r].amount, {r \in Refunds : refunds[r].status \in Active})

(* refund.New accepts the amount. *)
New(amount, alreadyRefunded) ==
    /\ amount > 0
    /\ alreadyRefunded <= Amount
    /\ alreadyRefunded + amount <= Amount

InitiateRequest(w, r, amount) ==
    /\ proc[w] = Idle
    /\ refunds[r].status = "none"
    /\ \A v \in Workers : proc[v].id # r
    /\ Become(w, GetByID([Idle EXCEPT !.op = "initiate", !.id = r, !.rf.amount = amount]))
    /\ UNCHANGED <<parent, cache, refunds, evt, effects, old, gw, hook, faults>>

(* ResolveCancelRefund, after a capture: none for this reason exists yet. *)
CancelRefunds ==
    {q \in Refunds : refunds[q].status # "none" /\ refunds[q].reason = "cancel_resolution"}

ResolveCancelRefund(w, r) ==
    /\ proc[w] = Idle
    /\ parent.status = "CAPTURED"
    /\ refunds[r].status = "none"
    /\ \A v \in Workers : proc[v].id # r
    /\ CancelRefunds = {}
    /\ Become(w, GetByID([Idle EXCEPT !.op = "resolve", !.id = r,
                                      !.rf.amount = Amount, !.rf.reason = "cancel_resolution"]))
    /\ UNCHANGED <<parent, cache, refunds, evt, effects, old, gw, hook, faults>>

(* insertRefund, under the row lock that the parent's update has taken. *)
insertRefund(r, amount, reason) ==
    /\ refunds' = [refunds EXCEPT ![r] =
                     [status |-> "REFUND_INITIATED", amount |-> amount, reason |-> reason,
                      attempts |-> 0, version |-> 1]]
    /\ evt' = [evt EXCEPT ![r].status = "pending"]

(* One transaction: REFUND_PENDING, version-checked, then the refund. The   *)
(* cancel resolution goes on to process the refund itself; its idempotency  *)
(* key makes a second one process the refund of the first.                  *)
InitiateRefund(w) ==
    LET r == proc[w].id
        refundable == isRefundableStatus(proc[w].snap.status)
        replayed == proc[w].op = "resolve" /\ CancelRefunds # {}
    IN  /\ At(w, {"initiate", "resolve"}, "loaded")
        /\ \/ /\ refundable /\ ~ replayed
              /\ ParentCurrent(w) /\ New(proc[w].rf.amount, SumActiveRefunds)
              /\ UpdateParent("REFUND_PENDING")
              /\ insertRefund(r, proc[w].rf.amount, proc[w].rf.reason)
              /\ IF proc[w].op = "resolve"
                 THEN Become(w, [Idle EXCEPT !.op = "direct", !.pc = "start", !.id = r])
                 ELSE Become(w, Idle)
           \/ /\ refundable /\ replayed
              /\ \E q \in CancelRefunds :
                    Become(w, [Idle EXCEPT !.op = "direct", !.pc = "start", !.id = q])
              /\ UNCHANGED <<parent, cache, refunds, evt>>
           \/ /\ refundable /\ ~ replayed
              /\ ~ (ParentCurrent(w) /\ New(proc[w].rf.amount, SumActiveRefunds))
              /\ cache' = NoRow
              /\ Become(w, Idle)
              /\ UNCHANGED <<parent, refunds, evt>>
           \/ /\ ~ refundable
              /\ Become(w, Idle)
              /\ UNCHANGED <<parent, cache, refunds, evt>>
        /\ UNCHANGED <<effects, old, gw, hook, faults>>

-----------------------------------------------------------------------------
(* ProcessRefund and RetryStaleRefund *)

Drivers == {"process", "direct", "retry"}

(* The refund is read: ProcessRefund goes on with a REFUND_INITIATED one,   *)
(* RetryStaleRefund with a REFUND_PROCESSING one.                           *)
StartsFrom(op) == IF op = "retry" THEN "REFUND_PROCESSING" ELSE "REFUND_INITIATED"

Drive(w, op, r, todo) ==
    /\ refunds[r].status = StartsFrom(op)
    /\ Become(w, [Idle EXCEPT !.op = op, !.pc = "load", !.id = r, !.rf = refunds[r], !.todo = todo])
    /\ UNCHANGED <<parent, cache, refunds, evt, effects, old, gw, hook, faults>>

(* The relay delivers REFUND_INITIATED, again after a failure or when the   *)
(* claim of another worker is presumed dead. A refund past that status is   *)
(* left untouched and the event is published.                               *)
Deliver(w, r) ==
    /\ proc[w] = Idle
    /\ evt[r].status = "pending"
    /\ \/ Drive(w, "process", r, {})
       \/ /\ refunds[r].status # StartsFrom("process")
          /\ evt' = [evt EXCEPT ![r].status = "published"]
          /\ UNCHANGED <<parent, cache, refunds, effects, old, gw, hook, proc, faults>>

(* ResolveCancelRefund goes on with ProcessRefund. *)
ProcessDirectly(w) ==
    /\ At(w, {"direct"}, "start")
    /\ \/ Drive(w, "direct", proc[w].id, {})
       \/ /\ refunds[proc[w].id].status # StartsFrom("direct")
          /\ Become(w, Idle)
          /\ UNCHANGED <<parent, cache, refunds, evt, effects, old, gw, hook, faults>>

(* ListStaleRefunds, once per run of the reaper. *)
ListStaleInitiated == {r \in old : refunds[r].status = "REFUND_INITIATED" /\ refunds[r].attempts < MaxAttempts}

ListStaleRefunds == {r \in old : refunds[r].status \in Outstanding /\ refunds[r].attempts < MaxAttempts}

ReaperRun(w) ==
    /\ proc[w] = Idle
    /\ ListStaleRefunds # {}
    /\ Become(w, [Idle EXCEPT !.op = "retry", !.pc = "next", !.todo = ListStaleRefunds])
    /\ UNCHANGED <<parent, cache, refunds, evt, effects, old, gw, hook, faults>>

(* A listed refund that is not REFUND_PROCESSING any more, or not yet, is   *)
(* passed over.                                                             *)
ReaperNext(w) ==
    /\ At(w, {"retry"}, "next")
    /\ \E r \in proc[w].todo :
          \/ Drive(w, "retry", r, proc[w].todo \ {r})
          \/ /\ refunds[r].status # StartsFrom("retry")
             /\ Become(w, IF proc[w].todo = {r} THEN Idle ELSE [proc[w] EXCEPT !.todo = @ \ {r}])
             /\ UNCHANGED <<parent, cache, refunds, evt, effects, old, gw, hook, faults>>

(* ClaimProcessing: one guarded UPDATE; the loser touches nothing. *)
Claimable(w) ==
    /\ refunds[proc[w].id].status \in Outstanding
    /\ refunds[proc[w].id].version = proc[w].rf.version

Touch(r) == old' = old \ {r}

ClaimProcessing(w) ==
    LET r == proc[w].id IN
    /\ At(w, Drivers, "loaded")
    /\ IF Claimable(w)
       THEN /\ refunds' = [refunds EXCEPT ![r].status = "REFUND_PROCESSING",
                                         ![r].version = @ + 1, ![r].attempts = @ + 1]
            /\ Touch(r)
            /\ Become(w, [proc[w] EXCEPT !.pc = "call", !.rf = refunds'[r]])
            /\ UNCHANGED evt
       ELSE Return(w, TRUE) /\ UNCHANGED <<refunds, old>>
    /\ UNCHANGED <<parent, cache, effects, gw, hook, faults>>

-----------------------------------------------------------------------------
(* The gateway *)

Moved == MapThenSumSet(LAMBDA r : gw[r].times * refunds[r].amount, Refunds)

(* What a request does at the gateway: a refund id it knows is looked up    *)
(* if refunds are keyed; otherwise the refund is made, left pending or      *)
(* refused, within what was captured.                                       *)
Known(r) == KeyedRefunds /\ gw[r].status # "none"

Request(r) ==
    IF Known(r) THEN {gw[r]}
    ELSE {[gw[r] EXCEPT !.status = "failed"]} \cup
         IF Moved + refunds[r].amount > Amount THEN {}
         ELSE {[gw[r] EXCEPT !.status = "pending"],
               [status |-> "succeeded", times |-> gw[r].times + 1]}

(* A decline is an error of a category that closes the refund, like a       *)
(* failed status.                                                           *)
answerOf == [pending |-> "processing", succeeded |-> "completed", failed |-> "failed"]

(* The call is answered, or the answer is lost or never obtained (timeout,  *)
(* 5xx). What leaves the result open is a fault.                            *)
GatewayRefund(w) ==
    LET r == proc[w].id IN
    /\ proc[w].pc = "call"
    /\ \/ \E g \in Request(r) :
             /\ gw' = [gw EXCEPT ![r] = g]
             /\ \E a \in {answerOf[g.status], "unknown"} :
                   /\ IF a \in {"processing", "unknown"}
                      THEN faults < MaxFaults /\ faults' = faults + 1
                      ELSE UNCHANGED faults
                   /\ Become(w, [proc[w] EXCEPT !.pc = "answered", !.answer = a])
       \/ /\ faults < MaxFaults
          /\ faults' = faults + 1
          /\ Become(w, [proc[w] EXCEPT !.pc = "answered", !.answer = "unknown"])
          /\ UNCHANGED gw
    /\ UNCHANGED <<parent, cache, refunds, evt, effects, old, hook>>

GatewaySettles(r) ==
    /\ gw[r].status = "pending"
    /\ \/ /\ Moved + refunds[r].amount <= Amount
          /\ gw' = [gw EXCEPT ![r] = [status |-> "succeeded", times |-> @.times + 1]]
       \/ gw' = [gw EXCEPT ![r].status = "failed"]
    /\ UNCHANGED <<parent, cache, refunds, evt, effects, old, hook, proc, faults>>

-----------------------------------------------------------------------------
(* The result of the call *)

resolveRefundOutcomeClosed(answer) ==
    CASE answer = "completed"             -> "REFUNDED"
      [] answer \in {"failed", "unknown"} -> "REFUND_FAILED"
      [] OTHER                            -> "none"

resolveRefundOutcome(answer) ==
    CASE answer = "completed" -> "REFUNDED"
      [] answer = "failed"    -> "REFUND_FAILED"
      [] OTHER                -> "none"

RefundOutcome(w) == resolveRefundOutcome(proc[w].answer)
RefundCurrent(w) == refunds[proc[w].id].version = proc[w].rf.version

(* The result is still open: only the refund's row is saved. *)
PersistInFlight(w) ==
    LET r == proc[w].id IN
    /\ proc[w].pc = "answered"
    /\ RefundOutcome(w) = "none"
    /\ IF RefundCurrent(w)
       THEN refunds' = [refunds EXCEPT ![r].version = @ + 1] /\ Touch(r) /\ Return(w, TRUE)
       ELSE UNCHANGED <<refunds, old>> /\ Return(w, FALSE)
    /\ UNCHANGED <<parent, cache, effects, gw, hook, faults>>

(* transitionParentOnRefundResult, after the refund's own row has its new   *)
(* status: what the parent becomes, starting from the copy loaded before    *)
(* the call.                                                                *)
transitionParentOnAnyRefund(r, outcome, from) ==
    IF outcome = "REFUNDED" THEN "REFUNDED" ELSE "REFUND_FAILED"

transitionParentOnRefundResult(r, outcome, from) ==
    LET active == SumActiveRefunds - IF outcome = "REFUNDED" THEN 0 ELSE refunds[r].amount
    IN  CASE outcome = "REFUNDED" /\ active >= Amount -> "REFUNDED"
          [] outcome = "REFUNDED" /\ active < Amount  -> "PARTIALLY_REFUNDED"
          [] outcome # "REFUNDED" /\ active > 0       -> from
          [] OTHER                                    -> "REFUND_FAILED"

ParentResult(w) ==
    transitionParentOnRefundResult(proc[w].id, RefundOutcome(w), proc[w].snap.status)

ParentAccepts(w) ==
    \/ RefundOutcome(w) # "REFUNDED" /\ ParentResult(w) = proc[w].snap.status
    \/ isValidTransition(proc[w].snap.status, ParentResult(w))

(* The event, notification and tenant webhook of a result.                  *)
announcement(r, status, version) == [id |-> r, status |-> status, version |-> version]

(* Refund, parent and announcements in one transaction.                     *)
FinalizeRefund(w) ==
    LET r == proc[w].id IN
    /\ proc[w].pc = "answered"
    /\ RefundOutcome(w) # "none"
    /\ RefundCurrent(w) /\ ParentAccepts(w) /\ ParentCurrent(w)
    /\ refunds' = [refunds EXCEPT ![r].status = RefundOutcome(w), ![r].version = @ + 1]
    /\ Touch(r)
    /\ UpdateParent(ParentResult(w))
    /\ effects' = effects \cup {announcement(r, RefundOutcome(w), refunds'[r].version)}
    /\ Return(w, TRUE)
    /\ UNCHANGED <<gw, hook, faults>>

(* One of its checks fails: everything is rolled back, but for the cached   *)
(* parent, deleted when its update was reached.                             *)
FinalizeRefusedAnnounced(w) ==
    /\ proc[w].pc = "answered"
    /\ RefundOutcome(w) # "none"
    /\ ~ (RefundCurrent(w) /\ ParentAccepts(w) /\ ParentCurrent(w))
    /\ cache' = NoRow
    /\ effects' = effects \cup {announcement(proc[w].id, RefundOutcome(w), proc[w].rf.version + 1)}
    /\ Return(w, FALSE)
    /\ UNCHANGED <<parent, refunds, old, gw, hook, faults>>

FinalizeRefused(w) ==
    /\ proc[w].pc = "answered"
    /\ RefundOutcome(w) # "none"
    /\ ~ (RefundCurrent(w) /\ ParentAccepts(w) /\ ParentCurrent(w))
    /\ cache' = IF RefundCurrent(w) /\ ParentAccepts(w) THEN NoRow ELSE cache
    /\ Return(w, FALSE)
    /\ UNCHANGED <<parent, refunds, effects, old, gw, hook, faults>>

-----------------------------------------------------------------------------
(* The gateway's webhook of a full refund: deduplicated, then applied to    *)
(* the parent if the table allows it.                                       *)
GatewayReportsRefund ==
    /\ hook = "quiet"
    /\ Moved = Amount
    /\ hook' = "sent"
    /\ UNCHANGED <<parent, cache, refunds, evt, effects, old, gw, proc, faults>>

WebhookArrives(w) ==
    /\ proc[w] = Idle
    /\ hook = "sent"
    /\ \A v \in Workers : proc[v].op # "webhook"
    /\ Become(w, GetByID([Idle EXCEPT !.op = "webhook"]))
    /\ UNCHANGED <<parent, cache, refunds, evt, effects, old, gw, hook, faults>>

WebhookRefunded(w) ==
    LET applies == isValidTransition(proc[w].snap.status, "REFUNDED") IN
    /\ At(w, {"webhook"}, "loaded")
    /\ \/ /\ applies /\ ParentCurrent(w)
          /\ UpdateParent("REFUNDED")
          /\ hook' = "recorded"
       \/ /\ applies /\ ~ ParentCurrent(w)
          /\ cache' = NoRow
          /\ UNCHANGED <<parent, hook>>
       \/ /\ ~ applies
          /\ hook' = "recorded"
          /\ UNCHANGED <<parent, cache>>
    /\ Become(w, Idle)
    /\ UNCHANGED <<refunds, evt, effects, old, gw, faults>>

-----------------------------------------------------------------------------
(* The environment *)

CacheExpires ==
    /\ cache # NoRow
    /\ cache' = NoRow
    /\ UNCHANGED <<parent, refunds, evt, effects, old, gw, hook, proc, faults>>

(* StaleAfter (5 minutes) passes since the last update: longer than the     *)
(* timeout of a gateway call and than the life of a cached transaction.     *)
Age(r) ==
    /\ refunds[r].status \in Outstanding
    /\ r \notin old
    /\ \A w \in Workers : proc[w].id = r => proc[w].pc \notin {"call", "answered"}
    /\ old' = old \cup {r}
    /\ cache' = NoRow
    /\ UNCHANGED <<parent, refunds, evt, effects, gw, hook, proc, faults>>

Crash(w) ==
    /\ proc[w] # Idle
    /\ faults < MaxFaults
    /\ faults' = faults + 1
    /\ Become(w, Idle)
    /\ UNCHANGED <<parent, cache, refunds, evt, effects, old, gw, hook>>

(* A statement fails: nothing is committed. *)
StatementFails(w) ==
    /\ proc[w].op \in Drivers
    /\ proc[w].pc \in {"load", "loaded", "answered"}
    /\ faults < MaxFaults
    /\ faults' = faults + 1
    /\ Return(w, FALSE)
    /\ UNCHANGED <<parent, cache, refunds, effects, old, gw, hook>>

-----------------------------------------------------------------------------
Proceed(w) ==
    \/ LoadParent(w) \/ CacheFill(w)
    \/ InitiateRefund(w) \/ ProcessDirectly(w) \/ ReaperNext(w) \/ ClaimProcessing(w)
    \/ GatewayRefund(w) \/ PersistInFlight(w) \/ FinalizeRefund(w) \/ FinalizeRefused(w)
    \/ WebhookRefunded(w)

RNext ==
    \/ \E w \in Workers :
          \/ Proceed(w) \/ ReaperRun(w) \/ WebhookArrives(w) \/ Crash(w) \/ StatementFails(w)
          \/ \E r \in Refunds :
                \/ \E amount \in 1..Amount : InitiateRequest(w, r, amount)
                \/ ResolveCancelRefund(w, r) \/ Deliver(w, r)
    \/ \E r \in Refunds : GatewaySettles(r) \/ Age(r)
    \/ GatewayReportsRefund \/ CacheExpires

RSpec == RInit /\ [][RNext]_rvars

(* A worker that has started goes on; relay and reaper run periodically, in *)
(* goroutines of their own, so requests cannot keep them from a worker; a   *)
(* pending refund settles at the gateway. No request, webhook or crash has  *)
(* to happen.                                                               *)
RFairness ==
    /\ \A w \in Workers : WF_rvars(Proceed(w))
    /\ \A r \in Refunds : /\ SF_rvars(\E w \in Workers : Deliver(w, r))
                          /\ WF_rvars(GatewaySettles(r))
                          /\ WF_rvars(Age(r))
    /\ SF_rvars(\E w \in Workers : ReaperRun(w))

FairRSpec == RSpec /\ RFairness

-----------------------------------------------------------------------------
(* Properties *)

(* The refunds that are not failed never add up to more than the payment,   *)
(* whatever copies of the parent their requests were checked against, and a *)
(* second refund is accepted only when no other one is outstanding.         *)
RefundsWithinAmount ==
    /\ SumActiveRefunds <= Amount
    /\ \A q, r \in Refunds :
           refunds[q].status \in Outstanding /\ refunds[r].status \in Outstanding => q = r

(* A refund is recorded REFUNDED only if the gateway moved its money, and   *)
(* REFUND_FAILED only if it did not: a lost answer is never guessed. This   *)
(* needs a gateway that looks a repeated refund id up (KeyedRefunds), which *)
(* Stripe's idempotency key makes of Stripe; the Razorpay and FIB adapters  *)
(* send no such key.                                                        *)
RefundTruth ==
    \A r \in Refunds :
        /\ refunds[r].status = "REFUNDED" => gw[r].times > 0
        /\ refunds[r].status = "REFUND_FAILED" => gw[r].times = 0

(* One result is announced for each closed refund, the one recorded, and    *)
(* none for an open one: retries and redeliveries announce nothing twice.   *)
AnnouncedWithResult ==
    \A r \in Refunds :
        {e \in effects : e.id = r} =
            IF refunds[r].status \in {"REFUNDED", "REFUND_FAILED"}
            THEN {[id |-> r, status |-> refunds[r].status, version |-> refunds[r].version]}
            ELSE {}

(* While a refund is outstanding its parent is REFUND_PENDING, unless the   *)
(* gateway's own webhook closed the parent first; a parent closed as        *)
(* REFUNDED has had all its money moved.                                    *)
ParentFollowsRefunds ==
    /\ (\E r \in Refunds : refunds[r].status \in Outstanding) =>
           parent.status = "REFUND_PENDING" \/ (hook = "recorded" /\ parent.status = "REFUNDED")
    /\ parent.status = "REFUNDED" => Moved >= Amount

(* Every refund is closed at last, through lost answers, crashes and        *)
(* redeliveries, as long as the webhook does not close the parent first.    *)
RefundResolves ==
    \A r \in Refunds :
        hook = "off" /\ refunds[r].status \in Outstanding ~> refunds[r].status \notin Outstanding
=============================================================================
