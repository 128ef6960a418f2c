----------------------------- MODULE PaymentFlow -----------------------------
(***************************************************************************)
(* The life of one payment transaction, from the commit of Create on: the  *)
(* initiate call (made by the API request and by the outbox relay), the    *)
(* manual Authorize, Capture and Settle calls, the lease-expiry reaper,    *)
(* the gateway webhooks, and the state they share: the transactions row    *)
(* with its version, the processing_lease row, the GATEWAY_INITIATE outbox *)
(* event, the valkey caches and the gateway's own records.                 *)
(*                                                                         *)
(* A step is one statement or one database transaction; everything between *)
(* two steps of a worker may interleave with every other worker.           *)
(***************************************************************************)
EXTENDS Naturals, FiniteSets, TransactionState

CONSTANTS
    Workers,            \* API requests, relay workers and reapers in flight
    Refs,               \* payments (references) the gateway may create
    NoRef,              \* the empty GatewayReferenceID
    NoRow,              \* a cache miss, or no transaction loaded
    Modes,              \* the capture modes to start from
    ApiCalls,           \* the API calls made on the transaction
    Decisions,          \* the statuses the gateway moves a payment to
    MaxCalls,           \* bound: API calls on the transaction
    MaxAttempts,        \* outbox MaxAttempts
    MaxFaults,          \* bound: process crashes and database errors
    IdempotentGateway,  \* Capabilities().IdempotencyCapable
    TtlOutlivesCalls    \* a lease is purged only when its holder's call is over

ASSUME ConstantsAssumption ==
    /\ Workers # {}
    /\ Refs # {}
    /\ NoRef \notin Refs
    /\ Modes \subseteq {"auto", "manual"}
    /\ ApiCalls \subseteq {"initiate", "authorize", "capture", "settle"}
    /\ MaxCalls \in Nat
    /\ MaxAttempts \in Nat \ {0}
    /\ MaxFaults \in Nat
    /\ IdempotentGateway \in BOOLEAN
    /\ TtlOutlivesCalls \in BOOLEAN

VARIABLES
    row,       \* the transactions row
    cache,     \* valkey: the cached transaction, TTL 5s
    refCache,  \* valkey: the references mapped to the transaction, TTL 1h
    lease,     \* a processing_lease row exists
    evt,       \* the GATEWAY_INITIATE outbox row
    outbox,    \* the status events written, by status and AggregateVersion
    gp,        \* the gateway's record of each payment
    hooks,     \* the webhook events the gateway sends (again, in any order)
    seen,      \* webhook_events: the deduplication records
    proc,      \* what each worker is doing
    calls,     \* API calls made
    faults     \* crashes and database errors so far

vars == <<row, cache, refCache, lease, evt, outbox, gp, hooks, seen, proc, calls, faults>>

Row == [status : Status, version : Nat, ref : Refs \cup {NoRef},
        started : BOOLEAN, intent : BOOLEAN, mode : {"auto", "manual"}]

ASSUME NoRowAssumption == NoRow \notin Row

ASSUME DecisionsAssumption ==
    Decisions \subseteq {"authorized", "succeeded", "failed", "cancelled", "refunded"}

GatewayStatus == {"none", "pending", "authorized", "succeeded", "failed", "cancelled", "refunded"}
Sent == {"authorized", "succeeded", "failed", "cancelled", "refunded"}
Hook == [ref : Refs, status : Sent]

(* What a call returned: a payment status, a network timeout or ambiguous   *)
(* error, any other gateway error; or how an operation ended.               *)
Unanswered == {"timeout", "error"}
Answers == GatewayStatus \cup Unanswered \cup {"ok"}

Ops == {"idle", "initiate", "deliver", "authorize", "capture", "settle", "recover", "webhook",
        "cancel", "resolve"}
Steps == {"idle", "load", "fill", "loaded", "lookup", "lease", "call", "sent", "answered", "mark",
          "captured", "resolving", "phantom", "commit"}
Proc == [op : Ops, pc : Steps, snap : Row \cup {NoRow}, resp : Answers,
         ref : Refs \cup {NoRef}, att : Nat]
Idle == [op |-> "idle", pc |-> "idle", snap |-> NoRow, resp |-> "none", ref |-> NoRef, att |-> 0]

TypeOK ==
    /\ row \in Row
    /\ cache \in Row \cup {NoRow}
    /\ refCache \subseteq Refs
    /\ lease \in BOOLEAN
    /\ evt \in [status : {"ABSENT", "PENDING", "PUBLISHING", "PUBLISHED", "FAILED"}, attempts : Nat]
    /\ outbox \subseteq [status : Announced, version : Nat]
    /\ gp \in [Refs -> GatewayStatus]
    /\ hooks \subseteq Hook
    /\ seen \subseteq Hook
    /\ proc \in [Workers -> Proc]
    /\ calls \in Nat
    /\ faults \in Nat

(* Create commits the PENDING row and, for automatic capture, the event. *)
Init ==
    /\ row \in [status : {"PENDING"}, version : {1}, ref : {NoRef},
                started : {FALSE}, intent : {FALSE}, mode : Modes]
    /\ cache = NoRow
    /\ refCache = {}
    /\ lease = FALSE
    /\ evt = [status |-> IF row.mode = "auto" THEN "PENDING" ELSE "ABSENT", attempts |-> 0]
    /\ outbox = {}
    /\ gp = [r \in Refs |-> "none"]
    /\ hooks = {}
    /\ seen = {}
    /\ proc = [w \in Workers |-> Idle]
    /\ calls = 0
    /\ faults = 0

-----------------------------------------------------------------------------
(* Workers *)

At(w, ops, pc) == proc[w].op \in ops /\ proc[w].pc = pc
Goto(w, pc) == proc' = [proc EXCEPT ![w] = [@ EXCEPT !.pc = pc]]
Start(w, op, pc) == proc' = [proc EXCEPT ![w] = [Idle EXCEPT !.op = op, !.pc = pc]]

(* The operation returns. The relay goes on to mark the event it delivered. *)
Return(w, result) ==
    proc' = [proc EXCEPT ![w] =
                IF @.op = "deliver"
                THEN [Idle EXCEPT !.op = "deliver", !.pc = "mark", !.resp = result,
                                !.att = proc[w].att]
                ELSE Idle]

(* Every reply of the gateway ends in pc "answered". *)
Answered(w, answer) == proc' = [proc EXCEPT ![w] = [@ EXCEPT !.pc = "answered", !.resp = answer]]

-----------------------------------------------------------------------------
(* The transaction repository and its caches *)

(* GetByID: the cached copy, else the committed row, put in the cache by a  *)
(* later step. A lagging read replica gives what a slow reader gives.       *)
CacheHit(w) ==
    /\ proc[w].pc = "load"
    /\ cache # NoRow
    /\ proc' = [proc EXCEPT ![w] = [@ EXCEPT !.pc = "loaded", !.snap = cache]]
    /\ UNCHANGED <<row, cache, refCache, lease, evt, outbox, gp, hooks, seen, calls, faults>>

CacheMiss(w) ==
    /\ proc[w].pc = "load"
    /\ cache = NoRow
    /\ proc' = [proc EXCEPT ![w] = [@ EXCEPT !.pc = "fill", !.snap = row]]
    /\ UNCHANGED <<row, cache, refCache, lease, evt, outbox, gp, hooks, seen, calls, faults>>

CacheFill(w) ==
    /\ proc[w].pc = "fill"
    /\ cache' = proc[w].snap
    /\ Goto(w, "loaded")
    /\ UNCHANGED <<row, refCache, lease, evt, outbox, gp, hooks, seen, calls, faults>>

(* The WHERE version = $n of UpdateStatus and UpdateGatewayReference. *)
CurrentUnchecked(w) == TRUE
Current(w) == proc[w].snap.version = row.version

(* UpdateStatus commits t: it never writes cancel_intent, and it deletes    *)
(* the cached copy.                                                         *)
UpdateStatusWholeRow(t) == row' = [t EXCEPT !.version = @ + 1] /\ cache' = NoRow

UpdateStatus(t) ==
    /\ row' = [t EXCEPT !.version = @ + 1, !.intent = row.intent]
    /\ cache' = NoRow

(* UpdateStatus finds another version: the transaction is rolled back, the  *)
(* cached copy is deleted all the same.                                     *)
VersionConflict == cache' = NoRow /\ UNCHANGED row

(* The status event written in the transaction that changes the status. *)
AnnounceOld(s, v) == IF s \in Announced THEN {[status |-> s, version |-> v - 1]} ELSE {}
Announce(s, v) == IF s \in Announced THEN {[status |-> s, version |-> v]} ELSE {}

-----------------------------------------------------------------------------
(* API calls, the relay and the reaper start their operations *)

(* syncInitiate runs for Create and its replays, on automatic capture only; *)
(* Authorize refuses every mode but manual.                                 *)
ClientCall(w, op) ==
    /\ proc[w] = Idle
    /\ calls < MaxCalls
    /\ op = "initiate" => row.mode = "auto"
    /\ op = "authorize" => row.mode = "manual"
    /\ calls' = calls + 1
    /\ Start(w, op, "load")
    /\ UNCHANGED <<row, cache, refCache, lease, evt, outbox, gp, hooks, seen, faults>>

(* PollPending: a pending event, or a claim whose owner is presumed dead. *)
RelayClaim(w) ==
    /\ proc[w] = Idle
    /\ evt.status \in {"PENDING", "PUBLISHING"}
    /\ evt' = [evt EXCEPT !.status = "PUBLISHING"]
    /\ proc' = [proc EXCEPT ![w] = [Idle EXCEPT !.op = "deliver", !.pc = "load", !.att = evt.attempts]]
    /\ UNCHANGED <<row, cache, refCache, lease, outbox, gp, hooks, seen, calls, faults>>

(* MarkPublished, once the publishers after the initiator succeeded too.    *)
(* Marks only change a row that is still PUBLISHING.                        *)
MarkPublished(w) ==
    /\ At(w, {"deliver"}, "mark")
    /\ proc[w].resp = "ok"
    /\ evt' = IF evt.status = "PUBLISHING" THEN [evt EXCEPT !.status = "PUBLISHED"] ELSE evt
    /\ proc' = [proc EXCEPT ![w] = Idle]
    /\ UNCHANGED <<row, cache, refCache, lease, outbox, gp, hooks, seen, calls, faults>>

(* The initiator failed, or a later publisher did: the event is retried, or *)
(* dead-lettered on the last attempt, counted from the claim.               *)
MarkFailed(w) ==
    /\ At(w, {"deliver"}, "mark")
    /\ proc[w].att + 1 < MaxAttempts
    /\ evt' = IF evt.status = "PUBLISHING"
              THEN [status |-> "PENDING", attempts |-> evt.attempts + 1] ELSE evt
    /\ proc' = [proc EXCEPT ![w] = Idle]
    /\ UNCHANGED <<row, cache, refCache, lease, outbox, gp, hooks, seen, calls, faults>>

MarkExhausted(w) ==
    /\ At(w, {"deliver"}, "mark")
    /\ proc[w].att + 1 >= MaxAttempts
    /\ evt' = IF evt.status = "PUBLISHING" THEN [evt EXCEPT !.status = "FAILED"] ELSE evt
    /\ proc' = [proc EXCEPT ![w] = Idle]
    /\ UNCHANGED <<row, cache, refCache, lease, outbox, gp, hooks, seen, calls, faults>>

(* ListExpiredLeaseIDs only returns PROCESSING rows with processing fields, *)
(* past their timeout: any moment may be past it.                           *)
ReaperList(w) ==
    /\ proc[w] = Idle
    /\ row.status = "PROCESSING" /\ row.started
    /\ Start(w, "recover", "load")
    /\ UNCHANGED <<row, cache, refCache, lease, evt, outbox, gp, hooks, seen, calls, faults>>

-----------------------------------------------------------------------------
(* ProcessGatewayInitiate *)

(* The caller may go on to the lease: an initiate when the transaction has  *)
(* no reference and is PENDING, Authorize and Capture once PROCESSING.      *)
Eligible(w) ==
    \/ proc[w].pc = "lease"
    \/ proc[w].snap.ref = NoRef /\ proc[w].snap.status = "PENDING"

AtLease(w) == At(w, {"authorize", "capture"}, "lease") \/ At(w, {"initiate", "deliver"}, "loaded")

(* TryAcquireDirect, for initiate, authorize and capture alike: the lease   *)
(* key is the transaction id. A caller that finds it held, or an initiate   *)
(* with nothing to do, returns no error.                                    *)
TryAcquireAlways(w) ==
    /\ AtLease(w)
    /\ IF Eligible(w)
       THEN lease' = TRUE /\ Goto(w, "call")
       ELSE Return(w, "ok") /\ UNCHANGED lease
    /\ UNCHANGED <<row, cache, refCache, evt, outbox, gp, hooks, seen, calls, faults>>

TryAcquireDirect(w) ==
    /\ AtLease(w)
    /\ IF Eligible(w) /\ ~ lease
       THEN lease' = TRUE /\ Goto(w, "call")
       ELSE Return(w, "ok") /\ UNCHANGED lease
    /\ UNCHANGED <<row, cache, refCache, evt, outbox, gp, hooks, seen, calls, faults>>

(* No adapter, fee model or exchange rate: an error, with the lease kept. *)
PrepareFails(w) ==
    /\ proc[w].pc = "call"
    /\ Return(w, "error")
    /\ UNCHANGED <<row, cache, refCache, lease, evt, outbox, gp, hooks, seen, calls, faults>>

(* The gateway call failed: no row is written, the lease is kept. *)
InitiateFails(w) ==
    /\ At(w, {"initiate", "deliver"}, "answered")
    /\ proc[w].resp \in Unanswered
    /\ Return(w, "error")
    /\ UNCHANGED <<row, cache, refCache, lease, evt, outbox, gp, hooks, seen, calls, faults>>

(* Store the reference and PROCESSING, in one transaction. The processing   *)
(* fields are not set on this path.                                         *)
InitiateCommit(w) ==
    /\ At(w, {"initiate", "deliver"}, "answered")
    /\ proc[w].resp \notin Unanswered
    /\ IF Current(w)
       THEN /\ UpdateStatus(Transitioned([proc[w].snap EXCEPT !.ref = proc[w].ref], "PROCESSING"))
            /\ refCache' = refCache \cup {proc[w].ref}
            /\ Return(w, "ok")
       ELSE /\ VersionConflict
            /\ UNCHANGED refCache
            /\ Return(w, "error")
    /\ UNCHANGED <<lease, evt, outbox, gp, hooks, seen, calls, faults>>

(* The same transaction fails after UpdateGatewayReference: rolled back,    *)
(* but the reference stays in the cache.                                    *)
InitiateAbort(w) ==
    /\ At(w, {"initiate", "deliver"}, "answered")
    /\ proc[w].resp \notin Unanswered
    /\ Current(w)
    /\ refCache' = refCache \cup {proc[w].ref}
    /\ cache' = NoRow
    /\ Return(w, "error")
    /\ UNCHANGED <<row, lease, evt, outbox, gp, hooks, seen, calls, faults>>

-----------------------------------------------------------------------------
(* Authorize, Capture, Settle and RecoverExpiredLease *)

MayBegin(w) ==
    /\ proc[w].op = "capture" => proc[w].snap.status = "AUTHORIZED"
    /\ CanTransition(proc[w].snap, "PROCESSING")

(* The first transaction of Authorize and Capture: PROCESSING, with the     *)
(* processing fields that let the reaper find it.                           *)
BeginProcessing(w) ==
    /\ At(w, {"authorize", "capture"}, "loaded")
    /\ MayBegin(w) /\ Current(w)
    /\ UpdateStatus([Transitioned(proc[w].snap, "PROCESSING") EXCEPT !.started = TRUE])
    /\ proc' = [proc EXCEPT ![w] = [@ EXCEPT !.pc = "lease",
                                        !.snap = [row' EXCEPT !.intent = proc[w].snap.intent]]]
    /\ UNCHANGED <<refCache, lease, evt, outbox, gp, hooks, seen, calls, faults>>

BeginRejected(w) ==
    /\ At(w, {"authorize", "capture"}, "loaded")
    /\ ~ (MayBegin(w) /\ Current(w))
    /\ cache' = IF MayBegin(w) THEN NoRow ELSE cache
    /\ Return(w, "error")
    /\ UNCHANGED <<row, refCache, lease, evt, outbox, gp, hooks, seen, calls, faults>>

(* The outcome of a reply: a new status, or "none" when it is not terminal. *)
resolveOutcomeNoAuthorized(answer) ==
    CASE answer = "succeeded"           -> "CAPTURED"
      [] answer \in {"failed", "error"} -> "FAILED"
      [] answer = "cancelled"           -> "CANCELLED"
      [] OTHER                          -> "none"

resolveOutcome(answer) ==
    CASE answer = "succeeded"           -> "CAPTURED"
      [] answer = "authorized"          -> "AUTHORIZED"
      [] answer \in {"failed", "error"} -> "FAILED"
      [] answer = "cancelled"           -> "CANCELLED"
      [] OTHER                          -> "none"

resolveAuthorizeOutcome(answer) ==
    CASE answer \in {"succeeded", "pending", "authorized"} -> "AUTHORIZED"
      [] answer \in {"failed", "error"}                    -> "FAILED"
      [] answer = "cancelled"                              -> "CANCELLED"
      [] OTHER                                             -> "none"

resolveCaptureOutcomeAccepted(answer) ==
    CASE answer \in {"succeeded", "pending", "authorized"} -> "CAPTURED"
      [] answer \in {"failed", "error"}                    -> "FAILED"
      [] answer = "cancelled"                              -> "CANCELLED"
      [] OTHER                                             -> "none"

resolveCaptureOutcome(answer) ==
    CASE answer = "succeeded"           -> "CAPTURED"
      [] answer \in {"failed", "error"} -> "FAILED"
      [] answer = "cancelled"           -> "CANCELLED"
      [] OTHER                          -> "none"

Outcome(w) ==
    CASE proc[w].op = "authorize" -> resolveAuthorizeOutcome(proc[w].resp)
      [] proc[w].op = "capture"   -> resolveCaptureOutcome(proc[w].resp)
      [] OTHER                    -> resolveOutcome(proc[w].resp)

(* A response carries the reference; an error leaves the loaded one. *)
WithReferenceOfErrors(w) == [proc[w].snap EXCEPT !.ref = proc[w].ref]

WithReference(w) ==
    [proc[w].snap EXCEPT !.ref = IF proc[w].resp \in Unanswered \/ proc[w].ref = NoRef
                                 THEN @ ELSE proc[w].ref]

Finalizing(w) == At(w, {"authorize", "capture", "recover"}, "answered")
MayFinalize(w) == CanTransition(proc[w].snap, Outcome(w)) /\ Current(w)

(* finalize: the new status and its event, in one transaction. A captured   *)
(* transaction that was loaded with a cancel intent is then refunded.       *)
Finalize(w) ==
    /\ Finalizing(w)
    /\ Outcome(w) # "none"
    /\ MayFinalize(w)
    /\ UpdateStatus(Transitioned(WithReference(w), Outcome(w)))
    /\ outbox' = outbox \cup Announce(Outcome(w), row.version + 1)
    /\ IF Outcome(w) = "CAPTURED" /\ proc[w].snap.intent
       THEN Goto(w, "captured")
       ELSE Return(w, "ok")
    /\ UNCHANGED <<refCache, lease, evt, gp, hooks, seen, calls, faults>>

FinalizeRejected(w) ==
    /\ Finalizing(w)
    /\ Outcome(w) # "none"
    /\ ~ MayFinalize(w)
    /\ VersionConflict
    /\ Return(w, "error")
    /\ UNCHANGED <<refCache, lease, evt, outbox, gp, hooks, seen, calls, faults>>

(* Not terminal: the row is left PROCESSING for the reaper. *)
LeaveProcessing(w) ==
    /\ Finalizing(w)
    /\ Outcome(w) = "none"
    /\ Return(w, "ok")
    /\ UNCHANGED <<row, cache, refCache, lease, evt, outbox, gp, hooks, seen, calls, faults>>

Settle(w) ==
    /\ At(w, {"settle"}, "loaded")
    /\ LET legal == CanTransition(proc[w].snap, "SETTLED")
       IN  IF legal /\ Current(w)
           THEN /\ UpdateStatus(Transitioned(proc[w].snap, "SETTLED"))
                /\ outbox' = outbox \cup Announce("SETTLED", row.version + 1)
           ELSE /\ cache' = IF legal THEN NoRow ELSE cache
                /\ UNCHANGED <<row, outbox>>
    /\ Return(w, "ok")
    /\ UNCHANGED <<refCache, lease, evt, gp, hooks, seen, calls, faults>>

(* RecoverExpiredLease looks again at what it loaded. *)
RecoverSkip(w) ==
    /\ At(w, {"recover"}, "loaded")
    /\ ~ (proc[w].snap.status = "PROCESSING" /\ proc[w].snap.started)
    /\ Return(w, "ok")
    /\ UNCHANGED <<row, cache, refCache, lease, evt, outbox, gp, hooks, seen, calls, faults>>

-----------------------------------------------------------------------------
(* The gateway and the calls to it *)

(* What CheckStatus may answer for a reference: the truth, a timeout or an  *)
(* error. Asked for the empty reference, it reads a list as PENDING, or     *)
(* answers 404.                                                             *)
StatusAnswers(r) == Unanswered \cup {IF r = NoRef THEN "pending" ELSE gp[r]}

CheckStatus(w) ==
    /\ At(w, {"recover"}, "loaded")
    /\ proc[w].snap.status = "PROCESSING" /\ proc[w].snap.started
    /\ \E answer \in StatusAnswers(proc[w].snap.ref) :
          proc' = [proc EXCEPT ![w] = [@ EXCEPT !.pc = "answered", !.resp = answer,
                                                !.ref = proc[w].snap.ref]]
    /\ UNCHANGED <<row, cache, refCache, lease, evt, outbox, gp, hooks, seen, calls, faults>>

(* The payment an InitiatePayment request creates; an idempotent gateway    *)
(* returns the one it already has for the GatewayIdempotencyKey.            *)
Created == {r \in Refs : gp[r] # "none"}
InitiateTargets == IF IdempotentGateway /\ Created # {} THEN Created ELSE Refs \ Created

InitiatePayment(w) ==
    /\ At(w, {"initiate", "deliver", "authorize"}, "call")
    /\ \E r \in InitiateTargets :
          /\ gp' = [gp EXCEPT ![r] = IF @ = "none" THEN "pending" ELSE @]
          /\ proc' = [proc EXCEPT ![w] = [@ EXCEPT !.pc = "sent", !.ref = r]]
    /\ UNCHANGED <<row, cache, refCache, lease, evt, outbox, hooks, seen, calls, faults>>

(* A gateway that implements capture captures what it has authorized. *)
CapturePayment(w) ==
    /\ At(w, {"capture"}, "call")
    /\ LET r == proc[w].snap.ref
       IN  /\ r # NoRef
           /\ IF gp[r] = "authorized"
              THEN /\ gp' = [gp EXCEPT ![r] = "succeeded"]
                   /\ hooks' = hooks \cup {[ref |-> r, status |-> "succeeded"]}
              ELSE UNCHANGED <<gp, hooks>>
           /\ proc' = [proc EXCEPT ![w] = [@ EXCEPT !.pc = "sent", !.ref = r]]
    /\ UNCHANGED <<row, cache, refCache, lease, evt, outbox, seen, calls, faults>>

(* The request never reached the gateway, or was refused (not_implemented). *)
RequestFails(w) ==
    /\ proc[w].pc = "call"
    /\ \E answer \in Unanswered : Answered(w, answer)
    /\ UNCHANGED <<row, cache, refCache, lease, evt, outbox, gp, hooks, seen, calls, faults>>

(* The reply arrives, or is lost or unreadable. *)
Reply(w) ==
    /\ proc[w].pc = "sent"
    /\ \E answer \in Unanswered \cup {gp[proc[w].ref]} : Answered(w, answer)
    /\ UNCHANGED <<row, cache, refCache, lease, evt, outbox, gp, hooks, seen, calls, faults>>

(* The payment moves on at the gateway, which sends a webhook. *)
gatewayMoves ==
    [none |-> {}, pending |-> {"authorized", "succeeded", "failed", "cancelled"},
     authorized |-> {"failed", "cancelled"}, succeeded |-> {"refunded"},
     failed |-> {}, cancelled |-> {}, refunded |-> {}]

GatewayDecide(r, s) ==
    /\ s \in gatewayMoves[gp[r]]
    /\ gp' = [gp EXCEPT ![r] = s]
    /\ hooks' = hooks \cup {[ref |-> r, status |-> s]}
    /\ UNCHANGED <<row, cache, refCache, lease, evt, outbox, seen, proc, calls, faults>>

-----------------------------------------------------------------------------
(* Webhooks: Process runs in one transaction, whose dedup record is visible *)
(* to others at its commit and makes a concurrent duplicate wait.           *)

TheHook(w) == [ref |-> proc[w].ref, status |-> proc[w].resp]

mapWebhookStatusFinished(s) ==
    CASE s \in {"succeeded", "failed"} -> "CAPTURED"
      [] s = "authorized"              -> "AUTHORIZED"
      [] s = "cancelled"               -> "CANCELLED"
      [] s = "refunded"                -> "REFUNDED"
      [] OTHER                         -> "none"

mapWebhookStatus(s) ==
    CASE s = "succeeded"  -> "CAPTURED"
      [] s = "authorized" -> "AUTHORIZED"
      [] s = "failed"     -> "FAILED"
      [] s = "cancelled"  -> "CANCELLED"
      [] s = "refunded"   -> "REFUNDED"
      [] OTHER            -> "none"

(* RecordEvent inserts the dedup record; a duplicate ends here. *)
RecordEvent(w, h) ==
    /\ proc[w] = Idle
    /\ h \in hooks \ seen
    /\ \A v \in Workers : proc[v].op = "webhook" => TheHook(v) # h
    /\ proc' = [proc EXCEPT ![w] = [Idle EXCEPT !.op = "webhook", !.pc = "lookup",
                                                !.ref = h.ref, !.resp = h.status]]
    /\ UNCHANGED <<row, cache, refCache, lease, evt, outbox, gp, hooks, seen, calls, faults>>

(* GetByGatewayReference: through the cached mapping and GetByID, else by   *)
(* the stored reference. An unknown reference commits the dedup record.     *)
GetByGatewayReference(w) ==
    /\ At(w, {"webhook"}, "lookup")
    /\ \/ /\ proc[w].ref \in refCache
          /\ Goto(w, "load")
          /\ UNCHANGED seen
       \/ /\ proc[w].ref \notin refCache
          /\ row.ref = proc[w].ref
          /\ proc' = [proc EXCEPT ![w] = [@ EXCEPT !.pc = "loaded", !.snap = row]]
          /\ UNCHANGED seen
       \/ /\ proc[w].ref \notin refCache
          /\ row.ref # proc[w].ref
          /\ seen' = seen \cup {TheHook(w)}
          /\ Return(w, "ok")
    /\ UNCHANGED <<row, cache, refCache, lease, evt, outbox, gp, hooks, calls, faults>>

HookStatus(w) == mapWebhookStatus(proc[w].resp)
HookApplies(w) ==
    /\ HookStatus(w) # proc[w].snap.status
    /\ CanTransition(proc[w].snap, HookStatus(w))

(* The status is the one it has, or cannot be reached from it: the dedup    *)
(* record is committed and the event is dropped.                            *)
WebhookDrop(w) ==
    /\ At(w, {"webhook"}, "loaded")
    /\ ~ HookApplies(w)
    /\ seen' = seen \cup {TheHook(w)}
    /\ Return(w, "ok")
    /\ UNCHANGED <<row, cache, refCache, lease, evt, outbox, gp, hooks, calls, faults>>

(* The status, its event and the dedup record commit together. The capture  *)
(* of a transaction with a cancel intent is in CancelResolution.            *)
WebhookApply(w) ==
    /\ At(w, {"webhook"}, "loaded")
    /\ HookApplies(w)
    /\ ~ (HookStatus(w) = "CAPTURED" /\ proc[w].snap.intent)
    /\ IF Current(w)
       THEN /\ UpdateStatus(Transitioned(proc[w].snap, HookStatus(w)))
            /\ outbox' = outbox \cup Announce(HookStatus(w), row.version + 1)
            /\ seen' = seen \cup {TheHook(w)}
       ELSE VersionConflict /\ UNCHANGED <<outbox, seen>>
    /\ Return(w, "ok")
    /\ UNCHANGED <<refCache, lease, evt, gp, hooks, calls, faults>>

-----------------------------------------------------------------------------
(* The environment *)

CacheExpires ==
    /\ cache # NoRow
    /\ cache' = NoRow
    /\ UNCHANGED <<row, refCache, lease, evt, outbox, gp, hooks, seen, proc, calls, faults>>

RefCacheExpires(r) ==
    /\ r \in refCache
    /\ refCache' = refCache \ {r}
    /\ UNCHANGED <<row, cache, lease, evt, outbox, gp, hooks, seen, proc, calls, faults>>

(* Between the acquisition of the lease and the reply of the gateway. *)
Calling == {w \in Workers : proc[w].pc \in {"call", "sent"}}

(* DeleteExpired goes by the age of the lease alone. *)
DeleteExpired ==
    /\ lease
    /\ TtlOutlivesCalls => Calling = {}
    /\ lease' = FALSE
    /\ UNCHANGED <<row, cache, refCache, evt, outbox, gp, hooks, seen, proc, calls, faults>>

(* The process dies, or a request is cancelled: what it had not committed   *)
(* is lost.                                                                 *)
Crash(w) ==
    /\ proc[w] # Idle
    /\ faults < MaxFaults
    /\ faults' = faults + 1
    /\ proc' = [proc EXCEPT ![w] = Idle]
    /\ UNCHANGED <<row, cache, refCache, lease, evt, outbox, gp, hooks, seen, calls>>

(* A statement or a commit fails: the operation returns the error and has   *)
(* committed nothing, but UpdateStatus may have deleted the cached copy.    *)
StatementFails(w) ==
    /\ proc[w].pc \in {"load", "lookup", "loaded", "lease", "answered"}
    /\ faults < MaxFaults
    /\ faults' = faults + 1
    /\ cache' \in {cache, NoRow}
    /\ Return(w, "error")
    /\ UNCHANGED <<row, refCache, lease, evt, outbox, gp, hooks, seen, calls>>

-----------------------------------------------------------------------------
(* A step of a worker that is already busy. *)
Proceed(w) ==
    \/ CacheHit(w) \/ CacheMiss(w) \/ CacheFill(w)
    \/ TryAcquireDirect(w) \/ PrepareFails(w)
    \/ InitiateFails(w) \/ InitiateCommit(w) \/ InitiateAbort(w)
    \/ MarkPublished(w) \/ MarkFailed(w) \/ MarkExhausted(w)
    \/ BeginProcessing(w) \/ BeginRejected(w)
    \/ Finalize(w) \/ FinalizeRejected(w) \/ LeaveProcessing(w)
    \/ Settle(w) \/ RecoverSkip(w) \/ CheckStatus(w)
    \/ InitiatePayment(w) \/ CapturePayment(w) \/ RequestFails(w) \/ Reply(w)
    \/ GetByGatewayReference(w) \/ WebhookDrop(w) \/ WebhookApply(w)

Next ==
    \/ \E w \in Workers :
          \/ Proceed(w)
          \/ \E op \in ApiCalls : ClientCall(w, op)
          \/ RelayClaim(w) \/ ReaperList(w)
          \/ Crash(w) \/ StatementFails(w)
          \/ \E h \in hooks : RecordEvent(w, h)
    \/ \E r \in Refs : RefCacheExpires(r) \/ \E s \in Decisions : GatewayDecide(r, s)
    \/ CacheExpires \/ DeleteExpired

Spec == Init /\ [][Next]_vars

(* A worker that has started goes on; the reaper, the relay and the lease   *)
(* sweep are periodic jobs; a cached copy lives 5 seconds; the gateway      *)
(* settles what is pending and is not unreachable for ever. No API call,    *)
(* webhook or crash has to happen.                                          *)
Fairness ==
    /\ \A w \in Workers : /\ WF_vars(Proceed(w))
                          /\ SF_vars(CheckStatus(w) /\ proc'[w].resp \notin Unanswered)
                          /\ SF_vars(Reply(w) /\ proc'[w].resp \notin Unanswered)
    /\ WF_vars(\E w \in Workers : ReaperList(w))
    /\ WF_vars(\E w \in Workers : RelayClaim(w))
    /\ WF_vars(DeleteExpired) /\ WF_vars(CacheExpires)
    /\ \A r \in Refs : WF_vars(gp[r] = "pending" /\ \E s \in Decisions : GatewayDecide(r, s))

FairSpec == Spec /\ Fairness

-----------------------------------------------------------------------------
(* Safety *)

(* A loaded or cached copy is never newer than the row; a copy with the     *)
(* row's version is the row, up to a cancel intent it has not seen. This is *)
(* what makes the version check of UpdateStatus enough, however stale the   *)
(* cache and however slow the worker.                                       *)
Agrees(t) ==
    t # NoRow =>
        /\ t.version <= row.version
        /\ t.intent => row.intent
        /\ t.version = row.version => t = [row EXCEPT !.intent = t.intent]

SnapshotsAgree == Agrees(cache) /\ \A w \in Workers : Agrees(proc[w].snap)

(* Whatever the interleaving of API calls, relay, reaper and webhooks, the  *)
(* committed status only ever moves along the transition table.             *)
LegalTransitions == [][row'.status # row.status => CanTransition(row, row'.status)]_vars

(* A transaction is CAPTURED or SETTLED only if the gateway took the money: *)
(* no stale, reordered or guessed reply can make it so.                     *)
Paid == {r \in Refs : gp[r] \in {"succeeded", "refunded"}}
CapturedIsBacked == row.status \in {"CAPTURED", "SETTLED"} => Paid # {}

(* On manual capture the payment the row refers to is the one that was paid *)
(* (the cached reference mappings of ProcessGatewayInitiate are not used).  *)
CapturedByItsReference ==
    row.mode = "manual" /\ row.status \in {"CAPTURED", "SETTLED"} => row.ref \in Paid

(* The lease lets one worker at a time call the gateway for a payment, as   *)
(* long as it is not purged under a call in progress.                       *)
SingleFlight == TtlOutlivesCalls => \A v, w \in Calling : v = w

(* The row's status was announced under the row's version, every announced  *)
(* version was announced once, and none was announced before its commit.    *)
AnnouncedOnce ==
    /\ row.status \in Announced => [status |-> row.status, version |-> row.version] \in outbox
    /\ \A e, f \in outbox : e.version = f.version => e = f
    /\ \A e \in outbox : e.version <= row.version

(* The processing fields are set only while PROCESSING; a manual capture    *)
(* that is PROCESSING has them, so that the reaper can find it.             *)
ProcessingFields ==
    /\ row.started => row.status = "PROCESSING"
    /\ row.mode = "manual" /\ row.status = "PROCESSING" => row.started

(* A stored gateway reference is never lost or replaced, when the gateway   *)
(* honours the idempotency key.                                             *)
ReferenceStable == [][IdempotentGateway /\ row.ref # NoRef => row'.ref = row.ref]_vars

-----------------------------------------------------------------------------
(* What the safety properties rest on, together an inductive invariant *)

(* What a worker knows at each step: what it loaded, which operation it is  *)
(* in, which reference it was given, and the status it checked.             *)
WorkerOK(w) ==
    LET p == proc[w] IN
    /\ p.pc = "lease" => p.op \in {"authorize", "capture"}
    /\ p.pc \in {"call", "sent"} => p.op \in {"initiate", "deliver", "authorize", "capture"}
    /\ p.pc = "answered" => p.op \in {"initiate", "deliver", "authorize", "capture", "recover"}
    /\ p.pc \in {"fill", "loaded", "lease", "call", "sent", "answered"} => p.snap # NoRow
    /\ p.op = "webhook" => p.ref \in Refs /\ p.resp \in Sent
    /\ p.pc = "sent" => p.ref \in Refs
    /\ p.op \in {"initiate", "deliver"} /\ p.pc \in {"call", "sent", "answered"} =>
          /\ p.snap.status = "PENDING" /\ p.snap.ref = NoRef
          /\ p.pc = "answered" /\ p.resp \notin Unanswered => p.ref \in Refs
    /\ p.op \in {"authorize", "capture"} /\ p.pc \in {"lease", "call", "sent", "answered"} =>
          p.snap.status = "PROCESSING" /\ p.snap.started
    /\ p.op = "recover" /\ p.pc = "answered" => p.snap.status = "PROCESSING" /\ p.snap.started

WorkersOK == \A w \in Workers : WorkerOK(w)

(* Only automatic capture has an event, and only it is initiated. *)
ManualNotInitiated ==
    row.mode = "manual" =>
        evt.status = "ABSENT" /\ \A w \in Workers : proc[w].op \notin {"initiate", "deliver"}

(* A reply or a webhook that says "succeeded" is about a paid payment. *)
SaysPaid(w) == proc[w].resp = "succeeded"
RepliesBacked ==
    /\ \A h \in hooks : h.status = "succeeded" => h.ref \in Paid
    /\ \A w \in Workers : SaysPaid(w) => Paid # {}

(* What is more, it is about the payment it names, and an answer stays with *)
(* the call it was given to.                                                *)
RepliesNamed ==
    \A w \in Workers : SaysPaid(w) =>
        /\ proc[w].ref \in Paid
        /\ proc[w].op = "webhook" \/ proc[w].pc \in {"answered", "captured"}

(* On manual capture a webhook finds the transaction by its own reference.  *)
HooksFindTheirOwn ==
    row.mode = "manual" =>
        /\ refCache = {}
        /\ \A w \in Workers : proc[w].op = "webhook" =>
              proc[w].pc = "lookup" \/ (proc[w].pc = "loaded" /\ proc[w].snap.ref = proc[w].ref)

(* A worker in a call holds the lease. *)
LeaseHeld == TtlOutlivesCalls /\ Calling # {} => lease

(* References come from the gateway, which has one payment if idempotent. *)
ReferencesCreated ==
    /\ row.ref # NoRef => row.ref \in Created
    /\ \A w \in Workers : proc[w].ref # NoRef => proc[w].ref \in Created
    /\ \A t \in {cache} \cup {proc[w].snap : w \in Workers} :
          t # NoRow /\ t.ref # NoRef => t.ref \in Created
    /\ \A h \in hooks : h.ref \in Created
    /\ IdempotentGateway => \A r, s \in Created : r = s

IInv ==
    /\ TypeOK /\ WorkersOK /\ SnapshotsAgree
    /\ CapturedIsBacked /\ RepliesBacked
    /\ SingleFlight /\ LeaseHeld
    /\ AnnouncedOnce
    /\ ProcessingFields /\ ManualNotInitiated
    /\ ReferencesCreated /\ CapturedByItsReference
    /\ RepliesNamed /\ HooksFindTheirOwn

-----------------------------------------------------------------------------
(* Liveness *)

(* The reaper resolves every manual capture left PROCESSING with a gateway  *)
(* reference, unless the payment was refunded at the gateway before it      *)
(* looked: resolveOutcome has no outcome for that answer.                   *)
Stuck == row.mode = "manual" /\ row.status = "PROCESSING"
ReaperResolves ==
    Stuck /\ row.ref # NoRef ~> ~ Stuck \/ (row.ref # NoRef /\ gp[row.ref] = "refunded")

-----------------------------------------------------------------------------
(* What the README says of this code *)

(* README 362: when syncInitiate fails, the relay eventually processes the  *)
(* GATEWAY_INITIATE event as a fallback (or dead-letters it).               *)
RelayFallback ==
    (\E w \in Workers : At(w, {"initiate"}, "answered") /\ proc[w].resp \in Unanswered)
        ~> row.status # "PENDING" \/ evt.status = "FAILED"
=============================================================================
