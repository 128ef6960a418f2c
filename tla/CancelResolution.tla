-------------------------- MODULE CancelResolution --------------------------
(***************************************************************************)
(* Cancel requests on the payment of PaymentFlow, and the refund that is   *)
(* owed when the gateway honours a payment whose cancel was requested.     *)
(* cancel.Service only records the intent. Whoever then commits CAPTURED   *)
(* calls refund.Service.ResolveCancelRefund: finalize after its            *)
(* transaction has committed, the webhook service inside its own           *)
(* transaction, which holds the lock of the transactions row.              *)
(***************************************************************************)
EXTENDS PaymentFlow

CONSTANT NoWorker

ASSUME NoWorkerAssumption == NoWorker \notin Workers

VARIABLES
    refunds,   \* number of cancel_resolution refunds
    lock       \* the webhook whose open transaction has updated the row

cvars == <<row, cache, refCache, lease, evt, outbox, gp, hooks, seen, proc, calls, faults,
           refunds, lock>>

CInit == Init /\ refunds = 0 /\ lock = NoWorker

-----------------------------------------------------------------------------
(* cancel: the intent is recorded by a conditional update that leaves the   *)
(* version as it is. The terminal check is made on the loaded copy.         *)
Cancel(w) ==
    /\ At(w, {"cancel"}, "loaded")
    /\ IF IsTerminal(proc[w].snap.status) \/ proc[w].snap.intent
       THEN UNCHANGED <<row, cache>>
       ELSE row' = [row EXCEPT !.intent = TRUE] /\ cache' = NoRow
    /\ Return(w, "ok")
    /\ UNCHANGED <<refCache, lease, evt, outbox, gp, hooks, seen, calls, faults, refunds, lock>>

-----------------------------------------------------------------------------
(* ResolveCancelRefund, called by finalize *)

isRefundableStatus(s) == s \in {"CAPTURED", "SETTLED", "PARTIALLY_REFUNDED", "REFUND_FAILED"}

(* ExistsByReason, then InitiateRefund loads the parent through the cache. *)
ExistsByReason(w) ==
    /\ proc[w].pc = "captured"
    /\ IF refunds > 0 THEN Return(w, "ok") ELSE Start(w, "resolve", "load")
    /\ UNCHANGED <<row, cache, refCache, lease, evt, outbox, gp, hooks, seen, calls, faults, refunds, lock>>

(* InitiateRefund: the parent's REFUND_PENDING and the refund, in one       *)
(* transaction. An error is logged and nobody tries again.                  *)
InitiateRefund(w) ==
    /\ At(w, {"resolve"}, "loaded")
    /\ LET refundable == isRefundableStatus(proc[w].snap.status)
       IN  IF refundable /\ Current(w)
           THEN /\ UpdateStatus(Transitioned(proc[w].snap, "REFUND_PENDING"))
                /\ refunds' = refunds + 1
           ELSE /\ cache' = IF refundable THEN NoRow ELSE cache
                /\ UNCHANGED <<row, refunds>>
    /\ Return(w, "ok")
    /\ UNCHANGED <<refCache, lease, evt, outbox, gp, hooks, seen, calls, faults, lock>>

-----------------------------------------------------------------------------
(* ResolveCancelRefund, called by the webhook inside its transaction *)

(* The row the open transaction of w will commit, and sees. *)
UncommittedSameVersion(w) == [Transitioned(proc[w].snap, "CAPTURED") EXCEPT !.intent = row.intent]

Uncommitted(w) ==
    [Transitioned(proc[w].snap, "CAPTURED") EXCEPT !.version = @ + 1, !.intent = row.intent]

(* UpdateStatus of a webhook that captures a transaction loaded with a      *)
(* cancel intent: the row stays locked until the transaction ends.          *)
WebhookCapture(w) ==
    /\ At(w, {"webhook"}, "loaded")
    /\ HookApplies(w) /\ HookStatus(w) = "CAPTURED" /\ proc[w].snap.intent
    /\ IF Current(w)
       THEN lock = NoWorker /\ lock' = w /\ Goto(w, "resolving")
       ELSE Return(w, "ok") /\ UNCHANGED lock
    /\ cache' = NoRow
    /\ UNCHANGED <<row, refCache, lease, evt, outbox, gp, hooks, seen, calls, faults, refunds>>

(* InitiateRefund loads the parent: a cached copy, else its own uncommitted *)
(* row, which it puts in the cache. It is then refused: the cached copy is  *)
(* not refundable, or the refund's transaction (a second connection) does   *)
(* not see the version the first one has not committed. Both errors are     *)
(* logged and the webhook goes on to commit.                                *)
WebhookResolve(w) ==
    /\ At(w, {"webhook"}, "resolving")
    /\ IF refunds > 0 \/ cache # NoRow
       THEN /\ cache' = IF refunds = 0 /\ isRefundableStatus(cache.status) THEN NoRow ELSE cache
            /\ Goto(w, "commit")
       ELSE /\ cache' = Uncommitted(w)
            /\ Goto(w, "phantom")
    /\ UNCHANGED <<row, refCache, lease, evt, outbox, gp, hooks, seen, calls, faults, refunds, lock>>

WebhookRefundRefused(w) ==
    /\ At(w, {"webhook"}, "phantom")
    /\ VersionConflict
    /\ Goto(w, "commit")
    /\ UNCHANGED <<refCache, lease, evt, outbox, gp, hooks, seen, calls, faults, refunds, lock>>

WebhookCommit(w) ==
    /\ At(w, {"webhook"}, "commit")
    /\ row' = Uncommitted(w)
    /\ outbox' = outbox \cup Announce("CAPTURED", row.version + 1)
    /\ seen' = seen \cup {TheHook(w)}
    /\ lock' = NoWorker
    /\ Return(w, "ok")
    /\ UNCHANGED <<cache, refCache, lease, evt, gp, hooks, calls, faults, refunds>>

(* The commit fails, or the request is cancelled: everything is rolled back *)
(* but the cache.                                                           *)
WebhookRollback(w) ==
    /\ lock = w
    /\ faults < MaxFaults
    /\ faults' = faults + 1
    /\ lock' = NoWorker
    /\ Return(w, "error")
    /\ UNCHANGED <<row, cache, refCache, lease, evt, outbox, gp, hooks, seen, calls, refunds>>

-----------------------------------------------------------------------------
(* A step of the payment flow. An update waits for the lock; the death of   *)
(* the process that holds it releases it.                                   *)
FlowStep ==
    /\ Next
    /\ lock # NoWorker => row' = row
    /\ lock' = IF lock # NoWorker /\ proc'[lock] = Idle THEN NoWorker ELSE lock
    /\ UNCHANGED refunds

CancelRequest(w) == ClientCall(w, "cancel") /\ UNCHANGED <<refunds, lock>>

CancelStep(w) ==
    \/ Cancel(w) \/ ExistsByReason(w)
    \/ lock = NoWorker /\ InitiateRefund(w)
    \/ WebhookCapture(w) \/ WebhookResolve(w) \/ WebhookRefundRefused(w) \/ WebhookCommit(w)

CNext == FlowStep \/ \E w \in Workers : CancelRequest(w) \/ CancelStep(w) \/ WebhookRollback(w)

CSpec == CInit /\ [][CNext]_cvars

(* As in PaymentFlow; a resolution that has started goes on. *)
CFairSpec == CSpec /\ Fairness /\ \A w \in Workers : WF_cvars(CancelStep(w))

-----------------------------------------------------------------------------
(* A recorded intent is never lost, although every status update is made    *)
(* from a copy of the transaction that may have been loaded before it.      *)
IntentKept == [][row.intent => row'.intent]_cvars

(* A cancelled payment is refunded at most once, only if it was paid, and   *)
(* is then neither settled nor captured again.                              *)
RefundedOnce ==
    /\ refunds <= 1
    /\ refunds > 0 => row.intent /\ Paid # {} /\ row.status \in {"REFUND_PENDING", "REFUNDED"}

(* As long as no transaction is rolled back and no process dies, every copy *)
(* agrees with the row or is the row that the open webhook transaction is   *)
(* about to commit, although its uncommitted row passes through the cache.  *)
CopyAgrees(t) == Agrees(t) \/ (lock # NoWorker /\ t = Uncommitted(lock))
CopiesAgreeOrPending ==
    faults = 0 => CopyAgrees(cache) /\ \A w \in Workers : CopyAgrees(proc[w].snap)

-----------------------------------------------------------------------------
(* What these rest on, together an inductive invariant *)

(* The lock is held exactly by the webhook with an open transaction, whose  *)
(* copy is the row, seen with its intent and not yet captured.              *)
HolderOK ==
    /\ lock \in Workers \cup {NoWorker}
    /\ \A w \in Workers : proc[w].pc \in {"resolving", "phantom", "commit"} <=> lock = w
    /\ lock # NoWorker =>
          /\ proc[lock].op = "webhook"
          /\ proc[lock].snap = row
          /\ row.intent
          /\ CanTransition(row, "CAPTURED")

(* A copy of a row that was rolled back: its version is not taken yet, or   *)
(* is by a row that is not refunded yet, or is older than the row.          *)
Phantom(t) ==
    /\ t.status = "CAPTURED" /\ row.intent
    /\ t.version <= row.version + 1
    /\ t.version = row.version + 1 => CanTransition(row, "CAPTURED")
    /\ t.version = row.version => refunds = 0

CopyOK(t) == Agrees(t) \/ Phantom(t)
CopiesOK == CopyOK(cache) /\ \A w \in Workers : CopyOK(proc[w].snap)

(* A refund is only started for a payment that was captured against a       *)
(* cancel; nothing leads back from there.                                   *)
PastCapture == {"CAPTURED", "SETTLED", "REFUND_PENDING", "REFUNDED"}
ResolversOK ==
    \A w \in Workers : proc[w].pc = "captured" \/ proc[w].op = "resolve" =>
        row.intent /\ Paid # {} /\ row.status \in PastCapture

CInv ==
    /\ TypeOK /\ WorkersOK /\ RepliesBacked
    /\ HolderOK /\ CopiesOK /\ ResolversOK
    /\ refunds \in Nat /\ RefundedOnce /\ CopiesAgreeOrPending
=============================================================================
