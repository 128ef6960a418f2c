---------------------------- MODULE CancelProofs ----------------------------
(***************************************************************************)
(* Proofs about CancelResolution, for every set of workers and references  *)
(* and every value of the bounds: an intent to cancel is kept, a payment   *)
(* that was captured against it is refunded at most once, and copies agree *)
(* with the row although a webhook's uncommitted row passes through the    *)
(* cache.                                                                  *)
(*                                                                         *)
(* A copy of a row that was rolled back can outlive it, so the copies do   *)
(* not all agree with the row as they do in PaymentFlow. CInv says what is *)
(* true of them. It is kept by the steps of the payment flow, of which the *)
(* lemmas of PaymentFlowProofs tell what they do to workers and copies,    *)
(* and by those of cancels and resolutions.                                *)
(***************************************************************************)
EXTENDS PaymentFlowProofs, CancelResolution

-----------------------------------------------------------------------------
(* What a step of a cancel or its resolution does to its worker: it returns, *)
(* starts, or goes on with the webhook's open transaction.                   *)
Open == {"resolving", "phantom", "commit"}

CancelMoves(w) ==
    \/ \E result \in {"ok", "error"} : Return(w, result)
    \/ \E op \in {"cancel", "resolve"} : Start(w, op, "load")
    \/ \E pc \in Open : Goto(w, pc) /\ proc[w].op = "webhook"

(* A step of CancelResolution that is not one of the payment flow.           *)
CancelActs(w) == CancelRequest(w) \/ CancelStep(w) \/ WebhookRollback(w)

(* Such a step does no more than that to its worker.                         *)
LEMMA CancelWorker ==
    ASSUME NEW w \in Workers, CancelActs(w)
    PROVE  CancelMoves(w)
<1>1. CASE CancelRequest(w)
  BY Zenon, <1>1 DEF CancelRequest, ClientCall, CancelMoves
<1>2. CASE Cancel(w) \/ InitiateRefund(w) \/ WebhookCommit(w) \/ WebhookRollback(w)
  BY Zenon, <1>2 DEF Cancel, InitiateRefund, WebhookCommit, WebhookRollback, CancelMoves
<1>3. CASE ExistsByReason(w)
  BY Zenon, <1>3 DEF ExistsByReason, CancelMoves
<1>4. CASE WebhookCapture(w) \/ WebhookResolve(w) \/ WebhookRefundRefused(w)
  BY <1>4 DEF WebhookCapture, WebhookResolve, WebhookRefundRefused, CancelMoves, Open, At
<1>5. QED
  BY <1>1, <1>2, <1>3, <1>4 DEF CancelActs, CancelStep

(* So the workers stay well typed, and know what they need.                  *)
LEMMA CancelWorkers ==
    ASSUME TypeOK, WorkersOK, NEW w \in Workers, CancelMoves(w)
    PROVE  proc' \in [Workers -> Proc] /\ WorkersOK'
<1>1. ASSUME NEW result \in {"ok", "error"}, Return(w, result)
      PROVE  proc' \in [Workers -> Proc] /\ WorkersOK'
  BY <1>1, ReturnType, ReturnOK, StepsAndAnswers
<1>2. ASSUME NEW op \in {"cancel", "resolve"}, Start(w, op, "load")
      PROVE  proc' \in [Workers -> Proc] /\ WorkersOK'
  <2> DEFINE q == [Idle EXCEPT !.op = op, !.pc = "load"]
  <2>1. q \in Proc
    BY Zenon, IdleType DEF Proc, Ops, Steps
  <2>2. q.op # "webhook" /\ q.pc = "load"
    BY DEF Idle
  <2>3. proc' = [proc EXCEPT ![w] = q]
    BY <1>2 DEF Start
  <2> HIDE DEF q
  <2>4. WorkersOK'
    BY Zenon, <2>2, <2>3, StartOK
  <2>5. QED
    BY <2>1, <2>3, <2>4, WorkerUpdate
<1>3. ASSUME NEW pc \in Open, Goto(w, pc), proc[w].op = "webhook"
      PROVE  proc' \in [Workers -> Proc] /\ WorkersOK'
  <2>1. pc \in Steps
    BY DEF Open, Steps
  <2>2. /\ proc'[w].op = "webhook" /\ proc'[w].pc = pc
        /\ proc'[w].ref = proc[w].ref /\ proc'[w].resp = proc[w].resp
    BY <1>3 DEF TypeOK, Proc, Goto
  <2>3. \A v \in Workers \ {w} : proc'[v] = proc[v]
    BY <1>3 DEF TypeOK, Goto
  <2>4. proc[w].ref \in Refs /\ proc[w].resp \in Sent
    BY <1>3 DEF WorkersOK, WorkerOK
  <2>5. WorkerOK(w)'
    BY <2>2, <2>4 DEF WorkerOK, Open
  <2>6. QED
    BY <1>3, <2>1, <2>3, <2>5, GotoType, OthersOK
<1>4. QED
  BY <1>1, <1>2, <1>3 DEF CancelMoves

(* What the open transaction of a webhook will commit.                       *)
LEMMA UncommittedRow ==
    ASSUME TypeOK, NEW w \in Workers, proc[w].snap \in Row
    PROVE  /\ Uncommitted(w) \in Row
           /\ Uncommitted(w).status = "CAPTURED"
           /\ Uncommitted(w).version = proc[w].snap.version + 1
           /\ Uncommitted(w).intent = row.intent
<1> DEFINE t == Transitioned(proc[w].snap, "CAPTURED")
<1>1. t \in Row /\ t.status = "CAPTURED" /\ t.version = proc[w].snap.version
  BY TransitionedFields DEF Status
<1>2. row.intent \in BOOLEAN /\ t.version + 1 \in Nat
  BY <1>1 DEF TypeOK, Row
<1>3. Uncommitted(w) = [t EXCEPT !.version = t.version + 1, !.intent = row.intent]
  BY DEF Uncommitted
<1> HIDE DEF t
<1>4. Uncommitted(w) \in Row
  BY Zenon, <1>1, <1>2, <1>3 DEF Row
<1>5. QED
  BY <1>1, <1>3, <1>4 DEF Row

(* What a step of the payment flow does to its worker: it never enters an    *)
(* open transaction, leaves one only by a crash, starts no resolution, and   *)
(* owes one only by finalize.                                                *)
Owes(w) == Finalize(w) /\ Outcome(w) = "CAPTURED" /\ proc[w].snap.intent

FlowMoves(w) ==
    /\ \A v \in Workers \ {w} : proc'[v] = proc[v]
    /\ proc[w].pc \in Open => Crash(w)
    /\ proc'[w].pc \notin Open
    /\ proc'[w].pc = "captured" => Owes(w)
    /\ proc'[w].op = "resolve" => proc[w].op = "resolve" /\ proc'[w].pc # "captured"

(* What a new state of a worker must satisfy to be such a step.              *)
LEMMA SetFlow ==
    ASSUME TypeOK, NEW w \in Workers, NEW p, proc' = [proc EXCEPT ![w] = p],
           proc[w].pc \in Open => Crash(w),
           p.pc \notin Open, p.pc = "captured" => Owes(w),
           p.op = "resolve" => proc[w].op = "resolve" /\ p.pc # "captured"
    PROVE  FlowMoves(w)
BY DEF TypeOK, FlowMoves

(* A worker that returns.                                                    *)
LEMMA ReturnFlow ==
    ASSUME TypeOK, NEW w \in Workers, NEW result, Return(w, result), proc[w].pc \notin Open
    PROVE  FlowMoves(w)
<1>1. CASE proc[w].op = "deliver"
  <2> DEFINE q == [Idle EXCEPT !.op = "deliver", !.pc = "mark", !.resp = result, !.att = proc[w].att]
  <2>1. q.op = "deliver" /\ q.pc = "mark"
    BY DEF Idle
  <2>2. proc' = [proc EXCEPT ![w] = q]
    BY Zenon, <1>1 DEF Return
  <2> HIDE DEF q
  <2>3. QED
    BY Zenon, <2>1, <2>2, SetFlow DEF Open
<1>2. CASE proc[w].op # "deliver"
  <2>1. proc' = [proc EXCEPT ![w] = Idle]
    BY Zenon, <1>2 DEF Return
  <2>2. Idle.op = "idle" /\ Idle.pc = "idle"
    BY DEF Idle
  <2>3. QED
    BY Zenon, <2>1, <2>2, SetFlow DEF Open
<1>3. QED
  BY <1>1, <1>2

(* A worker that goes on with its operation.                                 *)
LEMMA ProceedFlow ==
    ASSUME TypeOK, WorkersOK, NEW w \in Workers, Proceed(w)
    PROVE  FlowMoves(w)
<1> DEFINE p == proc[w]
<1>1. p \in Proc
  BY ProcFields
<1>2. ASSUME NEW result, Return(w, result), p.pc \notin Open
      PROVE  FlowMoves(w)
  BY <1>2, ReturnFlow
<1>3. ASSUME NEW pc \in {"load", "loaded", "call"}, Goto(w, pc), p.pc \notin Open
      PROVE  FlowMoves(w)
  <2>1. [p EXCEPT !.pc = pc].op = p.op /\ [p EXCEPT !.pc = pc].pc = pc
    BY <1>1 DEF Proc
  <2>2. QED
    BY Zenon, <1>3, <2>1, SetFlow DEF Goto, Open
<1>4. ASSUME NEW answer, Answered(w, answer), p.pc \notin Open
      PROVE  FlowMoves(w)
  <2> DEFINE q == [p EXCEPT !.pc = "answered", !.resp = answer]
  <2>1. q.op = p.op /\ q.pc = "answered"
    BY <1>1 DEF Proc
  <2>2. proc' = [proc EXCEPT ![w] = q]
    BY Zenon, <1>4 DEF Answered
  <2> HIDE DEF q
  <2>3. QED
    BY Zenon, <1>4, <2>1, <2>2, SetFlow DEF Open
<1>5. CASE \/ InitiateFails(w) \/ InitiateAbort(w) \/ InitiateCommit(w) \/ BeginRejected(w)
           \/ FinalizeRejected(w) \/ LeaveProcessing(w) \/ Settle(w) \/ RecoverSkip(w)
           \/ WebhookDrop(w) \/ WebhookApply(w)
  <2>1. p.pc \in {"answered", "loaded"}
    BY <1>5 DEF InitiateFails, InitiateAbort, InitiateCommit, BeginRejected, FinalizeRejected,
       LeaveProcessing, Settle, RecoverSkip, WebhookDrop, WebhookApply, Finalizing, At
  <2>2. \E result : Return(w, result)
    BY Zenon, <1>5 DEF InitiateFails, InitiateAbort, InitiateCommit, BeginRejected, FinalizeRejected,
       LeaveProcessing, Settle, RecoverSkip, WebhookDrop, WebhookApply
  <2>3. QED
    BY <1>2, <2>1, <2>2 DEF Open
<1>6. CASE PrepareFails(w)
  BY <1>2, <1>6 DEF PrepareFails, Open
<1>7. CASE MarkPublished(w) \/ MarkFailed(w) \/ MarkExhausted(w)
  <2>1. Idle.op = "idle" /\ Idle.pc = "idle"
    BY DEF Idle
  <2>2. proc' = [proc EXCEPT ![w] = Idle]
    BY Zenon, <1>7 DEF MarkPublished, MarkFailed, MarkExhausted
  <2>3. p.pc \notin Open
    BY <1>7 DEF MarkPublished, MarkFailed, MarkExhausted, At, Open
  <2>4. QED
    BY Zenon, <2>1, <2>2, <2>3, SetFlow DEF Open
<1>8. CASE CacheFill(w)
  BY <1>3, <1>8 DEF CacheFill, Open
<1>9. CASE TryAcquireDirect(w)
  <2>1. p.pc \notin Open
    BY <1>9 DEF TryAcquireDirect, AtLease, At, Open
  <2>2. Goto(w, "call") \/ Return(w, "ok")
    BY <1>9 DEF TryAcquireDirect
  <2>3. QED
    BY <1>2, <1>3, <2>1, <2>2
<1>10. CASE Finalize(w)
  <2>1. p.pc = "answered" /\ p.op # "resolve"
    BY Zenon, <1>10 DEF Finalize, Finalizing, At
  <2>2. CASE Owes(w) /\ Goto(w, "captured")
    <3>1. [p EXCEPT !.pc = "captured"].op = p.op /\ [p EXCEPT !.pc = "captured"].pc = "captured"
      BY <1>1 DEF Proc
    <3>2. QED
      BY Zenon, <2>1, <2>2, <3>1, SetFlow DEF Goto, Open
  <2>3. CASE Return(w, "ok")
    BY <1>2, <2>1, <2>3 DEF Open
  <2>4. QED
    BY <1>10, <2>2, <2>3 DEF Finalize, Owes
<1>11. ASSUME NEW pc \in {"loaded", "fill", "lease"}, NEW t, p.pc \notin Open,
              proc' = [proc EXCEPT ![w] = [@ EXCEPT !.pc = pc, !.snap = t]]
       PROVE  FlowMoves(w)
  <2> DEFINE q == [p EXCEPT !.pc = pc, !.snap = t]
  <2>1. q.op = p.op /\ q.pc = pc
    BY <1>1 DEF Proc
  <2>2. proc' = [proc EXCEPT ![w] = q]
    BY Zenon, <1>11
  <2> HIDE DEF q
  <2>3. QED
    BY Zenon, <1>11, <2>1, <2>2, SetFlow DEF Open
<1>12. CASE CacheHit(w) \/ CacheMiss(w) \/ BeginProcessing(w)
  <2>1. p.pc \notin Open
    BY <1>12 DEF CacheHit, CacheMiss, BeginProcessing, At, Open
  <2>2. QED
    BY Zenon, <1>11, <1>12, <2>1 DEF CacheHit, CacheMiss, BeginProcessing
<1>13. CASE CheckStatus(w)
  <2>1. PICK answer : proc' = [proc EXCEPT ![w] = [@ EXCEPT !.pc = "answered", !.resp = answer,
                                                        !.ref = proc[w].snap.ref]]
    BY Zenon, <1>13 DEF CheckStatus
  <2> DEFINE q == [p EXCEPT !.pc = "answered", !.resp = answer, !.ref = proc[w].snap.ref]
  <2>2. q.op = p.op /\ q.pc = "answered"
    BY <1>1 DEF Proc
  <2>3. proc' = [proc EXCEPT ![w] = q]
    BY Zenon, <2>1
  <2>4. p.pc \notin Open
    BY <1>13 DEF CheckStatus, At, Open
  <2> HIDE DEF q
  <2>5. QED
    BY Zenon, <2>2, <2>3, <2>4, SetFlow DEF Open
<1>14. CASE RequestFails(w) \/ Reply(w)
  <2>1. p.pc \notin Open
    BY <1>14 DEF RequestFails, Reply, Open
  <2>2. QED
    BY Zenon, <1>4, <1>14, <2>1 DEF RequestFails, Reply
<1>15. CASE InitiatePayment(w) \/ CapturePayment(w)
  <2>1. PICK r : proc' = [proc EXCEPT ![w] = [@ EXCEPT !.pc = "sent", !.ref = r]]
    BY Zenon, <1>15 DEF InitiatePayment, CapturePayment
  <2> DEFINE q == [p EXCEPT !.pc = "sent", !.ref = r]
  <2>2. q.op = p.op /\ q.pc = "sent"
    BY <1>1 DEF Proc
  <2>3. proc' = [proc EXCEPT ![w] = q]
    BY Zenon, <2>1
  <2>4. p.pc \notin Open
    BY Zenon, <1>15 DEF InitiatePayment, CapturePayment, At, Open
  <2> HIDE DEF q
  <2>5. QED
    BY Zenon, <2>2, <2>3, <2>4, SetFlow DEF Open
<1>16. CASE GetByGatewayReference(w)
  <2>1. p.pc \notin Open
    BY <1>16 DEF GetByGatewayReference, At, Open
  <2>2. QED
    BY Zenon, <1>2, <1>3, <1>11, <1>16, <2>1 DEF GetByGatewayReference
<1>17. QED
  BY <1>5, <1>6, <1>7, <1>8, <1>9, <1>10, <1>12, <1>13, <1>14, <1>15, <1>16 DEF Proceed

(* Every step of the payment flow.                                           *)
LEMMA NextFlow ==
    ASSUME TypeOK, WorkersOK, [Next]_vars
    PROVE  UNCHANGED proc \/ \E w \in Workers : FlowMoves(w)
<1>1. ASSUME NEW w \in Workers, Proceed(w) PROVE FlowMoves(w)
  BY <1>1, ProceedFlow
<1>2. ASSUME NEW w \in Workers, Crash(w) PROVE FlowMoves(w)
  <2>1. Idle.op = "idle" /\ Idle.pc = "idle"
    BY DEF Idle
  <2>2. proc' = [proc EXCEPT ![w] = Idle]
    BY <1>2 DEF Crash
  <2>3. QED
    BY Zenon, <1>2, <2>1, <2>2, SetFlow DEF Open
<1>3. ASSUME NEW w \in Workers, StatementFails(w) PROVE FlowMoves(w)
  BY <1>3, ReturnFlow DEF StatementFails, Open
<1>4. ASSUME NEW w \in Workers,
             \/ \E op \in ApiCalls : ClientCall(w, op)
             \/ RelayClaim(w) \/ ReaperList(w)
             \/ \E h \in hooks : RecordEvent(w, h)
      PROVE  FlowMoves(w)
  <2>1. WorkerStarts(w)
    BY <1>4, Starting
  <2>2. proc'[w].op # "resolve"
    <3>1. proc \in [Workers -> Proc]
      BY DEF TypeOK
    <3>2. ASSUME NEW op \in ApiCalls, ClientCall(w, op)
          PROVE  proc'[w].op # "resolve"
      <4>1. op # "resolve"
        BY ConstantsAssumption
      <4>2. QED
        BY Zenon, <3>1, <3>2, <4>1 DEF ClientCall, Start, Idle
    <3>3. CASE RelayClaim(w) \/ ReaperList(w) \/ \E h \in hooks : RecordEvent(w, h)
      BY Zenon, <3>1, <3>3 DEF RelayClaim, ReaperList, RecordEvent, Start, Idle
    <3>4. QED
      BY <1>4, <3>2, <3>3
  <2>3. proc[w].pc \notin Open
    BY <2>1 DEF WorkerStarts, Idle, Open
  <2>4. QED
    BY <2>1, <2>2, <2>3 DEF WorkerStarts, FlowMoves, Open
<1>5. ASSUME NEW r \in Refs, RefCacheExpires(r) \/ \E s \in Decisions : GatewayDecide(r, s)
      PROVE  UNCHANGED proc
  BY <1>5 DEF RefCacheExpires, GatewayDecide
<1>6. CacheExpires \/ DeleteExpired \/ UNCHANGED vars => UNCHANGED proc
  BY DEF CacheExpires, DeleteExpired, vars
<1>7. QED
  BY <1>1, <1>2, <1>3, <1>4, <1>5, <1>6 DEF Next

-----------------------------------------------------------------------------
(* How a step may treat the row and the refunds: leave them; record an       *)
(* intent; or commit the next version, which keeps a payment past its        *)
(* capture there, and a refunded one refunded.                               *)
Intends == row' = [row EXCEPT !.intent = TRUE] /\ refunds' = refunds

Advances ==
    /\ row'.version = row.version + 1 /\ row'.intent = row.intent
    /\ row.status \in PastCapture => row'.status \in PastCapture
    /\ CanTransition(row, "CAPTURED") => refunds' = 0
    /\ \/ refunds' = refunds /\ (refunds > 0 => row'.status \in {"REFUND_PENDING", "REFUNDED"})
       \/ refunds = 0 /\ refunds' = 1 /\ row'.status = "REFUND_PENDING" /\ row.intent /\ Paid # {}

RowSteps == (row' = row /\ refunds' = refunds) \/ Intends \/ Advances

(* A copy that passes the version check has the status of the row, or is the *)
(* copy of a capture that was rolled back and there is no refund yet.        *)
LEMMA CopyStatus ==
    ASSUME TypeOK, NEW t \in Row, CopyOK(t), t.version = row.version
    PROVE  t.status = row.status \/ (t.status = "CAPTURED" /\ refunds = 0)
<1>1. CASE Agrees(t)
  <2>1. t = [row EXCEPT !.intent = t.intent]
    BY <1>1, NoRowAssumption DEF Agrees
  <2>2. row \in Row
    BY DEF TypeOK
  <2>3. QED
    BY <2>1, <2>2 DEF Row
<1>2. CASE Phantom(t)
  BY <1>2 DEF Phantom
<1>3. QED
  BY <1>1, <1>2 DEF CopyOK

(* Neither a refunded payment nor one past its capture can be captured.      *)
LEMMA PastIsPast ==
    /\ \A t : t.status \in PastCapture => ~ CanTransition(t, "CAPTURED")
    /\ RefundedOnce /\ CanTransition(row, "CAPTURED") => ~ (refunds > 0)
BY DEF PastCapture, CanTransition, isValidTransition, transitionTable, RefundedOnce

(* The statuses that are written.                                            *)
Written == Outcomes \cup {"PROCESSING", "SETTLED", "REFUNDED"}

(* A write of a current copy advances the row.                               *)
LEMMA WriteAdvances ==
    ASSUME TypeOK, refunds \in Nat, RefundedOnce, refunds' = refunds,
           NEW w \in Workers, proc[w].snap \in Row, CopyOK(proc[w].snap), Current(w),
           NEW to \in Written, CanTransition(proc[w].snap, to),
           NEW t \in Row, t.status = to, t.version = proc[w].snap.version, UpdateStatus(t)
    PROVE  Advances
<1>1. /\ row'.status = to /\ row'.version = t.version + 1 /\ row'.intent = row.intent
  BY UpdateStatusFields
<1>2. proc[w].snap.version = row.version
  BY DEF Current
<1> DEFINE s == proc[w].snap.status
<1>3. s = row.status \/ (s = "CAPTURED" /\ refunds = 0)
  BY <1>2, CopyStatus
<1>4. to \in transitionTable[s]
  BY DEF CanTransition, isValidTransition
<1>5. row.status \in PastCapture => to \in PastCapture
  BY <1>3, <1>4 DEF PastCapture, transitionTable, Written, Outcomes
<1>6. refunds > 0 => to \in {"REFUND_PENDING", "REFUNDED"}
  BY <1>3, <1>4 DEF RefundedOnce, transitionTable, Written, Outcomes
<1>7. CanTransition(row, "CAPTURED") => refunds' = 0
  BY PastIsPast
<1>8. QED
  BY <1>1, <1>2, <1>5, <1>6, <1>7 DEF Advances

(* So every write of the payment flow advances the row, or is refused.       *)
LEMMA FlowRow ==
    ASSUME TypeOK, WorkersOK, CopiesOK, refunds \in Nat, RefundedOnce,
           [Next]_vars, refunds' = refunds
    PROVE  row' = row \/ Advances
<1>1. ASSUME NEW w \in Workers, NEW t \in Row, NEW to \in Written, proc[w].snap \in Row, Current(w),
             CanTransition(proc[w].snap, to), t.version = proc[w].snap.version,
             UpdateStatus(Transitioned(t, to))
      PROVE  Advances
  <2> DEFINE u == Transitioned(t, to)
  <2>1. to \in Status
    BY DEF Written, Outcomes, Status
  <2>2. u \in Row /\ u.status = to /\ u.version = proc[w].snap.version
    BY <1>1, <2>1, TransitionedFields
  <2>3. UpdateStatus(u)
    BY <1>1
  <2> HIDE DEF u
  <2>4. CopyOK(proc[w].snap)
    BY DEF CopiesOK
  <2>5. QED
    BY <1>1, <2>2, <2>3, <2>4, WriteAdvances
<1>2. ASSUME NEW w \in Workers, InitiateCommit(w)
      PROVE  row' = row \/ Advances
  <2>1. CASE ~ Current(w)
    BY <1>2, <2>1 DEF InitiateCommit, VersionConflict
  <2>2. CASE Current(w)
    <3> DEFINE t == [proc[w].snap EXCEPT !.ref = proc[w].ref]
    <3>1. proc[w].snap \in Row /\ proc[w].snap.status = "PENDING"
      BY <1>2, SnapType DEF InitiateCommit, At, WorkersOK, WorkerOK
    <3>2. t \in Row /\ t.version = proc[w].snap.version
      BY <3>1, ProcFields DEF Row
    <3>3. UpdateStatus(Transitioned(t, "PROCESSING"))
      BY <1>2, <2>2 DEF InitiateCommit
    <3>4. CanTransition(proc[w].snap, "PROCESSING") /\ "PROCESSING" \in Written
      BY <3>1 DEF CanTransition, isValidTransition, transitionTable, Written
    <3> HIDE DEF t
    <3>5. QED
      BY <1>1, <2>2, <3>1, <3>2, <3>3, <3>4
  <2>3. QED
    BY <2>1, <2>2
<1>3. ASSUME NEW w \in Workers, BeginProcessing(w)
      PROVE  Advances
  <2> DEFINE u == Transitioned(proc[w].snap, "PROCESSING")
             v == [u EXCEPT !.started = TRUE]
  <2>1. proc[w].snap \in Row /\ "PROCESSING" \in Status /\ "PROCESSING" \in Written
    BY <1>3, SnapType DEF BeginProcessing, At, Status, Written
  <2>2. UpdateStatus(v) /\ Current(w) /\ CanTransition(proc[w].snap, "PROCESSING")
    BY <1>3 DEF BeginProcessing, MayBegin
  <2>3. u \in Row /\ u.status = "PROCESSING" /\ u.version = proc[w].snap.version
    BY <2>1, TransitionedFields
  <2> HIDE DEF u
  <2>4. v \in Row /\ v.status = "PROCESSING" /\ v.version = proc[w].snap.version
    BY Zenon, <2>3 DEF Row
  <2> HIDE DEF v
  <2>5. CopyOK(proc[w].snap)
    BY DEF CopiesOK
  <2>6. QED
    BY <2>1, <2>2, <2>4, <2>5, WriteAdvances
<1>4. ASSUME NEW w \in Workers, Finalize(w)
      PROVE  Advances
  <2>1. /\ proc[w].snap \in Row /\ proc[w].pc = "answered" /\ Current(w)
        /\ CanTransition(proc[w].snap, Outcome(w))
    BY <1>4, SnapType DEF Finalize, Finalizing, MayFinalize, At
  <2>2. Outcome(w) \in Written
    BY <1>4, OutcomeType DEF Finalize, Written
  <2>3. WithReference(w) \in Row /\ WithReference(w).version = proc[w].snap.version
    BY <2>1, WithReferenceType
  <2>4. UpdateStatus(Transitioned(WithReference(w), Outcome(w)))
    BY <1>4 DEF Finalize
  <2>5. QED
    BY <1>1, <2>1, <2>2, <2>3, <2>4
<1>5. ASSUME NEW w \in Workers, Settle(w)
      PROVE  row' = row \/ Advances
  <2>1. proc[w].snap \in Row /\ "SETTLED" \in Written
    BY <1>5, SnapType DEF Settle, At, Written
  <2>2. CASE CanTransition(proc[w].snap, "SETTLED") /\ Current(w)
    BY <1>1, <1>5, <2>1, <2>2 DEF Settle
  <2>3. CASE ~ (CanTransition(proc[w].snap, "SETTLED") /\ Current(w))
    BY <1>5, <2>3 DEF Settle
  <2>4. QED
    BY <2>2, <2>3
<1>6. ASSUME NEW w \in Workers, WebhookApply(w)
      PROVE  row' = row \/ Advances
  <2>1. /\ proc[w].snap \in Row /\ HookStatus(w) \in Written
        /\ CanTransition(proc[w].snap, HookStatus(w))
    BY <1>6, SnapType, HookStatusType DEF WebhookApply, HookApplies, At, Written
  <2>2. CASE Current(w)
    BY <1>1, <1>6, <2>1, <2>2 DEF WebhookApply
  <2>3. CASE ~ Current(w)
    BY <1>6, <2>3 DEF WebhookApply, VersionConflict
  <2>4. QED
    BY <2>2, <2>3
<1>7. QED
  BY <1>2, <1>3, <1>4, <1>5, <1>6, Writers DEF Writes, RowKept

(* A finalize that owes a refund has captured the payment.                   *)
LEMMA OwingRow ==
    ASSUME TypeOK, WorkersOK, CopiesOK, RepliesBacked, NEW w \in Workers, Owes(w)
    PROVE  row'.status = "CAPTURED" /\ row'.intent /\ Paid # {}
<1> DEFINE u == Transitioned(WithReference(w), "CAPTURED")
<1>1. proc[w].snap \in Row /\ proc[w].pc = "answered"
  BY SnapType DEF Owes, Finalize, Finalizing, At
<1>2. WithReference(w) \in Row
  BY <1>1, WithReferenceType
<1>3. u \in Row /\ u.status = "CAPTURED"
  BY <1>2, TransitionedFields DEF Status
<1>4. UpdateStatus(u)
  BY DEF Owes, Finalize
<1> HIDE DEF u
<1>5. row'.status = "CAPTURED" /\ row'.intent = row.intent
  BY <1>3, <1>4, UpdateStatusFields
<1>6. proc[w].snap.intent /\ proc[w].snap # NoRow
  BY <1>1, NoRowAssumption DEF Owes
<1>7. row.intent
  BY Zenon, <1>6 DEF CopiesOK, CopyOK, Agrees, Phantom
<1>8. SaysPaid(w)
  BY DEF Owes, SaysPaid, Outcome, resolveOutcome, resolveAuthorizeOutcome, resolveCaptureOutcome
<1>9. QED
  BY Zenon, <1>5, <1>7, <1>8 DEF RepliesBacked

(* The holder of the lock has a copy of the row.                             *)
LEMMA HolderRow ==
    ASSUME TypeOK, HolderOK, NEW w \in Workers, proc[w].pc \in Open
    PROVE  /\ lock = w /\ lock # NoWorker
           /\ proc[w].snap = row /\ row \in Row
           /\ row.intent /\ CanTransition(row, "CAPTURED")
BY NoWorkerAssumption DEF TypeOK, HolderOK, Open

(* What a cancel or a resolution does to the row.                            *)
LEMMA CancelRow ==
    ASSUME TypeOK, WorkersOK, HolderOK, CopiesOK, ResolversOK, refunds \in Nat, RefundedOnce,
           NEW w \in Workers, CancelActs(w)
    PROVE  RowSteps
<1>1. CASE CancelRequest(w) \/ ExistsByReason(w) \/ WebhookCapture(w) \/ WebhookResolve(w)
           \/ WebhookRefundRefused(w) \/ WebhookRollback(w)
  BY Zenon, <1>1 DEF CancelRequest, ClientCall, ExistsByReason, WebhookCapture, WebhookResolve,
     WebhookRefundRefused, VersionConflict, WebhookRollback, RowSteps
<1>2. CASE Cancel(w)
  BY <1>2 DEF Cancel, RowSteps, Intends
<1>3. CASE InitiateRefund(w)
  <2> DEFINE t == proc[w].snap
             u == Transitioned(t, "REFUND_PENDING")
  <2>1. t \in Row /\ proc[w].op = "resolve"
    BY <1>3, SnapType DEF InitiateRefund, At
  <2>2. row.intent /\ Paid # {} /\ row.status \in PastCapture
    BY <2>1 DEF ResolversOK
  <2>3. CASE isRefundableStatus(t.status) /\ Current(w)
    <3>1. UpdateStatus(u) /\ refunds' = refunds + 1
      BY <1>3, <2>3 DEF InitiateRefund
    <3>2. u \in Row /\ u.status = "REFUND_PENDING" /\ u.version = t.version
      BY <2>1, TransitionedFields DEF Status
    <3> HIDE DEF u
    <3>3. row'.status = "REFUND_PENDING" /\ row'.version = t.version + 1 /\ row'.intent = row.intent
      BY <3>1, <3>2, UpdateStatusFields
    <3>4. t.version = row.version
      BY <2>3 DEF Current
    <3>5. t.status = row.status \/ (t.status = "CAPTURED" /\ refunds = 0)
      BY <2>1, <3>4, CopyStatus DEF CopiesOK
    <3>6. refunds = 0
      BY <2>3, <3>5 DEF RefundedOnce, isRefundableStatus
    <3>7. ~ CanTransition(row, "CAPTURED")
      BY <2>2, PastIsPast
    <3>8. QED
      BY <2>2, <3>1, <3>3, <3>4, <3>6, <3>7 DEF RowSteps, Advances, PastCapture
  <2>4. CASE ~ (isRefundableStatus(t.status) /\ Current(w))
    BY <1>3, <2>4 DEF InitiateRefund, RowSteps
  <2>5. QED
    BY <2>3, <2>4
<1>4. CASE WebhookCommit(w)
  <2>1. proc[w].snap = row /\ row \in Row /\ CanTransition(row, "CAPTURED")
    BY Zenon, <1>4, HolderRow DEF WebhookCommit, At, Open
  <2>2. row' = Uncommitted(w) /\ refunds' = refunds
    BY <1>4 DEF WebhookCommit
  <2>3. row'.version = row.version + 1 /\ row'.intent = row.intent
    BY <2>1, <2>2, UncommittedRow
  <2>4. row.status \notin PastCapture /\ refunds = 0
    BY <2>1, PastIsPast
  <2>5. QED
    BY <2>2, <2>3, <2>4 DEF RowSteps, Advances
<1>5. QED
  BY <1>1, <1>2, <1>3, <1>4 DEF CancelActs, CancelStep

(* A worker's copy is kept or dropped, the cache emptied or filled with the  *)
(* row of the open transaction.                                              *)
LEMMA CancelSnaps ==
    ASSUME TypeOK, NEW w \in Workers, CancelMoves(w)
    PROVE  \A v \in Workers : proc'[v].snap \in {proc[v].snap, NoRow}
<1>1. proc \in [Workers -> Proc]
  BY DEF TypeOK
<1>2. ASSUME NEW p, proc' = [proc EXCEPT ![w] = p], p.snap \in {proc[w].snap, NoRow}
      PROVE  \A v \in Workers : proc'[v].snap \in {proc[v].snap, NoRow}
  BY <1>1, <1>2
<1>3. ASSUME NEW result, Return(w, result)
      PROVE  \A v \in Workers : proc'[v].snap \in {proc[v].snap, NoRow}
  <2> DEFINE q == [Idle EXCEPT !.op = "deliver", !.pc = "mark", !.resp = result, !.att = proc[w].att]
  <2>1. q.snap = NoRow /\ Idle.snap = NoRow
    BY DEF Idle
  <2>2. proc' = [proc EXCEPT ![w] = q] \/ proc' = [proc EXCEPT ![w] = Idle]
    BY Zenon, <1>3 DEF Return
  <2> HIDE DEF q
  <2>3. QED
    BY Zenon, <1>2, <2>1, <2>2
<1>4. ASSUME NEW op, Start(w, op, "load")
      PROVE  \A v \in Workers : proc'[v].snap \in {proc[v].snap, NoRow}
  <2>1. [Idle EXCEPT !.op = op, !.pc = "load"].snap = NoRow
    BY DEF Idle
  <2>2. QED
    BY Zenon, <1>2, <1>4, <2>1 DEF Start
<1>5. ASSUME NEW pc, Goto(w, pc)
      PROVE  \A v \in Workers : proc'[v].snap \in {proc[v].snap, NoRow}
  <2>1. [proc[w] EXCEPT !.pc = pc].snap = proc[w].snap
    BY <1>1 DEF Proc
  <2>2. QED
    BY Zenon, <1>2, <1>5, <2>1 DEF Goto
<1>6. QED
  BY <1>3, <1>4, <1>5 DEF CancelMoves

(* The cache is emptied, or filled with the row of an open transaction.      *)
LEMMA CancelCache ==
    ASSUME NEW w \in Workers, CancelActs(w)
    PROVE  \/ cache' \in {cache, NoRow}
           \/ /\ cache' = Uncommitted(w) /\ proc[w].pc = "resolving"
              /\ row' = row /\ lock' = lock /\ refunds' = refunds
<1>1. CASE CancelRequest(w) \/ Cancel(w) \/ ExistsByReason(w) \/ InitiateRefund(w)
  BY Zenon, <1>1 DEF CancelRequest, ClientCall, Cancel, ExistsByReason, InitiateRefund, UpdateStatus
<1>2. CASE WebhookCapture(w) \/ WebhookRefundRefused(w) \/ WebhookCommit(w) \/ WebhookRollback(w)
  BY Zenon, <1>2 DEF WebhookCapture, WebhookRefundRefused, VersionConflict, WebhookCommit,
     WebhookRollback
<1>3. CASE WebhookResolve(w)
  BY Zenon, <1>3 DEF WebhookResolve, At
<1>4. QED
  BY <1>1, <1>2, <1>3 DEF CancelActs, CancelStep

(* The types, and the answers that are backed, are kept.                     *)
LEMMA CancelTypes ==
    ASSUME TypeOK, WorkersOK, HolderOK, NEW w \in Workers, CancelActs(w)
    PROVE  TypeOK' /\ WorkersOK'
<1>1. proc' \in [Workers -> Proc] /\ WorkersOK'
  BY CancelWorker, CancelWorkers
<1>2. cache' \in Row \cup {NoRow}
  <2>1. proc[w].pc = "resolving" => Uncommitted(w) \in Row
    BY HolderRow, UncommittedRow DEF Open
  <2>2. cache \in Row \cup {NoRow}
    BY DEF TypeOK
  <2>3. QED
    BY <2>1, <2>2, CancelCache
<1>3. row \in Row /\ row.version + 1 \in Nat
  BY DEF TypeOK, Row
<1>4. CASE CancelRequest(w) \/ ExistsByReason(w) \/ WebhookCapture(w) \/ WebhookResolve(w)
           \/ WebhookRefundRefused(w) \/ WebhookRollback(w)
  <2>1. UNCHANGED <<row, refCache, lease, evt, outbox, gp, hooks, seen>>
    BY Zenon, <1>4 DEF CancelRequest, ClientCall, ExistsByReason, WebhookCapture, WebhookResolve,
       WebhookRefundRefused, VersionConflict, WebhookRollback
  <2>2. calls' \in {calls, calls + 1} /\ faults' \in {faults, faults + 1}
    BY Zenon, <1>4 DEF CancelRequest, ClientCall, ExistsByReason, WebhookCapture, WebhookResolve,
       WebhookRefundRefused, WebhookRollback
  <2>3. calls' \in Nat /\ faults' \in Nat
    BY <2>2 DEF TypeOK
  <2>4. QED
    BY <1>1, <1>2, <2>1, <2>3 DEF TypeOK
<1>5. CASE Cancel(w)
  <2>1. [row EXCEPT !.intent = TRUE] \in Row
    BY Zenon, <1>3 DEF Row
  <2>2. row' \in Row
    BY Zenon, <1>3, <1>5, <2>1 DEF Cancel
  <2>3. UNCHANGED <<refCache, lease, evt, outbox, gp, hooks, seen, calls, faults>>
    BY <1>5 DEF Cancel
  <2>4. QED
    BY <1>1, <1>2, <2>2, <2>3 DEF TypeOK
<1>6. CASE InitiateRefund(w)
  <2>1. proc[w].snap \in Row
    BY <1>6, SnapType DEF InitiateRefund, At
  <2>2. Transitioned(proc[w].snap, "REFUND_PENDING") \in Row
    BY <2>1, TransitionedType DEF Status
  <2>3. UNCHANGED row \/ UpdateStatus(Transitioned(proc[w].snap, "REFUND_PENDING"))
    BY <1>6 DEF InitiateRefund
  <2>4. row' \in Row
    BY <1>3, <2>2, <2>3, UpdateStatusType
  <2>5. UNCHANGED <<refCache, lease, evt, outbox, gp, hooks, seen, calls, faults>>
    BY <1>6 DEF InitiateRefund
  <2>6. QED
    BY <1>1, <1>2, <2>4, <2>5 DEF TypeOK
<1>7. CASE WebhookCommit(w)
  <2>1. row' \in Row
    BY <1>7, HolderRow, UncommittedRow DEF WebhookCommit, At, Open
  <2>2. outbox' \subseteq [status : Announced, version : Nat]
    BY <1>3, <1>7, AnnounceType DEF WebhookCommit, TypeOK
  <2>3. TheHook(w) \in Hook
    BY Zenon, <1>7 DEF WebhookCommit, At, WorkersOK, WorkerOK, TheHook, Hook
  <2>4. seen' \subseteq Hook
    BY <1>7, <2>3 DEF WebhookCommit, TypeOK
  <2>5. UNCHANGED <<refCache, lease, evt, gp, hooks, calls, faults>>
    BY <1>7 DEF WebhookCommit
  <2>6. QED
    BY <1>1, <1>2, <2>1, <2>2, <2>4, <2>5 DEF TypeOK
<1>8. QED
  BY <1>1, <1>4, <1>5, <1>6, <1>7 DEF CancelActs, CancelStep

(* The answers that say paid stay backed: none is new.                       *)
LEMMA CancelReplies ==
    ASSUME TypeOK, RepliesBacked, NEW w \in Workers, CancelActs(w)
    PROVE  RepliesBacked' /\ Paid' = Paid
<1>1. UNCHANGED <<gp, hooks>>
  BY Zenon DEF CancelActs, CancelStep, CancelRequest, ClientCall, Cancel, ExistsByReason, InitiateRefund,
     WebhookCapture, WebhookResolve, WebhookRefundRefused, WebhookCommit, WebhookRollback
<1>2. proc \in [Workers -> Proc]
  BY DEF TypeOK
<1>3. ASSUME NEW p, proc' = [proc EXCEPT ![w] = p], p.resp \in {proc[w].resp, "none", "ok", "error"}
      PROVE  \A v \in Workers : proc'[v].resp = "succeeded" => proc[v].resp = "succeeded"
  BY <1>2, <1>3
<1>4. CASE \E result \in {"ok", "error"} : Return(w, result)
  <2>1. PICK result \in {"ok", "error"} : Return(w, result)
    BY <1>4
  <2> DEFINE q == [Idle EXCEPT !.op = "deliver", !.pc = "mark", !.resp = result, !.att = proc[w].att]
  <2>2. q.resp = result /\ Idle.resp = "none"
    BY DEF Idle
  <2>3. proc' = [proc EXCEPT ![w] = q] \/ proc' = [proc EXCEPT ![w] = Idle]
    BY Zenon, <2>1 DEF Return
  <2> HIDE DEF q
  <2>4. QED
    BY Zenon, <1>1, <1>3, <2>2, <2>3 DEF RepliesBacked, SaysPaid, Paid
<1>5. CASE \E op \in {"cancel", "resolve"} : Start(w, op, "load")
  <2>1. PICK op \in {"cancel", "resolve"} : Start(w, op, "load")
    BY <1>5
  <2>2. [Idle EXCEPT !.op = op, !.pc = "load"].resp = "none"
    BY DEF Idle
  <2>3. QED
    BY Zenon, <1>1, <1>3, <2>1, <2>2 DEF Start, RepliesBacked, SaysPaid, Paid
<1>6. CASE \E pc \in Open : Goto(w, pc)
  <2>1. PICK pc \in Open : Goto(w, pc)
    BY <1>6
  <2>2. [proc[w] EXCEPT !.pc = pc].resp = proc[w].resp
    BY <1>2 DEF Proc
  <2>3. QED
    BY Zenon, <1>1, <1>3, <2>1, <2>2 DEF Goto, RepliesBacked, SaysPaid, Paid
<1>7. QED
  BY Zenon, <1>4, <1>5, <1>6, CancelWorker DEF CancelMoves

-----------------------------------------------------------------------------
(* CopyOK, of the row r and n refunds.                                       *)
PhantomOf(t, r, n) ==
    /\ t.status = "CAPTURED" /\ r.intent
    /\ t.version <= r.version + 1
    /\ t.version = r.version + 1 => CanTransition(r, "CAPTURED")
    /\ t.version = r.version => n = 0

CopyWith(t, r, n) == AgreesWith(t, r) \/ PhantomOf(t, r, n)

(* A copy that agrees goes on agreeing.                                      *)
LEMMA AgreesStays ==
    ASSUME TypeOK, TypeOK', RowSteps, NEW t \in Row \cup {NoRow}, AgreesWith(t, row)
    PROVE  AgreesWith(t, row')
<1>1. row.version \in Nat /\ row \in Row /\ (t # NoRow => t.version \in Nat)
  BY DEF TypeOK, Row
<1>2. CASE Intends
  <2>1. row'.intent = TRUE /\ row'.version = row.version
    BY <1>1, <1>2 DEF Intends, Row
  <2>2. t = [row EXCEPT !.intent = t.intent] => t = [row' EXCEPT !.intent = t.intent]
    BY Zenon, <1>1, <1>2 DEF Intends, Row
  <2>3. QED
    BY <2>1, <2>2 DEF AgreesWith
<1>3. CASE Advances
  <2>1. row'.version = row.version + 1 /\ row'.intent = row.intent
    BY <1>3 DEF Advances
  <2>2. QED
    BY <1>1, <2>1 DEF AgreesWith
<1>4. QED
  BY <1>2, <1>3 DEF RowSteps

(* A copy stays in order: a write makes it out of date, or gives the version *)
(* of a copy that was rolled back to a row without a refund.                 *)
LEMMA CopyKept ==
    ASSUME TypeOK, TypeOK', RowSteps, NEW t \in Row \cup {NoRow}, CopyWith(t, row, refunds)
    PROVE  CopyWith(t, row', refunds')
<1>1. row.version \in Nat /\ row \in Row /\ (t # NoRow => t.version \in Nat)
  BY DEF TypeOK, Row
<1>2. CASE row' = row /\ refunds' = refunds
  BY <1>2
<1>3. CASE AgreesWith(t, row)
  BY <1>3, AgreesStays DEF CopyWith
<1>4. CASE PhantomOf(t, row, refunds) /\ Intends
  <2>1. /\ row'.intent = TRUE /\ row'.version = row.version /\ row'.status = row.status
        /\ refunds' = refunds
    BY <1>1, <1>4 DEF Intends, Row
  <2>2. CanTransition(row, "CAPTURED") => CanTransition(row', "CAPTURED")
    BY <2>1 DEF CanTransition
  <2>3. QED
    BY <1>4, <2>1, <2>2 DEF PhantomOf, CopyWith
<1>5. CASE PhantomOf(t, row, refunds) /\ Advances
  <2>1. /\ row'.version = row.version + 1 /\ row'.intent = row.intent
        /\ CanTransition(row, "CAPTURED") => refunds' = 0
    BY <1>5 DEF Advances
  <2>2. CASE t = NoRow
    BY <2>2 DEF AgreesWith, CopyWith
  <2>3. CASE t # NoRow
    BY <1>1, <1>5, <2>1, <2>3 DEF PhantomOf, CopyWith
  <2>4. QED
    BY <2>2, <2>3
<1>6. QED
  BY <1>2, <1>3, <1>4, <1>5 DEF RowSteps, CopyWith

(* So do all copies: those that are taken over, and new ones of the row.     *)
LEMMA CopiesKept ==
    ASSUME TypeOK, TypeOK', CopiesOK, RowSteps, \A v \in Workers : SnapFrom(v),
           CacheFrom \/ CopyWith(cache', row', refunds')
    PROVE  CopiesOK'
<1>1. row \in Row /\ row' \in Row /\ cache \in Row \cup {NoRow}
  BY DEF TypeOK
<1>2. /\ CopyWith(NoRow, row, refunds) /\ CopyWith(cache, row, refunds)
      /\ CopyWith(row, row, refunds)
      /\ \A w \in Workers : CopyWith(proc[w].snap, row, refunds)
  <2>1. row = [row EXCEPT !.intent = row.intent] /\ row.version \in Nat
    BY <1>1 DEF Row
  <2>2. AgreesWith(row, row) /\ AgreesWith(NoRow, row)
    BY <2>1 DEF AgreesWith
  <2>3. QED
    BY <2>2 DEF CopiesOK, CopyOK, Agrees, AgreesWith, Phantom, PhantomOf, CopyWith
<1>3. /\ CopyWith(NoRow, row', refunds') /\ CopyWith(cache, row', refunds')
      /\ CopyWith(row, row', refunds')
      /\ \A w \in Workers : CopyWith(proc[w].snap, row', refunds')
  <2>1. \A w \in Workers : proc[w].snap \in Row \cup {NoRow}
    BY Zenon, ProcFields
  <2>2. QED
    BY <1>1, <1>2, <2>1, CopyKept
<1>4. CopyWith(cache', row', refunds')
  BY <1>3 DEF CacheFrom
<1>5. ASSUME NEW w \in Workers
      PROVE  CopyWith(proc'[w].snap, row', refunds')
  <2>1. CASE proc'[w].snap \in {proc[w].snap, NoRow, cache, row}
    BY <1>3, <2>1
  <2>2. CASE /\ proc[w].snap # NoRow
             /\ proc'[w].snap = [row' EXCEPT !.intent = proc[w].snap.intent]
    <3>1. proc[w].snap.intent => row'.intent
      BY Zenon, <1>3, <2>2 DEF CopyWith, AgreesWith, PhantomOf
    <3>2. proc'[w].snap.version = row'.version /\ proc'[w].snap.intent = proc[w].snap.intent
      BY <1>1, <2>2 DEF Row
    <3>3. row'.version <= row'.version
      BY <1>1 DEF Row
    <3>4. QED
      BY <2>2, <3>1, <3>2, <3>3 DEF AgreesWith, CopyWith
  <2>3. SnapFrom(w)
    OBVIOUS
  <2>4. QED
    BY <2>1, <2>2, <2>3 DEF SnapFrom
<1>6. QED
  BY <1>4, <1>5 DEF CopiesOK, CopyOK, Agrees, AgreesWith, Phantom, PhantomOf, CopyWith

(* A resolution has its reason.                                              *)
Resolves(p) == p.pc = "captured" \/ p.op = "resolve"

(* A resolution keeps its reason, for nothing leads back from the capture.   *)
LEMMA ResolversKept ==
    ASSUME TypeOK, ResolversOK, RowSteps, Paid \subseteq Paid',
           \A v \in Workers : Resolves(proc'[v]) =>
              Resolves(proc[v]) \/ (row'.status = "CAPTURED" /\ row'.intent /\ Paid # {})
    PROVE  ResolversOK'
<1>1. ASSUME NEW v \in Workers, Resolves(proc'[v])
      PROVE  row'.intent /\ Paid' # {} /\ row'.status \in PastCapture
  <2>1. CASE row'.status = "CAPTURED" /\ row'.intent /\ Paid # {}
    BY <2>1 DEF PastCapture
  <2>2. CASE Resolves(proc[v])
    <3>1. row.intent /\ Paid # {} /\ row.status \in PastCapture
      BY <2>2 DEF ResolversOK, Resolves
    <3>2. Intends => row'.intent /\ row'.status = row.status
      BY DEF Intends, TypeOK, Row
    <3>3. QED
      BY Zenon, <3>1, <3>2 DEF RowSteps, Advances
  <2>3. QED
    BY <1>1, <2>1, <2>2
<1>2. QED
  BY <1>1 DEF ResolversOK, Resolves

(* There is one refund at most, of a payment that was paid and cancelled.    *)
LEMMA RefundedKept ==
    ASSUME TypeOK, RefundedOnce, refunds \in Nat, RowSteps, Paid \subseteq Paid'
    PROVE  RefundedOnce' /\ refunds' \in Nat
<1>1. Intends => row'.intent /\ row'.status = row.status /\ refunds' = refunds
  BY DEF Intends, TypeOK, Row
<1>2. QED
  BY <1>1 DEF RowSteps, Advances, RefundedOnce

-----------------------------------------------------------------------------
(* The lock. A worker outside of an open transaction takes a step.           *)
Passes(w) ==
    /\ \A v \in Workers \ {w} : proc'[v] = proc[v]
    /\ proc[w].pc \notin Open /\ proc'[w].pc \notin Open

(* It is outside of one once it has returned,                                *)
LEMMA ReturnPasses ==
    ASSUME TypeOK, NEW w \in Workers, NEW result, Return(w, result)
    PROVE  proc'[w].pc \notin Open /\ \A v \in Workers \ {w} : proc'[v] = proc[v]
<1> DEFINE q == [Idle EXCEPT !.op = "deliver", !.pc = "mark", !.resp = result, !.att = proc[w].att]
<1>1. q.pc = "mark" /\ Idle.pc = "idle"
  BY DEF Idle
<1>2. proc' = [proc EXCEPT ![w] = q] \/ proc' = [proc EXCEPT ![w] = Idle]
  BY Zenon DEF Return
<1> HIDE DEF q
<1>3. QED
  BY <1>1, <1>2 DEF TypeOK, Open

(* and when it starts.                                                       *)
LEMMA StartPasses ==
    ASSUME TypeOK, NEW w \in Workers, NEW op, Start(w, op, "load")
    PROVE  proc'[w].pc \notin Open /\ \A v \in Workers \ {w} : proc'[v] = proc[v]
<1> DEFINE q == [Idle EXCEPT !.op = op, !.pc = "load"]
<1>1. q.pc = "load" /\ proc' = [proc EXCEPT ![w] = q]
  BY DEF Idle, Start
<1> HIDE DEF q
<1>2. QED
  BY <1>1 DEF TypeOK, Open

(* The holder keeps the lock while others take their steps,                  *)
LEMMA HolderStays ==
    ASSUME TypeOK, HolderOK, lock' = lock, lock # NoWorker => row' = row,
           UNCHANGED proc \/ \E w \in Workers : Passes(w)
    PROVE  HolderOK' /\ (lock # NoWorker => proc'[lock] = proc[lock])
<1>1. \A v \in Workers : proc'[v].pc \in Open <=> proc[v].pc \in Open
  BY DEF Passes
<1>2. lock # NoWorker => lock \in Workers /\ proc[lock].pc \in Open
  BY DEF HolderOK, Open
<1>3. lock # NoWorker => proc'[lock] = proc[lock]
  BY <1>2 DEF Passes
<1>4. QED
  BY <1>1, <1>3 DEF HolderOK, Open

(* and gives it up when it ends.                                             *)
LEMMA HolderEnds ==
    ASSUME TypeOK, HolderOK, NEW w \in Workers, lock = w, lock' = NoWorker,
           \A v \in Workers \ {w} : proc'[v] = proc[v], proc'[w].pc \notin Open
    PROVE  HolderOK'
<1>1. \A v \in Workers : proc'[v].pc \notin Open
  BY DEF HolderOK, Open
<1>2. QED
  BY <1>1, NoWorkerAssumption DEF HolderOK, Open

(* It takes the lock with a copy of the row, and goes on with that copy.     *)
LEMMA HolderGoes ==
    ASSUME TypeOK, HolderOK, NEW w \in Workers, NEW pc \in Open, Goto(w, pc),
           lock \in {w, NoWorker}, lock' = w, row' = row,
           proc[w].op = "webhook", proc[w].snap = row, row.intent, CanTransition(row, "CAPTURED")
    PROVE  HolderOK' /\ proc'[w].snap = proc[w].snap
<1> DEFINE q == [proc[w] EXCEPT !.pc = pc]
<1>1. q.pc = pc /\ q.op = proc[w].op /\ q.snap = proc[w].snap
  BY DEF TypeOK, Proc
<1>2. proc' = [proc EXCEPT ![w] = q]
  BY Zenon DEF Goto
<1> HIDE DEF q
<1>3. /\ \A v \in Workers \ {w} : proc'[v] = proc[v]
      /\ proc'[w].pc = pc /\ proc'[w].op = proc[w].op /\ proc'[w].snap = proc[w].snap
  BY <1>1, <1>2 DEF TypeOK
<1>4. \A v \in Workers \ {w} : proc'[v].pc \notin Open
  BY <1>3, NoWorkerAssumption DEF HolderOK, Open
<1>5. CanTransition(row, "CAPTURED")'
  BY DEF CanTransition
<1>6. QED
  BY <1>3, <1>4, <1>5 DEF HolderOK, Open

(* A step of the payment flow.                                               *)
LEMMA FlowHolder ==
    ASSUME TypeOK, WorkersOK, HolderOK, FlowStep
    PROVE  /\ HolderOK'
           /\ lock = NoWorker => lock' = NoWorker
           /\ faults' = faults /\ lock # NoWorker => lock' = lock /\ proc'[lock] = proc[lock]
<1>1. UNCHANGED proc \/ \E w \in Workers : FlowMoves(w)
  BY NextFlow DEF FlowStep
<1>2. lock # NoWorker => row' = row /\ proc[lock].op = "webhook" /\ lock \in Workers
                         /\ proc[lock].pc \in Open
  BY DEF FlowStep, HolderOK, Open
<1>3. Idle.op = "idle" /\ Idle.pc = "idle"
  BY DEF Idle
<1>4. CASE UNCHANGED proc \/ \E w \in Workers : Passes(w)
  <2>1. lock # NoWorker => proc'[lock] = proc[lock]
    BY <1>2, <1>4 DEF Passes
  <2>2. lock' = lock
    BY <1>2, <1>3, <2>1 DEF FlowStep
  <2>3. QED
    BY <1>2, <1>4, <2>1, <2>2, HolderStays
<1>5. ASSUME NEW w \in Workers, FlowMoves(w), ~ Passes(w)
      PROVE  HolderOK' /\ lock # NoWorker /\ faults' # faults
  <2>1. proc[w].pc \in Open /\ Crash(w)
    BY <1>5 DEF FlowMoves, Passes
  <2>2. lock = w /\ lock # NoWorker
    BY <2>1, HolderRow
  <2>3. faults' = faults + 1 /\ proc' = [proc EXCEPT ![w] = Idle] /\ faults \in Nat
    BY <2>1 DEF Crash, TypeOK
  <2>4. proc'[w] = Idle /\ \A v \in Workers \ {w} : proc'[v] = proc[v]
    BY <2>3 DEF TypeOK
  <2>5. lock' = NoWorker
    BY <2>2, <2>4 DEF FlowStep
  <2>6. HolderOK'
    BY <1>3, <2>2, <2>4, <2>5, HolderEnds DEF Open
  <2>7. QED
    BY <2>2, <2>3, <2>6
<1>6. QED
  BY <1>1, <1>4, <1>5

(* A cancel or a resolution: the holder keeps its copy, or ends.             *)
HeldOn == row' = row /\ lock' = lock /\ proc'[lock].snap = proc[lock].snap

(* The lock stays with its holder, or is given up.                           *)
LEMMA CancelHolder ==
    ASSUME TypeOK, WorkersOK, HolderOK, CopiesOK, NEW w \in Workers, CancelActs(w)
    PROVE  /\ HolderOK'
           /\ lock # NoWorker => HeldOn \/ WebhookCommit(w) \/ WebhookRollback(w)
<1>1. CASE CancelRequest(w)
  <2>1. Start(w, "cancel", "load") /\ proc[w].pc = "idle" /\ row' = row /\ lock' = lock
    BY <1>1 DEF CancelRequest, ClientCall, Idle
  <2>2. Passes(w)
    BY <2>1, StartPasses DEF Passes, Open
  <2>3. QED
    BY <2>1, <2>2, HolderStays DEF HeldOn
<1>2. CASE Cancel(w)
  <2>1. Return(w, "ok") /\ proc[w].pc = "loaded" /\ lock' = lock
    BY <1>2 DEF Cancel, At
  <2>2. Passes(w)
    BY <2>1, ReturnPasses DEF Passes, Open
  <2>3. ASSUME lock # NoWorker PROVE row' = row
    <3>1. row.intent = TRUE /\ row \in Row
      BY <2>3 DEF HolderOK, TypeOK, Row
    <3>2. row = [row EXCEPT !.intent = TRUE]
      BY <3>1 DEF Row
    <3>3. QED
      BY Zenon, <1>2, <3>2 DEF Cancel
  <2>4. QED
    BY <2>1, <2>2, <2>3, HolderStays DEF HeldOn
<1>3. CASE ExistsByReason(w)
  <2>1. row' = row /\ lock' = lock /\ proc[w].pc = "captured"
    BY <1>3 DEF ExistsByReason
  <2>2. Passes(w)
    BY <1>3, <2>1, ReturnPasses, StartPasses DEF ExistsByReason, Passes, Open
  <2>3. QED
    BY <2>1, <2>2, HolderStays DEF HeldOn
<1>4. CASE lock = NoWorker /\ InitiateRefund(w)
  <2>1. Return(w, "ok") /\ proc[w].pc = "loaded" /\ lock' = lock
    BY Zenon, <1>4 DEF InitiateRefund, At
  <2>2. Passes(w)
    BY <2>1, ReturnPasses DEF Passes, Open
  <2>3. QED
    BY <1>4, <2>1, <2>2, HolderStays
<1>5. CASE WebhookCapture(w)
  <2>1. row' = row /\ proc[w].pc = "loaded" /\ proc[w].op = "webhook"
    BY Zenon, <1>5 DEF WebhookCapture, At
  <2>2. CASE ~ Current(w)
    <3>1. Return(w, "ok") /\ lock' = lock
      BY <1>5, <2>2 DEF WebhookCapture
    <3>2. Passes(w)
      BY <2>1, <3>1, ReturnPasses DEF Passes, Open
    <3>3. QED
      BY Zenon, <2>1, <3>1, <3>2, HolderStays DEF HeldOn
  <2>3. CASE Current(w)
    <3>1. lock = NoWorker /\ lock' = w /\ Goto(w, "resolving")
      BY <1>5, <2>3 DEF WebhookCapture
    <3> DEFINE t == proc[w].snap
    <3>2. t \in Row /\ t # NoRow
      BY <2>1, SnapType, NoRowAssumption
    <3>3. row \in Row
      BY DEF TypeOK
    <3>4. t.status # "CAPTURED" /\ CanTransition(t, "CAPTURED") /\ t.intent /\ t.version = row.version
      BY <1>5, <2>3 DEF WebhookCapture, HookApplies, Current
    <3>5. Agrees(t)
      BY Zenon, <3>4 DEF CopiesOK, CopyOK, Phantom
    <3>6. row.intent /\ t = [row EXCEPT !.intent = t.intent]
      BY <3>2, <3>4, <3>5 DEF Agrees
    <3>7. t.intent = TRUE /\ row.intent = TRUE
      BY <3>2, <3>4, <3>6, <3>3 DEF Row
    <3>8. t = row
      BY <3>2, <3>6, <3>7, <3>3 DEF Row
    <3>9. QED
      BY <2>1, <3>1, <3>4, <3>6, <3>8, HolderGoes DEF Open
  <2>4. QED
    BY <2>2, <2>3
<1>6. CASE WebhookResolve(w) \/ WebhookRefundRefused(w)
  <2>1. row' = row /\ lock' = lock /\ proc[w].pc \in Open /\ proc[w].op = "webhook"
    BY <1>6 DEF WebhookResolve, WebhookRefundRefused, VersionConflict, At, Open
  <2>2. PICK pc \in Open : Goto(w, pc)
    BY <1>6 DEF WebhookResolve, WebhookRefundRefused, Open
  <2>3. lock = w /\ proc[w].snap = row /\ row.intent /\ CanTransition(row, "CAPTURED")
    BY <2>1, HolderRow
  <2>4. QED
    BY <2>1, <2>2, <2>3, HolderGoes DEF HeldOn
<1>7. CASE WebhookCommit(w) \/ WebhookRollback(w)
  <2>1. lock = w /\ lock' = NoWorker
    BY <1>7, HolderRow DEF WebhookCommit, WebhookRollback, At, Open
  <2>2. PICK result : Return(w, result)
    BY <1>7 DEF WebhookCommit, WebhookRollback
  <2>3. QED
    BY <1>7, <2>1, <2>2, ReturnPasses, HolderEnds
<1>8. QED
  BY <1>1, <1>2, <1>3, <1>4, <1>5, <1>6, <1>7 DEF CancelActs, CancelStep

-----------------------------------------------------------------------------
(* Copies while a transaction is open. A copy agrees with the row r or is    *)
(* the row u that is about to be committed.                                  *)
Pends(t, r, u) == AgreesWith(t, r) \/ t = u

(* Copies go on pending while the transaction stays open.                    *)
LEMMA PendingKept ==
    ASSUME TypeOK, row' = row, NEW u \in Row, u.intent = row.intent,
           Pends(cache, row, u), \A v \in Workers : Pends(proc[v].snap, row, u),
           \A v \in Workers : SnapFrom(v), CacheFrom \/ cache' = u
    PROVE  Pends(cache', row, u) /\ \A v \in Workers : Pends(proc'[v].snap, row, u)
<1>1. row \in Row /\ u # NoRow
  BY NoRowAssumption DEF TypeOK
<1>2. row = [row EXCEPT !.intent = row.intent] /\ row.version \in Nat
  BY <1>1 DEF Row
<1>3. Pends(row, row, u) /\ Pends(NoRow, row, u)
  BY <1>2 DEF AgreesWith, Pends
<1>4. Pends(cache', row, u)
  BY <1>3 DEF CacheFrom, Pends
<1>5. ASSUME NEW v \in Workers
      PROVE  Pends(proc'[v].snap, row, u)
  <2>1. CASE proc'[v].snap \in {proc[v].snap, NoRow, cache, row}
    BY <1>3, <2>1
  <2>2. CASE /\ proc[v].snap # NoRow
             /\ proc'[v].snap = [row' EXCEPT !.intent = proc[v].snap.intent]
    <3>1. proc[v].snap.intent => row.intent
      BY Zenon, <2>2 DEF Pends, AgreesWith
    <3>2. proc'[v].snap.version = row.version /\ proc'[v].snap.intent = proc[v].snap.intent
      BY <1>1, <2>2 DEF Row
    <3>3. QED
      BY <1>2, <2>2, <3>1, <3>2 DEF AgreesWith, Pends
  <2>3. SnapFrom(v)
    OBVIOUS
  <2>4. QED
    BY <2>1, <2>2, <2>3 DEF SnapFrom
<1>6. QED
  BY <1>4, <1>5

(* The row about to be committed stays the same.                             *)
LEMMA UncommittedSame ==
    ASSUME NEW l, row' = row, proc'[l].snap = proc[l].snap
    PROVE  Uncommitted(l)' = Uncommitted(l)
BY DEF Uncommitted

(* A step while a transaction stays open.                                    *)
LEMMA OpenPending ==
    ASSUME TypeOK, HolderOK, CopiesAgreeOrPending, lock # NoWorker, HeldOn, faults = 0,
           \A v \in Workers : SnapFrom(v), CacheFrom \/ cache' = Uncommitted(lock)
    PROVE  CopiesAgreeOrPending'
<1> DEFINE u == Uncommitted(lock)
<1>1. lock \in Workers /\ proc[lock].snap \in Row
  BY DEF HolderOK, TypeOK
<1>2. u \in Row /\ u.intent = row.intent
  BY <1>1, UncommittedRow
<1>3. Uncommitted(lock)' = u
  BY UncommittedSame DEF HeldOn
<1> HIDE DEF u
<1>4. Pends(cache, row, u) /\ \A v \in Workers : Pends(proc[v].snap, row, u)
  BY DEF CopiesAgreeOrPending, CopyAgrees, Agrees, AgreesWith, Pends, u
<1>5. Pends(cache', row, u) /\ \A v \in Workers : Pends(proc'[v].snap, row, u)
  BY <1>2, <1>4, PendingKept DEF HeldOn, u
<1>6. QED
  BY <1>3, <1>5 DEF CopiesAgreeOrPending, CopyAgrees, Agrees, AgreesWith, Pends, HeldOn

-----------------------------------------------------------------------------
(* The faults are counted.                                                   *)
LEMMA FaultsCounted == TypeOK /\ [Next]_vars => faults' \in {faults, faults + 1}
<1>1. ASSUME NEW w \in Workers, Proceed(w)
      PROVE  faults' = faults
  BY Zenon, <1>1 DEF Proceed, CacheHit, CacheMiss, CacheFill, TryAcquireDirect, PrepareFails,
     InitiateFails, InitiateCommit, InitiateAbort, MarkPublished, MarkFailed, MarkExhausted,
     BeginProcessing, BeginRejected, Finalize, FinalizeRejected, LeaveProcessing, Settle,
     RecoverSkip, CheckStatus, InitiatePayment, CapturePayment, RequestFails, Reply,
     GetByGatewayReference, WebhookDrop, WebhookApply
<1>2. ASSUME NEW w \in Workers, Crash(w) \/ StatementFails(w)
      PROVE  faults' = faults + 1
  BY <1>2 DEF Crash, StatementFails
<1>3. ASSUME NEW w \in Workers, \/ \E op \in ApiCalls : ClientCall(w, op)
                                \/ RelayClaim(w) \/ ReaperList(w)
                                \/ \E h \in hooks : RecordEvent(w, h)
      PROVE  faults' = faults
  BY Zenon, <1>3 DEF ClientCall, RelayClaim, ReaperList, RecordEvent
<1>4. ASSUME NEW r \in Refs, RefCacheExpires(r) \/ \E s \in Decisions : GatewayDecide(r, s)
      PROVE  faults' = faults
  BY <1>4 DEF RefCacheExpires, GatewayDecide
<1>5. CacheExpires \/ DeleteExpired \/ UNCHANGED vars => faults' = faults
  BY DEF CacheExpires, DeleteExpired, vars
<1>6. QED
  BY <1>1, <1>2, <1>3, <1>4, <1>5 DEF Next

(* While the lock is free, CopiesAgreeOrPending is SnapshotsAgree.           *)
LEMMA FreeAgrees ==
    /\ CopiesAgreeOrPending /\ faults = 0 /\ lock = NoWorker => SnapshotsAgree
    /\ SnapshotsAgree => CopiesAgreeOrPending
BY DEF CopiesAgreeOrPending, CopyAgrees, SnapshotsAgree

(* A step of the payment flow.                                               *)
LEMMA FlowPending ==
    ASSUME TypeOK, TypeOK', WorkersOK, HolderOK, CopiesAgreeOrPending, FlowStep
    PROVE  CopiesAgreeOrPending'
<1>1. SUFFICES ASSUME faults' = 0
               PROVE  CopiesAgreeOrPending'
  BY DEF CopiesAgreeOrPending
<1>2. [Next]_vars
  BY DEF FlowStep
<1>3. faults = 0
  BY <1>1, <1>2, FaultsCounted DEF TypeOK
<1>4. CASE lock = NoWorker
  <2>1. SnapshotsAgree
    BY <1>3, <1>4, FreeAgrees
  <2>2. SnapshotsAgree'
    BY <1>2, <2>1, NextSnapshots
  <2>3. QED
    BY <2>2 DEF CopiesAgreeOrPending, CopyAgrees, SnapshotsAgree
<1>5. CASE lock # NoWorker
  <2>1. lock' = lock /\ proc'[lock] = proc[lock] /\ row' = row
    BY <1>1, <1>3, <1>5, FlowHolder DEF FlowStep
  <2>2. HeldOn
    BY <2>1 DEF HeldOn
  <2>3. QED
    BY <1>2, <1>3, <1>5, <2>2, NextSnaps, NextCache, OpenPending
<1>6. QED
  BY <1>4, <1>5

(* A cancel or a resolution.                                                 *)
LEMMA CancelPending ==
    ASSUME TypeOK, TypeOK', WorkersOK, HolderOK, CopiesOK, CopiesAgreeOrPending, RowSteps,
           NEW w \in Workers, CancelActs(w)
    PROVE  CopiesAgreeOrPending'
<1>1. SUFFICES ASSUME faults' = 0
               PROVE  CopiesAgreeOrPending'
  BY DEF CopiesAgreeOrPending
<1>2. ~ WebhookRollback(w) /\ faults = 0
  <2>1. WebhookRollback(w) => faults' = faults + 1
    BY DEF WebhookRollback
  <2>2. ~ WebhookRollback(w) => faults' = faults
    BY Zenon DEF CancelActs, CancelStep, CancelRequest, ClientCall, Cancel, ExistsByReason,
       InitiateRefund, WebhookCapture, WebhookResolve, WebhookRefundRefused, WebhookCommit
  <2>3. QED
    BY <1>1, <2>1, <2>2 DEF TypeOK
<1>3. \A v \in Workers : proc'[v].snap \in {proc[v].snap, NoRow}
  BY CancelWorker, CancelSnaps
<1>4. AgreesWith(NoRow, row')
  BY DEF AgreesWith
<1>5. /\ cache \in Row \cup {NoRow}
      /\ \A v \in Workers : proc[v].snap \in Row \cup {NoRow}
  BY ProcFields DEF TypeOK
<1>6. CASE lock = NoWorker
  <2>1. AgreesWith(cache, row) /\ \A v \in Workers : AgreesWith(proc[v].snap, row)
    BY <1>2, <1>6, FreeAgrees DEF SnapshotsAgree, Agrees, AgreesWith
  <2>2. AgreesWith(cache, row') /\ \A v \in Workers : AgreesWith(proc[v].snap, row')
    BY <1>5, <2>1, AgreesStays
  <2>3. cache' \in {cache, NoRow}
    BY Zenon, <1>6, CancelCache, HolderRow DEF Open
  <2>4. AgreesWith(cache', row') /\ \A v \in Workers : AgreesWith(proc'[v].snap, row')
    BY <1>3, <1>4, <2>2, <2>3
  <2>5. QED
    BY <2>4 DEF CopiesAgreeOrPending, CopyAgrees, Agrees, AgreesWith
<1>7. CASE WebhookCommit(w)
  <2>1. lock = w /\ lock # NoWorker
    BY <1>7, HolderRow DEF WebhookCommit, At, Open
  <2>2. row' = Uncommitted(w) /\ cache' = cache
    BY <1>7 DEF WebhookCommit
  <2>3. \A t \in Row \cup {NoRow} : CopyAgrees(t) => AgreesWith(t, row')
    <3>1. row' \in Row
      BY DEF TypeOK
    <3>2. row' = [row' EXCEPT !.intent = row'.intent] /\ row'.version <= row'.version
      BY <3>1 DEF Row
    <3>3. AgreesWith(row', row')
      BY <3>2 DEF AgreesWith
    <3>4. \A t \in Row \cup {NoRow} : AgreesWith(t, row) => AgreesWith(t, row')
      BY AgreesStays
    <3>5. QED
      BY <2>1, <2>2, <3>3, <3>4 DEF CopyAgrees, Agrees, AgreesWith
  <2>4. AgreesWith(cache', row') /\ \A v \in Workers : AgreesWith(proc'[v].snap, row')
    BY <1>2, <1>3, <1>4, <1>5, <2>2, <2>3 DEF CopiesAgreeOrPending
  <2>5. QED
    BY <2>4 DEF CopiesAgreeOrPending, CopyAgrees, Agrees, AgreesWith
<1>8. CASE lock # NoWorker /\ ~ WebhookCommit(w)
  <2>1. HeldOn
    BY <1>2, <1>8, CancelHolder
  <2>2. \A v \in Workers : SnapFrom(v)
    BY <1>3 DEF SnapFrom
  <2>3. CacheFrom \/ cache' = Uncommitted(lock)
    <3>1. proc[w].pc = "resolving" => lock = w
      BY HolderRow DEF Open
    <3>2. QED
      BY <3>1, CancelCache DEF CacheFrom
  <2>4. QED
    BY <1>2, <1>8, <2>1, <2>2, <2>3, OpenPending
<1>9. QED
  BY <1>6, <1>7, <1>8

-----------------------------------------------------------------------------
(* The invariant of cancels holds at first: no copies, no refund, no lock.   *)
LEMMA InitCancel == CInit => CInv
<1>1. SUFFICES ASSUME CInit
               PROVE  CInv
  OBVIOUS
<1>2. Init /\ refunds = 0 /\ lock = NoWorker
  BY <1>1 DEF CInit
<1>3. cache = NoRow /\ \A w \in Workers : proc[w] = Idle
  BY <1>2 DEF Init
<1>4. Idle.op = "idle" /\ Idle.pc = "idle" /\ Idle.snap = NoRow
  BY DEF Idle
<1>5. SnapshotsAgree
  BY <1>2, InitSnapshots
<1>6. HolderOK
  BY <1>2, <1>3, <1>4, NoWorkerAssumption DEF HolderOK
<1>7. CopiesOK /\ CopiesAgreeOrPending
  BY <1>5, FreeAgrees DEF CopiesOK, CopyOK, SnapshotsAgree
<1>8. ResolversOK /\ refunds \in Nat /\ RefundedOnce
  BY <1>2, <1>3, <1>4 DEF ResolversOK, RefundedOnce
<1>9. QED
  BY <1>2, <1>6, <1>7, <1>8, InitType, InitWorkers, InitBacked DEF CInv

(* A step of the payment flow keeps the invariant, and changes the row as    *)
(* RowSteps says.                                                            *)
LEMMA FlowCancel ==
    ASSUME CInv, FlowStep
    PROVE  CInv' /\ RowSteps
<1>1. /\ TypeOK /\ WorkersOK /\ RepliesBacked /\ HolderOK /\ CopiesOK /\ ResolversOK
      /\ refunds \in Nat /\ RefundedOnce /\ CopiesAgreeOrPending
  BY DEF CInv
<1>2. [Next]_vars /\ refunds' = refunds
  BY DEF FlowStep
<1>3. TypeOK' /\ WorkersOK'
  BY <1>1, <1>2, NextType, NextWorkers
<1>4. RepliesBacked' /\ Paid \subseteq Paid'
  BY <1>1, <1>2, NextReplies
<1>5. RowSteps
  BY <1>1, <1>2, FlowRow DEF RowSteps
<1>6. HolderOK'
  BY <1>1, FlowHolder
<1>7. CopiesOK'
  BY <1>1, <1>2, <1>3, <1>5, NextSnaps, NextCache, CopiesKept
<1>8. ASSUME NEW v \in Workers, Resolves(proc'[v]), ~ Resolves(proc[v])
      PROVE  row'.status = "CAPTURED" /\ row'.intent /\ Paid # {}
  <2>1. PICK w \in Workers : FlowMoves(w)
    BY <1>1, <1>2, <1>8, NextFlow
  <2>2. v = w /\ Owes(w)
    BY <1>8, <2>1 DEF FlowMoves, Resolves
  <2>3. QED
    BY <1>1, <2>2, OwingRow
<1>9. ResolversOK'
  BY <1>1, <1>4, <1>5, <1>8, ResolversKept
<1>10. RefundedOnce' /\ refunds' \in Nat
  BY <1>1, <1>4, <1>5, RefundedKept
<1>11. CopiesAgreeOrPending'
  BY <1>1, <1>3, FlowPending
<1>12. QED
  BY <1>3, <1>4, <1>5, <1>6, <1>7, <1>9, <1>10, <1>11 DEF CInv

(* A resolution is only started by a worker that owes it.                    *)
LEMMA CancelResolves ==
    ASSUME TypeOK, NEW w \in Workers, CancelActs(w)
    PROVE  \A v \in Workers : Resolves(proc'[v]) => Resolves(proc[v])
<1>1. proc \in [Workers -> Proc]
  BY DEF TypeOK
<1>2. ASSUME NEW p, proc' = [proc EXCEPT ![w] = p], Resolves(p) => Resolves(proc[w])
      PROVE  \A v \in Workers : Resolves(proc'[v]) => Resolves(proc[v])
  BY <1>1, <1>2 DEF Resolves
<1>3. ASSUME NEW result, Return(w, result)
      PROVE  \A v \in Workers : Resolves(proc'[v]) => Resolves(proc[v])
  <2> DEFINE q == [Idle EXCEPT !.op = "deliver", !.pc = "mark", !.resp = result, !.att = proc[w].att]
  <2>1. q.op = "deliver" /\ q.pc = "mark" /\ Idle.op = "idle" /\ Idle.pc = "idle"
    BY DEF Idle
  <2>2. proc' = [proc EXCEPT ![w] = q] \/ proc' = [proc EXCEPT ![w] = Idle]
    BY Zenon, <1>3 DEF Return
  <2> HIDE DEF q
  <2>3. ~ Resolves(q) /\ ~ Resolves(Idle)
    BY <2>1 DEF Resolves
  <2>4. QED
    BY Zenon, <1>2, <2>2, <2>3
<1>4. CASE CancelRequest(w)
  <2>1. Start(w, "cancel", "load")
    BY <1>4 DEF CancelRequest, ClientCall
  <2> DEFINE q == [Idle EXCEPT !.op = "cancel", !.pc = "load"]
  <2>2. proc' = [proc EXCEPT ![w] = q] /\ q.op = "cancel" /\ q.pc = "load"
    BY <2>1 DEF Start, Idle
  <2> HIDE DEF q
  <2>3. QED
    BY <1>2, <2>2 DEF Resolves
<1>5. CASE ExistsByReason(w)
  <2>1. Resolves(proc[w])
    BY <1>5 DEF ExistsByReason, Resolves
  <2>2. PICK p : proc' = [proc EXCEPT ![w] = p]
    BY Zenon, <1>5 DEF ExistsByReason, Return, Start
  <2>3. QED
    BY <1>2, <2>1, <2>2
<1>6. CASE Cancel(w) \/ InitiateRefund(w) \/ WebhookCommit(w) \/ WebhookRollback(w)
  BY Zenon, <1>3, <1>6 DEF Cancel, InitiateRefund, WebhookCommit, WebhookRollback
<1>7. CASE WebhookCapture(w) \/ WebhookResolve(w) \/ WebhookRefundRefused(w)
  <2>1. ASSUME NEW pc \in Open, Goto(w, pc)
        PROVE  \A v \in Workers : Resolves(proc'[v]) => Resolves(proc[v])
    <3> DEFINE q == [proc[w] EXCEPT !.pc = pc]
    <3>1. q.op = proc[w].op /\ q.pc = pc
      BY <1>1 DEF Proc
    <3>2. proc' = [proc EXCEPT ![w] = q]
      BY Zenon, <2>1 DEF Goto
    <3> HIDE DEF q
    <3>3. QED
      BY <1>2, <3>1, <3>2 DEF Resolves, Open
  <2>2. (\E pc \in Open : Goto(w, pc)) \/ Return(w, "ok")
    BY <1>7 DEF WebhookCapture, WebhookResolve, WebhookRefundRefused, Open
  <2>3. QED
    BY Zenon, <1>3, <2>1, <2>2
<1>8. QED
  BY Zenon, <1>4, <1>5, <1>6, <1>7 DEF CancelActs, CancelStep

(* A cancel or a resolution keeps the invariant, and changes the row as      *)
(* RowSteps says.                                                            *)
LEMMA ActCancel ==
    ASSUME CInv, NEW w \in Workers, CancelActs(w)
    PROVE  CInv' /\ RowSteps
<1>1. /\ TypeOK /\ WorkersOK /\ RepliesBacked /\ HolderOK /\ CopiesOK /\ ResolversOK
      /\ refunds \in Nat /\ RefundedOnce /\ CopiesAgreeOrPending
  BY DEF CInv
<1>2. TypeOK' /\ WorkersOK'
  BY <1>1, CancelTypes
<1>3. RepliesBacked' /\ Paid' = Paid
  BY <1>1, CancelReplies
<1>4. RowSteps
  BY <1>1, CancelRow
<1>5. HolderOK'
  BY <1>1, CancelHolder
<1>6. CopiesOK'
  <2>1. \A v \in Workers : SnapFrom(v)
    BY <1>1, CancelWorker, CancelSnaps DEF SnapFrom
  <2>2. CASE cache' \in {cache, NoRow}
    BY <1>1, <1>2, <1>4, <2>1, <2>2, CopiesKept DEF CacheFrom
  <2>3. CASE cache' = Uncommitted(w) /\ proc[w].pc = "resolving" /\ row' = row /\ refunds' = refunds
    <3>1. proc[w].snap = row /\ row \in Row /\ row.intent /\ CanTransition(row, "CAPTURED")
      BY <1>1, <2>3, HolderRow DEF Open
    <3>2. cache'.status = "CAPTURED" /\ cache'.version = row.version + 1 /\ row.version \in Nat
      BY Zenon, <1>1, <2>3, <3>1, UncommittedRow DEF Row
    <3>3. PhantomOf(cache', row', refunds')
      BY <2>3, <3>1, <3>2 DEF PhantomOf
    <3>4. QED
      BY <1>1, <1>2, <1>4, <2>1, <3>3, CopiesKept DEF CopyWith
  <2>4. QED
    BY <2>2, <2>3, CancelCache
<1>7. ResolversOK'
  BY Zenon, <1>1, <1>3, <1>4, CancelResolves, ResolversKept
<1>8. RefundedOnce' /\ refunds' \in Nat
  BY <1>1, <1>3, <1>4, RefundedKept
<1>9. CopiesAgreeOrPending'
  BY <1>1, <1>2, <1>4, CancelPending
<1>10. QED
  BY <1>2, <1>3, <1>4, <1>5, <1>6, <1>7, <1>8, <1>9 DEF CInv

(* So every step keeps it.                                                   *)
LEMMA NextCancel == CInv /\ [CNext]_cvars => CInv' /\ RowSteps
<1>1. CInv /\ UNCHANGED cvars => CInv' /\ RowSteps
  BY DEF cvars, RowSteps, CInv, TypeOK, WorkersOK, WorkerOK, RepliesBacked, SaysPaid, Paid, HolderOK,
     CopiesOK, CopyOK, Agrees, Phantom, CanTransition, ResolversOK, RefundedOnce, CopiesAgreeOrPending,
     CopyAgrees, Uncommitted, Transitioned
<1>2. QED
  BY <1>1, FlowCancel, ActCancel DEF CNext, CancelActs

(* The invariant of cancels holds in every state.                            *)
LEMMA CancelInvariant == CSpec => []CInv
BY InitCancel, NextCancel, PTL DEF CSpec

(* A recorded cancel intent is never lost: updates of the status do not      *)
(* write it, and the commit of a webhook takes it from the row.              *)
THEOREM IntentsKept == CSpec => IntentKept
<1>1. TypeOK /\ RowSteps => (row.intent => row'.intent)
  BY Zenon DEF RowSteps, Intends, Advances, TypeOK, Row
<1>2. CInv /\ [CNext]_cvars => [row.intent => row'.intent]_cvars
  BY <1>1, NextCancel DEF CInv
<1>3. QED
  BY <1>2, CancelInvariant, PTL DEF CSpec, IntentKept

(* A cancelled payment is refunded at most once, only if it was paid, and is *)
(* then neither settled nor captured again.                                  *)
THEOREM RefundsOnce == CSpec => []RefundedOnce
<1>1. CInv => RefundedOnce
  BY DEF CInv
<1>2. QED
  BY <1>1, CancelInvariant, PTL

(* Without a crash or a rollback, every copy agrees with the row or is the   *)
(* row that the open webhook transaction is about to commit.                 *)
THEOREM PendingCopies == CSpec => []CopiesAgreeOrPending
<1>1. CInv => CopiesAgreeOrPending
  BY DEF CInv
<1>2. QED
  BY <1>1, CancelInvariant, PTL
=============================================================================
