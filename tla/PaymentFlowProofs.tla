-------------------------- MODULE PaymentFlowProofs --------------------------
(***************************************************************************)
(* Proofs about PaymentFlow, for every set of workers and references and   *)
(* every value of the bounds: the types, the copies of the payment, the    *)
(* status transitions and the events that announce them; then its dealings *)
(* with the gateway: one call at a time, captures backed by money at the   *)
(* gateway and known by the payment's own reference, and the fields that   *)
(* go with a status.                                                       *)
(***************************************************************************)
EXTENDS PaymentFlow, TLAPS

(* A worker that rests has the type of one.                                  *)
LEMMA IdleType == Idle \in Proc
BY DEF Idle, Proc, Ops, Steps, Answers, GatewayStatus

(* So has one that returns.                                                  *)
LEMMA ReturnType ==
    ASSUME TypeOK, NEW w \in Workers, NEW result \in Answers, Return(w, result)
    PROVE  proc' \in [Workers -> Proc]
<1>1. proc[w].att \in Nat
  BY DEF TypeOK, Proc
<1>2. [Idle EXCEPT !.op = "deliver", !.pc = "mark", !.resp = result, !.att = proc[w].att] \in Proc
  BY Zenon, <1>1, IdleType DEF Proc, Ops, Steps
<1>3. QED
  BY <1>2, IdleType DEF Return, TypeOK

(* Transitioned keeps a row a row. *)
LEMMA TransitionedType ==
    ASSUME NEW t \in Row, NEW s \in Status
    PROVE  Transitioned(t, s) \in Row
BY Zenon DEF Transitioned, Row

(* UpdateStatus writes a row, and a row or nothing to the cache.             *)
LEMMA UpdateStatusType ==
    ASSUME TypeOK, NEW t \in Row, UpdateStatus(t)
    PROVE  row' \in Row /\ cache' \in Row \cup {NoRow}
<1>1. row.intent \in BOOLEAN
  BY DEF TypeOK, Row
<1>2. t.version + 1 \in Nat
  BY DEF Row
<1>3. [t EXCEPT !.version = t.version + 1, !.intent = row.intent] \in Row
  BY Zenon, <1>1, <1>2 DEF Row
<1>4. QED
  BY <1>3 DEF UpdateStatus

(* The fields of a worker. *)
LEMMA ProcFields ==
    ASSUME TypeOK, NEW w \in Workers
    PROVE  /\ proc[w] \in Proc
           /\ proc[w].op \in Ops /\ proc[w].pc \in Steps
           /\ proc[w].snap \in Row \cup {NoRow}
           /\ proc[w].resp \in Answers
           /\ proc[w].ref \in Refs \cup {NoRef}
           /\ proc[w].att \in Nat
BY DEF TypeOK, Proc

(* Changing the fields of one worker keeps proc well typed. *)
LEMMA GotoType ==
    ASSUME TypeOK, NEW w \in Workers, NEW pc \in Steps, Goto(w, pc)
    PROVE  proc' \in [Workers -> Proc]
BY DEF TypeOK, Proc, Goto

(* A worker that loads the payment.                                          *)
LEMMA SnapUpdate ==
    ASSUME TypeOK, NEW w \in Workers, NEW pc \in Steps, NEW t \in Row \cup {NoRow}
    PROVE  [proc EXCEPT ![w] = [@ EXCEPT !.pc = pc, !.snap = t]] \in [Workers -> Proc]
BY Zenon DEF TypeOK, Proc

(* A worker that is answered by the gateway.                                 *)
LEMMA RespUpdate ==
    ASSUME TypeOK, NEW w \in Workers, NEW pc \in Steps, NEW answer \in Answers
    PROVE  [proc EXCEPT ![w] = [@ EXCEPT !.pc = pc, !.resp = answer]] \in [Workers -> Proc]
BY Zenon DEF TypeOK, Proc

(* A worker that is given a reference.                                       *)
LEMMA RefUpdate ==
    ASSUME TypeOK, NEW w \in Workers, NEW pc \in Steps, NEW r \in Refs \cup {NoRef}
    PROVE  [proc EXCEPT ![w] = [@ EXCEPT !.pc = pc, !.ref = r]] \in [Workers -> Proc]
BY Zenon DEF TypeOK, Proc

(* A worker that is given both.                                              *)
LEMMA RespRefUpdate ==
    ASSUME TypeOK, NEW w \in Workers, NEW pc \in Steps, NEW answer \in Answers,
           NEW r \in Refs \cup {NoRef}
    PROVE  [proc EXCEPT ![w] = [@ EXCEPT !.pc = pc, !.resp = answer, !.ref = r]] \in [Workers -> Proc]
BY Zenon DEF TypeOK, Proc

(* Any other new state of a worker.                                          *)
LEMMA WorkerUpdate ==
    ASSUME TypeOK, NEW w \in Workers, NEW p \in Proc
    PROVE  [proc EXCEPT ![w] = p] \in [Workers -> Proc]
BY DEF TypeOK

(* The steps, and the answers the code gives itself. *)
LEMMA StepsAndAnswers ==
    /\ {"load", "fill", "loaded", "lookup", "lease", "call", "sent", "answered", "captured"} \subseteq Steps
    /\ {"ok", "error", "timeout"} \subseteq Answers
BY DEF Steps, Answers, Unanswered

(* The types hold at first.                                                  *)
LEMMA InitType == Init => TypeOK
<1>1. SUFFICES ASSUME Init PROVE TypeOK
  OBVIOUS
<1>2. row \in Row
  <2>1. row.status \in Status /\ row.version \in Nat /\ row.ref \in Refs \cup {NoRef}
    BY <1>1 DEF Init, Status
  <2>2. row.started \in BOOLEAN /\ row.intent \in BOOLEAN
    BY Zenon, <1>1 DEF Init
  <2>3. row.mode \in {"auto", "manual"}
    BY Zenon, <1>1, ConstantsAssumption DEF Init
  <2>4. row = [status |-> row.status, version |-> row.version, ref |-> row.ref,
               started |-> row.started, intent |-> row.intent, mode |-> row.mode]
    BY <1>1 DEF Init
  <2>5. QED
    BY <2>1, <2>2, <2>3, <2>4 DEF Row
<1>3. evt \in [status : {"ABSENT", "PENDING", "PUBLISHING", "PUBLISHED", "FAILED"}, attempts : Nat]
  BY <1>1 DEF Init
<1>4. proc \in [Workers -> Proc]
  BY <1>1, IdleType DEF Init
<1>5. gp \in [Refs -> GatewayStatus]
  BY <1>1 DEF Init, GatewayStatus
<1>6. QED
  BY Zenon, <1>1, <1>2, <1>3, <1>4, <1>5 DEF Init, TypeOK

Outcomes == {"CAPTURED", "AUTHORIZED", "FAILED", "CANCELLED"}

(* What an answer of the gateway makes of a payment is an outcome.           *)
LEMMA OutcomeType ==
    ASSUME NEW w \in Workers, Outcome(w) # "none"
    PROVE  Outcome(w) \in Outcomes /\ Outcome(w) \in Status /\ Outcome(w) \in Announced
BY DEF Outcome, resolveOutcome, resolveAuthorizeOutcome, resolveCaptureOutcome, Outcomes, Status,
       Announced

(* So is what a webhook makes of it, or REFUNDED.                            *)
LEMMA HookStatusType ==
    ASSUME WorkersOK, NEW w \in Workers, proc[w].op = "webhook"
    PROVE  HookStatus(w) \in Status /\ HookStatus(w) \in Outcomes \cup {"REFUNDED"}
BY DEF WorkersOK, WorkerOK, HookStatus, mapWebhookStatus, Sent, Outcomes, Status

(* An announcement has a status to announce and a version.                   *)
LEMMA AnnounceType ==
    ASSUME NEW s, NEW v \in Nat
    PROVE  Announce(s, v) \subseteq [status : Announced, version : Nat]
BY DEF Announce

(* The row a worker loaded, where it has loaded one. *)
LEMMA SnapType ==
    ASSUME TypeOK, WorkersOK, NEW w \in Workers,
           proc[w].pc \in {"fill", "loaded", "lease", "call", "sent", "answered"}
    PROVE  proc[w].snap \in Row
BY ProcFields DEF WorkersOK, WorkerOK

(* The reference is added to the copy; all else in it stays.                 *)
LEMMA WithReferenceType ==
    ASSUME TypeOK, WorkersOK, NEW w \in Workers, proc[w].pc = "answered"
    PROVE  /\ WithReference(w) \in Row
           /\ WithReference(w).status = proc[w].snap.status
           /\ WithReference(w).version = proc[w].snap.version
           /\ WithReference(w).intent = proc[w].snap.intent
           /\ WithReference(w).started = proc[w].snap.started
           /\ WithReference(w).mode = proc[w].snap.mode
<1>1. proc[w].snap \in Row /\ proc[w].ref \in Refs \cup {NoRef}
  BY SnapType, ProcFields
<1>2. QED
  BY <1>1 DEF WithReference, Row

(* Each step of a worker keeps the types. *)
LEMMA ProceedType ==
    ASSUME TypeOK, WorkersOK, NEW w \in Workers, Proceed(w)
    PROVE  TypeOK'
<1>1. CASE CacheHit(w)
  <2>1. cache \in Row \cup {NoRow}
    BY DEF TypeOK
  <2>2. proc' \in [Workers -> Proc]
    BY Zenon, <1>1, <2>1, SnapUpdate, StepsAndAnswers DEF CacheHit
  <2>3. QED
    BY <1>1, <2>2 DEF CacheHit, TypeOK
<1>2. CASE CacheMiss(w)
  <2>1. row \in Row
    BY DEF TypeOK
  <2>2. proc' \in [Workers -> Proc]
    BY Zenon, <1>2, <2>1, SnapUpdate, StepsAndAnswers DEF CacheMiss
  <2>3. QED
    BY <1>2, <2>2 DEF CacheMiss, TypeOK
<1>3. CASE CacheFill(w)
  <2>1. proc' \in [Workers -> Proc]
    BY <1>3, GotoType, StepsAndAnswers DEF CacheFill
  <2>2. QED
    BY <1>3, <2>1, ProcFields DEF CacheFill, TypeOK
<1>4. CASE TryAcquireDirect(w)
  <2>1. proc' \in [Workers -> Proc]
    <3>1. Goto(w, "call") \/ Return(w, "ok")
      BY <1>4 DEF TryAcquireDirect
    <3>2. QED
      BY <3>1, GotoType, ReturnType, StepsAndAnswers
  <2>2. QED
    BY Zenon, <1>4, <2>1 DEF TryAcquireDirect, TypeOK
<1>5. CASE PrepareFails(w)
  <2>1. proc' \in [Workers -> Proc]
    BY <1>5, ReturnType, StepsAndAnswers DEF PrepareFails
  <2>2. QED
    BY <1>5, <2>1 DEF PrepareFails, TypeOK
<1>6. CASE InitiateFails(w)
  <2>1. proc' \in [Workers -> Proc]
    BY <1>6, ReturnType, StepsAndAnswers DEF InitiateFails
  <2>2. QED
    BY <1>6, <2>1 DEF InitiateFails, TypeOK
<1>7. CASE InitiateAbort(w)
  <2>1. proc' \in [Workers -> Proc]
    BY <1>7, ReturnType, StepsAndAnswers DEF InitiateAbort
  <2>2. QED
    BY <1>7, <2>1 DEF InitiateAbort, TypeOK, At, WorkersOK, WorkerOK
<1>8. CASE MarkPublished(w)
  <2>1. proc' \in [Workers -> Proc]
    BY <1>8, WorkerUpdate, IdleType, StepsAndAnswers DEF MarkPublished
  <2>2. QED
    BY <1>8, <2>1 DEF MarkPublished, TypeOK
<1>9. CASE MarkFailed(w)
  <2>1. proc' \in [Workers -> Proc]
    BY <1>9, WorkerUpdate, IdleType, StepsAndAnswers DEF MarkFailed
  <2>2. QED
    BY <1>9, <2>1 DEF MarkFailed, TypeOK
<1>10. CASE MarkExhausted(w)
  <2>1. proc' \in [Workers -> Proc]
    BY <1>10, WorkerUpdate, IdleType, StepsAndAnswers DEF MarkExhausted
  <2>2. QED
    BY <1>10, <2>1 DEF MarkExhausted, TypeOK
<1>11. CASE BeginRejected(w)
  <2>1. proc' \in [Workers -> Proc]
    BY <1>11, ReturnType, StepsAndAnswers DEF BeginRejected
  <2>2. QED
    BY <1>11, <2>1 DEF BeginRejected, TypeOK
<1>12. CASE FinalizeRejected(w)
  <2>1. proc' \in [Workers -> Proc]
    BY <1>12, ReturnType, StepsAndAnswers DEF FinalizeRejected
  <2>2. QED
    BY <1>12, <2>1 DEF FinalizeRejected, TypeOK, VersionConflict
<1>13. CASE LeaveProcessing(w)
  <2>1. proc' \in [Workers -> Proc]
    BY <1>13, ReturnType, StepsAndAnswers DEF LeaveProcessing
  <2>2. QED
    BY <1>13, <2>1 DEF LeaveProcessing, TypeOK
<1>14. CASE RecoverSkip(w)
  <2>1. proc' \in [Workers -> Proc]
    BY <1>14, ReturnType, StepsAndAnswers DEF RecoverSkip
  <2>2. QED
    BY <1>14, <2>1 DEF RecoverSkip, TypeOK
<1>15. CASE RequestFails(w)
  <2>1. proc' \in [Workers -> Proc]
    <3>1. PICK answer \in Unanswered : Answered(w, answer)
      BY <1>15 DEF RequestFails
    <3>2. QED
      BY Zenon, <3>1, RespUpdate, StepsAndAnswers DEF Answered, Unanswered
  <2>2. QED
    BY <1>15, <2>1 DEF RequestFails, TypeOK
<1>16. CASE WebhookDrop(w)
  <2>1. proc' \in [Workers -> Proc]
    BY <1>16, ReturnType, StepsAndAnswers DEF WebhookDrop
  <2>2. QED
    BY <1>16, <2>1 DEF WebhookDrop, TypeOK, TheHook, Hook, At, WorkersOK, WorkerOK
<1>17. CASE InitiateCommit(w)
  <2>1. proc[w].snap \in Row /\ proc[w].ref \in Refs \cup {NoRef}
    BY <1>17, SnapType, ProcFields DEF InitiateCommit, At
  <2>2. proc[w].ref \in Refs
    BY <1>17 DEF InitiateCommit, At, WorkersOK, WorkerOK
  <2>3. [proc[w].snap EXCEPT !.ref = proc[w].ref] \in Row
    BY <2>1 DEF Row
  <2>4. proc' \in [Workers -> Proc]
    BY <1>17, ReturnType, StepsAndAnswers DEF InitiateCommit
  <2>5. row' \in Row /\ cache' \in Row \cup {NoRow}
    <3>1. CASE Current(w)
      BY <1>17, <2>3, <3>1, TransitionedType, UpdateStatusType DEF InitiateCommit, Status
    <3>2. CASE ~ Current(w)
      BY <1>17, <3>2 DEF InitiateCommit, VersionConflict, TypeOK
    <3>3. QED
      BY <3>1, <3>2
  <2>6. refCache' \subseteq Refs
    BY <1>17, <2>2 DEF InitiateCommit, TypeOK
  <2>7. QED
    BY <1>17, <2>4, <2>5, <2>6 DEF InitiateCommit, TypeOK
<1>18. CASE BeginProcessing(w)
  <2>1. proc[w].snap \in Row
    BY <1>18, SnapType DEF BeginProcessing, At
  <2>2. [Transitioned(proc[w].snap, "PROCESSING") EXCEPT !.started = TRUE] \in Row
    <3>1. Transitioned(proc[w].snap, "PROCESSING") \in Row
      BY <2>1, TransitionedType DEF Status
    <3>2. QED
      BY Zenon, <3>1 DEF Row
  <2>3. row' \in Row /\ cache' \in Row \cup {NoRow}
    BY <1>18, <2>2, UpdateStatusType DEF BeginProcessing
  <2>4. [row' EXCEPT !.intent = proc[w].snap.intent] \in Row
    <3>1. proc[w].snap.intent \in BOOLEAN
      BY <2>1 DEF Row
    <3>2. QED
      BY <2>3, <3>1 DEF Row
  <2>5. proc' \in [Workers -> Proc]
    BY Zenon, <1>18, <2>4, SnapUpdate, StepsAndAnswers DEF BeginProcessing
  <2>6. QED
    BY <1>18, <2>3, <2>5 DEF BeginProcessing, TypeOK
<1>19. CASE Finalize(w)
  <2>1. Outcome(w) \in Status /\ proc[w].pc = "answered"
    BY <1>19, OutcomeType DEF Finalize, Finalizing, At
  <2>2. row' \in Row /\ cache' \in Row \cup {NoRow}
    BY <1>19, <2>1, WithReferenceType, TransitionedType, UpdateStatusType DEF Finalize
  <2>3. proc' \in [Workers -> Proc]
    <3>1. Goto(w, "captured") \/ Return(w, "ok")
      BY <1>19 DEF Finalize
    <3>2. QED
      BY <3>1, GotoType, ReturnType, StepsAndAnswers
  <2>4. outbox' \subseteq [status : Announced, version : Nat]
    <3>1. row.version + 1 \in Nat
      BY DEF TypeOK, Row
    <3>2. QED
      BY <1>19, <3>1, AnnounceType DEF Finalize, TypeOK
  <2>5. QED
    BY <1>19, <2>2, <2>3, <2>4 DEF Finalize, TypeOK
<1>20. CASE Settle(w)
  <2>1. proc[w].snap \in Row
    BY <1>20, SnapType DEF Settle, At
  <2>2. row' \in Row /\ cache' \in Row \cup {NoRow}
    <3>1. CASE UpdateStatus(Transitioned(proc[w].snap, "SETTLED"))
      BY <2>1, <3>1, TransitionedType, UpdateStatusType DEF Status
    <3>2. CASE row' = row /\ cache' \in {NoRow, cache}
      BY <3>2 DEF TypeOK
    <3>3. QED
      BY <1>20, <3>1, <3>2 DEF Settle
  <2>3. proc' \in [Workers -> Proc]
    BY <1>20, ReturnType, StepsAndAnswers DEF Settle
  <2>4. outbox' \subseteq [status : Announced, version : Nat]
    <3>1. row.version + 1 \in Nat
      BY DEF TypeOK, Row
    <3>2. QED
      BY <1>20, <3>1, AnnounceType DEF Settle, TypeOK
  <2>5. QED
    BY <1>20, <2>2, <2>3, <2>4 DEF Settle, TypeOK
<1>21. CASE CheckStatus(w)
  <2>1. proc[w].snap \in Row
    BY <1>21, SnapType DEF CheckStatus, At
  <2>2. proc[w].snap.ref \in Refs \cup {NoRef}
    BY <2>1 DEF Row
  <2>3. StatusAnswers(proc[w].snap.ref) \subseteq Answers
    BY <2>2 DEF StatusAnswers, Answers, TypeOK, GatewayStatus
  <2>4. proc' \in [Workers -> Proc]
    <3>1. PICK answer \in StatusAnswers(proc[w].snap.ref) :
                proc' = [proc EXCEPT ![w] = [@ EXCEPT !.pc = "answered", !.resp = answer,
                                                      !.ref = proc[w].snap.ref]]
      BY Zenon, <1>21 DEF CheckStatus
    <3>2. QED
      BY Zenon, <2>2, <2>3, <3>1, RespRefUpdate, StepsAndAnswers
  <2>5. QED
    BY <1>21, <2>4 DEF CheckStatus, TypeOK
<1>22. CASE InitiatePayment(w)
  <2>1. PICK r \in InitiateTargets :
              /\ gp' = [gp EXCEPT ![r] = IF @ = "none" THEN "pending" ELSE @]
              /\ proc' = [proc EXCEPT ![w] = [@ EXCEPT !.pc = "sent", !.ref = r]]
    BY Zenon, <1>22 DEF InitiatePayment
  <2>2. r \in Refs
    BY DEF InitiateTargets, Created
  <2>3. proc' \in [Workers -> Proc]
    BY Zenon, <2>1, <2>2, RefUpdate, StepsAndAnswers
  <2>4. gp' \in [Refs -> GatewayStatus]
    BY <2>1, <2>2 DEF TypeOK, GatewayStatus
  <2>5. QED
    BY <1>22, <2>3, <2>4 DEF InitiatePayment, TypeOK
<1>23. CASE CapturePayment(w)
  <2>1. proc[w].snap \in Row
    BY <1>23, SnapType DEF CapturePayment, At
  <2>2. proc[w].snap.ref \in Refs
    BY <1>23, <2>1 DEF CapturePayment, Row
  <2>3. gp' \in [Refs -> GatewayStatus] /\ hooks' \subseteq Hook
    BY <1>23, <2>2 DEF CapturePayment, TypeOK, GatewayStatus, Hook, Sent
  <2>4. proc' \in [Workers -> Proc]
    BY Zenon, <1>23, <2>2, RefUpdate, StepsAndAnswers DEF CapturePayment
  <2>5. QED
    BY <1>23, <2>3, <2>4 DEF CapturePayment, TypeOK
<1>24. CASE Reply(w)
  <2>1. proc[w].ref \in Refs
    BY <1>24 DEF Reply, WorkersOK, WorkerOK
  <2>2. Unanswered \cup {gp[proc[w].ref]} \subseteq Answers
    BY <2>1 DEF TypeOK, Answers
  <2>3. proc' \in [Workers -> Proc]
    <3>1. PICK answer \in Unanswered \cup {gp[proc[w].ref]} : Answered(w, answer)
      BY <1>24 DEF Reply
    <3>2. QED
      BY Zenon, <2>2, <3>1, RespUpdate, StepsAndAnswers DEF Answered
  <2>4. QED
    BY <1>24, <2>3 DEF Reply, TypeOK
<1>25. CASE GetByGatewayReference(w)
  <2>1. TheHook(w) \in Hook
    BY <1>25 DEF GetByGatewayReference, At, TheHook, Hook, WorkersOK, WorkerOK
  <2>2. proc' \in [Workers -> Proc]
    <3>1. row \in Row \cup {NoRow}
      BY DEF TypeOK
    <3>2. \/ Goto(w, "load")
          \/ proc' = [proc EXCEPT ![w] = [@ EXCEPT !.pc = "loaded", !.snap = row]]
          \/ Return(w, "ok")
      BY <1>25 DEF GetByGatewayReference
    <3>3. CASE proc' = [proc EXCEPT ![w] = [@ EXCEPT !.pc = "loaded", !.snap = row]]
      BY Zenon, <3>1, <3>3, SnapUpdate, StepsAndAnswers
    <3>4. QED
      BY <3>2, <3>3, GotoType, ReturnType, StepsAndAnswers
  <2>3. QED
    BY <1>25, <2>1, <2>2 DEF GetByGatewayReference, TypeOK
<1>26. CASE WebhookApply(w)
  <2>1. proc[w].snap \in Row /\ HookStatus(w) \in Status /\ TheHook(w) \in Hook
    BY <1>26, SnapType, HookStatusType DEF WebhookApply, At, TheHook, Hook, WorkersOK, WorkerOK
  <2>2. row' \in Row /\ cache' \in Row \cup {NoRow}
    <3>1. CASE Current(w)
      BY <1>26, <2>1, <3>1, TransitionedType, UpdateStatusType DEF WebhookApply
    <3>2. CASE ~ Current(w)
      BY <1>26, <3>2 DEF WebhookApply, VersionConflict, TypeOK
    <3>3. QED
      BY <3>1, <3>2
  <2>3. proc' \in [Workers -> Proc]
    BY <1>26, ReturnType, StepsAndAnswers DEF WebhookApply
  <2>4. outbox' \subseteq [status : Announced, version : Nat]
    <3>1. row.version + 1 \in Nat
      BY DEF TypeOK, Row
    <3>2. QED
      BY <1>26, <3>1, AnnounceType DEF WebhookApply, TypeOK
  <2>5. QED
    BY <1>26, <2>1, <2>2, <2>3, <2>4 DEF WebhookApply, TypeOK
<1>27. QED
  BY <1>1, <1>2, <1>3, <1>4, <1>5, <1>6, <1>7, <1>8, <1>9, <1>10, <1>11, <1>12, <1>13, <1>14,
     <1>15, <1>16, <1>17, <1>18, <1>19, <1>20, <1>21, <1>22, <1>23, <1>24, <1>25, <1>26
     DEF Proceed

(* Every step keeps the types.                                               *)
LEMMA NextType == TypeOK /\ WorkersOK /\ [Next]_vars => TypeOK'
<1>1. SUFFICES ASSUME TypeOK, WorkersOK, [Next]_vars PROVE TypeOK'
  OBVIOUS
<1>2. ASSUME NEW w \in Workers, Proceed(w) PROVE TypeOK'
  BY <1>1, <1>2, ProceedType
<1>3. ASSUME NEW w \in Workers, NEW op \in ApiCalls, ClientCall(w, op) PROVE TypeOK'
  <2>1. op \in Ops /\ "load" \in Steps
    BY ConstantsAssumption DEF Ops, Steps
  <2>2. [Idle EXCEPT !.op = op, !.pc = "load"] \in Proc
    BY Zenon, <2>1, IdleType DEF Proc
  <2>3. QED
    BY <1>1, <1>3, <2>2 DEF ClientCall, Start, TypeOK
<1>4. ASSUME NEW w \in Workers, RelayClaim(w) PROVE TypeOK'
  <2>1. evt.attempts \in Nat
    BY <1>1 DEF TypeOK
  <2>2. [Idle EXCEPT !.op = "deliver", !.pc = "load", !.att = evt.attempts] \in Proc
    BY Zenon, <2>1, IdleType DEF Proc, Ops, Steps
  <2>3. QED
    BY <1>1, <1>4, <2>2 DEF RelayClaim, TypeOK
<1>5. ASSUME NEW w \in Workers, ReaperList(w) PROVE TypeOK'
  <2>1. [Idle EXCEPT !.op = "recover", !.pc = "load"] \in Proc
    BY Zenon, IdleType DEF Proc, Ops, Steps
  <2>2. QED
    BY <1>1, <1>5, <2>1 DEF ReaperList, Start, TypeOK
<1>6. ASSUME NEW w \in Workers, Crash(w) \/ StatementFails(w) PROVE TypeOK'
  <2>1. CASE Crash(w)
    BY <1>1, <2>1, IdleType DEF Crash, TypeOK
  <2>2. CASE StatementFails(w)
    <3>1. proc' \in [Workers -> Proc]
      BY <1>1, <2>2, ReturnType, StepsAndAnswers DEF StatementFails
    <3>2. QED
      BY <1>1, <2>2, <3>1 DEF StatementFails, TypeOK
  <2>3. QED
    BY <1>6, <2>1, <2>2
<1>7. ASSUME NEW w \in Workers, NEW h \in hooks, RecordEvent(w, h) PROVE TypeOK'
  <2>1. h.ref \in Refs /\ h.status \in Answers
    BY <1>1 DEF TypeOK, Hook, Sent, Answers, GatewayStatus
  <2>2. [Idle EXCEPT !.op = "webhook", !.pc = "lookup", !.ref = h.ref, !.resp = h.status] \in Proc
    BY Zenon, <2>1, IdleType DEF Proc, Ops, Steps
  <2>3. QED
    BY <1>1, <1>7, <2>2 DEF RecordEvent, TypeOK
<1>8. ASSUME NEW r \in Refs, RefCacheExpires(r) PROVE TypeOK'
  BY <1>1, <1>8 DEF RefCacheExpires, TypeOK
<1>9. ASSUME NEW r \in Refs, NEW s \in Decisions, GatewayDecide(r, s) PROVE TypeOK'
  BY <1>1, <1>9, DecisionsAssumption DEF GatewayDecide, TypeOK, Hook, Sent, GatewayStatus
<1>10. CASE CacheExpires
  BY <1>1, <1>10 DEF CacheExpires, TypeOK
<1>11. CASE DeleteExpired
  BY Zenon, <1>1, <1>11 DEF DeleteExpired, TypeOK
<1>12. CASE UNCHANGED vars
  BY <1>1, <1>12 DEF vars, TypeOK
<1>13. QED
  BY <1>1, <1>2, <1>3, <1>4, <1>5, <1>6, <1>7, <1>8, <1>9, <1>10, <1>11, <1>12 DEF Next

-----------------------------------------------------------------------------
(* What the workers know *)

(* Only the worker that steps changes. *)
LEMMA OthersOK ==
    ASSUME WorkersOK, NEW w \in Workers, \A v \in Workers \ {w} : proc'[v] = proc[v], WorkerOK(w)'
    PROVE  WorkersOK'
BY DEF WorkersOK, WorkerOK

(* A worker that returns, or starts, knows nothing yet. *)
LEMMA ReturnOK ==
    ASSUME TypeOK, WorkersOK, NEW w \in Workers, NEW result, Return(w, result)
    PROVE  WorkersOK'
<1>1. /\ proc'[w].op \in {"deliver", "idle"}
      /\ proc'[w].pc \in {"mark", "idle"}
  BY DEF TypeOK, Return, Idle
<1>2. \A v \in Workers \ {w} : proc'[v] = proc[v]
  BY DEF TypeOK, Return
<1>3. WorkerOK(w)'
  BY <1>1 DEF WorkerOK
<1>4. QED
  BY <1>2, <1>3, OthersOK

(* A worker that goes idle, or starts an operation that is not a webhook. *)
LEMMA StartOK ==
    ASSUME TypeOK, WorkersOK, NEW w \in Workers, NEW p,
           proc' = [proc EXCEPT ![w] = p],
           p.op # "webhook", p.pc \in {"idle", "load"}
    PROVE  WorkersOK'
<1>1. proc'[w] = p /\ \A v \in Workers \ {w} : proc'[v] = proc[v]
  BY DEF TypeOK
<1>2. WorkerOK(w)'
  BY <1>1 DEF WorkerOK
<1>3. QED
  BY <1>1, <1>2, OthersOK

(* A worker that goes on has what its next statement needs.                  *)
LEMMA ProceedWorkers ==
    ASSUME TypeOK, WorkersOK, NEW w \in Workers, Proceed(w)
    PROVE  WorkersOK'
<1>1. CASE \E result : Return(w, result)
  BY <1>1, ReturnOK
<1>2. CASE \/ PrepareFails(w) \/ InitiateFails(w) \/ InitiateAbort(w)
           \/ InitiateCommit(w) \/ BeginRejected(w) \/ FinalizeRejected(w)
           \/ LeaveProcessing(w) \/ Settle(w) \/ RecoverSkip(w)
           \/ WebhookDrop(w) \/ WebhookApply(w)
  BY <1>1, <1>2 DEF PrepareFails, InitiateFails, InitiateAbort, InitiateCommit, BeginRejected, FinalizeRejected, LeaveProcessing, Settle, RecoverSkip, WebhookDrop, WebhookApply
<1>3. CASE MarkPublished(w) \/ MarkFailed(w) \/ MarkExhausted(w)
  <2>1. Idle.op # "webhook" /\ Idle.pc = "idle"
    BY DEF Idle
  <2>2. proc' = [proc EXCEPT ![w] = Idle]
    BY <1>3 DEF MarkPublished, MarkFailed, MarkExhausted
  <2>3. QED
    BY Zenon, <2>1, <2>2, StartOK
<1>4. CASE CacheHit(w)
  <2>1. /\ proc'[w].op = proc[w].op
        /\ proc'[w].ref = proc[w].ref
        /\ proc'[w].resp = proc[w].resp
        /\ proc'[w].pc = "loaded"
        /\ proc'[w].snap # NoRow
    BY <1>4, ProcFields DEF CacheHit, TypeOK, Proc
  <2>2. \A v \in Workers \ {w} : proc'[v] = proc[v]
    BY <1>4 DEF CacheHit, TypeOK
  <2>3. WorkerOK(w)'
    BY <1>4, <2>1 DEF CacheHit, WorkersOK, WorkerOK
  <2>4. QED
    BY <2>2, <2>3, OthersOK
<1>5. CASE CacheMiss(w)
  <2>1. /\ proc'[w].op = proc[w].op
        /\ proc'[w].ref = proc[w].ref
        /\ proc'[w].resp = proc[w].resp
        /\ proc'[w].pc = "fill"
        /\ proc'[w].snap # NoRow
    BY <1>5, ProcFields, NoRowAssumption DEF CacheMiss, TypeOK, Proc
  <2>2. \A v \in Workers \ {w} : proc'[v] = proc[v]
    BY <1>5 DEF CacheMiss, TypeOK
  <2>3. WorkerOK(w)'
    BY <1>5, <2>1 DEF CacheMiss, WorkersOK, WorkerOK
  <2>4. QED
    BY <2>2, <2>3, OthersOK
<1>6. CASE CacheFill(w)
  <2>1. /\ proc'[w].op = proc[w].op
        /\ proc'[w].ref = proc[w].ref
        /\ proc'[w].resp = proc[w].resp
        /\ proc'[w].snap = proc[w].snap
        /\ proc'[w].pc = "loaded"
    BY <1>6, ProcFields DEF CacheFill, Goto, TypeOK, Proc
  <2>2. \A v \in Workers \ {w} : proc'[v] = proc[v]
    BY <1>6 DEF CacheFill, Goto, TypeOK
  <2>3. WorkerOK(w)'
    BY <1>6, <2>1 DEF CacheFill, Goto, WorkersOK, WorkerOK
  <2>4. QED
    BY <2>2, <2>3, OthersOK
<1>7. CASE TryAcquireDirect(w) /\ Eligible(w) /\ ~ lease
  <2>1. /\ proc'[w].op = proc[w].op
        /\ proc'[w].ref = proc[w].ref
        /\ proc'[w].resp = proc[w].resp
        /\ proc'[w].snap = proc[w].snap
        /\ proc'[w].pc = "call"
    BY <1>7, ProcFields DEF TryAcquireDirect, Goto, TypeOK, Proc
  <2>2. \A v \in Workers \ {w} : proc'[v] = proc[v]
    BY <1>7 DEF TryAcquireDirect, Goto, TypeOK
  <2>3. WorkerOK(w)'
    BY <1>7, <2>1 DEF TryAcquireDirect, Goto, WorkersOK, WorkerOK, AtLease, Eligible, At
  <2>4. QED
    BY <2>2, <2>3, OthersOK
<1>8. CASE TryAcquireDirect(w) /\ ~ (Eligible(w) /\ ~ lease)
  BY <1>1, <1>8 DEF TryAcquireDirect
<1>9. CASE BeginProcessing(w)
  <2>1. /\ proc'[w].op = proc[w].op
        /\ proc'[w].ref = proc[w].ref
        /\ proc'[w].resp = proc[w].resp
        /\ proc'[w].pc = "lease"
        /\ proc'[w].snap = [row' EXCEPT !.intent = proc[w].snap.intent]
    BY <1>9, ProcFields DEF BeginProcessing, TypeOK, Proc
  <2>2. row' \in Row /\ row'.status = "PROCESSING" /\ row'.started = TRUE
    <3>1. proc[w].snap \in Row
      BY <1>9, SnapType DEF BeginProcessing, At
    <3>2. Transitioned(proc[w].snap, "PROCESSING") \in Row
      BY <3>1, TransitionedType DEF Status
    <3>3. row.intent \in BOOLEAN
      BY DEF TypeOK, Row
    <3>4. Transitioned(proc[w].snap, "PROCESSING").status = "PROCESSING"
      BY <3>1 DEF Transitioned, Row
    <3> DEFINE u == [Transitioned(proc[w].snap, "PROCESSING") EXCEPT !.started = TRUE]
    <3>5. u \in Row /\ u.status = "PROCESSING" /\ u.started = TRUE
      BY Zenon, <3>2, <3>4 DEF Row
    <3>6. row' = [u EXCEPT !.version = u.version + 1, !.intent = row.intent]
      BY <1>9 DEF BeginProcessing, UpdateStatus
    <3>7. row' \in Row
      BY <1>9, <3>5, UpdateStatusType DEF BeginProcessing
    <3> HIDE DEF u
    <3>8. row'.status = u.status /\ row'.started = u.started
      BY <3>5, <3>6 DEF Row
    <3>9. QED
      BY <3>5, <3>7, <3>8
  <2>3. proc'[w].snap # NoRow /\ proc'[w].snap.status = "PROCESSING" /\ proc'[w].snap.started = TRUE
    <3>1. proc[w].snap.intent \in BOOLEAN
      BY <1>9, SnapType DEF BeginProcessing, At, Row
    <3>2. QED
      BY <2>1, <2>2, <3>1, NoRowAssumption DEF Row
  <2>4. \A v \in Workers \ {w} : proc'[v] = proc[v]
    BY <1>9 DEF BeginProcessing, TypeOK
  <2>5. WorkerOK(w)'
    BY <1>9, <2>1, <2>3 DEF BeginProcessing, At, WorkersOK, WorkerOK
  <2>6. QED
    BY <2>4, <2>5, OthersOK
<1>10. CASE Finalize(w) /\ Goto(w, "captured")
  <2>1. /\ proc'[w].op = proc[w].op
        /\ proc'[w].ref = proc[w].ref
        /\ proc'[w].resp = proc[w].resp
        /\ proc'[w].snap = proc[w].snap
        /\ proc'[w].pc = "captured"
    BY <1>10, ProcFields DEF Finalize, Goto, TypeOK, Proc
  <2>2. \A v \in Workers \ {w} : proc'[v] = proc[v]
    BY <1>10 DEF Finalize, Goto, TypeOK
  <2>3. WorkerOK(w)'
    BY <1>10, <2>1 DEF Finalize, Goto, WorkersOK, WorkerOK, Finalizing, At
  <2>4. QED
    BY <2>2, <2>3, OthersOK
<1>11. CASE Finalize(w) /\ ~ Goto(w, "captured")
  BY <1>1, <1>11 DEF Finalize
<1>12. CASE CheckStatus(w)
  <2>1. /\ proc'[w].op = proc[w].op
        /\ proc'[w].snap = proc[w].snap
        /\ proc'[w].pc = "answered"
        /\ proc[w].op = "recover"
        /\ proc[w].pc = "loaded"
    BY <1>12, ProcFields DEF CheckStatus, At, TypeOK, Proc
  <2>2. \A v \in Workers \ {w} : proc'[v] = proc[v]
    BY <1>12 DEF CheckStatus, At, TypeOK
  <2>3. WorkerOK(w)'
    BY <1>12, <2>1 DEF CheckStatus, At, WorkersOK, WorkerOK
  <2>4. QED
    BY <2>2, <2>3, OthersOK
<1>13. CASE InitiatePayment(w)
  <2>1. /\ proc'[w].op = proc[w].op
        /\ proc'[w].snap = proc[w].snap
        /\ proc'[w].resp = proc[w].resp
        /\ proc'[w].pc = "sent"
        /\ proc'[w].ref \in Refs
    BY <1>13, ProcFields DEF InitiatePayment, InitiateTargets, Created, TypeOK, Proc
  <2>2. \A v \in Workers \ {w} : proc'[v] = proc[v]
    BY <1>13 DEF InitiatePayment, InitiateTargets, Created, TypeOK
  <2>3. WorkerOK(w)'
    BY <1>13, <2>1 DEF InitiatePayment, InitiateTargets, Created, WorkersOK, WorkerOK, At
  <2>4. QED
    BY <2>2, <2>3, OthersOK
<1>14. CASE CapturePayment(w)
  <2>1. /\ proc'[w].op = proc[w].op
        /\ proc'[w].snap = proc[w].snap
        /\ proc'[w].resp = proc[w].resp
        /\ proc'[w].pc = "sent"
        /\ proc'[w].ref \in Refs
    <3>1. proc[w].snap \in Row
      BY <1>14, SnapType DEF CapturePayment, At
    <3>2. proc[w].snap.ref \in Refs
      BY <1>14, <3>1 DEF CapturePayment, Row
    <3>3. QED
      BY <1>14, <3>2, ProcFields DEF CapturePayment, TypeOK, Proc
  <2>2. \A v \in Workers \ {w} : proc'[v] = proc[v]
    BY <1>14 DEF CapturePayment, TypeOK
  <2>3. WorkerOK(w)'
    BY <1>14, <2>1 DEF CapturePayment, WorkersOK, WorkerOK, At
  <2>4. QED
    BY <2>2, <2>3, OthersOK
<1>15. CASE RequestFails(w)
  <2>1. /\ proc'[w].op = proc[w].op
        /\ proc'[w].snap = proc[w].snap
        /\ proc'[w].ref = proc[w].ref
        /\ proc'[w].pc = "answered"
        /\ proc'[w].resp \in Unanswered
    BY <1>15, ProcFields DEF RequestFails, Answered, TypeOK, Proc
  <2>2. \A v \in Workers \ {w} : proc'[v] = proc[v]
    BY <1>15 DEF RequestFails, Answered, TypeOK
  <2>3. WorkerOK(w)'
    BY <1>15, <2>1 DEF RequestFails, Answered, WorkersOK, WorkerOK
  <2>4. QED
    BY <2>2, <2>3, OthersOK
<1>16. CASE Reply(w)
  <2>1. /\ proc'[w].op = proc[w].op
        /\ proc'[w].snap = proc[w].snap
        /\ proc'[w].ref = proc[w].ref
        /\ proc'[w].pc = "answered"
    BY <1>16, ProcFields DEF Reply, Answered, TypeOK, Proc
  <2>2. \A v \in Workers \ {w} : proc'[v] = proc[v]
    BY <1>16 DEF Reply, Answered, TypeOK
  <2>3. WorkerOK(w)'
    BY <1>16, <2>1 DEF Reply, Answered, WorkersOK, WorkerOK
  <2>4. QED
    BY <2>2, <2>3, OthersOK
<1>17. CASE GetByGatewayReference(w)
  <2>1. CASE ~ \E result : Return(w, result)
    <3>1. /\ proc'[w].op = "webhook"
          /\ proc'[w].ref = proc[w].ref /\ proc'[w].resp = proc[w].resp
          /\ \/ proc'[w].pc = "load"
             \/ proc'[w].pc = "loaded" /\ proc'[w].snap = row
      <4>1. proc[w].op = "webhook" /\ proc[w] \in Proc
        BY <1>17, ProcFields DEF GetByGatewayReference, At
      <4>2. \/ proc' = [proc EXCEPT ![w] = [@ EXCEPT !.pc = "load"]]
            \/ proc' = [proc EXCEPT ![w] = [@ EXCEPT !.pc = "loaded", !.snap = row]]
        BY <1>17, <2>1 DEF GetByGatewayReference, Goto
      <4>3. proc \in [Workers -> Proc]
        BY DEF TypeOK
      <4>4. QED
        BY Zenon, <4>1, <4>2, <4>3 DEF Proc
    <3>2. \A v \in Workers \ {w} : proc'[v] = proc[v]
      BY <1>17, <2>1 DEF GetByGatewayReference, Goto, TypeOK
    <3>3. row # NoRow
      BY NoRowAssumption DEF TypeOK
    <3>4. WorkerOK(w)'
      BY <1>17, <3>1, <3>3 DEF GetByGatewayReference, At, WorkersOK, WorkerOK
    <3>5. QED
      BY <3>2, <3>4, OthersOK
  <2>2. QED
    BY <1>1, <2>1
<1>18. QED
  BY <1>2, <1>3, <1>4, <1>5, <1>6, <1>7, <1>8, <1>9, <1>10, <1>11, <1>12, <1>13, <1>14, <1>15, <1>16, <1>17 DEF Proceed

(* No worker is at work at first.                                            *)
LEMMA InitWorkers == Init => WorkersOK
BY DEF Init, WorkersOK, WorkerOK, Idle

(* So every step keeps the workers in order.                                 *)
LEMMA NextWorkers == TypeOK /\ WorkersOK /\ [Next]_vars => WorkersOK'
<1>1. SUFFICES ASSUME TypeOK, WorkersOK, [Next]_vars PROVE WorkersOK'
  OBVIOUS
<1>2. ASSUME NEW w \in Workers, Proceed(w) PROVE WorkersOK'
  BY <1>1, <1>2, ProceedWorkers
<1>3. ASSUME NEW w \in Workers, NEW p, proc' = [proc EXCEPT ![w] = p],
             p.op # "webhook", p.pc \in {"idle", "load"}
      PROVE  WorkersOK'
  BY Zenon, <1>1, <1>3, StartOK
<1>4. ASSUME NEW w \in Workers, NEW op \in ApiCalls, ClientCall(w, op) PROVE WorkersOK'
  <2>1. op # "webhook"
    BY ConstantsAssumption
  <2>2. [Idle EXCEPT !.op = op, !.pc = "load"].op # "webhook"
        /\ [Idle EXCEPT !.op = op, !.pc = "load"].pc = "load"
    BY <2>1 DEF Idle
  <2>3. QED
    BY Zenon, <1>3, <1>4, <2>2 DEF ClientCall, Start
<1>5. ASSUME NEW w \in Workers, RelayClaim(w) PROVE WorkersOK'
  <2>1. /\ [Idle EXCEPT !.op = "deliver", !.pc = "load", !.att = evt.attempts].op # "webhook"
        /\ [Idle EXCEPT !.op = "deliver", !.pc = "load", !.att = evt.attempts].pc = "load"
    BY DEF Idle
  <2>2. QED
    BY Zenon, <1>3, <1>5, <2>1 DEF RelayClaim
<1>6. ASSUME NEW w \in Workers, ReaperList(w) PROVE WorkersOK'
  <2>1. /\ [Idle EXCEPT !.op = "recover", !.pc = "load"].op # "webhook"
        /\ [Idle EXCEPT !.op = "recover", !.pc = "load"].pc = "load"
    BY DEF Idle
  <2>2. QED
    BY Zenon, <1>3, <1>6, <2>1 DEF ReaperList, Start
<1>7. ASSUME NEW w \in Workers, Crash(w) \/ StatementFails(w) PROVE WorkersOK'
  <2>1. Idle.op # "webhook" /\ Idle.pc = "idle"
    BY DEF Idle
  <2>2. CASE Crash(w)
    BY Zenon, <1>3, <2>1, <2>2 DEF Crash
  <2>3. CASE StatementFails(w)
    BY <1>1, <2>3, ReturnOK DEF StatementFails
  <2>4. QED
    BY <1>7, <2>2, <2>3
<1>8. ASSUME NEW w \in Workers, NEW h \in hooks, RecordEvent(w, h) PROVE WorkersOK'
  <2>1. h.ref \in Refs /\ h.status \in Sent
    BY <1>1 DEF TypeOK, Hook
  <2>2. /\ proc'[w].op = "webhook" /\ proc'[w].pc = "lookup"
        /\ proc'[w].ref = h.ref /\ proc'[w].resp = h.status
    BY <1>1, <1>8 DEF RecordEvent, TypeOK, Idle
  <2>3. \A v \in Workers \ {w} : proc'[v] = proc[v]
    BY <1>1, <1>8 DEF RecordEvent, TypeOK
  <2>4. WorkerOK(w)'
    BY <2>1, <2>2 DEF WorkerOK
  <2>5. QED
    BY <1>1, <2>3, <2>4, OthersOK
<1>9. CASE UNCHANGED proc
  BY <1>1, <1>9 DEF WorkersOK, WorkerOK
<1>10. QED
  BY <1>1, <1>2, <1>4, <1>5, <1>6, <1>7, <1>8, <1>9
     DEF Next, RefCacheExpires, GatewayDecide, CacheExpires, DeleteExpired, vars

(* PaymentFlow keeps its types, and every worker knows at each step what    *)
(* the code relies on there: what it loaded, checked and was given.         *)
THEOREM Typing == Spec => [](TypeOK /\ WorkersOK)
BY InitType, InitWorkers, NextType, NextWorkers, PTL DEF Spec

-----------------------------------------------------------------------------
(* Copies of the row *)

(* The row moves along the table, under the next version. *)
RowMoves ==
    /\ row'.status \in Status /\ CanTransition(row, row'.status)
    /\ row'.version = row.version + 1
    /\ row'.intent = row.intent
    /\ row'.mode = row.mode
    /\ cache' = NoRow

(* A current copy has the row's fields, and may make the row's transitions. *)
LEMMA CurrentCopy ==
    ASSUME TypeOK, SnapshotsAgree, NEW w \in Workers, proc[w].snap \in Row, Current(w)
    PROVE  /\ proc[w].snap.status = row.status
           /\ proc[w].snap.version = row.version
           /\ proc[w].snap.ref = row.ref
           /\ proc[w].snap.started = row.started
           /\ proc[w].snap.mode = row.mode
           /\ \A to : CanTransition(proc[w].snap, to) => CanTransition(row, to)
<1>1. row \in Row
  BY DEF TypeOK
<1>2. /\ proc[w].snap = [row EXCEPT !.intent = proc[w].snap.intent]
      /\ proc[w].snap.intent => row.intent
  BY NoRowAssumption DEF SnapshotsAgree, Agrees, Current
<1>3. /\ proc[w].snap.status = row.status
      /\ proc[w].snap.version = row.version
      /\ proc[w].snap.ref = row.ref
      /\ proc[w].snap.started = row.started
      /\ proc[w].snap.mode = row.mode
  BY <1>1, <1>2 DEF Row
<1>4. QED
  BY <1>2, <1>3 DEF CanTransition

(* A transition sets the status and leaves the other fields.                 *)
LEMMA TransitionedFields ==
    ASSUME NEW t \in Row, NEW s \in Status
    PROVE  /\ Transitioned(t, s).status = s
           /\ Transitioned(t, s).version = t.version
           /\ Transitioned(t, s).ref = t.ref
           /\ Transitioned(t, s).intent = t.intent
           /\ Transitioned(t, s).mode = t.mode
           /\ Transitioned(t, s) \in Row
BY TransitionedType DEF Transitioned, Row

(* UpdateStatus writes the copy's fields, one version on; the intent stays   *)
(* the row's.                                                                *)
LEMMA UpdateStatusFields ==
    ASSUME TypeOK, NEW t \in Row, UpdateStatus(t)
    PROVE  /\ row'.status = t.status
           /\ row'.version = t.version + 1
           /\ row'.ref = t.ref
           /\ row'.started = t.started
           /\ row'.intent = row.intent
           /\ row'.mode = t.mode
           /\ cache' = NoRow
<1>1. row' = [t EXCEPT !.version = t.version + 1, !.intent = row.intent] /\ cache' = NoRow
  BY DEF UpdateStatus
<1>2. QED
  BY <1>1 DEF Row

(* A committed transition of a current copy moves the row. *)
LEMMA CommitMoves ==
    ASSUME TypeOK, SnapshotsAgree, NEW w \in Workers, proc[w].snap \in Row, Current(w),
           NEW t \in Row, t.status = proc[w].snap.status, t.version = proc[w].snap.version,
           t.mode = proc[w].snap.mode,
           NEW to \in Status, CanTransition(proc[w].snap, to),
           UpdateStatus(Transitioned(t, to))
    PROVE  RowMoves /\ row'.status = to /\ row'.ref = t.ref
<1>1. /\ proc[w].snap.version = row.version /\ proc[w].snap.mode = row.mode
      /\ CanTransition(row, to)
  BY CurrentCopy
<1> DEFINE u == Transitioned(t, to)
<1>2. /\ u \in Row /\ u.status = to /\ u.version = t.version
      /\ u.ref = t.ref /\ u.mode = t.mode
  BY TransitionedFields
<1>3. UpdateStatus(u)
  OBVIOUS
<1> HIDE DEF u
<1>4. /\ row'.status = u.status /\ row'.version = u.version + 1 /\ row'.ref = u.ref
      /\ row'.intent = row.intent /\ row'.mode = u.mode /\ cache' = NoRow
  BY <1>2, <1>3, UpdateStatusFields
<1>5. QED
  BY <1>1, <1>2, <1>4 DEF RowMoves

(* The three ways a step may treat the row: leave it; begin PROCESSING;     *)
(* commit an announced status, CAPTURED only on the word of the gateway.    *)
RowBegins ==
    /\ RowMoves
    /\ row'.status = "PROCESSING"
    /\ outbox' = outbox
    /\ \/ row'.started = TRUE
       \/ /\ row.status = "PENDING" /\ row'.started = row.started
          /\ \E w \in Workers : proc[w].op \in {"initiate", "deliver"}

RowCommits ==
    /\ RowMoves
    /\ row'.status \in Announced
    /\ outbox' = outbox \cup {[status |-> row'.status, version |-> row'.version]}
    /\ row.status = "PROCESSING" => row'.started = FALSE
    /\ row.status # "PROCESSING" => row'.started = row.started
    /\ row'.status = "CAPTURED" => \E w \in Workers : SaysPaid(w)

RowKept == row' = row /\ outbox' = outbox

(* Leaving PROCESSING clears the time it started.                            *)
LEMMA StartedAfter ==
    ASSUME NEW t \in Row, NEW to \in Status, CanTransition(t, to)
    PROVE  /\ t.status = "PROCESSING" => Transitioned(t, to).started = FALSE
           /\ t.status # "PROCESSING" => Transitioned(t, to).started = t.started
<1>1. t.status = "PROCESSING" => to \in {"CAPTURED", "AUTHORIZED", "FAILED", "CANCELLED"}
  BY DEF CanTransition, isValidTransition, transitionTable
<1>2. t.started \in BOOLEAN
  BY DEF Row
<1>3. Transitioned(t, to).started =
        (t.started /\ ~ (t.status = "PROCESSING"
                         /\ to \in {"FAILED", "CANCELLED", "CAPTURED", "SETTLED", "AUTHORIZED"}))
  BY Zenon DEF Transitioned, Row
<1>4. QED
  BY Zenon, <1>1, <1>2, <1>3

(* So does a commit of a current copy.                                       *)
LEMMA CommitStarted ==
    ASSUME TypeOK, SnapshotsAgree, NEW w \in Workers, proc[w].snap \in Row, Current(w),
           NEW t \in Row, t.status = proc[w].snap.status, t.started = proc[w].snap.started,
           NEW to \in Status, CanTransition(t, to), UpdateStatus(Transitioned(t, to))
    PROVE  /\ row.status = "PROCESSING" => row'.started = FALSE
           /\ row.status # "PROCESSING" => row'.started = row.started
<1>1. row'.started = Transitioned(t, to).started
  BY TransitionedType, UpdateStatusFields
<1>2. t.status = row.status /\ t.started = row.started
  BY CurrentCopy
<1>3. /\ t.status = "PROCESSING" => Transitioned(t, to).started = FALSE
      /\ t.status # "PROCESSING" => Transitioned(t, to).started = t.started
  BY Zenon, StartedAfter
<1>4. QED
  BY <1>1, <1>2, <1>3

(* The commit of an initiation begins the payment with the call's            *)
(* reference.                                                                *)
LEMMA InitiateCommitRow ==
    ASSUME TypeOK, WorkersOK, SnapshotsAgree, NEW w \in Workers, InitiateCommit(w)
    PROVE  RowKept \/ (RowBegins /\ row.ref = NoRef /\ row'.ref = proc[w].ref)
<1>1. CASE ~ Current(w)
  BY <1>1 DEF InitiateCommit, VersionConflict, RowKept
<1>2. CASE Current(w)
  <2> DEFINE t == [proc[w].snap EXCEPT !.ref = proc[w].ref]
  <2>1. /\ proc[w].op \in {"initiate", "deliver"}
        /\ proc[w].snap \in Row /\ proc[w].snap.status = "PENDING" /\ proc[w].snap.ref = NoRef
    BY SnapType DEF InitiateCommit, At, WorkersOK, WorkerOK
  <2>2. /\ t \in Row /\ t.status = "PENDING" /\ t.version = proc[w].snap.version
        /\ t.mode = proc[w].snap.mode /\ t.intent = proc[w].snap.intent
        /\ t.started = proc[w].snap.started /\ t.ref = proc[w].ref
    BY <2>1, ProcFields DEF Row
  <2>3. UpdateStatus(Transitioned(t, "PROCESSING")) /\ outbox' = outbox
    BY <1>2 DEF InitiateCommit
  <2> HIDE DEF t
  <2>4. CanTransition(t, "PROCESSING") /\ CanTransition(proc[w].snap, "PROCESSING")
    BY <2>1, <2>2 DEF CanTransition, isValidTransition, transitionTable
  <2>5. "PROCESSING" \in Status
    BY DEF Status
  <2>6. RowMoves /\ row'.status = "PROCESSING" /\ row'.ref = t.ref
    BY <1>2, <2>1, <2>2, <2>3, <2>4, <2>5, CommitMoves
  <2>7. row.status = "PENDING" /\ row.started = t.started /\ row.ref = NoRef
    BY <1>2, <2>1, <2>2, CurrentCopy
  <2>8. row'.started = t.started
    BY Zenon, <2>2, <2>3, <2>4, <2>5, UpdateStatusFields, TransitionedType, StartedAfter
  <2>9. QED
    BY <2>1, <2>2, <2>3, <2>6, <2>7, <2>8 DEF RowBegins
<1>3. QED
  BY <1>1, <1>2

(* A manual confirmation begins it and keeps the reference.                  *)
LEMMA BeginProcessingRow ==
    ASSUME TypeOK, WorkersOK, SnapshotsAgree, NEW w \in Workers, BeginProcessing(w)
    PROVE  RowBegins /\ row'.ref = row.ref
<1> DEFINE u == Transitioned(proc[w].snap, "PROCESSING")
           v == [u EXCEPT !.started = TRUE]
<1>1. proc[w].snap \in Row /\ "PROCESSING" \in Status
  BY SnapType DEF BeginProcessing, At, Status
<1>2. UpdateStatus(v) /\ outbox' = outbox /\ Current(w) /\ CanTransition(proc[w].snap, "PROCESSING")
  BY DEF BeginProcessing, MayBegin
<1>3. /\ u \in Row /\ u.status = "PROCESSING" /\ u.version = proc[w].snap.version
      /\ u.ref = proc[w].snap.ref /\ u.mode = proc[w].snap.mode
  BY <1>1, TransitionedFields
<1> HIDE DEF u
<1>4. /\ v \in Row /\ v.status = "PROCESSING" /\ v.version = proc[w].snap.version
      /\ v.ref = proc[w].snap.ref /\ v.mode = proc[w].snap.mode /\ v.started = TRUE
  BY Zenon, <1>3 DEF Row
<1> HIDE DEF v
<1>5. QED
  BY <1>1, <1>2, <1>4, CurrentCopy, UpdateStatusFields DEF RowBegins, RowMoves

(* The commit of an answer writes its outcome and its reference.             *)
LEMMA FinalizeRow ==
    ASSUME TypeOK, WorkersOK, SnapshotsAgree, NEW w \in Workers, Finalize(w)
    PROVE  /\ RowCommits /\ row'.ref = WithReference(w).ref
           /\ row'.status \in Outcomes /\ (row'.status = "CAPTURED" => SaysPaid(w))
<1> DEFINE t == WithReference(w)
<1>1. /\ proc[w].snap \in Row /\ proc[w].pc = "answered" /\ Current(w)
      /\ CanTransition(proc[w].snap, Outcome(w))
  BY SnapType DEF Finalize, Finalizing, MayFinalize, At
<1>2. Outcome(w) \in Status /\ Outcome(w) \in Announced /\ Outcome(w) \in Outcomes
  BY OutcomeType DEF Finalize
<1>3. /\ t \in Row /\ t.status = proc[w].snap.status /\ t.version = proc[w].snap.version
      /\ t.intent = proc[w].snap.intent /\ t.mode = proc[w].snap.mode
      /\ t.started = proc[w].snap.started
  BY <1>1, WithReferenceType
<1>4. UpdateStatus(Transitioned(t, Outcome(w)))
  BY DEF Finalize
<1> HIDE DEF t
<1>5. RowMoves /\ row'.status = Outcome(w) /\ row'.ref = t.ref
  BY <1>1, <1>2, <1>3, <1>4, CommitMoves
<1>6. outbox' = outbox \cup {[status |-> row'.status, version |-> row'.version]}
  BY <1>2, <1>5 DEF Finalize, Announce, RowMoves
<1>7. CanTransition(t, Outcome(w))
  BY <1>1, <1>3 DEF CanTransition
<1>8. /\ row.status = "PROCESSING" => row'.started = FALSE
      /\ row.status # "PROCESSING" => row'.started = row.started
  BY Zenon, <1>1, <1>2, <1>3, <1>4, <1>7, CommitStarted
<1>9. row'.status = "CAPTURED" => SaysPaid(w)
  BY <1>5 DEF SaysPaid, Outcome, resolveOutcome, resolveAuthorizeOutcome, resolveCaptureOutcome
<1>10. QED
  BY <1>2, <1>5, <1>6, <1>8, <1>9 DEF RowCommits, t

(* A settlement commits what the copy says, or nothing.                      *)
LEMMA SettleRow ==
    ASSUME TypeOK, WorkersOK, SnapshotsAgree, NEW w \in Workers, Settle(w)
    PROVE  RowKept \/ (RowCommits /\ row'.ref = row.ref /\ row'.status = "SETTLED")
<1> DEFINE t == proc[w].snap
<1>1. t \in Row /\ "SETTLED" \in Status /\ "SETTLED" \in Announced
  BY SnapType DEF Settle, At, Status, Announced
<1>2. CASE CanTransition(t, "SETTLED") /\ Current(w)
  <2>1. /\ UpdateStatus(Transitioned(t, "SETTLED"))
        /\ outbox' = outbox \cup Announce("SETTLED", row.version + 1)
    BY <1>2 DEF Settle
  <2>2. RowMoves /\ row'.status = "SETTLED" /\ row'.ref = t.ref
    BY <1>1, <1>2, <2>1, CommitMoves
  <2>3. /\ row.status = "PROCESSING" => row'.started = FALSE
        /\ row.status # "PROCESSING" => row'.started = row.started
    BY Zenon, <1>1, <1>2, <2>1, CommitStarted
  <2>4. outbox' = outbox \cup {[status |-> row'.status, version |-> row'.version]}
    BY <1>1, <2>1, <2>2 DEF Announce, RowMoves
  <2>5. row'.ref = row.ref
    BY <1>1, <1>2, <2>2, CurrentCopy
  <2>6. QED
    BY <1>1, <2>2, <2>3, <2>4, <2>5 DEF RowCommits
<1>3. CASE ~ (CanTransition(t, "SETTLED") /\ Current(w))
  BY <1>3 DEF Settle, RowKept
<1>4. QED
  BY <1>2, <1>3

(* A webhook commits its outcome to the payment it found, or nothing.        *)
LEMMA WebhookApplyRow ==
    ASSUME TypeOK, WorkersOK, SnapshotsAgree, NEW w \in Workers, WebhookApply(w)
    PROVE  \/ RowKept
           \/ /\ RowCommits /\ row'.ref = row.ref /\ proc[w].snap.ref = row.ref
              /\ row'.status # "SETTLED" /\ (row'.status = "CAPTURED" => SaysPaid(w))
<1> DEFINE t == proc[w].snap
<1>1. /\ t \in Row /\ HookStatus(w) \in Status /\ HookStatus(w) \in Announced
      /\ HookStatus(w) # "SETTLED"
      /\ CanTransition(t, HookStatus(w))
  BY SnapType, HookStatusType DEF WebhookApply, HookApplies, At, Outcomes, Announced
<1>2. CASE Current(w)
  <2>1. /\ UpdateStatus(Transitioned(t, HookStatus(w)))
        /\ outbox' = outbox \cup Announce(HookStatus(w), row.version + 1)
    BY <1>2 DEF WebhookApply
  <2>2. RowMoves /\ row'.status = HookStatus(w) /\ row'.ref = t.ref
    BY <1>1, <1>2, <2>1, CommitMoves
  <2>3. /\ row.status = "PROCESSING" => row'.started = FALSE
        /\ row.status # "PROCESSING" => row'.started = row.started
    BY Zenon, <1>1, <1>2, <2>1, CommitStarted
  <2>4. outbox' = outbox \cup {[status |-> row'.status, version |-> row'.version]}
    BY <1>1, <2>1, <2>2 DEF Announce, RowMoves
  <2>5. row'.ref = row.ref /\ t.ref = row.ref
    BY <1>1, <1>2, <2>2, CurrentCopy
  <2>6. row'.status = "CAPTURED" => SaysPaid(w)
    BY <2>2 DEF SaysPaid, HookStatus, mapWebhookStatus
  <2>7. QED
    BY <1>1, <2>2, <2>3, <2>4, <2>5, <2>6 DEF RowCommits
<1>3. CASE ~ Current(w)
  BY <1>3 DEF WebhookApply, VersionConflict, RowKept
<1>4. QED
  BY <1>2, <1>3

(* The five writes of the row.                                              *)
Writes(w) ==
    InitiateCommit(w) \/ BeginProcessing(w) \/ Finalize(w) \/ Settle(w) \/ WebhookApply(w)

(* Every other step leaves the row and the announced events as they are.    *)
LEMMA Writers == [Next]_vars => RowKept \/ \E w \in Workers : Writes(w)
<1>1. ASSUME NEW w \in Workers, Proceed(w)
      PROVE  RowKept \/ Writes(w)
  <2>1. CASE \/ CacheHit(w) \/ CacheMiss(w) \/ CacheFill(w)
             \/ TryAcquireDirect(w) \/ PrepareFails(w)
             \/ InitiateFails(w) \/ InitiateAbort(w)
             \/ MarkPublished(w) \/ MarkFailed(w) \/ MarkExhausted(w)
    BY <2>1 DEF RowKept, CacheHit, CacheMiss, CacheFill, TryAcquireDirect, PrepareFails,
                InitiateFails, InitiateAbort, MarkPublished, MarkFailed, MarkExhausted
  <2>2. CASE \/ BeginRejected(w) \/ FinalizeRejected(w) \/ LeaveProcessing(w)
             \/ RecoverSkip(w) \/ CheckStatus(w)
             \/ InitiatePayment(w) \/ CapturePayment(w) \/ RequestFails(w) \/ Reply(w)
             \/ GetByGatewayReference(w) \/ WebhookDrop(w)
    BY Zenon, <2>2 DEF RowKept, BeginRejected, FinalizeRejected, VersionConflict, LeaveProcessing,
                RecoverSkip, CheckStatus, InitiatePayment, CapturePayment, RequestFails, Reply,
                GetByGatewayReference, WebhookDrop
  <2>3. QED
    BY <1>1, <2>1, <2>2 DEF Proceed, Writes
<1>2. ASSUME NEW w \in Workers, \/ \E op \in ApiCalls : ClientCall(w, op)
                                \/ RelayClaim(w) \/ ReaperList(w)
                                \/ Crash(w) \/ StatementFails(w)
                                \/ \E h \in hooks : RecordEvent(w, h)
      PROVE  RowKept
  BY Zenon, <1>2 DEF RowKept, ClientCall, RelayClaim, ReaperList, Crash, StatementFails, RecordEvent
<1>3. ASSUME NEW r \in Refs, RefCacheExpires(r) \/ \E s \in Decisions : GatewayDecide(r, s)
      PROVE  RowKept
  BY <1>3 DEF RowKept, RefCacheExpires, GatewayDecide
<1>4. CASE CacheExpires \/ DeleteExpired \/ UNCHANGED vars
  BY <1>4 DEF RowKept, CacheExpires, DeleteExpired, vars
<1>5. QED
  BY <1>1, <1>2, <1>3, <1>4 DEF Next

(* Every step treats the row in one of the three ways.                      *)
LEMMA RowChanges ==
    TypeOK /\ WorkersOK /\ SnapshotsAgree /\ [Next]_vars => RowKept \/ RowBegins \/ RowCommits
BY Writers, InitiateCommitRow, BeginProcessingRow, FinalizeRow, SettleRow, WebhookApplyRow
   DEF Writes

(* Where a worker's copy may come from in a step. *)
SnapFrom(w) ==
    \/ proc'[w].snap \in {proc[w].snap, NoRow, cache, row}
    \/ /\ proc[w].snap # NoRow
       /\ proc'[w].snap = [row' EXCEPT !.intent = proc[w].snap.intent]

(* A worker that returns keeps no copy.                                      *)
LEMMA ReturnSnap ==
    ASSUME TypeOK, NEW w \in Workers, NEW result, Return(w, result)
    PROVE  \A v \in Workers : SnapFrom(v)
BY DEF TypeOK, Return, Idle, SnapFrom

(* A new copy is one the worker had, the cache's, or the row's.              *)
LEMMA SetSnap ==
    ASSUME TypeOK, NEW w \in Workers, NEW p, proc' = [proc EXCEPT ![w] = p],
           \/ p.snap \in {proc[w].snap, NoRow, cache, row}
           \/ proc[w].snap # NoRow /\ p.snap = [row' EXCEPT !.intent = proc[w].snap.intent]
    PROVE  \A v \in Workers : SnapFrom(v)
BY DEF TypeOK, SnapFrom

(* So it is after every statement of a worker.                               *)
LEMMA ProceedSnaps ==
    ASSUME TypeOK, WorkersOK, NEW w \in Workers, Proceed(w)
    PROVE  \A v \in Workers : SnapFrom(v)
<1> DEFINE sources == {proc[w].snap, NoRow, cache, row}
           p == proc[w]
<1>1. ASSUME NEW result, Return(w, result)
      PROVE  \A v \in Workers : SnapFrom(v)
  BY <1>1, ReturnSnap
<1>2. p \in Proc
  BY ProcFields
<1>3. ASSUME NEW pc, Goto(w, pc)
      PROVE  \A v \in Workers : SnapFrom(v)
  <2>1. [p EXCEPT !.pc = pc].snap \in sources
    BY <1>2 DEF Proc
  <2>2. QED
    BY Zenon, <1>3, <2>1, SetSnap DEF Goto
<1>4. ASSUME NEW answer, Answered(w, answer)
      PROVE  \A v \in Workers : SnapFrom(v)
  <2>1. [p EXCEPT !.pc = "answered", !.resp = answer].snap \in sources
    BY <1>2 DEF Proc
  <2>2. QED
    BY Zenon, <1>4, <2>1, SetSnap DEF Answered
<1>5. CASE \/ PrepareFails(w) \/ InitiateFails(w) \/ InitiateAbort(w)
           \/ InitiateCommit(w) \/ BeginRejected(w) \/ FinalizeRejected(w)
           \/ LeaveProcessing(w) \/ Settle(w) \/ RecoverSkip(w)
           \/ WebhookDrop(w) \/ WebhookApply(w)
  BY <1>1, <1>5 DEF PrepareFails, InitiateFails, InitiateAbort, InitiateCommit, BeginRejected,
     FinalizeRejected, LeaveProcessing, Settle, RecoverSkip, WebhookDrop, WebhookApply
<1>6. CASE MarkPublished(w) \/ MarkFailed(w) \/ MarkExhausted(w)
  BY Zenon, <1>6, SetSnap DEF MarkPublished, MarkFailed, MarkExhausted, Idle
<1>7. CASE CacheFill(w) \/ TryAcquireDirect(w) \/ Finalize(w)
  BY <1>1, <1>3, <1>7 DEF CacheFill, TryAcquireDirect, Finalize
<1>8. CASE CacheHit(w)
  <2>1. [p EXCEPT !.pc = "loaded", !.snap = cache].snap \in sources
    BY <1>2 DEF Proc
  <2>2. QED
    BY Zenon, <1>8, <2>1, SetSnap DEF CacheHit
<1>9. ASSUME NEW pc, proc' = [proc EXCEPT ![w] = [@ EXCEPT !.pc = pc, !.snap = row]]
      PROVE  \A v \in Workers : SnapFrom(v)
  <2>1. [p EXCEPT !.pc = pc, !.snap = row].snap \in sources
    BY <1>2 DEF Proc
  <2>2. QED
    BY Zenon, <1>9, <2>1, SetSnap
<1>10. CASE CacheMiss(w)
  BY <1>9, <1>10, Zenon DEF CacheMiss
<1>11. CASE BeginProcessing(w)
  <2> DEFINE t == [row' EXCEPT !.intent = proc[w].snap.intent]
  <2>1. [p EXCEPT !.pc = "lease", !.snap = t].snap = t
    BY <1>2 DEF Proc
  <2>2. proc[w].snap # NoRow
    BY <1>11 DEF BeginProcessing, At, WorkersOK, WorkerOK
  <2>3. QED
    BY Zenon, <1>11, <2>1, <2>2, SetSnap DEF BeginProcessing
<1>12. CASE CheckStatus(w)
  <2>1. PICK answer : proc' = [proc EXCEPT ![w] = [@ EXCEPT !.pc = "answered", !.resp = answer,
                                                        !.ref = proc[w].snap.ref]]
    BY Zenon, <1>12 DEF CheckStatus
  <2>2. [p EXCEPT !.pc = "answered", !.resp = answer, !.ref = proc[w].snap.ref].snap \in sources
    BY <1>2 DEF Proc
  <2>3. QED
    BY Zenon, <2>1, <2>2, SetSnap
<1>13. CASE RequestFails(w) \/ Reply(w)
  BY <1>4, <1>13, Zenon DEF RequestFails, Reply
<1>14. CASE InitiatePayment(w) \/ CapturePayment(w)
  <2>1. PICK r : proc' = [proc EXCEPT ![w] = [@ EXCEPT !.pc = "sent", !.ref = r]]
    BY Zenon, <1>14 DEF InitiatePayment, CapturePayment
  <2>2. [p EXCEPT !.pc = "sent", !.ref = r].snap \in sources
    BY <1>2 DEF Proc
  <2>3. QED
    BY Zenon, <2>1, <2>2, SetSnap
<1>15. CASE GetByGatewayReference(w)
  BY <1>1, <1>3, <1>9, <1>15, Zenon DEF GetByGatewayReference
<1>16. QED
  BY <1>5, <1>6, <1>7, <1>8, <1>10, <1>11, <1>12, <1>13, <1>14, <1>15 DEF Proceed

(* And after every other step.                                               *)
LEMMA NextSnaps ==
    TypeOK /\ WorkersOK /\ [Next]_vars => \A v \in Workers : SnapFrom(v)
<1>1. SUFFICES ASSUME TypeOK, WorkersOK, [Next]_vars
               PROVE  \A v \in Workers : SnapFrom(v)
  OBVIOUS
<1>2. ASSUME NEW w \in Workers, Proceed(w)
      PROVE  \A v \in Workers : SnapFrom(v)
  BY <1>1, <1>2, ProceedSnaps
<1>3. ASSUME NEW w \in Workers, \/ \E op \in ApiCalls : ClientCall(w, op)
                                \/ RelayClaim(w) \/ ReaperList(w)
                                \/ Crash(w) \/ StatementFails(w)
                                \/ \E h \in hooks : RecordEvent(w, h)
      PROVE  \A v \in Workers : SnapFrom(v)
  <2>1. ASSUME NEW op, NEW pc, Start(w, op, pc)
        PROVE  \A v \in Workers : SnapFrom(v)
    BY Zenon, <1>1, <2>1, SetSnap DEF Start, Idle
  <2>2. CASE \/ \E op \in ApiCalls : ClientCall(w, op)
             \/ ReaperList(w)
    BY <2>1, <2>2, Zenon DEF ClientCall, ReaperList
  <2>3. CASE RelayClaim(w)
    BY Zenon, <1>1, <2>3, SetSnap DEF RelayClaim, Idle
  <2>4. CASE Crash(w) \/ StatementFails(w)
    BY Zenon, <1>1, <2>4, SetSnap, ReturnSnap DEF Crash, StatementFails, Idle
  <2>5. ASSUME NEW h \in hooks, RecordEvent(w, h)
        PROVE  \A v \in Workers : SnapFrom(v)
    BY Zenon, <1>1, <2>5, SetSnap DEF RecordEvent, Idle
  <2>6. QED
    BY <1>3, <2>2, <2>3, <2>4, <2>5
<1>4. CASE UNCHANGED proc
  BY <1>4 DEF SnapFrom
<1>5. ASSUME NEW r \in Refs, RefCacheExpires(r) \/ \E s \in Decisions : GatewayDecide(r, s)
      PROVE  UNCHANGED proc
  BY <1>5 DEF RefCacheExpires, GatewayDecide
<1>6. CASE CacheExpires \/ DeleteExpired \/ UNCHANGED vars
  BY <1>4, <1>6 DEF CacheExpires, DeleteExpired, vars
<1>7. QED
  BY <1>1, <1>2, <1>3, <1>4, <1>5, <1>6 DEF Next

(* The cache is kept, emptied, or filled with a worker's copy. *)
CacheFrom == cache' \in {cache, NoRow} \/ \E w \in Workers : cache' = proc[w].snap

(* The cache is emptied, or filled with a worker's copy.                     *)
LEMMA NextCache == [Next]_vars => CacheFrom
<1>1. ASSUME NEW w \in Workers, Proceed(w)
      PROVE  CacheFrom
  BY Zenon, <1>1 DEF CacheFrom, Proceed, CacheHit, CacheMiss, CacheFill, TryAcquireDirect, PrepareFails,
     InitiateFails, InitiateCommit, InitiateAbort, MarkPublished, MarkFailed, MarkExhausted,
     BeginProcessing, BeginRejected, Finalize, FinalizeRejected, LeaveProcessing, Settle,
     RecoverSkip, CheckStatus, InitiatePayment, CapturePayment, RequestFails, Reply,
     GetByGatewayReference, WebhookDrop, WebhookApply, UpdateStatus, VersionConflict
<1>2. ASSUME NEW w \in Workers, \/ \E op \in ApiCalls : ClientCall(w, op)
                                \/ RelayClaim(w) \/ ReaperList(w)
                                \/ Crash(w) \/ StatementFails(w)
                                \/ \E h \in hooks : RecordEvent(w, h)
      PROVE  CacheFrom
  BY Zenon, <1>2 DEF CacheFrom, ClientCall, RelayClaim, ReaperList, Crash, StatementFails, RecordEvent
<1>3. ASSUME NEW r \in Refs, RefCacheExpires(r) \/ \E s \in Decisions : GatewayDecide(r, s)
      PROVE  CacheFrom
  BY <1>3 DEF CacheFrom, RefCacheExpires, GatewayDecide
<1>4. CASE CacheExpires \/ DeleteExpired \/ UNCHANGED vars
  BY <1>4 DEF CacheFrom, CacheExpires, DeleteExpired, vars
<1>5. QED
  BY <1>1, <1>2, <1>3, <1>4 DEF Next

(* Agrees, of the row r. *)
AgreesWith(t, r) ==
    t # NoRow =>
        /\ t.version <= r.version
        /\ t.intent => r.intent
        /\ t.version = r.version => t = [r EXCEPT !.intent = t.intent]

(* A copy that agrees goes on agreeing: a write makes it out of date. *)
LEMMA AgreesKept ==
    ASSUME TypeOK, TypeOK', RowKept \/ RowBegins \/ RowCommits,
           NEW t \in Row \cup {NoRow}, AgreesWith(t, row)
    PROVE  AgreesWith(t, row')
<1>1. CASE RowKept
  BY <1>1 DEF RowKept
<1>2. CASE RowMoves
  <2>1. row.version \in Nat /\ row'.version = row.version + 1 /\ row'.intent = row.intent
    BY <1>2 DEF RowMoves, TypeOK, Row
  <2>2. t # NoRow => t.version \in Nat
    BY DEF Row
  <2>3. QED
    BY <2>1, <2>2 DEF AgreesWith
<1>3. QED
  BY <1>1, <1>2 DEF RowBegins, RowCommits

(* There are no copies at first.                                             *)
LEMMA InitSnapshots == Init => SnapshotsAgree
BY DEF Init, SnapshotsAgree, Agrees, Idle

(* So copies agree with the row of their version.                            *)
LEMMA NextSnapshots ==
    TypeOK /\ TypeOK' /\ WorkersOK /\ SnapshotsAgree /\ [Next]_vars => SnapshotsAgree'
<1>1. SUFFICES ASSUME TypeOK, TypeOK', WorkersOK, SnapshotsAgree, [Next]_vars
               PROVE  SnapshotsAgree'
  OBVIOUS
<1>2. RowKept \/ RowBegins \/ RowCommits
  BY <1>1, RowChanges
<1>3. row \in Row /\ row' \in Row /\ cache \in Row \cup {NoRow}
  BY <1>1 DEF TypeOK
<1>4. /\ AgreesWith(NoRow, row) /\ AgreesWith(cache, row) /\ AgreesWith(row, row)
      /\ \A w \in Workers : AgreesWith(proc[w].snap, row)
  <2>1. row = [row EXCEPT !.intent = row.intent] /\ row.version \in Nat
    BY <1>3 DEF Row
  <2>2. QED
    BY <1>1, <2>1 DEF SnapshotsAgree, Agrees, AgreesWith
<1>5. /\ AgreesWith(NoRow, row') /\ AgreesWith(cache, row')
      /\ \A w \in Workers : AgreesWith(proc[w].snap, row')
  <2>1. \A w \in Workers : proc[w].snap \in Row \cup {NoRow}
    BY <1>1, ProcFields
  <2>2. QED
    BY <1>1, <1>2, <1>3, <1>4, <2>1, AgreesKept
<1>6. AgreesWith(cache', row')
  BY <1>1, <1>5, NextCache DEF CacheFrom
<1>7. ASSUME NEW w \in Workers
      PROVE  AgreesWith(proc'[w].snap, row')
  <2>1. SnapFrom(w)
    BY <1>1, NextSnaps
  <2>2. CASE proc'[w].snap \in {proc[w].snap, NoRow, cache, row}
    BY <1>1, <1>2, <1>3, <1>4, <1>5, <2>2, AgreesKept
  <2>3. CASE /\ proc[w].snap # NoRow
             /\ proc'[w].snap = [row' EXCEPT !.intent = proc[w].snap.intent]
    <3>1. proc[w].snap.intent => row'.intent
      BY Zenon, <1>5, <2>3 DEF AgreesWith
    <3>2. proc'[w].snap.version = row'.version /\ proc'[w].snap.intent = proc[w].snap.intent
      BY <1>3, <2>3 DEF Row
    <3>3. row'.version <= row'.version
      BY <1>3 DEF Row
    <3>4. QED
      BY <2>3, <3>1, <3>2, <3>3 DEF AgreesWith
  <2>4. QED
    BY <2>1, <2>2, <2>3 DEF SnapFrom
<1>8. QED
  BY <1>6, <1>7 DEF SnapshotsAgree, Agrees, AgreesWith

(* Every copy of the row that a worker or the cache holds is either out of  *)
(* date or the row itself, for every number of workers, references and      *)
(* calls: the version check of UpdateStatus never accepts a stale copy.     *)
THEOREM CopiesAgree == Spec => []SnapshotsAgree
<1>1. Init => SnapshotsAgree
  BY InitSnapshots
<1>2. TypeOK /\ TypeOK' /\ WorkersOK /\ SnapshotsAgree /\ [Next]_vars => SnapshotsAgree'
  BY NextSnapshots
<1>3. QED
  BY <1>1, <1>2, Typing, PTL DEF Spec

(* The committed status only moves along transitionTable. *)
THEOREM TransitionsLegal == Spec => LegalTransitions
<1>1. TypeOK /\ WorkersOK /\ SnapshotsAgree /\ [Next]_vars
        => [row'.status # row.status => CanTransition(row, row'.status)]_vars
  <2>1. RowKept => row'.status = row.status
    BY DEF RowKept
  <2>2. RowBegins \/ RowCommits => CanTransition(row, row'.status)
    BY DEF RowBegins, RowCommits, RowMoves
  <2>3. QED
    BY <2>1, <2>2, RowChanges
<1>2. QED
  BY <1>1, Typing, CopiesAgree, PTL DEF Spec, LegalTransitions

(* Nothing is announced at first.                                            *)
LEMMA InitAnnounced == Init => AnnouncedOnce
BY DEF Init, AnnouncedOnce, Announced

(* An announcement comes with a commit, and a commit has a version of its    *)
(* own.                                                                      *)
LEMMA NextAnnounced ==
    ASSUME TypeOK, TypeOK', AnnouncedOnce, RowKept \/ RowBegins \/ RowCommits
    PROVE  AnnouncedOnce'
<1>1. row.version \in Nat /\ \A e \in outbox : e.version \in Nat /\ e.version <= row.version
  BY DEF TypeOK, Row, AnnouncedOnce
<1>2. CASE RowKept
  BY <1>2 DEF RowKept, AnnouncedOnce
<1>3. CASE RowBegins
  BY <1>1, <1>3 DEF RowBegins, RowMoves, AnnouncedOnce, Announced
<1>4. CASE RowCommits
  <2> DEFINE e == [status |-> row'.status, version |-> row'.version]
  <2>1. row'.version = row.version + 1 /\ outbox' = outbox \cup {e}
    BY <1>4 DEF RowCommits, RowMoves
  <2>2. e.version = row'.version /\ \A f \in outbox : f.version < e.version
    BY <1>1, <2>1
  <2> HIDE DEF e
  <2>3. \A f, g \in outbox : f.version = g.version => f = g
    BY DEF AnnouncedOnce
  <2>4. \A f, g \in outbox' : f.version = g.version => f = g
    BY <1>1, <2>1, <2>2, <2>3
  <2>5. \A f \in outbox' : f.version <= row'.version
    BY <1>1, <2>1, <2>2
  <2>6. e \in outbox'
    BY <2>1
  <2>7. QED
    BY <2>4, <2>5, <2>6 DEF AnnouncedOnce, e
<1>5. QED
  BY <1>2, <1>3, <1>4

(* Every status commit writes one event, under the version it commits. *)
THEOREM EventsAnnounced == Spec => []AnnouncedOnce
<1>1. Init => AnnouncedOnce
  BY InitAnnounced
<1>2. TypeOK /\ TypeOK' /\ WorkersOK /\ SnapshotsAgree /\ AnnouncedOnce /\ [Next]_vars
        => AnnouncedOnce'
  BY NextAnnounced, RowChanges
<1>3. QED
  BY <1>1, <1>2, Typing, CopiesAgree, PTL DEF Spec

-----------------------------------------------------------------------------
(* What a step does to a worker's operation, step and answer *)

WorkerStep(w) ==
    /\ \A v \in Workers \ {w} : proc'[v] = proc[v]
    /\ proc'[w].op \in {proc[w].op, "idle"}
    /\ proc'[w].pc \in {"call", "sent"} =>
          proc[w].pc \in {"call", "sent"} \/ (lease = FALSE /\ lease' = TRUE)
    /\ proc'[w].resp = "succeeded" => SaysPaid(w) \/ Paid # {}

(* What a new state of a worker must satisfy to be such a step.              *)
LEMMA SetWorker ==
    ASSUME TypeOK, NEW w \in Workers, NEW p, proc' = [proc EXCEPT ![w] = p],
           p.op \in {proc[w].op, "idle"},
           p.pc \in {"call", "sent"} =>
              proc[w].pc \in {"call", "sent"} \/ (lease = FALSE /\ lease' = TRUE),
           p.resp = "succeeded" => SaysPaid(w) \/ Paid # {}
    PROVE  WorkerStep(w)
BY DEF TypeOK, WorkerStep

(* Returning is.                                                             *)
LEMMA ReturnStep ==
    ASSUME TypeOK, NEW w \in Workers, NEW result \in {"ok", "error"}, Return(w, result)
    PROVE  WorkerStep(w)
<1>1. CASE proc[w].op = "deliver"
  BY Zenon, <1>1, SetWorker DEF Return, Idle
<1>2. CASE proc[w].op # "deliver"
  BY Zenon, <1>2, SetWorker DEF Return, Idle
<1>3. QED
  BY <1>1, <1>2

(* So is every statement of a worker.                                        *)
LEMMA ProceedSteps ==
    ASSUME TypeOK, WorkersOK, NEW w \in Workers, Proceed(w)
    PROVE  WorkerStep(w)
<1> DEFINE p == proc[w]
<1>1. ASSUME NEW result \in {"ok", "error"}, Return(w, result)
      PROVE  WorkerStep(w)
  BY <1>1, ReturnStep
<1>2. p \in Proc
  BY ProcFields
<1>3. ASSUME NEW pc, Goto(w, pc), pc = "call" => lease = FALSE /\ lease' = TRUE, pc # "sent"
      PROVE  WorkerStep(w)
  <2>1. /\ [p EXCEPT !.pc = pc].op = p.op /\ [p EXCEPT !.pc = pc].pc = pc
        /\ [p EXCEPT !.pc = pc].resp = p.resp
    BY <1>2 DEF Proc
  <2>2. QED
    BY Zenon, <1>3, <2>1, SetWorker DEF Goto, SaysPaid
<1>4. ASSUME NEW answer, Answered(w, answer), answer = "succeeded" => Paid # {}
      PROVE  WorkerStep(w)
  <2> DEFINE q == [p EXCEPT !.pc = "answered", !.resp = answer]
  <2>1. q.op = p.op /\ q.pc = "answered" /\ q.resp = answer
    BY <1>2 DEF Proc
  <2>2. QED
    BY Zenon, <1>4, <2>1, SetWorker DEF Answered
<1>5. CASE \/ PrepareFails(w) \/ InitiateFails(w) \/ InitiateAbort(w)
           \/ InitiateCommit(w) \/ BeginRejected(w) \/ FinalizeRejected(w)
           \/ LeaveProcessing(w) \/ Settle(w) \/ RecoverSkip(w)
           \/ WebhookDrop(w) \/ WebhookApply(w)
  BY <1>1, <1>5 DEF PrepareFails, InitiateFails, InitiateAbort, InitiateCommit, BeginRejected,
     FinalizeRejected, LeaveProcessing, Settle, RecoverSkip, WebhookDrop, WebhookApply
<1>6. CASE MarkPublished(w) \/ MarkFailed(w) \/ MarkExhausted(w)
  BY Zenon, <1>6, SetWorker DEF MarkPublished, MarkFailed, MarkExhausted, Idle
<1>7. CASE CacheFill(w) \/ TryAcquireDirect(w) \/ Finalize(w)
  <2>1. lease \in BOOLEAN
    BY DEF TypeOK
  <2>2. QED
    BY Zenon, <1>1, <1>3, <1>7, <2>1 DEF CacheFill, TryAcquireDirect, Finalize
<1>8. ASSUME NEW pc, NEW s, proc' = [proc EXCEPT ![w] = [@ EXCEPT !.pc = pc, !.snap = s]],
             pc \in {"fill", "loaded", "lease"}
      PROVE  WorkerStep(w)
  <2> DEFINE q == [p EXCEPT !.pc = pc, !.snap = s]
  <2>1. q.op = p.op /\ q.pc = pc /\ q.resp = p.resp
    BY <1>2 DEF Proc
  <2>2. QED
    BY Zenon, <1>8, <2>1, SetWorker DEF SaysPaid
<1>9. CASE CacheHit(w) \/ CacheMiss(w) \/ BeginProcessing(w)
  BY <1>8, <1>9, Zenon DEF CacheHit, CacheMiss, BeginProcessing
<1>10. CASE CheckStatus(w)
  <2>1. PICK answer \in StatusAnswers(p.snap.ref) :
           proc' = [proc EXCEPT ![w] = [@ EXCEPT !.pc = "answered", !.resp = answer,
                                                 !.ref = proc[w].snap.ref]]
    BY Zenon, <1>10 DEF CheckStatus
  <2>2. answer = "succeeded" => Paid # {}
    <3>1. p.snap.ref \in Refs \cup {NoRef}
      BY <1>10, SnapType DEF CheckStatus, At, Row
    <3>2. QED
      BY <2>1, <3>1 DEF StatusAnswers, Unanswered, Paid
  <2> DEFINE q == [p EXCEPT !.pc = "answered", !.resp = answer, !.ref = proc[w].snap.ref]
  <2>3. q.op = p.op /\ q.pc = "answered" /\ q.resp = answer
    BY <1>2 DEF Proc
  <2>4. QED
    BY Zenon, <2>1, <2>2, <2>3, SetWorker
<1>11. CASE RequestFails(w)
  BY <1>4, <1>11 DEF RequestFails, Unanswered
<1>12. CASE Reply(w)
  <2>1. PICK answer \in Unanswered \cup {gp[p.ref]} : Answered(w, answer)
    BY <1>12 DEF Reply
  <2>2. p.ref \in Refs
    BY <1>12 DEF Reply, WorkersOK, WorkerOK
  <2>3. answer = "succeeded" => Paid # {}
    BY <2>1, <2>2 DEF Unanswered, Paid
  <2>4. QED
    BY <1>4, <2>1, <2>3
<1>13. CASE InitiatePayment(w) \/ CapturePayment(w)
  <2>1. PICK r : proc' = [proc EXCEPT ![w] = [@ EXCEPT !.pc = "sent", !.ref = r]]
    BY Zenon, <1>13 DEF InitiatePayment, CapturePayment
  <2>2. p.pc = "call"
    BY Zenon, <1>13 DEF InitiatePayment, CapturePayment, At
  <2> DEFINE q == [p EXCEPT !.pc = "sent", !.ref = r]
  <2>3. q.op = p.op /\ q.resp = p.resp
    BY <1>2 DEF Proc
  <2>4. QED
    BY Zenon, <2>1, <2>2, <2>3, SetWorker DEF SaysPaid
<1>14. CASE GetByGatewayReference(w)
  <2>1. CASE Goto(w, "load")
    BY Zenon, <1>3, <2>1
  <2>2. CASE Return(w, "ok")
    BY <1>1, <2>2
  <2>3. QED
    BY <1>8, <1>14, <2>1, <2>2, Zenon DEF GetByGatewayReference
<1>15. QED
  BY <1>5, <1>6, <1>7, <1>9, <1>10, <1>11, <1>12, <1>13, <1>14 DEF Proceed

(* So are its faults.                                                        *)
LEMMA FaultSteps ==
    ASSUME TypeOK, NEW w \in Workers, Crash(w) \/ StatementFails(w)
    PROVE  WorkerStep(w)
<1>1. CASE Crash(w)
  BY Zenon, <1>1, SetWorker DEF Crash, Idle
<1>2. CASE StatementFails(w)
  BY <1>2, ReturnStep DEF StatementFails
<1>3. QED
  BY <1>1, <1>2

(* A worker takes up an API call, an event, an expired lease or a webhook.  *)
WorkerStarts(w) ==
    /\ proc[w] = Idle
    /\ \A v \in Workers \ {w} : proc'[v] = proc[v]
    /\ proc'[w].pc \in {"load", "lookup"}
    /\ proc'[w].op \in {"initiate", "deliver"} =>
          row.mode = "auto" \/ evt.status \in {"PENDING", "PUBLISHING"}
    /\ proc'[w].resp = "succeeded" => [ref |-> proc'[w].ref, status |-> "succeeded"] \in hooks

(* A worker starts with nothing sent and nothing answered.                   *)
LEMMA Starting ==
    ASSUME TypeOK, NEW w \in Workers,
           \/ \E op \in ApiCalls : ClientCall(w, op)
           \/ RelayClaim(w) \/ ReaperList(w)
           \/ \E h \in hooks : RecordEvent(w, h)
    PROVE  WorkerStarts(w)
<1>1. proc \in [Workers -> Proc] /\ hooks \subseteq Hook
  BY DEF TypeOK
<1>2. ASSUME NEW op \in ApiCalls, ClientCall(w, op)
      PROVE  WorkerStarts(w)
  <2>1. op \in {"initiate", "authorize", "capture", "settle"}
    BY ConstantsAssumption
  <2>2. QED
    BY Zenon, <1>1, <1>2, <2>1 DEF ClientCall, Start, Idle, WorkerStarts
<1>3. CASE RelayClaim(w)
  BY <1>1, <1>3 DEF RelayClaim, Idle, WorkerStarts
<1>4. CASE ReaperList(w)
  BY <1>1, <1>4 DEF ReaperList, Start, Idle, WorkerStarts
<1>5. ASSUME NEW h \in hooks, RecordEvent(w, h)
      PROVE  WorkerStarts(w)
  <2>1. h = [ref |-> h.ref, status |-> h.status]
    BY <1>1 DEF Hook
  <2> DEFINE q == [Idle EXCEPT !.op = "webhook", !.pc = "lookup", !.ref = h.ref, !.resp = h.status]
  <2>2. q.op = "webhook" /\ q.pc = "lookup" /\ q.ref = h.ref /\ q.resp = h.status
    BY DEF Idle
  <2>3. proc[w] = Idle /\ proc' = [proc EXCEPT ![w] = q]
    BY Zenon, <1>5 DEF RecordEvent
  <2> HIDE DEF q
  <2>4. QED
    BY <1>1, <2>1, <2>2, <2>3 DEF WorkerStarts
<1>6. QED
  BY <1>2, <1>3, <1>4, <1>5

(* Nobody calls the gateway at first.                                        *)
LEMMA InitFlight == Init => SingleFlight /\ LeaseHeld
<1>1. Init => Calling = {}
  BY DEF Init, Calling, Idle
<1>2. QED
  BY <1>1 DEF SingleFlight, LeaseHeld

(* The lease lets one worker at a time call it.                              *)
LEMMA NextFlight ==
    ASSUME TypeOK, WorkersOK, SingleFlight, LeaseHeld, [Next]_vars
    PROVE  SingleFlight' /\ LeaseHeld'
<1>1. SUFFICES ASSUME TtlOutlivesCalls
               PROVE  (\A v, w \in Calling' : v = w) /\ (Calling' # {} => lease')
  BY DEF SingleFlight, LeaseHeld
<1>2. /\ \A v, w \in Calling : v = w
      /\ Calling # {} => lease
      /\ lease \in BOOLEAN
  BY <1>1 DEF SingleFlight, LeaseHeld, TypeOK
<1>3. CASE Calling' \subseteq Calling /\ (lease => lease')
  BY <1>2, <1>3
<1>4. ASSUME NEW w \in Workers, Proceed(w)
      PROVE  (\A u, v \in Calling' : u = v) /\ (Calling' # {} => lease')
  <2>1. WorkerStep(w)
    BY <1>4, ProceedSteps
  <2>2. lease' = lease \/ lease' = TRUE
    BY Zenon, <1>4 DEF Proceed, CacheHit, CacheMiss, CacheFill, TryAcquireDirect, PrepareFails,
     InitiateFails, InitiateCommit, InitiateAbort, MarkPublished, MarkFailed, MarkExhausted,
     BeginProcessing, BeginRejected, Finalize, FinalizeRejected, LeaveProcessing, Settle,
     RecoverSkip, CheckStatus, InitiatePayment, CapturePayment, RequestFails, Reply,
     GetByGatewayReference, WebhookDrop, WebhookApply
  <2>3. CASE w \in Calling' /\ w \notin Calling
    <3>1. lease = FALSE /\ lease' = TRUE
      BY <2>1, <2>3 DEF WorkerStep, Calling
    <3>2. Calling = {}
      BY <1>2, <3>1
    <3>3. Calling' \subseteq {w}
      BY <2>1, <3>2 DEF WorkerStep, Calling
    <3>4. QED
      BY <3>1, <3>3
  <2>4. CASE ~ (w \in Calling' /\ w \notin Calling)
    <3>1. Calling' \subseteq Calling
      BY <2>1, <2>4 DEF WorkerStep, Calling
    <3>2. QED
      BY <1>2, <2>2, <3>1
  <2>5. QED
    BY <2>3, <2>4
<1>5. ASSUME NEW w \in Workers, \/ \E op \in ApiCalls : ClientCall(w, op)
                                \/ RelayClaim(w) \/ ReaperList(w)
                                \/ \E h \in hooks : RecordEvent(w, h)
      PROVE  Calling' \subseteq Calling /\ lease' = lease
  <2>1. WorkerStarts(w)
    BY <1>5, Starting
  <2>2. Calling' \subseteq Calling
    BY <2>1 DEF WorkerStarts, Calling
  <2>3. lease' = lease
    BY Zenon, <1>5 DEF ClientCall, RelayClaim, ReaperList, RecordEvent
  <2>4. QED
    BY <2>2, <2>3
<1>6. ASSUME NEW w \in Workers, Crash(w) \/ StatementFails(w)
      PROVE  Calling' \subseteq Calling /\ lease' = lease
  <2>1. WorkerStep(w) /\ lease' = lease
    BY <1>6, FaultSteps DEF Crash, StatementFails
  <2>2. QED
    BY <2>1 DEF WorkerStep, Calling
<1>7. ASSUME NEW r \in Refs, RefCacheExpires(r) \/ \E s \in Decisions : GatewayDecide(r, s)
      PROVE  Calling' = Calling /\ lease' = lease
  BY <1>7 DEF RefCacheExpires, GatewayDecide, Calling
<1>8. CASE CacheExpires \/ UNCHANGED vars
  <2>1. Calling' = Calling /\ lease' = lease
    BY <1>8 DEF CacheExpires, vars, Calling
  <2>2. QED
    BY <1>3, <2>1
<1>9. CASE DeleteExpired
  <2>1. Calling' = {}
    BY <1>1, <1>9 DEF DeleteExpired, Calling
  <2>2. QED
    BY <2>1
<1>10. QED
  BY <1>3, <1>4, <1>5, <1>6, <1>7, <1>8, <1>9 DEF Next

(* At most one worker at a time is in a gateway call for a transaction, as  *)
(* long as the lease outlives the calls.                                    *)
THEOREM CallsExclusive == Spec => []SingleFlight
<1>1. Init => SingleFlight /\ LeaseHeld
  BY InitFlight
<1>2. TypeOK /\ WorkersOK /\ SingleFlight /\ LeaseHeld /\ [Next]_vars
        => SingleFlight' /\ LeaseHeld'
  BY NextFlight
<1>3. QED
  BY <1>1, <1>2, Typing, PTL DEF Spec

-----------------------------------------------------------------------------
(* The gateway's record of a payment *)

(* A step keeps the record, starts a payment, or moves one on and sends a   *)
(* webhook that says so.                                                    *)
GatewayStep ==
    \/ UNCHANGED <<gp, hooks>>
    \/ /\ UNCHANGED hooks
       /\ \E r \in InitiateTargets : gp' = [gp EXCEPT ![r] = IF @ = "none" THEN "pending" ELSE @]
    \/ \E r \in Refs, s \in Sent :
          /\ \/ gp[r] = "authorized" /\ s = "succeeded"
             \/ s \in gatewayMoves[gp[r]]
          /\ gp' = [gp EXCEPT ![r] = s]
          /\ hooks' = hooks \cup {[ref |-> r, status |-> s]}

(* What a step may do at the gateway: start a payment or move one along.     *)
LEMMA NextGateway == TypeOK /\ WorkersOK /\ [Next]_vars => GatewayStep
<1>1. SUFFICES ASSUME TypeOK, WorkersOK, [Next]_vars
               PROVE  GatewayStep
  OBVIOUS
<1>2. ASSUME NEW w \in Workers, Proceed(w)
      PROVE  GatewayStep
  <2>1. CASE InitiatePayment(w)
    BY Zenon, <2>1 DEF InitiatePayment, GatewayStep
  <2>2. CASE CapturePayment(w)
    <3>1. proc[w].snap.ref \in Refs
      BY <1>1, <2>2, SnapType DEF CapturePayment, At, Row
    <3>2. QED
      BY <2>2, <3>1 DEF CapturePayment, GatewayStep, Sent
  <2>3. CASE ~ (InitiatePayment(w) \/ CapturePayment(w))
    BY Zenon, <1>2, <2>3 DEF GatewayStep, Proceed, CacheHit, CacheMiss, CacheFill, TryAcquireDirect,
       PrepareFails, InitiateFails, InitiateCommit, InitiateAbort, MarkPublished, MarkFailed,
       MarkExhausted, BeginProcessing, BeginRejected, Finalize, FinalizeRejected,
       LeaveProcessing, Settle, RecoverSkip, CheckStatus, RequestFails, Reply,
       GetByGatewayReference, WebhookDrop, WebhookApply
  <2>4. QED
    BY <2>1, <2>2, <2>3
<1>3. ASSUME NEW w \in Workers, \/ \E op \in ApiCalls : ClientCall(w, op)
                                \/ RelayClaim(w) \/ ReaperList(w)
                                \/ Crash(w) \/ StatementFails(w)
                                \/ \E h \in hooks : RecordEvent(w, h)
      PROVE  GatewayStep
  BY Zenon, <1>3 DEF GatewayStep, ClientCall, RelayClaim, ReaperList, Crash, StatementFails, RecordEvent
<1>4. ASSUME NEW r \in Refs, NEW s \in Decisions, GatewayDecide(r, s)
      PROVE  GatewayStep
  BY Zenon, <1>4, DecisionsAssumption DEF GatewayStep, GatewayDecide, Sent
<1>5. ASSUME NEW r \in Refs, RefCacheExpires(r)
      PROVE  GatewayStep
  BY <1>5 DEF GatewayStep, RefCacheExpires
<1>6. CASE CacheExpires \/ DeleteExpired \/ UNCHANGED vars
  BY <1>6 DEF GatewayStep, CacheExpires, DeleteExpired, vars
<1>7. QED
  BY <1>1, <1>2, <1>3, <1>4, <1>5, <1>6 DEF Next

(* Money taken stays taken, and a webhook that says so is right. *)
LEMMA PaidGrows ==
    ASSUME TypeOK, GatewayStep, \A h \in hooks : h.status = "succeeded" => h.ref \in Paid
    PROVE  /\ Paid \subseteq Paid'
           /\ \A h \in hooks' : h.status = "succeeded" => h.ref \in Paid'
<1>1. gp \in [Refs -> GatewayStatus]
  BY DEF TypeOK
<1>2. CASE UNCHANGED <<gp, hooks>>
  BY <1>2 DEF Paid
<1>3. ASSUME NEW r \in InitiateTargets, UNCHANGED hooks,
             gp' = [gp EXCEPT ![r] = IF @ = "none" THEN "pending" ELSE @]
      PROVE  Paid \subseteq Paid' /\ \A h \in hooks' : h.status = "succeeded" => h.ref \in Paid'
  BY <1>1, <1>3 DEF Paid
<1>4. ASSUME NEW r \in Refs, NEW s \in Sent,
             \/ gp[r] = "authorized" /\ s = "succeeded"
             \/ s \in gatewayMoves[gp[r]],
             gp' = [gp EXCEPT ![r] = s],
             hooks' = hooks \cup {[ref |-> r, status |-> s]}
      PROVE  Paid \subseteq Paid' /\ \A h \in hooks' : h.status = "succeeded" => h.ref \in Paid'
  <2>1. gp[r] \in {"succeeded", "refunded"} => s \in {"succeeded", "refunded"}
    <3>1. gatewayMoves["succeeded"] = {"refunded"} /\ gatewayMoves["refunded"] = {}
      BY DEF gatewayMoves
    <3>2. \/ gp[r] = "authorized" /\ s = "succeeded"
          \/ s \in gatewayMoves[gp[r]]
      BY <1>4
    <3>3. QED
      BY <3>1, <3>2
  <2>2. Paid \subseteq Paid'
    <3>1. gp' = [gp EXCEPT ![r] = s]
      BY <1>4
    <3>2. QED
      BY <1>1, <2>1, <3>1 DEF Paid
  <2>3. s = "succeeded" => r \in Paid'
    BY <1>1, <1>4 DEF Paid
  <2>4. QED
    BY <1>4, <2>2, <2>3
<1>5. QED
  BY <1>2, <1>3, <1>4 DEF GatewayStep

(* Nothing is captured at first.                                             *)
LEMMA InitBacked == Init => CapturedIsBacked /\ RepliesBacked
BY DEF Init, CapturedIsBacked, RepliesBacked, SaysPaid, Idle

(* A reply that says paid follows a payment.                                 *)
LEMMA NextReplies ==
    ASSUME TypeOK, WorkersOK, RepliesBacked, [Next]_vars
    PROVE  RepliesBacked' /\ Paid \subseteq Paid'
<1>1. /\ Paid \subseteq Paid'
      /\ \A h \in hooks' : h.status = "succeeded" => h.ref \in Paid'
  BY NextGateway, PaidGrows DEF RepliesBacked
<1>2. ASSUME NEW w \in Workers, WorkerStep(w)
      PROVE  \A v \in Workers : proc'[v].resp = "succeeded" => Paid # {}
  BY <1>2 DEF WorkerStep, RepliesBacked, SaysPaid
<1>3. ASSUME NEW w \in Workers, WorkerStarts(w)
      PROVE  \A v \in Workers : proc'[v].resp = "succeeded" => Paid # {}
  <2>1. proc'[w].resp = "succeeded" => Paid # {}
    BY <1>3 DEF WorkerStarts, RepliesBacked
  <2>2. QED
    BY <1>3, <2>1 DEF WorkerStarts, RepliesBacked, SaysPaid
<1>4. ASSUME UNCHANGED proc
      PROVE  \A v \in Workers : proc'[v].resp = "succeeded" => Paid # {}
  BY <1>4 DEF RepliesBacked, SaysPaid
<1>5. ASSUME NEW w \in Workers, Proceed(w)
      PROVE  \A v \in Workers : proc'[v].resp = "succeeded" => Paid # {}
  BY <1>2, <1>5, ProceedSteps
<1>6. ASSUME NEW w \in Workers, Crash(w) \/ StatementFails(w)
      PROVE  \A v \in Workers : proc'[v].resp = "succeeded" => Paid # {}
  BY <1>2, <1>6, FaultSteps
<1>7. ASSUME NEW w \in Workers, \/ \E op \in ApiCalls : ClientCall(w, op)
                                \/ RelayClaim(w) \/ ReaperList(w)
                                \/ \E h \in hooks : RecordEvent(w, h)
      PROVE  \A v \in Workers : proc'[v].resp = "succeeded" => Paid # {}
  BY <1>3, <1>7, Starting
<1>8. ASSUME NEW r \in Refs, RefCacheExpires(r) \/ \E s \in Decisions : GatewayDecide(r, s)
      PROVE  UNCHANGED proc
  BY <1>8 DEF RefCacheExpires, GatewayDecide
<1>9. CacheExpires \/ DeleteExpired \/ UNCHANGED vars => UNCHANGED proc
  BY DEF CacheExpires, DeleteExpired, vars
<1>10. \A v \in Workers : proc'[v].resp = "succeeded" => Paid # {}
  BY <1>4, <1>5, <1>6, <1>7, <1>8, <1>9 DEF Next
<1>11. QED
  BY <1>1, <1>10 DEF RepliesBacked, SaysPaid

(* So a capture does.                                                        *)
LEMMA NextBacked ==
    ASSUME TypeOK, CapturedIsBacked, RepliesBacked, Paid \subseteq Paid',
           RowKept \/ RowBegins \/ RowCommits
    PROVE  CapturedIsBacked'
<1>1. CASE RowKept \/ RowBegins
  BY <1>1 DEF RowKept, RowBegins, CapturedIsBacked
<1>2. CASE RowCommits
  <2>1. row'.status = "CAPTURED" => Paid # {}
    BY <1>2 DEF RowCommits, RepliesBacked
  <2>2. row'.status = "SETTLED" => row.status = "CAPTURED"
    <3>1. CanTransition(row, row'.status)
      BY <1>2 DEF RowCommits, RowMoves
    <3>2. row.status \in Status
      BY DEF TypeOK, Row
    <3>3. QED
      BY <3>1, <3>2 DEF CanTransition, isValidTransition, transitionTable, Status
  <2>3. QED
    BY <2>1, <2>2 DEF CapturedIsBacked
<1>3. QED
  BY <1>1, <1>2

(* No transaction is CAPTURED or SETTLED unless the gateway took the money. *)
THEOREM CapturesBacked == Spec => []CapturedIsBacked
<1>1. Init => CapturedIsBacked /\ RepliesBacked
  BY InitBacked
<1>2. TypeOK /\ WorkersOK /\ SnapshotsAgree /\ CapturedIsBacked /\ RepliesBacked /\ [Next]_vars
        => CapturedIsBacked' /\ RepliesBacked'
  BY NextReplies, NextBacked, RowChanges
<1>3. QED
  BY <1>1, <1>2, Typing, CopiesAgree, PTL DEF Spec

-----------------------------------------------------------------------------
(* The processing fields *)

(* The fields agree at first.                                                *)
LEMMA InitFields == Init => ProcessingFields /\ ManualNotInitiated
<1>1. SUFFICES ASSUME Init
               PROVE  ProcessingFields /\ ManualNotInitiated
  OBVIOUS
<1>2. row.started = FALSE /\ row.status = "PENDING"
  BY Zenon, <1>1 DEF Init
<1>3. ManualNotInitiated
  BY <1>1 DEF Init, ManualNotInitiated, Idle
<1>4. QED
  BY <1>2, <1>3 DEF ProcessingFields

(* A manual payment has no event, and no worker initiates it.                *)
LEMMA NextManual ==
    ASSUME TypeOK, WorkersOK, SnapshotsAgree, ManualNotInitiated, [Next]_vars
    PROVE  ManualNotInitiated'
<1>1. row'.mode = row.mode
  BY Zenon, RowChanges DEF RowKept, RowBegins, RowCommits, RowMoves
<1>2. SUFFICES ASSUME row.mode = "manual"
               PROVE  /\ evt'.status = "ABSENT"
                      /\ \A v \in Workers : proc'[v].op \notin {"initiate", "deliver"}
  BY <1>1 DEF ManualNotInitiated
<1>3. evt.status = "ABSENT" /\ \A v \in Workers : proc[v].op \notin {"initiate", "deliver"}
  BY <1>2 DEF ManualNotInitiated
<1>4. ASSUME NEW w \in Workers, Proceed(w)
      PROVE  evt' = evt /\ \A v \in Workers : proc'[v].op \notin {"initiate", "deliver"}
  <2>1. WorkerStep(w)
    BY <1>4, ProceedSteps
  <2>2. evt' = evt
    BY Zenon, <1>3, <1>4 DEF Proceed, CacheHit, CacheMiss, CacheFill, TryAcquireDirect,
       PrepareFails, InitiateFails, InitiateCommit, InitiateAbort, MarkPublished, MarkFailed,
       MarkExhausted, BeginProcessing, BeginRejected, Finalize, FinalizeRejected,
       LeaveProcessing, Settle, RecoverSkip, CheckStatus, InitiatePayment, CapturePayment,
       RequestFails, Reply, GetByGatewayReference, WebhookDrop, WebhookApply, At
  <2>3. QED
    BY Zenon, <1>3, <2>1, <2>2 DEF WorkerStep
<1>5. ASSUME NEW w \in Workers, \/ \E op \in ApiCalls : ClientCall(w, op)
                                \/ RelayClaim(w) \/ ReaperList(w)
                                \/ \E h \in hooks : RecordEvent(w, h)
      PROVE  evt' = evt /\ \A v \in Workers : proc'[v].op \notin {"initiate", "deliver"}
  <2>1. WorkerStarts(w)
    BY <1>5, Starting
  <2>2. evt' = evt
    BY Zenon, <1>3, <1>5 DEF ClientCall, RelayClaim, ReaperList, RecordEvent
  <2>3. proc'[w].op \notin {"initiate", "deliver"}
    BY <1>2, <1>3, <2>1 DEF WorkerStarts
  <2>4. QED
    BY <1>3, <2>1, <2>2, <2>3 DEF WorkerStarts
<1>6. ASSUME NEW w \in Workers, Crash(w) \/ StatementFails(w)
      PROVE  evt' = evt /\ \A v \in Workers : proc'[v].op \notin {"initiate", "deliver"}
  <2>1. WorkerStep(w) /\ evt' = evt
    BY <1>6, FaultSteps DEF Crash, StatementFails
  <2>2. QED
    BY <1>3, <2>1 DEF WorkerStep
<1>7. ASSUME NEW r \in Refs, RefCacheExpires(r) \/ \E s \in Decisions : GatewayDecide(r, s)
      PROVE  UNCHANGED <<evt, proc>>
  BY Zenon, <1>7 DEF RefCacheExpires, GatewayDecide
<1>8. CacheExpires \/ DeleteExpired \/ UNCHANGED vars => UNCHANGED <<evt, proc>>
  BY DEF CacheExpires, DeleteExpired, vars
<1>9. QED
  BY Zenon, <1>3, <1>4, <1>5, <1>6, <1>7, <1>8 DEF Next

(* Every commit keeps the fields in agreement.                               *)
LEMMA NextFields ==
    ASSUME TypeOK, ProcessingFields, ManualNotInitiated, RowKept \/ RowBegins \/ RowCommits
    PROVE  ProcessingFields'
<1>1. CASE RowKept
  BY <1>1 DEF RowKept, ProcessingFields
<1>2. CASE RowBegins
  <2>1. row'.status = "PROCESSING" /\ row'.mode = row.mode
    BY <1>2 DEF RowBegins, RowMoves
  <2>2. row.mode = "manual" => row'.started
    BY <1>2 DEF RowBegins, ManualNotInitiated
  <2>3. QED
    BY <2>1, <2>2 DEF ProcessingFields
<1>3. CASE RowCommits
  <2>1. row'.status # "PROCESSING"
    BY <1>3 DEF RowCommits, Announced
  <2>2. ~ row'.started
    BY <1>3, Zenon DEF RowCommits, ProcessingFields
  <2>3. QED
    BY <2>1, <2>2 DEF ProcessingFields
<1>4. QED
  BY <1>1, <1>2, <1>3

(* The processing fields are set only while PROCESSING, and always while a  *)
(* manual capture is PROCESSING: the reaper's query finds it.               *)
THEOREM FieldsFollowStatus == Spec => []ProcessingFields
<1>1. Init => ProcessingFields /\ ManualNotInitiated
  BY InitFields
<1>2. TypeOK /\ WorkersOK /\ SnapshotsAgree /\ ProcessingFields /\ ManualNotInitiated /\ [Next]_vars
        => ProcessingFields' /\ ManualNotInitiated'
  BY NextManual, NextFields, RowChanges
<1>3. QED
  BY <1>1, <1>2, Typing, CopiesAgree, PTL DEF Spec

-----------------------------------------------------------------------------
(* References *)

(* The gateway's payments stay, and every webhook is about one of them. An  *)
(* idempotent gateway creates a payment only if it has none.                *)
LEMMA CreatedGrows ==
    ASSUME TypeOK, ReferencesCreated, GatewayStep
    PROVE  /\ Created \subseteq Created'
           /\ \A h \in hooks' : h.ref \in Created'
           /\ IdempotentGateway => \A r, s \in Created' : r = s
<1>1. gp \in [Refs -> GatewayStatus]
  BY DEF TypeOK
<1>2. /\ \A h \in hooks : h.ref \in Created
      /\ IdempotentGateway => \A r, s \in Created : r = s
  BY DEF ReferencesCreated
<1>3. CASE UNCHANGED <<gp, hooks>>
  BY <1>2, <1>3 DEF Created
<1>4. ASSUME NEW r \in InitiateTargets, UNCHANGED hooks,
             gp' = [gp EXCEPT ![r] = IF @ = "none" THEN "pending" ELSE @]
      PROVE  /\ Created \subseteq Created'
             /\ \A h \in hooks' : h.ref \in Created'
             /\ IdempotentGateway => \A s, t \in Created' : s = t
  <2>1. r \in Refs /\ (IdempotentGateway /\ Created # {} => r \in Created)
    BY DEF InitiateTargets, Created
  <2>2. Created' = Created \cup {r}
    BY <1>1, <1>4, <2>1 DEF Created
  <2>3. QED
    BY <1>2, <1>4, <2>1, <2>2
<1>5. ASSUME NEW r \in Refs, NEW s \in Sent,
             gp[r] # "none",
             gp' = [gp EXCEPT ![r] = s],
             hooks' = hooks \cup {[ref |-> r, status |-> s]}
      PROVE  /\ Created \subseteq Created'
             /\ \A h \in hooks' : h.ref \in Created'
             /\ IdempotentGateway => \A t, u \in Created' : t = u
  <2>1. Created' = Created /\ r \in Created
    BY <1>1, <1>5 DEF Created, Sent
  <2>2. QED
    BY <1>2, <1>5, <2>1
<1>6. \A r \in Refs : \A s : gp[r] = "authorized" \/ s \in gatewayMoves[gp[r]] => gp[r] # "none"
  BY DEF gatewayMoves
<1>7. CASE \E r \in Refs, s \in Sent :
             /\ gp[r] = "authorized" \/ s \in gatewayMoves[gp[r]]
             /\ gp' = [gp EXCEPT ![r] = s]
             /\ hooks' = hooks \cup {[ref |-> r, status |-> s]}
  BY Zenon, <1>5, <1>6, <1>7
<1>8. QED
  BY <1>3, <1>4, <1>7 DEF GatewayStep

(* Where the row's reference may come from in a step.                       *)
RowRefFrom ==
    \/ row'.ref = row.ref
    \/ \E w \in Workers : proc[w].ref # NoRef /\ row'.ref = proc[w].ref

(* A write keeps the row's reference or stores the one a worker was given;  *)
(* only finalize may replace a reference.                                   *)
LEMMA NextRowRef ==
    ASSUME TypeOK, WorkersOK, SnapshotsAgree, [Next]_vars
    PROVE  RowRefFrom
<1>1. CASE RowKept
  BY <1>1 DEF RowKept, RowRefFrom
<1>2. ASSUME NEW w \in Workers, InitiateCommit(w)
      PROVE  RowRefFrom
  <2>1. row'.ref = row.ref \/ row'.ref = proc[w].ref
    BY <1>2, InitiateCommitRow DEF RowKept
  <2>2. proc[w].ref \in Refs
    BY <1>2 DEF InitiateCommit, At, WorkersOK, WorkerOK
  <2>3. QED
    BY <2>1, <2>2, ConstantsAssumption DEF RowRefFrom
<1>3. ASSUME NEW w \in Workers, BeginProcessing(w) \/ Settle(w) \/ WebhookApply(w)
      PROVE  RowRefFrom
  BY <1>3, BeginProcessingRow, SettleRow, WebhookApplyRow DEF RowKept, RowRefFrom
<1>4. ASSUME NEW w \in Workers, Finalize(w)
      PROVE  RowRefFrom
  <2>1. proc[w].snap \in Row /\ Current(w)
    BY <1>4, SnapType DEF Finalize, Finalizing, MayFinalize, At
  <2>2. proc[w].snap.ref = row.ref
    BY <2>1, CurrentCopy
  <2>3. \/ WithReference(w).ref = proc[w].snap.ref
        \/ proc[w].ref # NoRef /\ WithReference(w).ref = proc[w].ref
    BY <2>1 DEF WithReference, Row
  <2>4. row'.ref = WithReference(w).ref
    BY <1>4, FinalizeRow
  <2>5. QED
    BY <2>2, <2>3, <2>4 DEF RowRefFrom
<1>5. QED
  BY <1>1, <1>2, <1>3, <1>4, Writers DEF Writes

(* What a step of a worker does to the reference it works on: it keeps or   *)
(* drops it, or is given one by its copy, by the gateway or by a webhook.   *)
(* An answer that says "succeeded" names a paid payment, and on manual      *)
(* capture a webhook goes on with the transaction that has its reference.   *)
RefFrom(w, ref) ==
    \/ ref \in {proc[w].ref, NoRef} \cup Created'
    \/ proc[w].snap # NoRow /\ ref = proc[w].snap.ref
    \/ \E h \in hooks : ref = h.ref

Named(p) ==
    p.resp = "succeeded" =>
        p.ref \in Paid /\ (p.op = "webhook" \/ p.pc \in {"answered", "captured"})

FindsItsOwn(p) ==
    row.mode = "manual" /\ p.op = "webhook" =>
        p.pc = "lookup" \/ (p.pc = "loaded" /\ p.snap.ref = p.ref)

RefStep(w) ==
    /\ \A v \in Workers \ {w} : proc'[v] = proc[v]
    /\ RefFrom(w, proc'[w].ref) /\ Named(proc'[w]) /\ FindsItsOwn(proc'[w])

(* A worker that goes on with p, as long as p is of that kind.              *)
LEMMA SetRefs ==
    ASSUME TypeOK, NEW w \in Workers, NEW p, proc' = [proc EXCEPT ![w] = p],
           RefFrom(w, p.ref), Named(p), FindsItsOwn(p)
    PROVE  RefStep(w)
<1>1. proc'[w] = p /\ \A v \in Workers \ {w} : proc'[v] = proc[v]
  BY DEF TypeOK
<1>2. QED
  BY <1>1 DEF RefStep

(* An operation that returns drops its reference and its answer.            *)
LEMMA ReturnRefs ==
    ASSUME TypeOK, NEW w \in Workers, NEW result \in {"ok", "error"}, Return(w, result)
    PROVE  RefStep(w)
<1> DEFINE q == [Idle EXCEPT !.op = "deliver", !.pc = "mark", !.resp = result, !.att = proc[w].att]
<1>1. /\ q.ref = NoRef /\ q.resp = result /\ q.op = "deliver"
      /\ Idle.ref = NoRef /\ Idle.resp = "none" /\ Idle.op = "idle"
  BY DEF Idle
<1>2. proc' = [proc EXCEPT ![w] = IF proc[w].op = "deliver" THEN q ELSE Idle]
  BY DEF Return
<1> HIDE DEF q
<1>3. /\ RefFrom(w, q.ref) /\ Named(q) /\ FindsItsOwn(q)
      /\ RefFrom(w, Idle.ref) /\ Named(Idle) /\ FindsItsOwn(Idle)
  BY <1>1 DEF RefFrom, Named, FindsItsOwn
<1>4. QED
  BY Zenon, <1>2, <1>3, SetRefs

(* What is known of a worker before it steps.                               *)
LEMMA RefsBefore ==
    ASSUME RepliesNamed, HooksFindTheirOwn, NEW w \in Workers
    PROVE  Named(proc[w]) /\ FindsItsOwn(proc[w])
BY DEF RepliesNamed, HooksFindTheirOwn, SaysPaid, Named, FindsItsOwn

(* Each step of a busy worker is of that kind.                              *)
LEMMA ProceedRefs ==
    ASSUME TypeOK, WorkersOK, RepliesNamed, HooksFindTheirOwn, NEW w \in Workers, Proceed(w)
    PROVE  RefStep(w)
<1> DEFINE p == proc[w]
<1>1. p \in Proc /\ Named(p) /\ FindsItsOwn(p)
  BY ProcFields, RefsBefore
<1>2. ASSUME NEW result \in {"ok", "error"}, Return(w, result)
      PROVE  RefStep(w)
  BY <1>2, ReturnRefs
<1>3. ASSUME NEW q, proc' = [proc EXCEPT ![w] = q], q.ref = p.ref, q.resp = p.resp, q.op = p.op,
             p.op = "webhook" \/ q.pc = "captured" \/ p.resp # "succeeded",
             p.op = "webhook" /\ row.mode = "manual" => q.pc = "loaded" /\ q.snap.ref = q.ref
      PROVE  RefStep(w)
  BY Zenon, <1>1, <1>3, SetRefs DEF RefFrom, Named, FindsItsOwn
<1>4. ASSUME NEW pc
      PROVE  LET q == [p EXCEPT !.pc = pc]
             IN q.ref = p.ref /\ q.resp = p.resp /\ q.op = p.op /\ q.pc = pc /\ q.snap = p.snap
  BY <1>1 DEF Proc
<1>5. ASSUME NEW pc, NEW s, proc' = [proc EXCEPT ![w] = [@ EXCEPT !.pc = pc, !.snap = s]],
             p.op = "webhook" \/ p.resp # "succeeded",
             p.op = "webhook" /\ row.mode = "manual" => pc = "loaded" /\ s.ref = p.ref
      PROVE  RefStep(w)
  <2> DEFINE q == [p EXCEPT !.pc = pc, !.snap = s]
  <2>1. q.ref = p.ref /\ q.resp = p.resp /\ q.op = p.op /\ q.pc = pc /\ q.snap = s
    BY <1>1 DEF Proc
  <2>2. proc' = [proc EXCEPT ![w] = q]
    BY <1>5
  <2> HIDE DEF q
  <2>3. QED
    BY Zenon, <1>3, <1>5, <2>1, <2>2
<1>6. CASE \/ PrepareFails(w) \/ InitiateFails(w) \/ InitiateAbort(w)
           \/ InitiateCommit(w) \/ BeginRejected(w) \/ FinalizeRejected(w)
           \/ LeaveProcessing(w) \/ Settle(w) \/ RecoverSkip(w)
           \/ WebhookDrop(w) \/ WebhookApply(w)
  BY <1>2, <1>6 DEF PrepareFails, InitiateFails, InitiateAbort, InitiateCommit, BeginRejected,
     FinalizeRejected, LeaveProcessing, Settle, RecoverSkip, WebhookDrop, WebhookApply
<1>7. CASE MarkPublished(w) \/ MarkFailed(w) \/ MarkExhausted(w)
  <2>1. proc' = [proc EXCEPT ![w] = Idle]
    BY <1>7 DEF MarkPublished, MarkFailed, MarkExhausted
  <2>2. RefFrom(w, Idle.ref) /\ Named(Idle) /\ FindsItsOwn(Idle)
    BY DEF RefFrom, Named, FindsItsOwn, Idle
  <2>3. QED
    BY Zenon, <2>1, <2>2, SetRefs
<1>8. CASE CacheHit(w) \/ CacheMiss(w) \/ CacheFill(w)
  <2>1. p.pc \in {"load", "fill"}
    BY <1>8 DEF CacheHit, CacheMiss, CacheFill
  <2>2. /\ p.op = "webhook" \/ p.resp # "succeeded"
        /\ ~ (p.op = "webhook" /\ row.mode = "manual")
    BY <1>1, <2>1 DEF Named, FindsItsOwn
  <2>3. CASE CacheHit(w)
    BY <1>5, <2>2, <2>3, Zenon DEF CacheHit
  <2>4. CASE CacheMiss(w)
    BY <1>5, <2>2, <2>4, Zenon DEF CacheMiss
  <2>5. CASE CacheFill(w)
    BY <1>3, <1>4, <2>2, <2>5, Zenon DEF CacheFill, Goto
  <2>6. QED
    BY <1>8, <2>3, <2>4, <2>5
<1>9. CASE TryAcquireDirect(w)
  <2>1. p.op # "webhook" /\ p.resp # "succeeded"
    BY <1>1, <1>9 DEF TryAcquireDirect, AtLease, At, Named
  <2>2. CASE Goto(w, "call")
    BY <1>3, <1>4, <2>1, <2>2, Zenon DEF Goto
  <2>3. QED
    BY <1>2, <1>9, <2>2 DEF TryAcquireDirect
<1>10. CASE Finalize(w)
  <2>1. p.op # "webhook"
    BY <1>10 DEF Finalize, Finalizing, At
  <2>2. CASE Goto(w, "captured")
    BY <1>3, <1>4, <2>1, <2>2, Zenon DEF Goto
  <2>3. QED
    BY <1>2, <1>10, <2>2 DEF Finalize
<1>11. CASE BeginProcessing(w)
  <2>1. p.op # "webhook" /\ p.resp # "succeeded"
    BY <1>1, <1>11 DEF BeginProcessing, At, Named
  <2>2. QED
    BY <1>5, <1>11, <2>1, Zenon DEF BeginProcessing
<1>12. CASE CheckStatus(w)
  <2>1. PICK answer \in StatusAnswers(p.snap.ref) :
           proc' = [proc EXCEPT ![w] = [@ EXCEPT !.pc = "answered", !.resp = answer,
                                                 !.ref = proc[w].snap.ref]]
    BY Zenon, <1>12 DEF CheckStatus
  <2> DEFINE q == [p EXCEPT !.pc = "answered", !.resp = answer, !.ref = proc[w].snap.ref]
  <2>2. q.op = p.op /\ q.pc = "answered" /\ q.resp = answer /\ q.ref = p.snap.ref
    BY <1>1 DEF Proc
  <2>3. p.snap \in Row /\ p.snap # NoRow /\ p.op = "recover"
    BY <1>12, SnapType, NoRowAssumption DEF CheckStatus, At
  <2>4. answer = "succeeded" => p.snap.ref \in Paid
    BY <2>1, <2>3 DEF StatusAnswers, Unanswered, Paid, Row
  <2>5. proc' = [proc EXCEPT ![w] = q]
    BY <2>1
  <2> HIDE DEF q
  <2>6. RefFrom(w, q.ref) /\ Named(q) /\ FindsItsOwn(q)
    BY <2>2, <2>3, <2>4 DEF RefFrom, Named, FindsItsOwn
  <2>7. QED
    BY Zenon, <2>5, <2>6, SetRefs
<1>13. ASSUME NEW answer, Answered(w, answer), answer = "succeeded" => p.ref \in Paid, p.op # "webhook"
       PROVE  RefStep(w)
  <2> DEFINE q == [p EXCEPT !.pc = "answered", !.resp = answer]
  <2>1. q.op = p.op /\ q.pc = "answered" /\ q.resp = answer /\ q.ref = p.ref
    BY <1>1 DEF Proc
  <2>2. proc' = [proc EXCEPT ![w] = q]
    BY <1>13 DEF Answered
  <2> HIDE DEF q
  <2>3. RefFrom(w, q.ref) /\ Named(q) /\ FindsItsOwn(q)
    BY <1>13, <2>1 DEF RefFrom, Named, FindsItsOwn
  <2>4. QED
    BY Zenon, <2>2, <2>3, SetRefs
<1>14. CASE RequestFails(w)
  <2>1. p.op # "webhook"
    BY <1>14 DEF RequestFails, WorkersOK, WorkerOK
  <2>2. PICK answer \in Unanswered : Answered(w, answer)
    BY <1>14 DEF RequestFails
  <2>3. QED
    BY <1>13, <2>1, <2>2 DEF Unanswered
<1>15. CASE Reply(w)
  <2>1. p.op # "webhook" /\ p.ref \in Refs
    BY <1>15 DEF Reply, WorkersOK, WorkerOK
  <2>2. PICK answer \in Unanswered \cup {gp[p.ref]} : Answered(w, answer)
    BY <1>15 DEF Reply
  <2>3. answer = "succeeded" => p.ref \in Paid
    BY <2>1, <2>2 DEF Unanswered, Paid
  <2>4. QED
    BY <1>13, <2>1, <2>2, <2>3
<1>16. ASSUME NEW r, proc' = [proc EXCEPT ![w] = [@ EXCEPT !.pc = "sent", !.ref = r]],
              RefFrom(w, r), p.pc = "call"
       PROVE  RefStep(w)
  <2> DEFINE q == [p EXCEPT !.pc = "sent", !.ref = r]
  <2>1. q.op = p.op /\ q.resp = p.resp /\ q.ref = r
    BY <1>1 DEF Proc
  <2>2. p.op # "webhook"
    BY <1>16 DEF WorkersOK, WorkerOK
  <2>3. p.resp # "succeeded"
    BY <1>1, <1>16, <2>2 DEF Named
  <2>4. proc' = [proc EXCEPT ![w] = q]
    BY <1>16
  <2> HIDE DEF q
  <2>5. Named(q) /\ FindsItsOwn(q)
    BY <2>1, <2>2, <2>3 DEF Named, FindsItsOwn
  <2>6. QED
    BY Zenon, <1>16, <2>1, <2>4, <2>5, SetRefs
<1>17. CASE InitiatePayment(w)
  <2>1. PICK r \in InitiateTargets :
           /\ gp' = [gp EXCEPT ![r] = IF @ = "none" THEN "pending" ELSE @]
           /\ proc' = [proc EXCEPT ![w] = [@ EXCEPT !.pc = "sent", !.ref = r]]
    BY Zenon, <1>17 DEF InitiatePayment
  <2>2. r \in Created'
    BY <2>1 DEF InitiateTargets, Created, TypeOK
  <2>3. RefFrom(w, r) /\ p.pc = "call"
    BY <1>17, <2>2 DEF RefFrom, InitiatePayment, At
  <2>4. QED
    BY Zenon, <1>16, <2>1, <2>3
<1>18. CASE CapturePayment(w)
  <2>1. /\ p.pc = "call" /\ p.snap # NoRow
        /\ proc' = [proc EXCEPT ![w] = [@ EXCEPT !.pc = "sent", !.ref = p.snap.ref]]
    BY <1>18 DEF CapturePayment, At, WorkersOK, WorkerOK
  <2>2. RefFrom(w, p.snap.ref)
    BY <2>1 DEF RefFrom
  <2>3. QED
    BY Zenon, <1>16, <2>1, <2>2
<1>19. CASE GetByGatewayReference(w)
  <2>1. p.op = "webhook"
    BY <1>19 DEF GetByGatewayReference, At
  <2>2. CASE p.ref \in refCache /\ Goto(w, "load")
    <3>1. row.mode # "manual"
      BY <2>2 DEF HooksFindTheirOwn
    <3>2. QED
      BY <1>3, <1>4, <2>1, <2>2, <3>1, Zenon DEF Goto
  <2>3. CASE /\ row.ref = p.ref
             /\ proc' = [proc EXCEPT ![w] = [@ EXCEPT !.pc = "loaded", !.snap = row]]
    BY <1>5, <2>1, <2>3, Zenon
  <2>4. CASE Return(w, "ok")
    BY <1>2, <2>4
  <2>5. QED
    BY <1>19, <2>2, <2>3, <2>4 DEF GetByGatewayReference
<1>20. QED
  BY <1>6, <1>7, <1>8, <1>9, <1>10, <1>11, <1>12, <1>14, <1>15, <1>17, <1>18, <1>19 DEF Proceed

(* So is every other step of a worker.                                      *)
LEMMA NextRefs ==
    ASSUME TypeOK, WorkersOK, RepliesBacked, RepliesNamed, HooksFindTheirOwn, [Next]_vars
    PROVE  UNCHANGED proc \/ \E w \in Workers : RefStep(w)
<1>1. ASSUME NEW w \in Workers, Proceed(w)
      PROVE  RefStep(w)
  BY <1>1, ProceedRefs
<1>2. ASSUME NEW w \in Workers, NEW q, proc' = [proc EXCEPT ![w] = q],
             q.ref = NoRef, q.resp = "none", q.op # "webhook"
      PROVE  RefStep(w)
  <2>1. RefFrom(w, q.ref) /\ Named(q) /\ FindsItsOwn(q)
    BY <1>2 DEF RefFrom, Named, FindsItsOwn
  <2>2. QED
    BY Zenon, <1>2, <2>1, SetRefs
<1>3. ASSUME NEW w \in Workers, NEW op, NEW pc, Start(w, op, pc), op # "webhook"
      PROVE  RefStep(w)
  <2> DEFINE q == [Idle EXCEPT !.op = op, !.pc = pc]
  <2>1. q.ref = NoRef /\ q.resp = "none" /\ q.op = op
    BY DEF Idle
  <2>2. proc' = [proc EXCEPT ![w] = q]
    BY <1>3 DEF Start
  <2> HIDE DEF q
  <2>3. QED
    BY Zenon, <1>2, <1>3, <2>1, <2>2
<1>4. ASSUME NEW w \in Workers, NEW op \in ApiCalls, ClientCall(w, op)
      PROVE  RefStep(w)
  BY <1>3, <1>4, ConstantsAssumption DEF ClientCall
<1>5. ASSUME NEW w \in Workers, ReaperList(w)
      PROVE  RefStep(w)
  BY <1>3, <1>5 DEF ReaperList
<1>6. ASSUME NEW w \in Workers, RelayClaim(w)
      PROVE  RefStep(w)
  <2> DEFINE q == [Idle EXCEPT !.op = "deliver", !.pc = "load", !.att = evt.attempts]
  <2>1. q.ref = NoRef /\ q.resp = "none" /\ q.op = "deliver"
    BY DEF Idle
  <2>2. proc' = [proc EXCEPT ![w] = q]
    BY <1>6 DEF RelayClaim
  <2> HIDE DEF q
  <2>3. QED
    BY Zenon, <1>2, <2>1, <2>2
<1>7. ASSUME NEW w \in Workers, Crash(w)
      PROVE  RefStep(w)
  <2>1. RefFrom(w, Idle.ref) /\ Named(Idle) /\ FindsItsOwn(Idle)
    BY DEF RefFrom, Named, FindsItsOwn, Idle
  <2>2. QED
    BY Zenon, <1>7, <2>1, SetRefs DEF Crash
<1>8. ASSUME NEW w \in Workers, StatementFails(w)
      PROVE  RefStep(w)
  BY <1>8, ReturnRefs DEF StatementFails
<1>9. ASSUME NEW w \in Workers, NEW h \in hooks, RecordEvent(w, h)
      PROVE  RefStep(w)
  <2> DEFINE q == [Idle EXCEPT !.op = "webhook", !.pc = "lookup", !.ref = h.ref, !.resp = h.status]
  <2>1. q.op = "webhook" /\ q.pc = "lookup" /\ q.ref = h.ref /\ q.resp = h.status
    BY DEF Idle
  <2>2. proc' = [proc EXCEPT ![w] = q]
    BY <1>9 DEF RecordEvent
  <2> HIDE DEF q
  <2>3. h.status = "succeeded" => h.ref \in Paid
    BY DEF RepliesBacked
  <2>4. RefFrom(w, q.ref) /\ Named(q) /\ FindsItsOwn(q)
    BY <2>1, <2>3 DEF RefFrom, Named, FindsItsOwn
  <2>5. QED
    BY Zenon, <2>2, <2>4, SetRefs
<1>10. ASSUME NEW r \in Refs, RefCacheExpires(r) \/ \E s \in Decisions : GatewayDecide(r, s)
       PROVE  UNCHANGED proc
  BY <1>10 DEF RefCacheExpires, GatewayDecide
<1>11. CacheExpires \/ DeleteExpired \/ UNCHANGED vars => UNCHANGED proc
  BY DEF CacheExpires, DeleteExpired, vars
<1>12. QED
  BY <1>1, <1>4, <1>5, <1>6, <1>7, <1>8, <1>9, <1>10, <1>11 DEF Next

(* On manual capture nothing is ever put in the reference cache.            *)
LEMMA NextRefCache ==
    ASSUME ManualNotInitiated, row.mode = "manual", refCache = {}, [Next]_vars
    PROVE  refCache' = {}
<1>1. ASSUME NEW w \in Workers, Proceed(w)
      PROVE  refCache' = refCache
  <2>1. proc[w].op \notin {"initiate", "deliver"}
    BY DEF ManualNotInitiated
  <2>2. QED
    BY Zenon, <1>1, <2>1 DEF Proceed, CacheHit, CacheMiss, CacheFill, TryAcquireDirect, PrepareFails,
       InitiateFails, InitiateCommit, InitiateAbort, MarkPublished, MarkFailed, MarkExhausted,
       BeginProcessing, BeginRejected, Finalize, FinalizeRejected, LeaveProcessing, Settle,
       RecoverSkip, CheckStatus, InitiatePayment, CapturePayment, RequestFails, Reply,
       GetByGatewayReference, WebhookDrop, WebhookApply, At
<1>2. ASSUME NEW w \in Workers, \/ \E op \in ApiCalls : ClientCall(w, op)
                                \/ RelayClaim(w) \/ ReaperList(w)
                                \/ Crash(w) \/ StatementFails(w)
                                \/ \E h \in hooks : RecordEvent(w, h)
      PROVE  refCache' = refCache
  BY Zenon, <1>2 DEF ClientCall, RelayClaim, ReaperList, Crash, StatementFails, RecordEvent
<1>3. ASSUME NEW r \in Refs, RefCacheExpires(r) \/ \E s \in Decisions : GatewayDecide(r, s)
      PROVE  refCache' = {}
  BY <1>3 DEF RefCacheExpires, GatewayDecide
<1>4. CacheExpires \/ DeleteExpired \/ UNCHANGED vars => refCache' = refCache
  BY DEF CacheExpires, DeleteExpired, vars
<1>5. QED
  BY <1>1, <1>2, <1>3, <1>4 DEF Next

(* The answers stay named, and the webhooks with their own.                 *)
LEMMA NextNamed ==
    ASSUME TypeOK, WorkersOK, SnapshotsAgree, RepliesBacked, ManualNotInitiated,
           RepliesNamed, HooksFindTheirOwn, [Next]_vars
    PROVE  RepliesNamed' /\ HooksFindTheirOwn'
<1>1. Paid \subseteq Paid'
  BY NextReplies
<1>2. row'.mode = row.mode
  BY RowChanges DEF RowKept, RowBegins, RowCommits, RowMoves
<1>3. \A v \in Workers : Named(proc'[v]) /\ FindsItsOwn(proc'[v])
  <2>1. \A v \in Workers : Named(proc[v]) /\ FindsItsOwn(proc[v])
    BY RefsBefore
  <2>2. CASE UNCHANGED proc
    BY <2>1, <2>2
  <2>3. ASSUME NEW w \in Workers, RefStep(w)
        PROVE  \A v \in Workers : Named(proc'[v]) /\ FindsItsOwn(proc'[v])
    BY <2>1, <2>3 DEF RefStep
  <2>4. QED
    BY <2>2, <2>3, NextRefs
<1>4. RepliesNamed'
  BY <1>1, <1>3 DEF RepliesNamed, SaysPaid, Named
<1>5. row.mode = "manual" => refCache' = {}
  BY NextRefCache DEF HooksFindTheirOwn
<1>6. HooksFindTheirOwn'
  BY <1>2, <1>3, <1>5 DEF HooksFindTheirOwn, FindsItsOwn
<1>7. QED
  BY <1>4, <1>6

(* References go on coming from the gateway.                                *)
LEMMA NextReferences ==
    ASSUME TypeOK, TypeOK', WorkersOK, SnapshotsAgree, RepliesBacked, RepliesNamed,
           HooksFindTheirOwn, ReferencesCreated, [Next]_vars
    PROVE  ReferencesCreated'
<1> DEFINE Known(ref) == ref # NoRef => ref \in Created'
           KnownIn(t) == t # NoRow => Known(t.ref)
<1>1. /\ Created \subseteq Created'
      /\ \A h \in hooks' : h.ref \in Created'
      /\ IdempotentGateway => \A r, s \in Created' : r = s
  BY NextGateway, CreatedGrows
<1>2. /\ Known(row.ref) /\ \A w \in Workers : Known(proc[w].ref)
      /\ KnownIn(cache) /\ \A w \in Workers : KnownIn(proc[w].snap)
      /\ \A h \in hooks : Known(h.ref)
  <2>1. \A w \in Workers : proc[w].snap \in {cache} \cup {proc[v].snap : v \in Workers}
    OBVIOUS
  <2>2. QED
    BY <1>1, <2>1 DEF ReferencesCreated
<1>3. row \in Row /\ row' \in Row
  BY DEF TypeOK
<1> HIDE DEF Known
<1>4. Known(row'.ref)
  BY <1>2, NextRowRef DEF RowRefFrom
<1>5. ASSUME NEW w \in Workers
      PROVE  Known(proc'[w].ref)
  <2>1. CASE UNCHANGED proc
    BY <1>2, <2>1
  <2>2. ASSUME NEW v \in Workers, RefStep(v)
        PROVE  Known(proc'[w].ref)
    <3>1. CASE w # v
      BY <1>2, <2>2, <3>1 DEF RefStep
    <3>2. CASE w = v
      <4>1. RefFrom(w, proc'[w].ref)
        BY <2>2, <3>2 DEF RefStep
      <4>2. Known(NoRef) /\ \A r \in Created' : Known(r)
        BY DEF Known
      <4>3. QED
        BY <1>2, <4>1, <4>2 DEF RefFrom
    <3>3. QED
      BY <3>1, <3>2
  <2>3. QED
    BY <2>1, <2>2, NextRefs
<1>6. KnownIn(NoRow) /\ KnownIn(row)
  BY <1>2
<1>7. KnownIn(cache')
  BY <1>2, <1>6, NextCache DEF CacheFrom
<1>8. ASSUME NEW w \in Workers
      PROVE  KnownIn(proc'[w].snap)
  <2>1. SnapFrom(w)
    BY NextSnaps
  <2>2. CASE proc'[w].snap \in {proc[w].snap, NoRow, cache, row}
    BY <1>2, <1>6, <2>2
  <2>3. CASE proc'[w].snap = [row' EXCEPT !.intent = proc[w].snap.intent]
    <3>1. proc'[w].snap.ref = row'.ref
      BY <1>3, <2>3 DEF Row
    <3>2. QED
      BY <1>4, <3>1
  <2>4. QED
    BY <2>1, <2>2, <2>3 DEF SnapFrom
<1>9. QED
  BY <1>1, <1>4, <1>5, <1>7, <1>8 DEF ReferencesCreated, Known

(* A payment becomes CAPTURED under the reference of the answer that says   *)
(* so, and SETTLED under the reference it was captured with.                *)
LEMMA NextByReference ==
    ASSUME TypeOK, WorkersOK, SnapshotsAgree, RepliesNamed, HooksFindTheirOwn,
           CapturedByItsReference, Paid \subseteq Paid', [Next]_vars
    PROVE  CapturedByItsReference'
<1>1. row'.mode = row.mode
  BY RowChanges DEF RowKept, RowBegins, RowCommits, RowMoves
<1>2. SUFFICES ASSUME row.mode = "manual", row'.status \in {"CAPTURED", "SETTLED"}
               PROVE  row'.ref \in Paid'
  BY <1>1 DEF CapturedByItsReference
<1>3. CASE RowKept
  BY <1>2, <1>3 DEF RowKept, CapturedByItsReference
<1>4. ASSUME NEW w \in Workers, InitiateCommit(w) \/ BeginProcessing(w)
      PROVE  row'.ref \in Paid'
  <2>1. RowKept \/ RowBegins
    BY <1>4, InitiateCommitRow, BeginProcessingRow
  <2>2. QED
    BY <1>2, <1>3, <2>1 DEF RowBegins
<1>5. ASSUME NEW w \in Workers, SaysPaid(w)
      PROVE  proc[w].ref \in Paid /\ proc[w].ref \in Refs
  BY <1>5 DEF RepliesNamed, Paid
<1>6. ASSUME NEW w \in Workers, Finalize(w)
      PROVE  row'.ref \in Paid'
  <2>1. row'.ref = WithReference(w).ref /\ SaysPaid(w)
    BY <1>2, <1>6, FinalizeRow DEF Outcomes
  <2>2. proc[w].snap \in Row
    BY <1>6, SnapType DEF Finalize, Finalizing, At
  <2>3. WithReference(w).ref = proc[w].ref
    <3>1. proc[w].resp \notin Unanswered /\ proc[w].ref # NoRef
      BY <1>5, <2>1, ConstantsAssumption DEF SaysPaid, Unanswered
    <3>2. QED
      BY <2>2, <3>1 DEF WithReference, Row
  <2>4. QED
    BY <1>5, <2>1, <2>3
<1>7. ASSUME NEW w \in Workers, Settle(w)
      PROVE  row'.ref \in Paid'
  <2>1. CASE RowCommits /\ row'.ref = row.ref /\ row'.status = "SETTLED"
    <3>1. CanTransition(row, "SETTLED")
      BY <2>1 DEF RowCommits, RowMoves
    <3>2. row.status = "CAPTURED"
      <4>1. row.status \in Status
        BY DEF TypeOK, Row
      <4>2. QED
        BY <3>1, <4>1 DEF CanTransition, isValidTransition, transitionTable, Status
    <3>3. QED
      BY <1>2, <2>1, <3>2 DEF CapturedByItsReference
  <2>2. QED
    BY <1>3, <1>7, <2>1, SettleRow
<1>8. ASSUME NEW w \in Workers, WebhookApply(w)
      PROVE  row'.ref \in Paid'
  <2>1. CASE /\ row'.ref = row.ref /\ proc[w].snap.ref = row.ref
             /\ row'.status # "SETTLED" /\ (row'.status = "CAPTURED" => SaysPaid(w))
    <3>1. SaysPaid(w) /\ proc[w].op = "webhook" /\ proc[w].pc = "loaded"
      BY Zenon, <1>2, <1>8, <2>1 DEF WebhookApply, At
    <3>2. proc[w].snap.ref = proc[w].ref
      BY <1>2, <3>1 DEF HooksFindTheirOwn
    <3>3. QED
      BY <1>5, <2>1, <3>1, <3>2
  <2>2. QED
    BY <1>3, <1>8, <2>1, WebhookApplyRow
<1>9. QED
  BY <1>3, <1>4, <1>6, <1>7, <1>8, Writers DEF Writes

(* What is proved about references, together.                               *)
Referenced ==
    /\ ReferencesCreated /\ CapturedByItsReference
    /\ RepliesBacked /\ RepliesNamed /\ HooksFindTheirOwn /\ ManualNotInitiated

(* References, answers and webhooks stay in order in every behaviour.       *)
LEMMA ReferencedAlways == Spec => []Referenced
<1>1. Init => Referenced
  <2>1. SUFFICES ASSUME Init
                 PROVE  Referenced
    OBVIOUS
  <2>2. RepliesBacked /\ ManualNotInitiated
    BY <2>1, InitBacked, InitFields
  <2>3. /\ row.ref = NoRef /\ row.status = "PENDING" /\ cache = NoRow /\ refCache = {} /\ hooks = {}
        /\ \A w \in Workers : proc[w] = Idle
        /\ \A r \in Refs : gp[r] = "none"
    BY <2>1 DEF Init
  <2>4. Idle.ref = NoRef /\ Idle.snap = NoRow /\ Idle.resp = "none" /\ Idle.op = "idle"
    BY DEF Idle
  <2>5. RepliesNamed /\ HooksFindTheirOwn /\ CapturedByItsReference
    BY <2>3, <2>4 DEF RepliesNamed, SaysPaid, HooksFindTheirOwn, CapturedByItsReference
  <2>6. ReferencesCreated
    BY <2>3, <2>4 DEF ReferencesCreated, Created
  <2>7. QED
    BY <2>2, <2>5, <2>6 DEF Referenced
<1>2. TypeOK /\ TypeOK' /\ WorkersOK /\ SnapshotsAgree /\ Referenced /\ [Next]_vars => Referenced'
  <2>1. SUFFICES ASSUME TypeOK, TypeOK', WorkersOK, SnapshotsAgree, Referenced, [Next]_vars
                 PROVE  Referenced'
    OBVIOUS
  <2>2. RepliesBacked' /\ Paid \subseteq Paid'
    BY <2>1, NextReplies DEF Referenced
  <2>3. ManualNotInitiated'
    BY <2>1, NextManual DEF Referenced
  <2>4. RepliesNamed' /\ HooksFindTheirOwn'
    BY <2>1, NextNamed DEF Referenced
  <2>5. ReferencesCreated'
    BY <2>1, NextReferences DEF Referenced
  <2>6. CapturedByItsReference'
    BY <2>1, <2>2, NextByReference DEF Referenced
  <2>7. QED
    BY <2>2, <2>3, <2>4, <2>5, <2>6 DEF Referenced
<1>3. QED
  BY <1>1, <1>2, Typing, CopiesAgree, PTL DEF Spec

(* On manual capture a payment is CAPTURED or SETTLED only if the gateway   *)
(* took the money under the very reference its row holds, whatever the      *)
(* gateway, the webhooks' order and the crashes (finalize, Process).        *)
THEOREM CapturesNamed == Spec => []CapturedByItsReference
<1>1. Referenced => CapturedByItsReference
  BY DEF Referenced
<1>2. QED
  BY <1>1, ReferencedAlways, PTL

(* With a gateway that honours the idempotency key, a stored reference is   *)
(* never lost or replaced: finalize writes the one the row has.             *)
THEOREM ReferencesKept == Spec => ReferenceStable
<1>1. TypeOK /\ WorkersOK /\ SnapshotsAgree /\ Referenced /\ [Next]_vars
        => (IdempotentGateway /\ row.ref # NoRef => row'.ref = row.ref)
  <2>1. SUFFICES ASSUME TypeOK, WorkersOK, SnapshotsAgree, Referenced, [Next]_vars,
                        IdempotentGateway, row.ref # NoRef
                 PROVE  row'.ref = row.ref
    OBVIOUS
  <2>2. RowRefFrom
    BY <2>1, NextRowRef
  <2>3. /\ row.ref \in Created /\ \A r, s \in Created : r = s
        /\ \A w \in Workers : proc[w].ref # NoRef => proc[w].ref \in Created
    BY <2>1 DEF Referenced, ReferencesCreated
  <2>4. QED
    BY <2>2, <2>3 DEF RowRefFrom
<1>2. QED
  BY <1>1, Typing, CopiesAgree, ReferencedAlways, PTL DEF Spec, ReferenceStable

=============================================================================
